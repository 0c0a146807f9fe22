----------------------------- MODULE PmmProofs -----------------------------
(***************************************************************************)
(* Proofs about Pmm for every bitmap size, page size, kernel placement and *)
(* set of memory maps.                                                     *)
(***************************************************************************)
EXTENDS Pmm, FiniteSetTheorems, TLAPS

(***************************************************************************)
(* Arithmetic of addresses and frame numbers.                              *)
(***************************************************************************)

\* Multiplying by the page size preserves order.
LEMMA MulMono ==
    ASSUME NEW a \in Int, NEW b \in Int, a <= b
    PROVE  a * PageSize <= b * PageSize
<1>1. PageSize \in Nat
  BY PmmConstants
<1>2. (b - a) * PageSize >= 0
  BY <1>1
<1>3. (b - a) * PageSize = b * PageSize - a * PageSize
  BY <1>1
<1> QED
  BY <1>1, <1>2, <1>3

\* What dividing an address by the page size returns.
LEMMA DivFacts ==
    ASSUME NEW n \in Nat
    PROVE  /\ n \div PageSize \in Nat
           /\ (n \div PageSize) * PageSize <= n
           /\ n < (n \div PageSize + 1) * PageSize
  BY PmmConstants

\* A frame number is below a quotient exactly when the frame ends by the dividend.
LEMMA BelowDiv ==
    ASSUME NEW n \in Nat, NEW f \in Int
    PROVE  f < n \div PageSize <=> (f + 1) * PageSize <= n
<1> DEFINE q == n \div PageSize
<1>1. q \in Nat /\ q * PageSize <= n /\ n < (q + 1) * PageSize
  BY DivFacts
<1>2. ASSUME f < q PROVE (f + 1) * PageSize <= n
  <2>1. (f + 1) * PageSize <= q * PageSize
    BY <1>1, <1>2, MulMono
  <2> QED
    BY <1>1, <2>1, PmmConstants
<1>3. ASSUME f >= q PROVE n < (f + 1) * PageSize
  <2>1. (q + 1) * PageSize <= (f + 1) * PageSize
    BY <1>1, <1>3, MulMono
  <2> QED
    BY <1>1, <2>1, PmmConstants
<1> HIDE DEF q
<1>4. f < q <=> (f + 1) * PageSize <= n
  BY <1>1, <1>2, <1>3, PmmConstants
<1> QED
  BY <1>4 DEF q

\* A frame number is at least a rounded-up quotient exactly when the frame
\* starts at or after the dividend.
LEMMA AtLeastCeil ==
    ASSUME NEW n \in Nat, NEW f \in Nat
    PROVE  f >= (n + PageSize - 1) \div PageSize <=> n <= f * PageSize
<1>1. n + PageSize - 1 \in Nat
  BY PmmConstants
<1>2. f < (n + PageSize - 1) \div PageSize
         <=> (f + 1) * PageSize <= n + PageSize - 1
  BY <1>1, BelowDiv
<1>3. (n + PageSize - 1) \div PageSize \in Nat
  BY <1>1, DivFacts
<1>4. (f + 1) * PageSize = f * PageSize + PageSize
  BY PmmConstants
<1> QED
  BY <1>2, <1>3, <1>4, PmmConstants

\* pmm_init clears exactly the frames that an available region covers.
LEMMA RegionFramesCovered ==
    ASSUME NEW r \in Region
    PROVE  /\ RegionFrames(r) \subseteq Frame
           /\ \A f \in Frame : f \in RegionFrames(r) <=> Covers(r, f)
<1>1. r.base \in Nat /\ r.length \in Nat /\ r.base + r.length \in Nat
  BY DEF Region
<1>2. FrameStart(r) \in Nat /\ (r.base + r.length) \div PageSize \in Nat
  BY <1>1, DivFacts, PmmConstants DEF FrameStart
<1>3. FrameEnd(r) \in Nat /\ FrameEnd(r) <= MaxFrames
  BY <1>2, PmmConstants DEF FrameEnd
<1>4. ASSUME NEW f \in Frame
      PROVE  f < FrameEnd(r) <=> (f + 1) * PageSize <= r.base + r.length
  <2>1. f \in Nat /\ f \in Int /\ f < MaxFrames
    BY PmmConstants DEF Frame
  <2>2. f < (r.base + r.length) \div PageSize
           <=> (f + 1) * PageSize <= r.base + r.length
    BY <1>1, <2>1, BelowDiv
  <2>3. f < FrameEnd(r) <=> f < (r.base + r.length) \div PageSize
    BY <1>2, <2>1, PmmConstants DEF FrameEnd
  <2> QED
    BY <2>2, <2>3
<1>5. ASSUME NEW f \in Frame
      PROVE  f >= FrameStart(r) <=> r.base <= f * PageSize
  BY <1>1, <1>5, AtLeastCeil, PmmConstants DEF FrameStart, Frame
<1>6. ASSUME NEW f \in Frame
      PROVE  f \in FrameStart(r) .. FrameEnd(r) - 1
                <=> f >= FrameStart(r) /\ f < FrameEnd(r)
  BY <1>2, <1>3, PmmConstants DEF Frame
<1>7. RegionFrames(r) \subseteq Frame
  BY <1>2, <1>3, PmmConstants DEF RegionFrames, Frame
<1>8. ASSUME NEW f \in Frame
      PROVE  f \in RegionFrames(r) <=> Covers(r, f)
  BY <1>4, <1>5, <1>6 DEF RegionFrames, Covers
<1> QED
  BY <1>7, <1>8

\* The frames pmm_init marks used again are those that low memory or the kernel
\* image touches.
LEMMA ReservedOverlaps ==
    /\ ReservedFrames \subseteq Frame
    /\ \A f \in Frame :
          f \in ReservedFrames <=>
              Overlaps(f, 0, LowMemory) \/ Overlaps(f, KernelStart, KernelEnd)
<1>1. ReservedFrames \subseteq Frame
  BY DEF ReservedFrames, LowFrames, KernelFrames
<1>2. SUFFICES ASSUME NEW f \in Frame
               PROVE  f \in ReservedFrames <=>
                         \/ Overlaps(f, 0, LowMemory)
                         \/ Overlaps(f, KernelStart, KernelEnd)
  BY <1>1
<1>3. f \in Nat /\ f \in Int /\ PageSize \in Nat /\ PageSize > 0
  BY PmmConstants DEF Frame
<1>4. (f + 1) * PageSize = f * PageSize + PageSize /\ f * PageSize \in Nat
  BY <1>3
<1>5. f \in LowFrames <=> Overlaps(f, 0, LowMemory)
  <2>1. f < LowMemory \div PageSize <=> (f + 1) * PageSize <= LowMemory
    BY <1>3, BelowDiv, PmmConstants
  <2>2. LowMemory \div PageSize \in Nat
    BY DivFacts, PmmConstants
  <2>3. LowMemory = (LowMemory \div PageSize) * PageSize
    BY PmmConstants
  <2>4. f * PageSize < LowMemory <=> f < LowMemory \div PageSize
    <3>1. ASSUME f >= LowMemory \div PageSize PROVE f * PageSize >= LowMemory
      BY <1>3, <2>2, <2>3, <3>1, MulMono
    <3> QED
      BY <1>3, <1>4, <2>1, <2>2, <3>1, PmmConstants
  <2> QED
    BY <1>3, <1>4, <2>2, <2>4 DEF LowFrames, Overlaps
<1>6. f \in KernelFrames <=> Overlaps(f, KernelStart, KernelEnd)
  <2>1. f < KernelStart \div PageSize <=> (f + 1) * PageSize <= KernelStart
    BY <1>3, BelowDiv, PmmConstants
  <2>2. f >= (KernelEnd + PageSize - 1) \div PageSize
           <=> KernelEnd <= f * PageSize
    BY <1>3, AtLeastCeil, PmmConstants
  <2>3. /\ KernelStart \div PageSize \in Nat
        /\ (KernelEnd + PageSize - 1) \div PageSize \in Nat
        /\ KernelStart \in Nat /\ KernelEnd \in Nat
    BY DivFacts, PmmConstants
  <2>4. f \in KernelFrames
           <=> /\ ~(f < KernelStart \div PageSize)
               /\ ~(f >= (KernelEnd + PageSize - 1) \div PageSize)
    BY <1>3, <2>3 DEF KernelFrames
  <2> QED
    BY <1>3, <1>4, <2>1, <2>2, <2>3, <2>4 DEF Overlaps
<1> QED
  BY <1>5, <1>6 DEF ReservedFrames

(***************************************************************************)
(* The inductive invariant.                                                *)
(***************************************************************************)

\* Before "ready" no caller has run.  In the region loop the clear bits are the
\* frames of the regions already visited; the frames of the regions to come are
\* still set, because regions are disjoint: that is what keeps the counters
\* exact.
LoopInv ==
    /\ phase = "boot" => used_frames = 0 /\ total_frames = 0
    /\ phase # "ready" => held = {} /\ ret = -1
    /\ phase = "regions" =>
          /\ region # 0
          /\ total_frames + used_frames = MaxFrames
          /\ \A f \in Frame :
                f \notin bitmap <=>
                    \E j \in DOMAIN mmap : j < region /\ f \in RegionFrames(mmap[j])

IInv == TypeOK /\ UsedExact /\ LoopInv /\ FrameAccounting /\ NullMeansExhausted

\* Sets of frames are finite, and the whole bitmap has MaxFrames frames.
LEMMA FrameFinite ==
    /\ IsFiniteSet(Frame) /\ Cardinality(Frame) = MaxFrames
    /\ \A S \in SUBSET Frame :
          IsFiniteSet(S) /\ Cardinality(S) \in Nat /\ Cardinality(S) <= MaxFrames
<1>1. IsFiniteSet(Frame) /\ Cardinality(Frame) = MaxFrames
  BY FS_Interval, PmmConstants DEF Frame
<1>2. ASSUME NEW S \in SUBSET Frame
      PROVE  IsFiniteSet(S) /\ Cardinality(S) \in Nat /\ Cardinality(S) <= MaxFrames
  BY <1>1, FS_Subset, FS_CardinalityType
<1> QED
  BY <1>1, <1>2

\* The elements of a memory map are regions.
LEMMA MapRegions ==
    ASSUME NEW m \in MemoryMaps, NEW j \in DOMAIN m
    PROVE  /\ m[j] \in Region
           /\ j \in Nat
           /\ RegionFrames(m[j]) \subseteq Frame
<1>1. m \in Seq(Region)
  BY MemoryMapsDisjoint
<1>2. m[j] \in Region /\ j \in Nat
  BY <1>1
<1> QED
  BY <1>2, RegionFramesCovered

LEMMA InitIInv == Init => IInv
  BY PmmConstants
     DEF Init, IInv, TypeOK, UsedExact, LoopInv, FrameAccounting,
         NullMeansExhausted

LEMMA AllUsedStep == IInv /\ pmm_init_all_used => IInv'
<1> SUFFICES ASSUME IInv, pmm_init_all_used PROVE IInv'
  OBVIOUS
<1> USE DEF IInv, pmm_init_all_used, AllUsed
<1>1. TypeOK'
  BY PmmConstants DEF TypeOK
<1>2. UsedExact'
  BY FrameFinite DEF UsedExact
<1>3. LoopInv'
  <2>1. \A j \in DOMAIN mmap : ~(j < 1)
    BY MemoryMapsDisjoint DEF TypeOK
  <2> QED
    BY <2>1, PmmConstants DEF LoopInv, TypeOK
<1>4. FrameAccounting' /\ NullMeansExhausted'
  BY DEF FrameAccounting, NullMeansExhausted, LoopInv
<1> QED
  BY <1>1, <1>2, <1>3, <1>4

LEMMA RegionStep == IInv /\ pmm_init_region => IInv'
<1> SUFFICES ASSUME IInv, pmm_init_region PROVE IInv'
  OBVIOUS
<1> DEFINE fs == RegionFrames(mmap[region])
<1>1. /\ mmap \in MemoryMaps /\ region \in DOMAIN mmap /\ region \in Nat
      /\ phase = "regions"
  BY DEF IInv, TypeOK, pmm_init_region
<1>2. fs \subseteq Frame
  BY <1>1, MapRegions
<1>3. fs \subseteq bitmap
  <2>1. SUFFICES ASSUME NEW f \in fs, f \notin bitmap PROVE FALSE
    OBVIOUS
  <2>2. PICK j \in DOMAIN mmap : j < region /\ f \in RegionFrames(mmap[j])
    BY <1>1, <1>2, <2>1 DEF IInv, LoopInv
  <2>3. j # region
    BY <1>1, <2>2, MapRegions
  <2> QED
    BY <1>1, <2>1, <2>2, <2>3, MemoryMapsDisjoint
<1>4. /\ IsFiniteSet(bitmap) /\ IsFiniteSet(fs)
      /\ Cardinality(fs) \in Nat /\ Cardinality(bitmap) \in Nat
      /\ Cardinality(fs) <= Cardinality(bitmap)
      /\ Cardinality(bitmap) <= MaxFrames
  BY <1>2, <1>3, FrameFinite, FS_Subset DEF IInv, TypeOK
<1>5. Cardinality(bitmap \ fs) = Cardinality(bitmap) - Cardinality(fs)
  <2>1. bitmap \cap fs = fs
    BY <1>3
  <2> QED
    BY <1>4, <2>1, FS_Difference
<1>6. /\ bitmap' = bitmap \ fs
      /\ total_frames' = total_frames + Cardinality(fs)
      /\ used_frames' = used_frames - Cardinality(fs)
      /\ region' = region + 1
      /\ UNCHANGED <<phase, mmap, held, ret>>
  BY DEF pmm_init_region
<1>7. /\ used_frames = Cardinality(bitmap) /\ total_frames + used_frames = MaxFrames
      /\ held = {} /\ ret = -1
      /\ total_frames \in Nat /\ used_frames \in Nat
  BY <1>1 DEF IInv, UsedExact, LoopInv, TypeOK
<1>8. UsedExact'
  BY <1>5, <1>6, <1>7 DEF UsedExact
<1>9. TypeOK'
  BY <1>1, <1>4, <1>6, <1>7, PmmConstants DEF IInv, TypeOK
<1>10. LoopInv'
  <2>1. ASSUME NEW f \in Frame
        PROVE  f \notin bitmap' <=>
                  \E j \in DOMAIN mmap : j < region + 1 /\ f \in RegionFrames(mmap[j])
    <3>1. f \notin bitmap' <=> f \notin bitmap \/ f \in fs
      BY <1>6
    <3>2. f \notin bitmap <=>
             \E j \in DOMAIN mmap : j < region /\ f \in RegionFrames(mmap[j])
      BY <1>1 DEF IInv, LoopInv
    <3>3. \A j \in DOMAIN mmap : j < region + 1 <=> j < region \/ j = region
      BY <1>1, MapRegions
    <3> QED
      BY <1>1, <3>1, <3>2, <3>3
  <2> QED
    BY <1>1, <1>4, <1>6, <1>7, <2>1, PmmConstants DEF LoopInv
<1>11. FrameAccounting' /\ NullMeansExhausted'
  BY <1>1, <1>6, <1>7 DEF FrameAccounting, NullMeansExhausted
<1> QED
  BY <1>8, <1>9, <1>10, <1>11 DEF IInv

\* When the loop is done, the clear frames outside low memory and the kernel are
\* exactly the usable ones.
LEMMA LoopDone ==
    ASSUME IInv, phase = "regions", region \notin DOMAIN mmap,
           NEW f \in Frame
    PROVE  f \in Usable(mmap) <=> f \notin bitmap /\ f \notin ReservedFrames
<1>1. mmap \in MemoryMaps /\ region \in Nat /\ region # 0
  BY DEF IInv, TypeOK, LoopInv
<1>2. mmap \in Seq(Region)
  BY <1>1, MemoryMapsDisjoint
<1>3. \A j \in DOMAIN mmap : j < region
  <2>1. DOMAIN mmap = 1 .. Len(mmap) /\ Len(mmap) \in Nat
    BY <1>2
  <2> QED
    BY <1>1, <2>1
<1>4. f \notin bitmap <=> \E j \in DOMAIN mmap : f \in RegionFrames(mmap[j])
  BY <1>3 DEF IInv, LoopInv
<1>5. \A j \in DOMAIN mmap : f \in RegionFrames(mmap[j]) <=> Covers(mmap[j], f)
  BY <1>1, MapRegions, RegionFramesCovered
<1> QED
  BY <1>4, <1>5, ReservedOverlaps DEF Usable

LEMMA ReserveStep == IInv /\ pmm_init_reserve => IInv'
<1> SUFFICES ASSUME IInv, pmm_init_reserve PROVE IInv'
  OBVIOUS
<1> DEFINE new == ReservedFrames \ bitmap
<1>1. /\ phase = "regions" /\ phase' = "ready"
      /\ bitmap' = bitmap \cup ReservedFrames
      /\ used_frames' = used_frames + Cardinality(new)
      /\ UNCHANGED <<mmap, region, total_frames, held, ret>>
      /\ region \notin DOMAIN mmap
  BY DEF pmm_init_reserve
<1>2. /\ used_frames = Cardinality(bitmap) /\ held = {} /\ ret = -1
      /\ bitmap \subseteq Frame /\ mmap \in MemoryMaps
  BY <1>1 DEF IInv, UsedExact, LoopInv, TypeOK
<1>3. bitmap' \subseteq Frame
  BY <1>1, <1>2, ReservedOverlaps
<1>4. Cardinality(bitmap') = Cardinality(bitmap) + Cardinality(new)
  <2>1. bitmap' = bitmap \cup new /\ bitmap \cap new = {}
    BY <1>1
  <2>2. new \subseteq Frame
    BY ReservedOverlaps
  <2>3. /\ IsFiniteSet(bitmap) /\ IsFiniteSet(new)
        /\ Cardinality(bitmap) \in Nat /\ Cardinality(new) \in Nat
    BY <1>2, <2>2, FrameFinite
  <2>4. Cardinality(bitmap \cup new) =
           Cardinality(bitmap) + Cardinality(new) - Cardinality(bitmap \cap new)
    BY <2>3, FS_Union
  <2>5. Cardinality(bitmap \cap new) = 0
    BY <2>1, FS_EmptySet
  <2> QED
    BY <2>1, <2>3, <2>4, <2>5
<1>5. UsedExact'
  BY <1>1, <1>2, <1>4 DEF UsedExact
<1>6. TypeOK'
  <2>1. Cardinality(bitmap') \in 0 .. MaxFrames
    BY <1>3, FrameFinite, PmmConstants
  <2> QED
    BY <1>1, <1>2, <1>3, <1>4, <2>1 DEF IInv, TypeOK
<1>7. LoopInv'
  BY <1>1 DEF LoopInv
<1>8. FrameAccounting'
  <2>1. \A f \in Frame :
           f \in Usable(mmap) <=> f \notin bitmap /\ f \notin ReservedFrames
    BY <1>1, LoopDone
  <2>2. bitmap' = Frame \ Usable(mmap)
    BY <1>1, <1>3, <2>1
  <2> QED
    BY <1>1, <1>2, <2>2 DEF FrameAccounting
<1>9. NullMeansExhausted'
  BY <1>1, <1>2 DEF NullMeansExhausted
<1> QED
  BY <1>5, <1>6, <1>7, <1>8, <1>9 DEF IInv

\* Frame 0 is low memory: it is never usable.
LEMMA FrameZeroUnusable == \A m \in MemoryMaps : 0 \notin Usable(m)
<1>1. Overlaps(0, 0, LowMemory)
  BY PmmConstants DEF Overlaps
<1> QED
  BY <1>1 DEF Usable

LEMMA AllocStep == IInv /\ pmm_alloc_frame => IInv'
<1> SUFFICES ASSUME IInv, pmm_alloc_frame PROVE IInv'
  OBVIOUS
<1>1. PICK f \in ClearFrames :
        /\ bitmap' = bitmap \cup {f}
        /\ used_frames' = used_frames + 1
        /\ held' = held \cup {f}
        /\ ret' = f * PageSize
  BY DEF pmm_alloc_frame, Marked
<1>2. /\ phase = "ready"
      /\ UNCHANGED <<phase, mmap, region, total_frames>>
  BY DEF pmm_alloc_frame, Marked
<1>3. f \in Frame /\ f \notin bitmap /\ f \in Nat
  BY PmmConstants DEF ClearFrames, Frame
<1>4. f \in Usable(mmap)
  BY <1>2, <1>3 DEF IInv, FrameAccounting
<1>5. f # 0 /\ f * PageSize \in Nat /\ f * PageSize # 0
  <2>1. f # 0
    BY <1>4, FrameZeroUnusable DEF IInv, TypeOK
  <2> QED
    BY <1>3, <2>1, PmmConstants
<1>6. Cardinality(bitmap') = Cardinality(bitmap) + 1
  BY <1>1, <1>3, FrameFinite, FS_AddElement DEF IInv, TypeOK
<1>7. UsedExact'
  BY <1>1, <1>2, <1>6 DEF IInv, UsedExact
<1>8. TypeOK'
  <2>1. bitmap' \subseteq Frame /\ held' \subseteq Frame
    BY <1>1, <1>3 DEF IInv, TypeOK
  <2>2. used_frames' \in 0 .. MaxFrames
    BY <1>2, <1>7, <2>1, FrameFinite, PmmConstants DEF UsedExact
  <2> QED
    BY <1>1, <1>2, <1>5, <2>1, <2>2 DEF IInv, TypeOK
<1>9. LoopInv'
  BY <1>2 DEF LoopInv
<1>10. FrameAccounting'
  BY <1>1, <1>2, <1>4 DEF IInv, FrameAccounting
<1>11. NullMeansExhausted'
  BY <1>1, <1>5 DEF NullMeansExhausted
<1> QED
  BY <1>7, <1>8, <1>9, <1>10, <1>11 DEF IInv

LEMMA AllocNoneStep == IInv /\ pmm_alloc_frame_none => IInv'
  BY DEF IInv, pmm_alloc_frame_none, TypeOK, UsedExact, LoopInv,
         FrameAccounting, NullMeansExhausted, ClearFrames

LEMMA FreeStep ==
    ASSUME NEW addr \in Address, IInv, pmm_free_frame(addr)
    PROVE  IInv'
<1> DEFINE f == addr \div PageSize
<1>1. /\ phase = "ready" /\ ret' = -1
      /\ UNCHANGED <<phase, mmap, region, total_frames>>
      /\ f \in held \/ f \notin bitmap
  BY DEF pmm_free_frame, Clears, MayFree
<1>2. CASE f \in Frame /\ f \in bitmap
  <2>1. /\ bitmap' = bitmap \ {f} /\ used_frames' = used_frames - 1
        /\ held' = held \ {f}
    BY <1>2 DEF pmm_free_frame, Clears
  <2>2. f \in held
    BY <1>1, <1>2
  <2>3. Cardinality(bitmap') = Cardinality(bitmap) - 1
    BY <1>2, <2>1, FrameFinite, FS_RemoveElement DEF IInv, TypeOK
  <2>4. UsedExact'
    BY <1>1, <2>1, <2>3 DEF IInv, UsedExact
  <2>5. TypeOK'
    <3>1. bitmap' \subseteq Frame /\ held' \subseteq Frame
      BY <2>1 DEF IInv, TypeOK
    <3>2. used_frames' \in 0 .. MaxFrames
      BY <1>1, <2>4, <3>1, FrameFinite, PmmConstants DEF UsedExact
    <3> QED
      BY <1>1, <3>1, <3>2 DEF IInv, TypeOK
  <2>6. FrameAccounting'
    BY <1>1, <1>2, <2>1, <2>2 DEF IInv, FrameAccounting
  <2> QED
    BY <1>1, <2>4, <2>5, <2>6 DEF IInv, LoopInv, NullMeansExhausted
<1>3. CASE ~(f \in Frame /\ f \in bitmap)
  <2>1. UNCHANGED <<bitmap, used_frames, held>>
    BY <1>3 DEF pmm_free_frame, Clears
  <2> QED
    BY <1>1, <2>1 DEF IInv, TypeOK, UsedExact, LoopInv, FrameAccounting,
                      NullMeansExhausted
<1> QED
  BY <1>2, <1>3

LEMMA NextIInv == IInv /\ [Next]_vars => IInv'
<1> SUFFICES ASSUME IInv, [Next]_vars PROVE IInv'
  OBVIOUS
<1>1. CASE UNCHANGED vars
  BY <1>1 DEF vars, IInv, TypeOK, UsedExact, LoopInv, FrameAccounting,
              NullMeansExhausted, ClearFrames
<1>2. CASE \E addr \in Address : pmm_free_frame(addr)
  BY <1>2, FreeStep
<1> QED
  BY <1>1, <1>2, AllUsedStep, RegionStep, ReserveStep, AllocStep, AllocNoneStep
     DEF Next

\* The inductive invariant holds in every reachable state.
THEOREM PmmInvariant == Spec => []IInv
<1>1. Init => IInv
  BY InitIInv
<1>2. IInv /\ [Next]_vars => IInv'
  BY NextIInv
<1> QED
  BY <1>1, <1>2, PTL DEF Spec

\* used_frames and total_frames never leave 0 .. MaxFrames (so the uint32_t counters
\* of pmm.c do not wrap), and no bit or frame beyond the bitmap is ever touched.
THEOREM PmmTypeOK == Spec => []TypeOK
<1>1. IInv => TypeOK
  BY DEF IInv
<1> QED
  BY <1>1, PmmInvariant, PTL

\* used_frames always equals the number of set bits, so it never wraps.
THEOREM UsedExactAlways == Spec => [](TypeOK /\ UsedExact)
<1>1. IInv => TypeOK /\ UsedExact
  BY DEF IInv
<1> QED
  BY <1>1, PmmInvariant, PTL

\* After pmm_init the used bits are the held frames plus those that may never
\* be handed out, for every memory map with disjoint regions.
THEOREM FrameAccountingAlways == Spec => []FrameAccounting
<1>1. IInv => FrameAccounting
  BY DEF IInv
<1> QED
  BY <1>1, PmmInvariant, PTL

\* A null result of pmm_alloc_frame always means that no frame is free.
THEOREM NullMeansExhaustedAlways == Spec => []NullMeansExhausted
<1>1. IInv => NullMeansExhausted
  BY DEF IInv
<1> QED
  BY <1>1, PmmInvariant, PTL

(***************************************************************************)
(* Refinement.                                                             *)
(***************************************************************************)

\* Every step of the bitmap allocator is a step of the frame pool or changes
\* nothing a caller can see.
LEMMA PoolStep == IInv /\ IInv' /\ [Next]_vars => [Pool!Next]_(Pool!vars)
<1> SUFFICES ASSUME IInv, IInv', [Next]_vars
             PROVE  Pool!Next \/ UNCHANGED Pool!vars
  OBVIOUS
<1> USE DEF ClearFrames
<1>1. CASE UNCHANGED vars
  BY <1>1 DEF vars, Pool!vars
<1>2. CASE pmm_init_all_used
  BY <1>2 DEF pmm_init_all_used, AllUsed, Pool!vars
<1>3. CASE pmm_init_region
  BY <1>3 DEF pmm_init_region, Pool!vars
<1>4. CASE pmm_init_reserve
  <2>1. /\ phase = "regions" /\ phase' = "ready" /\ held' = held /\ ret' = ret
        /\ bitmap' = bitmap \cup ReservedFrames
    BY <1>4 DEF pmm_init_reserve
  <2>2. Pool!Open
    BY <2>1 DEF Pool!Open
  <2> QED
    BY <2>2 DEF Pool!Next
<1>5. CASE pmm_alloc_frame
  <2>1. PICK f \in ClearFrames :
          /\ bitmap' = bitmap \cup {f}
          /\ held' = held \cup {f}
          /\ ret' = f * PageSize
    BY <1>5 DEF pmm_alloc_frame, Marked
  <2>2. phase = "ready" /\ phase' = "ready"
    BY <1>5 DEF pmm_alloc_frame, Marked
  <2>3. ret' # 0
    <3>1. f \in Usable(mmap) /\ mmap \in MemoryMaps /\ f \in Frame
      BY <2>1, <2>2 DEF IInv, FrameAccounting, TypeOK
    <3>2. f # 0 /\ f \in Nat
      BY <3>1, FrameZeroUnusable, PmmConstants DEF Frame
    <3> QED
      BY <2>1, <3>2, PmmConstants
  <2>4. Pool!Alloc
    BY <2>1, <2>2, <2>3 DEF Pool!Alloc
  <2> QED
    BY <2>4 DEF Pool!Next
<1>6. CASE pmm_alloc_frame_none
  <2>1. Pool!Refuse
    BY <1>6 DEF pmm_alloc_frame_none, Pool!Refuse
  <2> QED
    BY <2>1 DEF Pool!Next
<1>7. ASSUME NEW addr \in Address, pmm_free_frame(addr)
      PROVE  Pool!Next
  <2> DEFINE f == addr \div PageSize
  <2>1. phase = "ready" /\ phase' = "ready" /\ ret' = -1
    BY <1>7 DEF pmm_free_frame, Clears
  <2>2. CASE f \in Frame /\ f \in bitmap
    <3>1. /\ bitmap' = bitmap \ {f} /\ held' = held \ {f} /\ f \in held
      BY <1>7, <2>2 DEF pmm_free_frame, Clears, MayFree
    <3>2. Pool!Free
      BY <2>1, <2>2, <3>1 DEF Pool!Free
    <3> QED
      BY <3>2 DEF Pool!Next
  <2>3. CASE ~(f \in Frame /\ f \in bitmap)
    <3>1. UNCHANGED <<bitmap, held>>
      BY <1>7, <2>3 DEF pmm_free_frame, Clears
    <3>2. Pool!Ignore
      BY <2>1, <3>1 DEF Pool!Ignore
    <3> QED
      BY <3>2 DEF Pool!Next
  <2> QED
    BY <2>2, <2>3
<1> QED
  BY <1>1, <1>2, <1>3, <1>4, <1>5, <1>6, <1>7 DEF Next

\* pmm.c implements the abstract frame pool: every frame has at most one owner,
\* no reserved frame is ever handed out, and a request is refused only when the
\* pool is empty.
THEOREM PmmImplementsPool == Spec => PoolSpec
<1>1. Init => Pool!Init
  BY DEF Init, Pool!Init
<1>2. IInv /\ IInv' /\ [Next]_vars => [Pool!Next]_(Pool!vars)
  BY PoolStep
<1> QED
  BY <1>1, <1>2, PmmInvariant, PTL DEF Spec, PoolSpec, Pool!Spec

=============================================================================
