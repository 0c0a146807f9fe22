------------------------------- MODULE MCPmm -------------------------------
(***************************************************************************)
(* Boot on four boot informations.                                         *)
(*                                                                         *)
(* 16 frames of 4 bytes: low memory is frames 0-1, the kernel frames 3-4.  *)
(* The maps have a hole, regions that start and end inside a frame, a      *)
(* region beyond the bitmap, and no usable memory at all; there are tags   *)
(* whose size is no multiple of 8 before the map, entries longer than the  *)
(* parser knows, a map in two tags, and more entries than it keeps.        *)
(***************************************************************************)
EXTENDS Boot, TLC

Avail(b, l) == [base |-> b, length |-> l, type |-> "available"]
Resv(b, l)  == [base |-> b, length |-> l, type |-> "reserved"]

End == [type |-> "END", size |-> 8, entry_size |-> 0]
Other(size) == [type |-> "OTHER", size |-> size, entry_size |-> 0]
Mmap(n, entry_size) == [type |-> "MMAP", size |-> 16 + n * entry_size, entry_size |-> entry_size]

\* RAM everywhere below the limit.
Full == [tags |-> 8 :> Mmap(2, 24) @@ 72 :> End,
         entries |-> 24 :> Avail(0, 40) @@ 48 :> Resv(40, 24)]
\* RAM with a hole, misaligned bounds, and a region cut by PMM_MAX_FRAMES.
Holey == [tags |-> 8 :> Other(13) @@ 24 :> Mmap(4, 32) @@ 168 :> Other(9) @@ 184 :> End,
          entries |-> 40 :> Avail(0, 7) @@ 72 :> Resv(7, 3) @@ 104 :> Avail(10, 20)
                      @@ 136 :> Avail(49, 100)]
\* Nothing but low memory and the kernel.
Tiny == [tags |-> 8 :> Mmap(1, 24) @@ 48 :> End, entries |-> 24 :> Avail(0, 20)]
\* Five regions in two tags.
Many == [tags |-> 8 :> Mmap(3, 24) @@ 96 :> Other(10) @@ 112 :> Mmap(2, 24) @@ 176 :> End,
         entries |-> 24 :> Avail(0, 4) @@ 48 :> Resv(4, 8) @@ 72 :> Avail(12, 16)
                     @@ 128 :> Avail(28, 9) @@ 152 :> Avail(40, 12)]

MCBootInfos == {Full, Holey, Tiny, Many}

MCMemoryMaps == {multiboot2_parse_mmap(info) : info \in MCBootInfos}

=============================================================================
