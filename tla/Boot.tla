-------------------------------- MODULE Boot --------------------------------
(***************************************************************************)
(* Multiboot2 and Pmm, as kernel_main composes them: the memory map that   *)
(* pmm_init gets is what the parser makes of the boot information.         *)
(***************************************************************************)
EXTENDS Pmm, Multiboot2

CONSTANT BootInfos    \* what the boot loader may pass

ASSUME BootInfosWellFormed == \A info \in BootInfos : WellFormed(info)

ASSUME MemoryMapsParsed == MemoryMaps = {multiboot2_parse_mmap(info) : info \in BootInfos}

\* The map pmm_init works on is the one the boot loader described, entry by
\* entry and in order, whatever other tags, paddings and entry sizes surround
\* it; only entries beyond MMAP_MAX_REGIONS are dropped.
MapAsDescribed == \E info \in BootInfos : Describes(mmap, info)

=============================================================================
