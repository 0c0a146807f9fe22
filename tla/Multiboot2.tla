----------------------------- MODULE Multiboot2 -----------------------------
(***************************************************************************)
(* The memory map parser of src/kernel/src/multiboot2.c.                   *)
(*                                                                         *)
(* A boot information is what lies at each offset of the structure the     *)
(* boot loader passes: tags, and the entries of the memory map tags.       *)
(* Everything else is padding, and zero: read as a tag it is an END tag,   *)
(* read as an entry an empty region of unknown type.                       *)
(***************************************************************************)
EXTENDS Integers, Sequences, FiniteSets

CONSTANT MMAP_MAX_REGIONS

ASSUME MultibootConstants == MMAP_MAX_REGIONS \in Nat \ {0}

Smaller(a, b) == IF a <= b THEN a ELSE b

FixedHeader == 8        \* sizeof(struct multiboot2_fixed_header)
MmapHeader == 16        \* sizeof(struct multiboot2_tag_mmap)

TagAt(info, a) ==
    IF a \in DOMAIN info.tags THEN info.tags[a] ELSE [type |-> "END", size |-> 0, entry_size |-> 0]
EntryAt(info, a) ==
    IF a \in DOMAIN info.entries THEN info.entries[a]
    ELSE [base |-> 0, length |-> 0, type |-> "reserved"]

\* Fault: the size of a tag is not rounded up.
ALIGN_UP_not(val, align) == val

ALIGN_UP(val, align) == ((val + align - 1) \div align) * align

\* The entries of the map tag at ptr, while the array has room for them.
MmapEntries(info, ptr, room) ==
    LET tag == TagAt(info, ptr)
        count == (tag.size - MmapHeader + tag.entry_size - 1) \div tag.entry_size
    IN  [i \in 1 .. Smaller(count, room) |->
            EntryAt(info, ptr + MmapHeader + (i - 1) * tag.entry_size)]

\* One turn of the parser's loop: s is where the next tag is looked for, and the
\* regions array.  At an END tag the loop is left.
ParseTag(info, s) ==
    LET tag == TagAt(info, s.ptr)
        room == MMAP_MAX_REGIONS - Len(s.regions)
    IN  IF tag.type = "END" THEN s
        ELSE [ptr |-> s.ptr + ALIGN_UP(tag.size, 8),
              regions |-> s.regions \o
                  IF tag.type = "MMAP" THEN MmapEntries(info, s.ptr, room) ELSE <<>>]

\* The loop after n tags.
multiboot2_parse_tags(info, n) ==
    LET walk[k \in 0 .. n] == IF k = 0 THEN [ptr |-> FixedHeader, regions |-> <<>>]
                              ELSE ParseTag(info, walk[k - 1])
    IN  walk[n]

\* What multiboot2_get_mmap returns after multiboot2_parse_mmap.
multiboot2_parse_mmap(info) ==
    multiboot2_parse_tags(info, Cardinality(DOMAIN info.tags)).regions

(***************************************************************************)
(* The format, as the parser relies on it, and the map it describes.       *)
(***************************************************************************)

\* The next tag after the one at a is the first that starts at or after its end,
\* on a multiple of 8.
NextTag(info, a, b) ==
    /\ b \in DOMAIN info.tags
    /\ a + info.tags[a].size <= b /\ b < a + info.tags[a].size + 8
    /\ \A c \in DOMAIN info.tags : c <= a \/ b <= c

\* Where the entries of the map tag at a lie.
EntriesOf(info, a) ==
    LET tag == info.tags[a]
    IN  {e \in a + MmapHeader .. a + tag.size - 1 :
            \E i \in 0 .. tag.size : e = a + MmapHeader + i * tag.entry_size}

\* The tags follow one another from the fixed header to the END tag, and the map
\* tags hold whole entries.
WellFormed(info) ==
    /\ IsFiniteSet(DOMAIN info.tags)
    /\ FixedHeader \in DOMAIN info.tags
    /\ \A a \in DOMAIN info.tags :
          /\ a \in Nat /\ a % 8 = 0 /\ FixedHeader <= a
          /\ info.tags[a] \in [type : {"END", "MMAP", "OTHER"}, size : Nat, entry_size : Nat]
          /\ info.tags[a].size >= 8
          /\ IF info.tags[a].type = "END" THEN \A b \in DOMAIN info.tags : b <= a
             ELSE \E b \in DOMAIN info.tags : NextTag(info, a, b)
    /\ \A a \in DOMAIN info.tags : info.tags[a].type = "MMAP" =>
          /\ info.tags[a].entry_size > 0
          /\ \E n \in 0 .. info.tags[a].size :
                info.tags[a].size = MmapHeader + n * info.tags[a].entry_size
    /\ DOMAIN info.entries =
          UNION {EntriesOf(info, a) : a \in {b \in DOMAIN info.tags : info.tags[b].type = "MMAP"}}

\* m lists the entries at the addresses E in ascending order, cut where the array
\* is full.
Lists(m, info, E) ==
    /\ Len(m) <= MMAP_MAX_REGIONS
    /\ \E order \in [1 .. Len(m) -> E] :
          /\ \A i, j \in 1 .. Len(m) : i < j => order[i] < order[j]
          /\ \A i \in 1 .. Len(m) : m[i] = info.entries[order[i]]
          /\ \A e \in E : \/ \E i \in 1 .. Len(m) : order[i] = e
                          \/ Len(m) = MMAP_MAX_REGIONS /\ \A i \in 1 .. Len(m) : order[i] < e

\* m is the memory map the boot loader describes.
Describes(m, info) == Lists(m, info, DOMAIN info.entries)

=============================================================================
