----------------------------- MODULE BootProofs -----------------------------
(***************************************************************************)
(* Proofs about Boot: the parser of multiboot2.c returns the memory map    *)
(* that the boot information describes, for every well-formed one, however *)
(* many tags and entries it has.                                           *)
(*                                                                         *)
(* The argument is an induction over the tags: after n of them the array   *)
(* lists the entries that lie before the tag the parser is at, and the     *)
(* parser is at the END tag or has n tags behind it.                       *)
(***************************************************************************)
EXTENDS Boot, PmmProofs, WellFoundedInduction

(***************************************************************************)
(* Induction over the naturals, on sets, and the recursion of the loop.    *)
(***************************************************************************)

\* A set with 0 and the successor of each of its members has all naturals.
LEMMA SetInduction ==
    ASSUME NEW S, 0 \in S, \A n \in Nat : n \in S => n + 1 \in S
    PROVE  Nat \subseteq S
<1> DEFINE R == OpToRel(<, Nat)  T == Nat \ S
<1>1. SUFFICES ASSUME T # {} PROVE FALSE
  OBVIOUS
<1>2. IsWellFoundedOn(R, Nat)
  BY NatLessThanWellFounded, ZenonT(30)
<1>3. \A m, n \in Nat : m < n => <<m, n>> \in R
  BY DEF OpToRel
<1>4. T \in SUBSET Nat
  OBVIOUS
<1> HIDE DEF R, T
<1>5. PICK x \in T : \A y \in T : ~ (<<y, x>> \in R)
  BY <1>1, <1>2, <1>4, WFMin, ZenonT(30)
<1>6. x \in Nat /\ x \notin S
  BY <1>5 DEF T
<1>7. x # 0 /\ x - 1 \in Nat /\ x - 1 \notin S
  BY <1>6
<1>8. x - 1 \in T /\ <<x - 1, x>> \in R
  BY <1>3, <1>6, <1>7 DEF T
<1> QED
  BY <1>5, <1>8, Zenon

\* The state of the loop before each of n tags and after them.
Trace(info, n, f) ==
    f = [k \in 0 .. n |-> IF k = 0 THEN [ptr |-> FixedHeader, regions |-> <<>>]
                          ELSE ParseTag(info, f[k - 1])]

\* The recursive definition of the loop has a solution.
LEMMA TraceExists ==
    ASSUME NEW info, NEW n \in Nat
    PROVE  \E f : Trace(info, n, f)
<1> DEFINE S == {k \in Nat : \E f : Trace(info, k, f)}
           s == [ptr |-> FixedHeader, regions |-> <<>>]
<1> HIDE DEF s
<1>1. 0 \in S
  <2> DEFINE g == [k \in 0 .. 0 |-> s]
  <2>1. g = [k \in 0 .. 0 |-> IF k = 0 THEN s ELSE ParseTag(info, g[k - 1])]
    OBVIOUS
  <2>2. Trace(info, 0, g)
    BY <2>1, Zenon DEF Trace, s
  <2> QED
    BY <2>2, Zenon
<1>2. ASSUME NEW k \in Nat, k \in S PROVE k + 1 \in S
  <2>1. PICK f : Trace(info, k, f)
    BY <1>2
  <2>2. f = [j \in 0 .. k |-> IF j = 0 THEN s ELSE ParseTag(info, f[j - 1])]
    BY <2>1, Zenon DEF Trace, s
  <2> DEFINE g == [j \in 0 .. k + 1 |-> IF j = k + 1 THEN ParseTag(info, f[k]) ELSE f[j]]
  <2>3. g = [j \in 0 .. k + 1 |-> IF j = 0 THEN s ELSE ParseTag(info, g[j - 1])]
    BY <2>2
  <2>4. Trace(info, k + 1, g)
    BY <2>3, Zenon DEF Trace, s
  <2>5. \E h : Trace(info, k + 1, h)
    BY <2>4, Zenon
  <2> QED
    BY <2>5
<1> HIDE DEF S
<1>3. n \in S
  BY <1>1, <1>2, SetInduction
<1> QED
  BY <1>3 DEF S

\* The loop starts behind the fixed header, with an empty array, and handles a tag
\* per turn.
LEMMA ParseTags ==
    ASSUME NEW info, NEW n \in Nat
    PROVE  \E f : /\ f[0] = [ptr |-> FixedHeader, regions |-> <<>>]
                  /\ \A k \in 0 .. n - 1 : f[k + 1] = ParseTag(info, f[k])
                  /\ multiboot2_parse_tags(info, n) = f[n]
<1> DEFINE s == [ptr |-> FixedHeader, regions |-> <<>>]
           f == CHOOSE f : f = [k \in 0 .. n |-> IF k = 0 THEN s ELSE ParseTag(info, f[k - 1])]
<1>1. multiboot2_parse_tags(info, n) = f[n]
  BY Zenon DEF multiboot2_parse_tags
<1>2. f = [k \in 0 .. n |-> IF k = 0 THEN s ELSE ParseTag(info, f[k - 1])]
  BY TraceExists, Zenon DEF Trace
<1> HIDE DEF f, s
<1>3. PICK h : h = f
  OBVIOUS
<1>4. f = [k \in 0 .. n |-> IF k = 0 THEN s ELSE ParseTag(info, h[k - 1])]
  BY <1>2, <1>3, Zenon
<1>5. \A k \in 0 .. n : f[k] = IF k = 0 THEN s ELSE ParseTag(info, h[k - 1])
  BY <1>4, Zenon
<1>6. f[0] = s
  BY <1>5
<1>7. ASSUME NEW k \in 0 .. n - 1 PROVE f[k + 1] = ParseTag(info, f[k])
  <2>1. f[k + 1] = ParseTag(info, h[k])
    BY <1>5
  <2> QED
    BY <1>3, <2>1, Zenon
<1> QED
  BY <1>1, <1>6, <1>7, Zenon DEF s

(***************************************************************************)
(* Tags and their entries.                                                 *)
(***************************************************************************)

\* Entries of size d do not overlap.
LEMMA Multiples ==
    ASSUME NEW d \in Nat \ {0}, NEW a \in Nat, NEW b \in Nat, a < b
    PROVE  a * d + d <= b * d
<1>1. PICK c \in Nat : b = a + 1 + c
  <2>1. b - a - 1 \in Nat /\ b = a + 1 + (b - a - 1)
    OBVIOUS
  <2> QED
    BY <2>1
<1>2. (a + 1 + c) * d = a * d + d + c * d /\ c * d >= 0
  OBVIOUS
<1> QED
  BY <1>1, <1>2

\* How often the loop over n entries of size d runs.
LEMMA EntryCount ==
    ASSUME NEW d \in Nat \ {0}, NEW n \in Nat
    PROVE  (n * d + d - 1) \div d = n
<1> DEFINE x == n * d + d - 1  q == x \div d
<1>1. n * d \in Nat
  OBVIOUS
<1>2. x \in Nat
  BY <1>1
<1>3. x >= n * d /\ x < n * d + d
  BY <1>1
<1> HIDE DEF x
<1>4. q \in Nat /\ q * d <= x /\ x < q * d + d
  BY <1>2
<1> HIDE DEF q
<1>5. q * d \in Nat
  BY <1>4
<1>6. ~ (q < n)
  <2>1. q < n => q * d + d <= n * d
    BY <1>4, Multiples
  <2> QED
    BY <1>1, <1>2, <1>3, <1>4, <1>5, <2>1
<1>7. ~ (n < q)
  <2>1. n < q => n * d + d <= q * d
    BY <1>4, Multiples
  <2> QED
    BY <1>1, <1>2, <1>3, <1>4, <1>5, <2>1
<1>8. q = n
  BY <1>4, <1>6, <1>7
<1> QED
  BY <1>8 DEF q, x

\* Where ALIGN_UP takes the parser.
LEMMA AlignUp ==
    ASSUME NEW a \in Nat, NEW b \in Nat, NEW size \in Nat, a % 8 = 0, b % 8 = 0,
           a + size <= b, b < a + size + 8
    PROVE  a + ALIGN_UP(size, 8) = b
BY DEF ALIGN_UP

\* The parser at a tag that is not the END tag: where the next one is.
LEMMA TagFacts ==
    ASSUME NEW info, WellFormed(info), NEW a \in DOMAIN info.tags
    PROVE  /\ a \in Nat /\ TagAt(info, a) = info.tags[a]
           /\ info.tags[a].type \in {"END", "MMAP", "OTHER"}
           /\ info.tags[a].size \in Nat /\ info.tags[a].size >= 8
           /\ info.tags[a].entry_size \in Nat
           /\ info.tags[a].type # "END" =>
                  NextTag(info, a, a + ALIGN_UP(info.tags[a].size, 8))
<1>1. /\ a \in Nat /\ a % 8 = 0
      /\ info.tags[a] \in [type : {"END", "MMAP", "OTHER"}, size : Nat, entry_size : Nat]
      /\ info.tags[a].size >= 8
      /\ info.tags[a].type # "END" => \E b \in DOMAIN info.tags : NextTag(info, a, b)
  BY Zenon DEF WellFormed
<1>2. TagAt(info, a) = info.tags[a]
  BY DEF TagAt
<1>3. info.tags[a].type # "END" => NextTag(info, a, a + ALIGN_UP(info.tags[a].size, 8))
  <2> SUFFICES ASSUME info.tags[a].type # "END"
               PROVE  NextTag(info, a, a + ALIGN_UP(info.tags[a].size, 8))
    OBVIOUS
  <2>1. PICK b \in DOMAIN info.tags : NextTag(info, a, b)
    BY <1>1
  <2>2. b \in Nat /\ b % 8 = 0
    BY Zenon DEF WellFormed
  <2>3. a + info.tags[a].size <= b /\ b < a + info.tags[a].size + 8
    BY <2>1 DEF NextTag
  <2>4. info.tags[a].size \in Nat
    BY <1>1
  <2>5. a + ALIGN_UP(info.tags[a].size, 8) = b
    BY <1>1, <2>2, <2>3, <2>4, AlignUp
  <2> QED
    BY <2>1, <2>5
<1> QED
  BY <1>1, <1>2, <1>3

\* The entries before a tag, and those before the next one.
Before(info, p) == {e \in DOMAIN info.entries : e < p}

\* An entry lies between its tag and the next.
LEMMA EntryOwner ==
    ASSUME NEW info, WellFormed(info), NEW e \in DOMAIN info.entries
    PROVE  \E a \in DOMAIN info.tags :
              /\ info.tags[a].type = "MMAP" /\ e \in EntriesOf(info, a)
              /\ e \in Nat /\ a < e
              /\ \A p \in DOMAIN info.tags : p <= a \/ e < p
<1>1. PICK a \in DOMAIN info.tags : info.tags[a].type = "MMAP" /\ e \in EntriesOf(info, a)
  BY DEF WellFormed
<1>2. e \in Int /\ a + 16 <= e /\ e < a + info.tags[a].size
  BY <1>1, TagFacts DEF EntriesOf, MmapHeader
<1> DEFINE b == a + ALIGN_UP(info.tags[a].size, 8)
<1>3. NextTag(info, a, b)
  BY <1>1, TagFacts
<1> HIDE DEF b
<1>4. b \in Nat /\ a \in Nat /\ info.tags[a].size \in Nat /\ a + info.tags[a].size <= b
  BY <1>3, TagFacts DEF NextTag
<1>5. ASSUME NEW p \in DOMAIN info.tags PROVE p <= a \/ e < p
  <2>1. p <= a \/ b <= p
    BY <1>3 DEF NextTag
  <2>2. p \in Nat
    BY TagFacts
  <2> QED
    BY <1>2, <1>4, <2>1, <2>2
<1> QED
  BY <1>1, <1>2, <1>4, <1>5

\* The parser reads the n entries of the map tag at a from the addresses adr, in
\* ascending order, as long as there is room.
Reads(info, a, n, adr) ==
    /\ n \in Nat /\ adr \in [1 .. n -> EntriesOf(info, a)]
    /\ \A i, j \in 1 .. n : i < j => adr[i] < adr[j]
    /\ \A e \in EntriesOf(info, a) : \E i \in 1 .. n : adr[i] = e
    /\ \A room \in Nat : MmapEntries(info, a, room) =
           [i \in 1 .. Smaller(n, room) |-> info.entries[adr[i]]]

\* Every map tag is read so.
LEMMA MapTag ==
    ASSUME NEW info, WellFormed(info), NEW a \in DOMAIN info.tags, info.tags[a].type = "MMAP"
    PROVE  \E n, adr : Reads(info, a, n, adr)
<1> DEFINE size == info.tags[a].size  d == info.tags[a].entry_size
<1>1. d \in Nat \ {0} /\ size \in Nat /\ a \in Nat /\ TagAt(info, a) = info.tags[a]
  <2>1. d > 0
    BY Zenon DEF WellFormed
  <2> QED
    BY <2>1, TagFacts
<1>2. PICK n \in 0 .. size : size = 16 + n * d
  BY Zenon DEF WellFormed, MmapHeader
<1> DEFINE adr == [i \in 1 .. n |-> a + 16 + (i - 1) * d]
<1>3. EntriesOf(info, a) =
          {e \in a + 16 .. a + size - 1 : \E i \in 0 .. size : e = a + 16 + i * d}
  BY Zenon DEF EntriesOf, MmapHeader
<1>4. \A room : MmapEntries(info, a, room) =
          [i \in 1 .. Smaller((size - 16 + d - 1) \div d, room) |->
              EntryAt(info, a + 16 + (i - 1) * d)]
  BY <1>1, Zenon DEF MmapEntries, MmapHeader
<1> HIDE DEF size, d
<1>5. n \in Nat /\ n * d \in Nat
  BY <1>1, <1>2
<1>6. (size - 16 + d - 1) \div d = n
  <2>1. size - 16 + d - 1 = n * d + d - 1
    BY <1>1, <1>2, <1>5
  <2> QED
    BY <1>1, <1>5, <2>1, EntryCount
<1>7. ASSUME NEW i \in 1 .. n
      PROVE  /\ (i - 1) * d \in Nat /\ (i - 1) * d + d <= n * d
             /\ i - 1 \in 0 .. size /\ adr[i] = a + 16 + (i - 1) * d
             /\ adr[i] \in EntriesOf(info, a)
  <2>1. i - 1 \in Nat /\ i - 1 < n /\ i - 1 \in 0 .. size
    BY <1>1, <1>2
  <2>2. (i - 1) * d \in Nat
    BY <1>1, <2>1
  <2>3. (i - 1) * d + d <= n * d
    BY <1>1, <1>5, <2>1, Multiples
  <2>4. adr[i] = a + 16 + (i - 1) * d
    OBVIOUS
  <2> DEFINE y == (i - 1) * d  z == n * d
  <2>5. y \in Nat /\ z \in Nat /\ y + d <= z /\ size = 16 + z /\ adr[i] = a + 16 + y
    BY <1>2, <1>5, <2>2, <2>3, <2>4
  <2> HIDE DEF y, z, adr
  <2>6. adr[i] \in a + 16 .. a + size - 1
    BY <1>1, <2>5
  <2> QED
    BY <1>3, <2>1, <2>2, <2>3, <2>4, <2>6, Zenon
<1>8. ASSUME NEW i \in 1 .. n, NEW j \in 1 .. n, i < j PROVE adr[i] < adr[j]
  <2>1. (i - 1) * d + d <= (j - 1) * d
    BY <1>1, <1>8, Multiples
  <2> DEFINE y == (i - 1) * d  z == (j - 1) * d
  <2>2. y \in Nat /\ z \in Nat /\ y + d <= z /\ adr[i] = a + 16 + y /\ adr[j] = a + 16 + z
    BY <1>7, <2>1, Zenon
  <2> HIDE DEF y, z, adr
  <2> QED
    BY <1>1, <2>2
<1>9. ASSUME NEW e \in EntriesOf(info, a) PROVE \E i \in 1 .. n : adr[i] = e
  <2>1. PICK i \in 0 .. size : e = a + 16 + i * d
    BY <1>3
  <2>2. e < a + size /\ i * d \in Nat
    BY <1>1, <1>3, <2>1
  <2>3. i < n
    <3>1. CASE n < i
      <4>1. n * d + d <= i * d
        BY <1>1, <1>5, <3>1, Multiples
      <4> DEFINE y == i * d  z == n * d
      <4>2. y \in Nat /\ z \in Nat /\ z + d <= y /\ e = a + 16 + y /\ size = 16 + z
        BY <1>2, <1>5, <2>1, <2>2, <4>1
      <4> HIDE DEF y, z
      <4> QED
        BY <1>1, <2>2, <4>2
    <3>2. CASE n = i
      BY <1>1, <1>2, <2>1, <2>2, <3>2
    <3> QED
      BY <1>5, <3>1, <3>2
  <2>4. i + 1 \in 1 .. n /\ (i + 1) - 1 = i
    BY <1>5, <2>3
  <2>5. adr[i + 1] = e
    BY <1>7, <2>1, <2>4
  <2> QED
    BY <2>4, <2>5
<1>10. ASSUME NEW room \in Nat
       PROVE  MmapEntries(info, a, room) = [i \in 1 .. Smaller(n, room) |-> info.entries[adr[i]]]
  <2>1. MmapEntries(info, a, room) =
            [i \in 1 .. Smaller(n, room) |-> EntryAt(info, a + 16 + (i - 1) * d)]
    BY <1>4, <1>6, Zenon
  <2>2. ASSUME NEW i \in 1 .. Smaller(n, room)
        PROVE  EntryAt(info, a + 16 + (i - 1) * d) = info.entries[adr[i]]
    <3>1. i \in 1 .. n
      BY <1>5 DEF Smaller
    <3>2. adr[i] = a + 16 + (i - 1) * d /\ adr[i] \in EntriesOf(info, a)
      BY <1>7, <3>1, Zenon
    <3>3. adr[i] \in DOMAIN info.entries
      BY <3>2, Zenon DEF WellFormed
    <3> QED
      BY <3>2, <3>3, Zenon DEF EntryAt
  <2> HIDE DEF adr
  <2> QED
    BY <2>1, <2>2, Zenon
<1>11. adr \in [1 .. n -> EntriesOf(info, a)]
  BY <1>7
<1> HIDE DEF adr
<1>12. Reads(info, a, n, adr)
  BY <1>5, <1>8, <1>9, <1>10, <1>11, Zenon DEF Reads
<1> QED
  BY <1>12

\* A function on 1 .. c is a sequence of length c.
LEMMA SeqOf ==
    ASSUME NEW V, NEW c \in Nat, NEW r \in [1 .. c -> V]
    PROVE  r \in Seq(V) /\ Len(r) = c
OBVIOUS

\* What lies where in a concatenation.
LEMMA Concatenate ==
    ASSUME NEW V, NEW m \in Seq(V), NEW r \in Seq(V)
    PROVE  /\ m \o r \in Seq(V) /\ Len(m \o r) = Len(m) + Len(r)
           /\ \A i \in 1 .. Len(m) : (m \o r)[i] = m[i]
           /\ \A i \in 1 .. Len(m) + Len(r) : i > Len(m) => (m \o r)[i] = r[i - Len(m)]
OBVIOUS

\* What is read behind a list is appended to it.
LEMMA ListsAppend ==
    ASSUME NEW info, NEW V, NEW E \in SUBSET Nat, NEW F \in SUBSET Nat,
           NEW m \in Seq(V), Lists(m, info, E),
           NEW n \in Nat, NEW adr \in [1 .. n -> F],
           \A i, j \in 1 .. n : i < j => adr[i] < adr[j],
           \A e \in F : \E i \in 1 .. n : adr[i] = e,
           \A e \in E : \A f \in F : e < f,
           NEW r \in Seq(V), Len(r) = Smaller(n, MMAP_MAX_REGIONS - Len(m)),
           \A i \in 1 .. Len(r) : r[i] = info.entries[adr[i]]
    PROVE  m \o r \in Seq(V) /\ Lists(m \o r, info, E \cup F)
<1> DEFINE k == Len(m)  M == MMAP_MAX_REGIONS  c == Len(r)
<1>1. k \in Nat /\ M \in Nat /\ k <= M
  BY MultibootConstants DEF Lists
<1>2. PICK order \in [1 .. k -> E] :
          /\ \A i, j \in 1 .. k : i < j => order[i] < order[j]
          /\ \A i \in 1 .. k : m[i] = info.entries[order[i]]
          /\ \A e \in E : \/ \E i \in 1 .. k : order[i] = e
                          \/ k = M /\ \A i \in 1 .. k : order[i] < e
  BY Zenon DEF Lists
<1>3. c \in Nat /\ c <= n /\ c <= M - k /\ (c = n \/ c = M - k)
  BY <1>1 DEF Smaller
<1>5. \A i \in 1 .. c : r[i] = info.entries[adr[i]]
  OBVIOUS
<1> DEFINE q == m \o r
<1>6. q \in Seq(V) /\ Len(q) = k + c
  BY Concatenate, ZenonT(30)
<1>7. /\ \A i \in 1 .. k : q[i] = m[i]
      /\ \A i \in 1 .. k + c : i > k => q[i] = r[i - k]
  BY Concatenate
<1> HIDE DEF k, q, M, c
<1> DEFINE o == [i \in 1 .. k + c |-> IF i <= k THEN order[i] ELSE adr[i - k]]
<1>8. /\ \A i \in 1 .. k : i \in 1 .. k + c /\ o[i] = order[i] /\ order[i] \in E
      /\ \A i \in 1 .. c : i + k \in 1 .. k + c /\ o[i + k] = adr[i] /\ adr[i] \in F /\ i \in 1 .. n
      /\ \A i \in 1 .. k + c : i \in 1 .. k \/ (i - k \in 1 .. c /\ o[i] = adr[i - k])
  BY <1>1, <1>2, <1>3
<1>9. o \in [1 .. k + c -> E \cup F]
  BY <1>1, <1>3, <1>8
<1> HIDE DEF o
<1>10. ASSUME NEW i \in 1 .. k + c, NEW j \in 1 .. k + c, i < j PROVE o[i] < o[j]
  <2>1. CASE j \in 1 .. k
    BY <1>1, <1>2, <1>8, <1>10, <2>1
  <2>2. CASE i \in 1 .. k /\ j \notin 1 .. k
    BY <1>8, <2>2, ZenonT(30)
  <2>3. CASE i \notin 1 .. k /\ j \notin 1 .. k
    <3>1. i - k \in 1 .. n /\ j - k \in 1 .. n /\ i - k < j - k
      BY <1>1, <1>3, <1>8, <1>10, <2>3
    <3> QED
      BY <1>8, <2>3, <3>1
  <2> QED
    BY <1>1, <1>10, <2>1, <2>2, <2>3
<1>11. ASSUME NEW i \in 1 .. k + c PROVE q[i] = info.entries[o[i]]
  <2>1. CASE i \in 1 .. k
    BY <1>2, <1>7, <1>8, <2>1
  <2>2. CASE i \notin 1 .. k
    <3>1. i > k /\ i - k \in 1 .. c
      BY <1>1, <1>8, <2>2
    <3> QED
      BY <1>5, <1>7, <1>8, <2>2, <3>1
  <2> QED
    BY <2>1, <2>2
<1>12. ASSUME NEW e \in E
       PROVE  \/ \E i \in 1 .. k + c : o[i] = e
              \/ k + c = M /\ \A i \in 1 .. k + c : o[i] < e
  <2>1. CASE \E i \in 1 .. k : order[i] = e
    BY <1>8, <2>1
  <2>2. CASE k = M /\ \A i \in 1 .. k : order[i] < e
    <3>1. c = 0
      BY <1>1, <1>3, <2>2
    <3> QED
      BY <1>1, <1>8, <2>2, <3>1
  <2> QED
    BY <1>2, <2>1, <2>2
<1>13. ASSUME NEW e \in F
       PROVE  \/ \E i \in 1 .. k + c : o[i] = e
              \/ k + c = M /\ \A i \in 1 .. k + c : o[i] < e
  <2>1. PICK x \in 1 .. n : adr[x] = e
    BY ZenonT(30)
  <2>2. CASE x <= c
    BY <1>3, <1>8, <2>1, <2>2
  <2>3. CASE x > c
    <3>1. k + c = M
      BY <1>1, <1>3, <2>3
    <3>2. ASSUME NEW i \in 1 .. k + c PROVE o[i] < e
      <4>1. CASE i \in 1 .. k
        BY <1>8, <4>1, ZenonT(30)
      <4>2. CASE i - k \in 1 .. c /\ o[i] = adr[i - k]
        <5>1. i - k \in 1 .. n /\ i - k < x
          BY <1>3, <2>3, <4>2
        <5> QED
          BY <2>1, <4>2, <5>1
      <4> QED
        BY <1>8, <4>1, <4>2
    <3> QED
      BY <3>1, <3>2
  <2> QED
    BY <1>3, <2>2, <2>3
<1>14. Lists(q, info, E \cup F)
  <2>1. k + c <= M
    BY <1>1, <1>3
  <2>2. \A e \in E \cup F : \/ \E i \in 1 .. k + c : o[i] = e
                            \/ k + c = M /\ \A i \in 1 .. k + c : o[i] < e
    BY <1>12, <1>13, Zenon
  <2> DEFINE N == k + c
  <2>3. o \in [1 .. N -> E \cup F] /\ Len(q) = N /\ N <= MMAP_MAX_REGIONS
    BY <1>6, <1>9, <2>1, Zenon DEF M
  <2>4. /\ \A i, j \in 1 .. N : i < j => o[i] < o[j]
        /\ \A i \in 1 .. N : q[i] = info.entries[o[i]]
    BY <1>10, <1>11, Zenon
  <2>5. \A e \in E \cup F : \/ \E i \in 1 .. N : o[i] = e
                            \/ N = MMAP_MAX_REGIONS /\ \A i \in 1 .. N : o[i] < e
    BY <2>2, Zenon DEF M
  <2> HIDE DEF N
  <2> QED
    BY <2>3, <2>4, <2>5, SMTT(30) DEF Lists
<1> QED
  BY <1>6, <1>14 DEF q

(***************************************************************************)
(* The loop over the tags.                                                 *)
(***************************************************************************)

Regions(info) == {info.entries[e] : e \in DOMAIN info.entries}

TagsBefore(info, p) == {a \in DOMAIN info.tags : a < p}

\* The loop after n tags: s.regions lists the entries before s.ptr.
Parsed(info, s, n) ==
    /\ s.ptr \in DOMAIN info.tags
    /\ s.regions \in Seq(Regions(info))
    /\ Lists(s.regions, info, Before(info, s.ptr))
    /\ info.tags[s.ptr].type = "END" \/ n <= Cardinality(TagsBefore(info, s.ptr))

\* Entries lie at natural offsets.
LEMMA EntriesNat ==
    ASSUME NEW info, WellFormed(info)
    PROVE  DOMAIN info.entries \subseteq Nat
BY EntryOwner

\* The entries before the next tag are those before this one and its own.
LEMMA BeforeNext ==
    ASSUME NEW info, WellFormed(info), NEW a \in DOMAIN info.tags, NEW b, NextTag(info, a, b)
    PROVE  /\ Before(info, b) = Before(info, a) \cup
                  IF info.tags[a].type = "MMAP" THEN EntriesOf(info, a) ELSE {}
           /\ info.tags[a].type = "MMAP" =>
                  /\ EntriesOf(info, a) \subseteq DOMAIN info.entries
                  /\ \A e \in Before(info, a) : \A f \in EntriesOf(info, a) : e < f
<1> DEFINE Own == IF info.tags[a].type = "MMAP" THEN EntriesOf(info, a) ELSE {}
<1>1. /\ b \in DOMAIN info.tags /\ a + info.tags[a].size <= b
      /\ \A c \in DOMAIN info.tags : c <= a \/ b <= c
  BY DEF NextTag
<1>2. a \in Nat /\ b \in Nat /\ info.tags[a].size \in Nat /\ info.tags[a].size >= 8 /\ a < b
  BY <1>1, TagFacts
<1>3. Own \subseteq DOMAIN info.entries
  BY Zenon DEF WellFormed
<1>4. \A e \in Own : e \in Int /\ a < e /\ e < b
  BY <1>1, <1>2 DEF EntriesOf, MmapHeader
<1>5. ASSUME NEW e \in DOMAIN info.entries PROVE e < b <=> e < a \/ e \in Own
  <2>1. PICK o \in DOMAIN info.tags :
            /\ info.tags[o].type = "MMAP" /\ e \in EntriesOf(info, o)
            /\ e \in Nat /\ o < e
            /\ \A p \in DOMAIN info.tags : p <= o \/ e < p
    BY EntryOwner
  <2>2. o \in Nat /\ (o <= a \/ b <= o) /\ (a <= o \/ e < a) /\ (b <= o \/ e < b)
    BY <1>1, <2>1, TagFacts
  <2>3. CASE b <= o
    <3>1. ~ (e < b) /\ ~ (e < a)
      BY <1>2, <2>1, <2>2, <2>3
    <3> QED
      BY <1>4, <3>1, Zenon
  <2>4. CASE o < a
    BY <1>2, <2>1, <2>2, <2>4
  <2>5. CASE o = a
    <3>1. e \in Own /\ e < b
      BY <1>4, <2>1, <2>5
    <3> QED
      BY <3>1
  <2> QED
    BY <1>2, <2>2, <2>3, <2>4, <2>5
<1>6. Before(info, b) = Before(info, a) \cup Own
  <2> HIDE DEF Own
  <2> QED
    BY <1>3, <1>4, <1>5, Zenon DEF Before
<1>7. ASSUME info.tags[a].type = "MMAP"
      PROVE  /\ EntriesOf(info, a) \subseteq DOMAIN info.entries
             /\ \A e \in Before(info, a) : \A f \in EntriesOf(info, a) : e < f
  <2>1. Own = EntriesOf(info, a)
    BY <1>7
  <2>2. \A e \in Before(info, a) : e \in Nat /\ e < a
    BY EntriesNat DEF Before
  <2> HIDE DEF Own
  <2>3. \A e \in Before(info, a) : \A f \in Own : e < f
    BY <1>2, <1>4, <2>2
  <2> QED
    BY <1>3, <2>1, <2>3, Zenon
<1> QED
  BY <1>6, <1>7, Zenon

\* One more tag is behind the next tag than behind this one.
LEMMA TagsNext ==
    ASSUME NEW info, WellFormed(info), NEW a \in DOMAIN info.tags, NEW b, NextTag(info, a, b)
    PROVE  Cardinality(TagsBefore(info, b)) = Cardinality(TagsBefore(info, a)) + 1
<1>1. /\ b \in DOMAIN info.tags /\ a + info.tags[a].size <= b
      /\ \A c \in DOMAIN info.tags : c <= a \/ b <= c
  BY DEF NextTag
<1>2. a \in Nat /\ b \in Nat /\ info.tags[a].size \in Nat /\ info.tags[a].size >= 8
  BY <1>1, TagFacts
<1>3. \A c \in DOMAIN info.tags : c \in Nat
  BY TagFacts
<1>4. TagsBefore(info, b) = TagsBefore(info, a) \cup {a} /\ a \notin TagsBefore(info, a)
  BY <1>1, <1>2, <1>3 DEF TagsBefore
<1>5. IsFiniteSet(TagsBefore(info, a))
  <2>1. IsFiniteSet(DOMAIN info.tags) /\ TagsBefore(info, a) \subseteq DOMAIN info.tags
    BY DEF WellFormed, TagsBefore
  <2> QED
    BY <2>1, FS_Subset
<1> QED
  BY <1>4, <1>5, FS_AddElement

\* No entry lies before the first tag.
LEMMA ParseStart ==
    ASSUME NEW info, WellFormed(info)
    PROVE  Parsed(info, [ptr |-> FixedHeader, regions |-> <<>>], 0)
<1>1. FixedHeader \in DOMAIN info.tags /\ \A a \in DOMAIN info.tags : FixedHeader <= a /\ a \in Nat
  BY Zenon DEF WellFormed
<1>2. Before(info, FixedHeader) = {}
  <2> SUFFICES ASSUME NEW e \in DOMAIN info.entries PROVE ~ (e < FixedHeader)
    BY DEF Before
  <2>1. PICK o \in DOMAIN info.tags : e \in Nat /\ o < e
    BY EntryOwner
  <2> QED
    BY <1>1, <2>1
<1>3. Lists(<<>>, info, {})
  <2>1. Len(<<>>) = 0 /\ 1 .. 0 = {}
    OBVIOUS
  <2>2. 0 <= MMAP_MAX_REGIONS
    BY MultibootConstants
  <2> DEFINE o == [i \in 1 .. 0 |-> 0]
  <2>3. o \in [1 .. 0 -> {}]
    OBVIOUS
  <2> HIDE DEF o
  <2> QED
    BY <2>1, <2>2, <2>3, ZenonT(30) DEF Lists
<1>4. TagsBefore(info, FixedHeader) = {} /\ 0 <= Cardinality({})
  <2>1. TagsBefore(info, FixedHeader) = {}
    BY <1>1 DEF TagsBefore, FixedHeader
  <2>2. Cardinality({}) = 0
    BY FS_EmptySet
  <2> QED
    BY <2>1, <2>2
<1> DEFINE s == [ptr |-> FixedHeader, regions |-> <<>>]
<1>5. s.ptr = FixedHeader /\ s.regions = <<>> /\ <<>> \in Seq(Regions(info))
  OBVIOUS
<1> HIDE DEF s
<1>6. Parsed(info, s, 0)
  BY <1>1, <1>2, <1>3, <1>4, <1>5, ZenonT(30) DEF Parsed
<1> QED
  BY <1>6 DEF s

\* A turn of the loop appends the entries of the tag it is at, as far as they fit.
LEMMA ParseNext ==
    ASSUME NEW info, WellFormed(info), NEW s, NEW n \in Nat, Parsed(info, s, n)
    PROVE  Parsed(info, ParseTag(info, s), n + 1)
<1> DEFINE a == s.ptr  m == s.regions  V == Regions(info)
<1>1. /\ a \in DOMAIN info.tags /\ m \in Seq(V) /\ Lists(m, info, Before(info, a))
      /\ info.tags[a].type = "END" \/ n <= Cardinality(TagsBefore(info, a))
  BY Zenon DEF Parsed
<1>2. TagAt(info, a) = info.tags[a]
  BY <1>1, TagFacts
<1>3. CASE info.tags[a].type = "END"
  <2>1. ParseTag(info, s) = s
    BY <1>2, <1>3, Zenon DEF ParseTag
  <2> QED
    BY <1>1, <1>3, <2>1, Zenon DEF Parsed
<1>4. CASE info.tags[a].type # "END"
  <2> DEFINE b == a + ALIGN_UP(info.tags[a].size, 8)
             room == MMAP_MAX_REGIONS - Len(m)
             r == IF info.tags[a].type = "MMAP" THEN MmapEntries(info, a, room) ELSE <<>>
  <2>1. NextTag(info, a, b)
    BY <1>1, <1>4, TagFacts
  <2>2. ParseTag(info, s) = [ptr |-> b, regions |-> m \o r]
    BY <1>2, <1>4, Zenon DEF ParseTag
  <2>3. b \in DOMAIN info.tags
    BY <2>1 DEF NextTag
  <2>4. n + 1 <= Cardinality(TagsBefore(info, b))
    <3>1. Cardinality(TagsBefore(info, b)) = Cardinality(TagsBefore(info, a)) + 1
      BY <1>1, <2>1, TagsNext
    <3>2. Cardinality(TagsBefore(info, a)) \in Nat
      <4>1. IsFiniteSet(DOMAIN info.tags) /\ TagsBefore(info, a) \subseteq DOMAIN info.tags
        BY DEF WellFormed, TagsBefore
      <4> QED
        BY <4>1, FS_Subset, FS_CardinalityType
    <3> QED
      BY <1>1, <1>4, <3>1, <3>2
  <2>5. room \in Nat
    <3>1. Len(m) \in Nat /\ Len(m) <= MMAP_MAX_REGIONS
      BY <1>1 DEF Lists
    <3> QED
      BY <3>1, MultibootConstants
  <2> HIDE DEF b
  <2>6. m \o r \in Seq(V) /\ Lists(m \o r, info, Before(info, b))
    <3>1. CASE info.tags[a].type = "MMAP"
      <4>1. r = MmapEntries(info, a, room)
        BY <3>1
      <4>2. PICK k, adr : Reads(info, a, k, adr)
        BY <1>1, <3>1, MapTag
      <4>3. /\ k \in Nat /\ adr \in [1 .. k -> EntriesOf(info, a)]
            /\ \A i, j \in 1 .. k : i < j => adr[i] < adr[j]
            /\ \A e \in EntriesOf(info, a) : \E i \in 1 .. k : adr[i] = e
            /\ \A x \in Nat : MmapEntries(info, a, x) =
                   [i \in 1 .. Smaller(k, x) |-> info.entries[adr[i]]]
        BY <4>2, Zenon DEF Reads
      <4> DEFINE c == Smaller(k, room)
      <4>4. r = [i \in 1 .. c |-> info.entries[adr[i]]]
        BY <2>5, <4>1, <4>3, Zenon
      <4>5. c \in Nat /\ c <= k
        BY <2>5, <4>3 DEF Smaller
      <4> HIDE DEF r
      <4>6. Before(info, b) = Before(info, a) \cup EntriesOf(info, a)
        BY <1>1, <2>1, <3>1, BeforeNext
      <4>7. EntriesOf(info, a) \subseteq DOMAIN info.entries
        BY <1>1, <2>1, <3>1, BeforeNext
      <4>8. \A e \in Before(info, a) : \A f \in EntriesOf(info, a) : e < f
        BY <1>1, <2>1, <3>1, BeforeNext
      <4>9. EntriesOf(info, a) \in SUBSET Nat /\ Before(info, a) \in SUBSET Nat
        BY <4>7, EntriesNat DEF Before
      <4> HIDE DEF c
      <4>10. r \in Seq(V) /\ Len(r) = c /\ \A i \in 1 .. c : r[i] = info.entries[adr[i]]
        <5>1. \A i \in 1 .. c : i \in 1 .. k
          BY <4>3, <4>5
        <5>2. \A i \in 1 .. c : info.entries[adr[i]] \in V
          BY <4>3, <4>7, <5>1 DEF Regions
        <5> HIDE DEF V
        <5>3. r \in [1 .. c -> V] /\ \A i \in 1 .. c : r[i] = info.entries[adr[i]]
          BY <4>4, <5>2, Zenon
        <5> QED
          BY <4>5, <5>3, SeqOf
      <4> DEFINE E == Before(info, a)  F == EntriesOf(info, a)
      <4> HIDE DEF V, E, F, a, m
      <4>11. m \o r \in Seq(V) /\ Lists(m \o r, info, E \cup F)
        BY <1>1, <4>3, <4>8, <4>9, <4>10, ListsAppend, ZenonT(30) DEF E, F, c
      <4> QED
        BY <4>6, <4>11, Zenon DEF E, F
    <3>2. CASE info.tags[a].type # "MMAP"
      <4>1. r = <<>> /\ m \o r = m
        BY <1>1, <3>2
      <4>2. Before(info, b) = Before(info, a)
        BY <1>1, <2>1, <3>2, BeforeNext, ZenonT(30)
      <4> QED
        BY <1>1, <4>1, <4>2, Zenon
    <3> QED
      BY <3>1, <3>2
  <2> HIDE DEF r
  <2> QED
    BY <2>2, <2>3, <2>4, <2>6 DEF Parsed
<1> QED
  BY <1>3, <1>4

\* multiboot2_parse_mmap stops at the END tag of a well-formed boot information,
\* and the array then lists the entries it describes.
THEOREM ParserCorrect ==
    ASSUME NEW info, WellFormed(info)
    PROVE  Describes(multiboot2_parse_mmap(info), info)
<1> DEFINE N == Cardinality(DOMAIN info.tags)
<1>1. IsFiniteSet(DOMAIN info.tags) /\ N \in Nat
  BY FS_CardinalityType DEF WellFormed
<1>2. multiboot2_parse_mmap(info) = multiboot2_parse_tags(info, N).regions
  BY DEF multiboot2_parse_mmap
<1> HIDE DEF N
<1>3. PICK f : /\ f[0] = [ptr |-> FixedHeader, regions |-> <<>>]
               /\ \A k \in 0 .. N - 1 : f[k + 1] = ParseTag(info, f[k])
               /\ multiboot2_parse_tags(info, N) = f[N]
  BY <1>1, ParseTags
<1> DEFINE S == {k \in Nat : k <= N => Parsed(info, f[k], k)}
<1>4. 0 \in S
  BY <1>3, ParseStart
<1>5. ASSUME NEW k \in Nat, k \in S PROVE k + 1 \in S
  <2> SUFFICES ASSUME k + 1 <= N PROVE Parsed(info, f[k + 1], k + 1)
    OBVIOUS
  <2>1. k \in 0 .. N - 1 /\ k <= N
    BY <1>1
  <2>2. Parsed(info, f[k], k)
    BY <1>5, <2>1
  <2> QED
    BY <1>3, <2>1, <2>2, ParseNext
<1>6. N \in S
  <2> HIDE DEF S
  <2> QED
    BY <1>1, <1>4, <1>5, SetInduction
<1>7. Parsed(info, f[N], N)
  BY <1>1, <1>6
<1> DEFINE p == f[N].ptr
<1>8. p \in DOMAIN info.tags /\ p \in Nat
  BY <1>7, TagFacts DEF Parsed
<1>9. info.tags[p].type = "END"
  <2> SUFFICES ASSUME N <= Cardinality(TagsBefore(info, p)) PROVE FALSE
    BY <1>7 DEF Parsed
  <2>1. TagsBefore(info, p) \subseteq DOMAIN info.tags /\ p \notin TagsBefore(info, p)
    BY <1>8 DEF TagsBefore
  <2>2. TagsBefore(info, p) # DOMAIN info.tags
    BY <1>8, <2>1
  <2>3. Cardinality(TagsBefore(info, p)) < N
    <3> DEFINE T == TagsBefore(info, p)
    <3>1. IsFiniteSet(T) /\ Cardinality(T) <= N /\ Cardinality(T) # N
      <4> HIDE DEF T
      <4> QED
        BY <1>1, <2>1, <2>2, FS_Subset DEF N, T
    <3>2. Cardinality(T) \in Nat
      BY <3>1, FS_CardinalityType
    <3> QED
      BY <1>1, <3>1, <3>2
  <2>4. Cardinality(TagsBefore(info, p)) \in Nat
    BY <1>1, <2>1, FS_Subset, FS_CardinalityType
  <2> QED
    BY <1>1, <2>3, <2>4
<1>10. Before(info, p) = DOMAIN info.entries
  <2>1. \A b \in DOMAIN info.tags : b <= p
    BY <1>8, <1>9, Zenon DEF WellFormed
  <2> SUFFICES ASSUME NEW e \in DOMAIN info.entries PROVE e < p
    BY DEF Before
  <2>2. PICK o \in DOMAIN info.tags : info.tags[o].type = "MMAP" /\ (p <= o \/ e < p)
    BY <1>8, EntryOwner
  <2>3. o <= p /\ o \in Nat /\ o # p
    BY <1>9, <2>1, <2>2, TagFacts
  <2> QED
    BY <1>8, <2>2, <2>3
<1> QED
  BY <1>2, <1>3, <1>7, <1>10, Zenon DEF Parsed, Describes

\* In every behaviour of the allocator the map pmm_init works on is the one the
\* boot loader described.
THEOREM MapAsDescribedAlways == Spec => []MapAsDescribed
<1>1. Init => MapAsDescribed
  BY BootInfosWellFormed, MemoryMapsParsed, ParserCorrect DEF Init, MapAsDescribed
<1>2. MapAsDescribed /\ [Next]_vars => MapAsDescribed'
  <2>1. [Next]_vars => mmap' = mmap
    BY DEF Next, vars, pmm_init_all_used, pmm_init_region, pmm_init_reserve, pmm_alloc_frame,
           pmm_alloc_frame_none, pmm_free_frame
  <2> QED
    BY <2>1, Zenon DEF MapAsDescribed
<1> QED
  BY <1>1, <1>2, PTL DEF Spec

\* From the boot loader to the callers of pmm_alloc_frame: every frame they hold
\* lies wholly inside an entry that the boot information marks available, outside
\* low memory and the kernel image, however many tags and entries there are.
HeldIsRam ==
    phase = "ready" =>
        \E info \in BootInfos : \A f \in held :
            /\ \E e \in DOMAIN info.entries : Covers(info.entries[e], f)
            /\ ~Overlaps(f, 0, LowMemory) /\ ~Overlaps(f, KernelStart, KernelEnd)

\* The frames handed out are RAM that the boot information describes.
THEOREM HeldIsRamAlways == Spec => []HeldIsRam
<1>1. MapAsDescribed /\ FrameAccounting /\ TypeOK => HeldIsRam
  <2> SUFFICES ASSUME MapAsDescribed, FrameAccounting, TypeOK, phase = "ready"
               PROVE  \E info \in BootInfos : \A f \in held :
                         /\ \E e \in DOMAIN info.entries : Covers(info.entries[e], f)
                         /\ ~Overlaps(f, 0, LowMemory) /\ ~Overlaps(f, KernelStart, KernelEnd)
    BY DEF HeldIsRam
  <2>1. PICK info \in BootInfos : Describes(mmap, info)
    BY DEF MapAsDescribed
  <2>2. mmap \in Seq(Region)
    BY MemoryMapsDisjoint DEF TypeOK
  <2>3. DOMAIN mmap = 1 .. Len(mmap)
    BY <2>2
  <2>4. \A j \in DOMAIN mmap : \E e \in DOMAIN info.entries : mmap[j] = info.entries[e]
    BY <2>1, <2>3 DEF Describes, Lists
  <2>5. ASSUME NEW f \in held
        PROVE  /\ \E e \in DOMAIN info.entries : Covers(info.entries[e], f)
               /\ ~Overlaps(f, 0, LowMemory) /\ ~Overlaps(f, KernelStart, KernelEnd)
    <3>1. f \in Usable(mmap)
      BY DEF FrameAccounting
    <3>2. /\ \E j \in DOMAIN mmap : Covers(mmap[j], f)
          /\ ~Overlaps(f, 0, LowMemory) /\ ~Overlaps(f, KernelStart, KernelEnd)
      BY <3>1, Zenon DEF Usable
    <3> QED
      BY <2>4, <3>2, Zenon
  <2> QED
    BY <2>5
<1> QED
  BY <1>1, MapAsDescribedAlways, FrameAccountingAlways, UsedExactAlways, PTL

=============================================================================
