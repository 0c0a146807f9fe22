---------------------------- MODULE KheapProofs ----------------------------
(***************************************************************************)
(* Proofs about Kheap for every heap placement, size, page size, header    *)
(* size and set of request sizes.                                          *)
(***************************************************************************)
EXTENDS Kheap, WellFoundedInduction, NaturalsInduction, TLAPS

\* A nonempty set of naturals has a least element.
LEMMA NatMin ==
    ASSUME NEW T \in SUBSET Nat, T # {}
    PROVE  \E x \in T : \A y \in T : x <= y
<1> DEFINE R == OpToRel(<, Nat)
<1>1. \A x, y \in Nat : x < y => <<x, y>> \in R
  BY DEF OpToRel
<1>2. IsWellFoundedOn(R, Nat)
  BY NatLessThanWellFounded
<1> HIDE DEF R
<1>3. PICK x \in T : \A y \in T : ~(<<y, x>> \in R)
  BY <1>2, WFMin
<1>4. ASSUME NEW y \in T PROVE x <= y
  <2>1. x \in Nat /\ y \in Nat
    OBVIOUS
  <2>2. ~(y < x)
    BY <1>1, <1>3, <2>1
  <2> QED
    BY <2>1, <2>2
<1> QED
  BY <1>4

\* A nonempty bounded set of naturals has a greatest element.
LEMMA NatMax ==
    ASSUME NEW T \in SUBSET Nat, T # {}, NEW m \in Nat, \A x \in T : x <= m
    PROVE  \E x \in T : \A y \in T : y <= x
<1> DEFINE D == {m - x : x \in T}
<1>1. D \in SUBSET Nat /\ D # {}
  <2>1. \A x \in T : m - x \in Nat
    OBVIOUS
  <2> QED
    BY <2>1
<1>2. PICK d \in D : \A y \in D : d <= y
  BY <1>1, NatMin
<1>3. PICK x \in T : d = m - x
  BY <1>2
<1>4. \A y \in T : y <= x
  BY <1>2, <1>3
<1> QED
  BY <1>4

(***************************************************************************)
(* Multiples of the alignment.                                             *)
(***************************************************************************)

Mult(x) == \E k \in Int : x = k * Align

\* A number whose remainder is 0 is a multiple.
LEMMA MultOfRemainder ==
    ASSUME NEW x \in Nat, x % Align = 0
    PROVE  Mult(x)
<1> DEFINE q == x \div Align
<1>1. q \in Int /\ x = q * Align + (x % Align)
  BY KheapConstants
<1>2. Align \in Int
  BY KheapConstants
<1> HIDE DEF q
<1>3. x = q * Align
  BY <1>1, <1>2
<1> QED
  BY <1>1, <1>3 DEF Mult

\* A multiple leaves no remainder.
LEMMA RemainderOfMult ==
    ASSUME NEW x \in Nat, Mult(x)
    PROVE  x % Align = 0
<1>1. PICK k \in Int : x = k * Align
  BY DEF Mult
<1> DEFINE q == x \div Align
           r == x % Align
<1>2. q \in Int /\ r \in Int /\ 0 <= r /\ r < Align /\ x = q * Align + r
  BY KheapConstants
<1> HIDE DEF q, r
<1>3. Align \in Int /\ Align > 0
  BY KheapConstants
<1>4. (k - q) * Align = r
  BY <1>1, <1>2, <1>3
<1>5. k - q = 0
  <2>1. CASE k - q >= 1
    <3>1. (k - q) * Align >= Align
      BY <1>2, <1>3, <2>1
    <3> QED
      BY <1>2, <1>4, <3>1, <1>3
  <2>2. CASE k - q <= -1
    <3>1. (k - q) * Align <= -Align
      BY <1>2, <1>3, <2>2
    <3> QED
      BY <1>2, <1>4, <3>1, <1>3
  <2> QED
    BY <1>2, <2>1, <2>2
<1>6. r = 0
  BY <1>4, <1>5, <1>3
<1> QED
  BY <1>6 DEF r

\* Sums and differences of multiples are multiples.
LEMMA MultClosed ==
    ASSUME NEW x \in Int, NEW y \in Int, Mult(x), Mult(y)
    PROVE  Mult(x + y) /\ Mult(x - y)
<1>1. PICK j \in Int : x = j * Align
  BY DEF Mult
<1>2. PICK k \in Int : y = k * Align
  BY DEF Mult
<1>3. Align \in Int
  BY KheapConstants
<1>4. x + y = (j + k) * Align /\ x - y = (j - k) * Align
  BY <1>1, <1>2, <1>3
<1> QED
  BY <1>4 DEF Mult

\* Rounding up does not make a number smaller and yields a multiple.
LEMMA AlignUpFacts ==
    ASSUME NEW x \in Nat, NEW a \in Nat \ {0}
    PROVE  /\ AlignUp(x, a) \in Nat
           /\ AlignUp(x, a) >= x
           /\ \E k \in Nat : AlignUp(x, a) = k * a
<1> DEFINE n == x + a - 1
           q == n \div a
<1>1. n \in Nat
  OBVIOUS
<1>2. q \in Nat /\ q * a <= n /\ n < (q + 1) * a
  BY <1>1
<1>3. AlignUp(x, a) = q * a
  BY DEF AlignUp
<1> HIDE DEF q
<1>4. q * a \in Nat
  BY <1>2
<1>5. (q + 1) * a = q * a + a
  BY <1>2
<1>6. q * a >= x
  BY <1>2, <1>4, <1>5
<1> QED
  BY <1>2, <1>3, <1>4, <1>6

\* kmalloc asks for a multiple of the alignment with room for the header.
LEMMA BlockTotalFacts ==
    ASSUME NEW size \in Nat
    PROVE  /\ BlockTotal(size) \in Nat
           /\ BlockTotal(size) >= size + HeaderSize
           /\ BlockTotal(size) >= MinBlock
           /\ Mult(BlockTotal(size))
<1> DEFINE al == AlignUp(size + HeaderSize, Align)
<1>1. size + HeaderSize \in Nat /\ MinBlock \in Nat /\ Align \in Nat \ {0}
  BY KheapConstants
<1>2. al \in Nat /\ al >= size + HeaderSize /\ Mult(al)
  <2>1. al \in Nat /\ al >= size + HeaderSize /\ \E k \in Nat : al = k * Align
    BY <1>1, AlignUpFacts
  <2> QED
    BY <2>1 DEF Mult
<1>3. Mult(MinBlock)
  BY KheapConstants, MultOfRemainder
<1>4. BlockTotal(size) = IF al < MinBlock THEN MinBlock ELSE al
  BY DEF BlockTotal
<1> HIDE DEF al
<1> QED
  BY <1>1, <1>2, <1>3, <1>4

\* The heap grows by whole pages that are multiples of the alignment, by at
\* least what the request needs.
LEMMA ExpansionFacts ==
    ASSUME total \in Nat
    PROVE  /\ Expansion \in Nat
           /\ Expansion >= total
           /\ Expansion >= PageSize
           /\ Mult(Expansion)
<1> DEFINE e == AlignUp(total, PageSize)
<1>1. PageSize \in Nat \ {0} /\ Mult(PageSize)
  BY KheapConstants, MultOfRemainder
<1>2. e \in Nat /\ e >= total
  BY <1>1, AlignUpFacts
<1>3. Mult(e)
  <2>1. PICK k \in Nat : e = k * PageSize
    BY <1>1, AlignUpFacts
  <2>2. PICK j \in Int : PageSize = j * Align
    BY <1>1 DEF Mult
  <2>3. Align \in Int
    BY KheapConstants
  <2>4. k * (j * Align) = (k * j) * Align
    BY <2>3
  <2>5. e = (k * j) * Align
    BY <2>1, <2>2, <2>4
  <2> QED
    BY <2>5 DEF Mult
<1>4. Expansion = IF e < PageSize THEN PageSize ELSE e
  BY DEF Expansion
<1> HIDE DEF e
<1> QED
  BY <1>1, <1>2, <1>3, <1>4

(***************************************************************************)
(* The coalescing walk of kfree, on any tiled heap.                        *)
(***************************************************************************)

IsHeap(h) == DOMAIN h \subseteq Nat /\ h \in [DOMAIN h -> Block]

\* A block other than the first has a neighbour that ends where it starts.
LEMMA Predecessor ==
    ASSUME NEW h, IsHeap(h), heap_end \in Nat, Tiled(h, heap_end),
           NEW b \in DOMAIN h, NEW c \in DOMAIN h, b < c
    PROVE  \E a \in DOMAIN h : b <= a /\ a < c /\ a + h[a].size = c
<1> DEFINE T == {a \in DOMAIN h : a < c}
<1>1. T \in SUBSET Nat /\ b \in T /\ c \in Nat /\ \A x \in T : x <= c
  BY DEF IsHeap
<1>2. PICK a \in T : \A y \in T : y <= a
  BY <1>1, NatMax
<1>3. a \in Nat /\ h[a].size \in Nat /\ a + h[a].size <= c
  BY <1>2 DEF IsHeap, Tiled, Block
<1>4. h[a].size > 0
  BY <1>2, <1>3, KheapConstants DEF Tiled
<1>5. c < heap_end
  <2>1. c + h[c].size <= heap_end /\ h[c].size >= MinBlock /\ h[c].size \in Nat
    BY DEF Tiled, IsHeap, Block
  <2> QED
    BY <2>1, <1>1, KheapConstants
<1>6. a + h[a].size \in DOMAIN h
  BY <1>2, <1>3, <1>5, <1>1 DEF Tiled
<1>7. ~(a + h[a].size < c)
  BY <1>2, <1>3, <1>4, <1>6
<1> QED
  BY <1>1, <1>2, <1>3, <1>7

\* A survivor of the walk has a next survivor, or reaches the end of the heap.
LEMMA EndExists ==
    ASSUME NEW h, IsHeap(h), heap_end \in Nat, Tiled(h, heap_end),
           NEW b \in Heads(h)
    PROVE  \E e \in Heads(h) \cup {heap_end} : IsEnd(h, b, e)
<1> DEFINE T == {e \in Heads(h) \cup {heap_end} : e > b}
<1>1. b \in DOMAIN h /\ b \in Nat /\ h[b].size \in Nat
  BY DEF Heads, IsHeap, Block
<1>2. b + h[b].size <= heap_end /\ h[b].size >= MinBlock
  BY <1>1 DEF Tiled
<1>3. heap_end \in T
  BY <1>1, <1>2, KheapConstants
<1>4. T \in SUBSET Nat
  BY DEF Heads, IsHeap
<1>5. PICK e \in T : \A y \in T : e <= y
  BY <1>3, <1>4, NatMin
<1> QED
  BY <1>5 DEF IsEnd

\* The walk leaves a tiled heap without adjacent free blocks, and no allocated
\* block is moved, resized or absorbed by it.
LEMMA CoalescedFacts ==
    ASSUME NEW h, IsHeap(h), heap_end \in Nat, Tiled(h, heap_end)
    PROVE  LET g == Coalesced(h)
           IN  /\ DOMAIN g = Heads(h)
               /\ IsHeap(g)
               /\ Tiled(g, heap_end)
               /\ \A b, c \in DOMAIN g : g[b].free /\ g[c].free => b + g[b].size # c
               /\ \A b \in DOMAIN g : g[b].free = h[b].free
               /\ \A b \in DOMAIN h : ~h[b].free => b \in DOMAIN g /\ g[b] = h[b]
<1> DEFINE g == Coalesced(h)
           E(b) == CHOOSE e \in Heads(h) \cup {heap_end} : IsEnd(h, b, e)
<1>1. g = [b \in Heads(h) |-> [size |-> E(b) - b, free |-> h[b].free]]
  BY DEF Coalesced
<1>2. \A b \in Heads(h) : E(b) \in Heads(h) \cup {heap_end} /\ IsEnd(h, b, E(b))
  BY EndExists
<1> HIDE DEF E, g
<1>3. \A b \in Heads(h) : b \in DOMAIN h /\ b \in Nat /\ h[b] \in Block /\ h[b].size \in Nat /\ h[b].free \in BOOLEAN
  BY DEF Heads, IsHeap, Block
<1>4. \A b \in Heads(h) :
         E(b) \in Nat /\ E(b) > b /\ E(b) <= heap_end /\ E(b) >= b + h[b].size
  <2> SUFFICES ASSUME NEW b \in Heads(h)
               PROVE  E(b) \in Nat /\ E(b) > b /\ E(b) <= heap_end /\ E(b) >= b + h[b].size
    OBVIOUS
  <2>1. E(b) \in Nat /\ E(b) > b
    BY <1>2, <1>3 DEF IsEnd
  <2>2. E(b) = heap_end \/ E(b) \in DOMAIN h
    BY <1>2, <1>3
  <2>3. E(b) >= b + h[b].size
    BY <1>3, <2>1, <2>2 DEF Tiled
  <2>4. E(b) <= heap_end
    <3>1. heap_end > b
      BY <1>3, KheapConstants DEF Tiled
    <3> QED
      BY <1>2, <3>1 DEF IsEnd
  <2> QED
    BY <2>1, <2>3, <2>4
<1>5. DOMAIN g = Heads(h)
  BY <1>1
<1>6. \A b \in Heads(h) : g[b].size = E(b) - b /\ g[b].free = h[b].free
  BY <1>1
<1>7. IsHeap(g)
  <2>1. \A b \in Heads(h) : E(b) - b \in Nat
    BY <1>3, <1>4
  <2>2. \A b \in Heads(h) : [size |-> E(b) - b, free |-> h[b].free] \in Block
    BY <1>3, <2>1 DEF Block
  <2> QED
    BY <1>1, <1>3, <1>5, <2>2 DEF IsHeap
<1>8. Tiled(g, heap_end)
  <2>1. Start \in Heads(h)
    <3>1. ASSUME NEW a \in DOMAIN h PROVE a + h[a].size # Start
      <4>1. a \in Nat /\ h[a].size \in Nat /\ a >= Start /\ h[a].size >= MinBlock
        BY DEF IsHeap, Block, Tiled
      <4> QED
        BY <4>1, KheapConstants
    <3> QED
      BY <3>1 DEF Heads, Tiled
  <2>2. ASSUME NEW b \in Heads(h)
        PROVE  /\ b >= Start
               /\ g[b].size >= MinBlock
               /\ b + g[b].size \in Heads(h) \cup {heap_end}
               /\ b + g[b].size <= heap_end
    <3>1. b + g[b].size = E(b)
      BY <1>3, <1>4, <1>6
    <3>2. b >= Start /\ h[b].size >= MinBlock
      BY <1>3 DEF Tiled
    <3>3. g[b].size >= MinBlock
      BY <1>3, <1>4, <1>6, <3>2, KheapConstants
    <3> QED
      BY <1>2, <1>4, <3>1, <3>2, <3>3
  <2>3. ASSUME NEW b \in Heads(h), NEW c \in Heads(h), b < c
        PROVE  b + g[b].size <= c
    <3>1. b + g[b].size = E(b)
      BY <1>3, <1>4, <1>6
    <3>2. E(b) <= c
      BY <1>2, <1>3, <2>3 DEF IsEnd
    <3> QED
      BY <3>1, <3>2
  <2> QED
    BY <1>5, <2>1, <2>2, <2>3 DEF Tiled
<1>9. ASSUME NEW b \in Heads(h), NEW c \in Heads(h), h[b].free, h[c].free
      PROVE  b + g[b].size # c
  <2> SUFFICES ASSUME E(b) = c PROVE FALSE
    BY <1>3, <1>4, <1>6
  <2>1. b < c
    BY <1>4
  <2>2. PICK a \in DOMAIN h : b <= a /\ a < c /\ a + h[a].size = c
    BY <1>3, <2>1, Predecessor
  <2>3. ~h[a].free
    BY <1>9, <2>2 DEF Heads
  <2>4. a \in Heads(h) /\ a > b
    <3>1. a # b
      BY <1>9, <2>3
    <3>2. a \in Nat /\ b \in Nat
      BY <1>3 DEF IsHeap
    <3> QED
      BY <2>2, <2>3, <3>1, <3>2 DEF Heads
  <2>5. c <= a
    BY <1>2, <2>4 DEF IsEnd
  <2> QED
    BY <1>3, <2>2, <2>4, <2>5
<1>10. ASSUME NEW b \in DOMAIN h, ~h[b].free
       PROVE  b \in Heads(h) /\ g[b] = h[b]
  <2>1. b \in Heads(h)
    BY <1>10 DEF Heads
  <2> DEFINE n == b + h[b].size
  <2>2. n \in Nat /\ n > b
    BY <1>3, <2>1, KheapConstants DEF Tiled
  <2>3. n \in Heads(h) \cup {heap_end}
    <3> SUFFICES ASSUME n \in DOMAIN h,
                        NEW a \in DOMAIN h, h[a].free, a + h[a].size = n
                 PROVE  FALSE
      BY DEF Heads, Tiled
    <3>1. a \in Nat /\ b \in Nat /\ h[a].size \in Nat /\ h[b].size \in Nat
      BY DEF IsHeap, Block
    <3>2. h[a].size > 0 /\ h[b].size > 0
      BY <3>1, KheapConstants DEF Tiled
    <3>3. a # b
      BY <1>10
    <3>4. (a < b => a + h[a].size <= b) /\ (b < a => b + h[b].size <= a)
      BY DEF Tiled
    <3> QED
      BY <3>1, <3>2, <3>3, <3>4
  <2>4. E(b) <= n
    BY <1>2, <2>1, <2>2, <2>3 DEF IsEnd
  <2>5. E(b) = n
    BY <1>4, <2>1, <2>2, <2>4
  <2>6. g[b].size = h[b].size /\ g[b].free = h[b].free
    BY <1>3, <1>6, <2>1, <2>5
  <2>7. g[b] \in Block /\ h[b] \in Block
    BY <1>3, <1>5, <1>7, <2>1 DEF IsHeap
  <2> QED
    BY <2>1, <2>6, <2>7 DEF Block
<1> QED
  BY <1>5, <1>6, <1>7, <1>8, <1>9, <1>10 DEF g

(***************************************************************************)
(* The inductive invariant.  The type invariant and the four properties of *)
(* the blocks need, besides each other, that headers and the end of the    *)
(* heap are aligned and what total means while kmalloc searches.           *)
(***************************************************************************)

Aligned == Mult(heap_end) /\ \A b \in DOMAIN heap : Mult(b)

SearchInv ==
    pc = "search" => total >= want + HeaderSize /\ total >= MinBlock /\ Mult(total)

BlocksInv == Tiling /\ NoAdjacentFree /\ LiveExact /\ Aligned

IInv == TypeOK /\ BlocksInv /\ SearchInv /\ RetrySucceeds

\* The heap that kheap_init builds satisfies the invariant.
LEMMA InitIInv == Init => IInv
<1> SUFFICES ASSUME Init PROVE IInv
  OBVIOUS
<1>1. Mult(Start) /\ Mult(Start + InitialSize)
  <2>1. Start \in Nat /\ InitialSize \in Nat /\ PageSize \in Nat \ {0} /\ Mult(PageSize)
    BY KheapConstants, MultOfRemainder
  <2>2. ASSUME NEW x \in Nat, x % PageSize = 0 PROVE Mult(x)
    <3> DEFINE q == x \div PageSize
    <3>1. q \in Int /\ x = q * PageSize + (x % PageSize)
      BY <2>1
    <3> HIDE DEF q
    <3>2. x = q * PageSize
      BY <2>1, <2>2, <3>1
    <3>3. PICK j \in Int : PageSize = j * Align
      BY <2>1 DEF Mult
    <3>4. Align \in Int /\ q * (j * Align) = (q * j) * Align
      BY <3>1, KheapConstants
    <3>5. x = (q * j) * Align
      BY <3>2, <3>3, <3>4
    <3> QED
      BY <3>1, <3>5 DEF Mult
  <2>3. Mult(Start) /\ Mult(InitialSize)
    BY <2>1, <2>2, KheapConstants
  <2> QED
    BY <2>1, <2>3, MultClosed
<1>2. TypeOK
  <2>1. Pages(Start, Start + InitialSize) \subseteq Nat
    BY KheapConstants DEF Pages
  <2>2. [size |-> InitialSize, free |-> TRUE] \in Block
    BY KheapConstants DEF Block
  <2>3. DOMAIN heap \subseteq Nat /\ heap \in [DOMAIN heap -> Block]
    BY <2>2, KheapConstants DEF Init
  <2>4. DOMAIN live \subseteq Nat /\ live \in [DOMAIN live -> Nat]
    BY DEF Init
  <2>5. heap_end \in Nat /\ backed \subseteq Nat
    BY <2>1, KheapConstants DEF Init
  <2>6. pc \in {"idle", "search", "wild"} /\ want \in Nat /\ total \in Nat
    BY DEF Init
  <2>7. expanded \in BOOLEAN
    BY DEF Init
  <2> QED
    BY <2>3, <2>4, <2>5, <2>6, <2>7 DEF TypeOK
<1>3. Tiling /\ NoAdjacentFree
  BY KheapConstants DEF Init, Tiling, Tiled, NoAdjacentFree
<1>4. LiveExact /\ Aligned /\ SearchInv /\ RetrySucceeds
  BY <1>1 DEF Init, LiveExact, Aligned, SearchInv, RetrySucceeds
<1> QED
  BY <1>2, <1>3, <1>4 DEF IInv, BlocksInv

\* A call of kmalloc starts with a total that is aligned and large enough.
LEMMA CallStep ==
    ASSUME IInv, NEW size \in Sizes, kmalloc(size)
    PROVE  IInv'
<1>1. size \in Nat
  BY KheapConstants
<1>2. /\ BlockTotal(size) \in Nat
      /\ BlockTotal(size) >= size + HeaderSize
      /\ BlockTotal(size) >= MinBlock
      /\ Mult(BlockTotal(size))
  BY <1>1, BlockTotalFacts
<1>3. TypeOK'
  BY <1>1, <1>2 DEF IInv, kmalloc, TypeOK
<1>4. BlocksInv'
  BY DEF IInv, BlocksInv, kmalloc, Tiling, NoAdjacentFree, LiveExact, Aligned
<1>5. SearchInv' /\ RetrySucceeds'
  BY <1>2 DEF kmalloc, SearchInv, RetrySucceeds, Mult
<1> QED
  BY <1>3, <1>4, <1>5 DEF IInv

\* Taking a free block, split or whole, keeps the heap tiled.
LEMMA TakenFacts ==
    ASSUME IInv, pc = "search", NEW b \in DOMAIN heap, Fits(b)
    PROVE  LET g == Taken(b)
           IN  /\ IsHeap(g)
               /\ Tiled(g, heap_end)
               /\ \A c, d \in DOMAIN g : g[c].free /\ g[d].free => c + g[c].size # d
               /\ \A c \in DOMAIN g : Mult(c)
               /\ b \in DOMAIN g /\ ~g[b].free /\ g[b].size >= total
               /\ \A c \in DOMAIN heap : c # b => c \in DOMAIN g /\ g[c] = heap[c]
               /\ \A c \in DOMAIN g : ~g[c].free => (c = b \/ (c \in DOMAIN heap /\ ~heap[c].free))
<1> DEFINE g == Taken(b)
<1>1. /\ b \in Nat /\ heap[b].size \in Nat /\ total \in Nat /\ total >= MinBlock
      /\ heap[b].free /\ heap[b].size >= total /\ heap_end \in Nat
  BY DEF IInv, TypeOK, SearchInv, Fits, Block
<1>2. \A c \in DOMAIN heap : c \in Nat /\ heap[c] \in Block /\ heap[c].size \in Nat
  BY DEF IInv, TypeOK, Block
<1>3. CASE ~Splits(b)
  <2>1. g = [heap EXCEPT ![b].free = FALSE]
    BY <1>3 DEF Taken, Rest
  <2>2. DOMAIN g = DOMAIN heap
    BY <2>1
  <2>3. \A c \in DOMAIN heap : g[c].size = heap[c].size /\ (c # b => g[c] = heap[c])
    BY <1>2, <2>1 DEF Block
  <2>4. ~g[b].free
    BY <1>2, <2>1 DEF Block
  <2>5. \A c \in DOMAIN heap : g[c] \in Block
    BY <1>2, <2>1 DEF Block
  <2>6. IsHeap(g)
    BY <1>2, <2>1, <2>2, <2>5 DEF IsHeap
  <2> HIDE DEF g
  <2>7. Tiled(g, heap_end)
    BY <2>2, <2>3 DEF IInv, BlocksInv, Tiling, Tiled
  <2>8. \A c, d \in DOMAIN g : g[c].free /\ g[d].free => c + g[c].size # d
    BY <2>2, <2>3, <2>4 DEF IInv, BlocksInv, NoAdjacentFree
  <2>9. \A c \in DOMAIN g : Mult(c)
    BY <2>2 DEF IInv, BlocksInv, Aligned
  <2>10. b \in DOMAIN g /\ ~g[b].free /\ g[b].size >= total
    BY <1>1, <2>2, <2>3, <2>4
  <2>11. \A c \in DOMAIN g : ~g[c].free => (c = b \/ (c \in DOMAIN heap /\ ~heap[c].free))
    <3> SUFFICES ASSUME NEW c \in DOMAIN g, ~g[c].free, c # b
                 PROVE  c \in DOMAIN heap /\ ~heap[c].free
      OBVIOUS
    <3>1. c \in DOMAIN heap /\ g[c] = heap[c]
      BY <2>2, <2>3
    <3> QED
      BY <3>1, Zenon
  <2> QED
    BY <2>2, <2>3, <2>6, <2>7, <2>8, <2>9, <2>10, <2>11 DEF g
<1>4. CASE Splits(b)
  <2> DEFINE n == b + total
             rest == heap[b].size - total
  <2>1. /\ g = [c \in DOMAIN heap \cup {n} |->
                  CASE c = b    -> [size |-> total, free |-> FALSE]
                    [] c = n    -> [size |-> rest, free |-> TRUE]
                    [] OTHER    -> heap[c]]
        /\ rest \in Nat /\ rest >= MinBlock /\ n \in Nat /\ n > b
        /\ n + rest = b + heap[b].size
    BY <1>1, <1>4, KheapConstants DEF Taken, Rest, Splits
  <2> HIDE DEF g, rest
  <2>2. \A c \in DOMAIN heap : c # b => (c < b => c + heap[c].size <= b)
                                     /\ (b < c => b + heap[b].size <= c)
    BY <1>1 DEF IInv, BlocksInv, Tiling, Tiled
  <2>3. n \notin DOMAIN heap
    BY <1>1, <2>1, <2>2, KheapConstants
  <2>4. DOMAIN g = DOMAIN heap \cup {n}
    BY <2>1
  <2>5. g[b] = [size |-> total, free |-> FALSE]
    BY <2>1
  <2>6. g[n] = [size |-> rest, free |-> TRUE]
    BY <2>1
  <2>7. \A c \in DOMAIN heap : c # b => g[c] = heap[c]
    BY <2>1, <2>3
  <2>8. IsHeap(g)
    <3>1. \A c \in DOMAIN g : g[c] \in Block
      BY <1>1, <1>2, <2>1, <2>4, <2>5, <2>6, <2>7 DEF Block
    <3>2. DOMAIN g \subseteq Nat
      BY <1>2, <2>1, <2>4
    <3>3. g = [c \in DOMAIN g |-> g[c]]
      BY <2>1
    <3> QED
      BY <3>1, <3>2, <3>3 DEF IsHeap
  <2>9. Tiled(g, heap_end)
    <3>1. Start \in DOMAIN g
      BY <2>4 DEF IInv, BlocksInv, Tiling, Tiled
    <3>2. ASSUME NEW c \in DOMAIN g
          PROVE  /\ c >= Start
                 /\ g[c].size >= MinBlock
                 /\ c + g[c].size \in DOMAIN g \cup {heap_end}
                 /\ c + g[c].size <= heap_end
      <4>0. /\ b >= Start /\ b + heap[b].size <= heap_end
            /\ b + heap[b].size \in DOMAIN heap \cup {heap_end}
        BY DEF IInv, BlocksInv, Tiling, Tiled
      <4>1. CASE c = b
        BY <4>0, <4>1, <1>1, <2>4, <2>5, <2>1
      <4>2. CASE c = n
        BY <4>0, <4>2, <1>1, <2>4, <2>6, <2>1, KheapConstants
      <4>3. CASE c # b /\ c \in DOMAIN heap
        BY <4>3, <2>4, <2>7 DEF IInv, BlocksInv, Tiling, Tiled
      <4> QED
        BY <2>4, <4>1, <4>2, <4>3
    <3>3. ASSUME NEW c \in DOMAIN g, NEW d \in DOMAIN g, c < d
          PROVE  c + g[c].size <= d
      <4>0. ASSUME NEW x \in DOMAIN heap, NEW y \in DOMAIN heap, x < y
            PROVE  x + heap[x].size <= y
        BY <4>0 DEF IInv, BlocksInv, Tiling, Tiled
      <4>1. CASE c = b
        BY <4>1, <3>3, <1>1, <1>2, <2>1, <2>2, <2>4, <2>5
      <4>2. CASE c = n
        <5>1. d \in DOMAIN heap /\ d # b /\ b < d
          BY <4>2, <3>3, <1>1, <1>2, <2>1, <2>4
        <5> QED
          BY <5>1, <4>2, <2>1, <2>2, <2>6
      <4>3. CASE c # b /\ c \in DOMAIN heap /\ d = n
        <5>1. c < b
          BY <4>3, <3>3, <1>1, <1>2, <2>1, <2>2
        <5> QED
          BY <5>1, <4>3, <1>1, <1>2, <2>1, <2>2, <2>7
      <4>4. CASE c # b /\ c \in DOMAIN heap /\ d \in DOMAIN heap
        BY <4>4, <3>3, <4>0, <2>7
      <4> QED
        BY <2>4, <4>1, <4>2, <4>3, <4>4
    <3> QED
      BY <3>1, <3>2, <3>3 DEF Tiled
  <2>10. ASSUME NEW c \in DOMAIN g, NEW d \in DOMAIN g, g[c].free, g[d].free
         PROVE  c + g[c].size # d
    <3>0. c # b /\ d # b
      BY <2>5, <2>10
    <3>1. CASE c = n
      <4>1. d = n \/ (d \in DOMAIN heap /\ heap[d].free)
        BY <2>4, <2>7, <2>10, <3>0
      <4>2. b + heap[b].size # d \/ d = n
        BY <4>1, <1>1 DEF IInv, BlocksInv, NoAdjacentFree
      <4> QED
        BY <3>1, <4>1, <4>2, <1>1, <2>1, <2>6, KheapConstants
    <3>2. CASE c # n /\ d = n
      <4>1. c \in DOMAIN heap /\ g[c] = heap[c] /\ c \in Nat /\ heap[c].size \in Nat
        BY <3>0, <3>2, <1>2, <2>4, <2>7
      <4>2. CASE c < b
        BY <3>2, <4>1, <4>2, <2>1, <2>2, <1>1
      <4>3. CASE b < c
        BY <3>2, <4>1, <4>3, <2>1, <2>2, <1>1, KheapConstants
      <4> QED
        BY <3>0, <4>1, <4>2, <4>3, <1>1
    <3>3. CASE c # n /\ d # n
      BY <3>0, <3>3, <2>4, <2>7, <2>10 DEF IInv, BlocksInv, NoAdjacentFree
    <3> QED
      BY <3>1, <3>2, <3>3
  <2>11. Mult(n)
    BY <1>1, MultClosed DEF IInv, BlocksInv, Aligned, SearchInv
  <2>12. \A c \in DOMAIN g : Mult(c)
    BY <2>4, <2>11 DEF IInv, BlocksInv, Aligned
  <2>13. b \in DOMAIN g /\ ~g[b].free /\ g[b].size >= total
    BY <2>4, <2>5, <1>1
  <2>14. \A c \in DOMAIN g : ~g[c].free => (c = b \/ (c \in DOMAIN heap /\ ~heap[c].free))
    <3> SUFFICES ASSUME NEW c \in DOMAIN g, ~g[c].free, c # b
                 PROVE  c \in DOMAIN heap /\ ~heap[c].free
      OBVIOUS
    <3>1. c # n
      BY <2>6
    <3>2. c \in DOMAIN heap /\ g[c] = heap[c]
      BY <2>4, <2>7, <3>1
    <3> QED
      BY <3>2, Zenon
  <2> QED
    BY <2>4, <2>7, <2>8, <2>9, <2>10, <2>12, <2>13, <2>14 DEF g
<1> QED
  BY <1>3, <1>4

\* The step of kmalloc that finds a block keeps the invariant.
LEMMA FoundStep ==
    ASSUME IInv, NEW b \in DOMAIN heap, kmalloc_found(b)
    PROVE  IInv'
<1>1. CASE Splits(b) /\ ~HeaderBacked(b + total)
  <2>1. heap' = heap /\ heap_end' = heap_end /\ live' = live /\ pc' = "wild"
        /\ backed' = backed /\ want' = want /\ total' = total /\ expanded' = expanded
    BY <1>1 DEF kmalloc_found
  <2> QED
    BY <2>1 DEF IInv, TypeOK, BlocksInv, Tiling, NoAdjacentFree, LiveExact, Aligned,
                SearchInv, RetrySucceeds
<1>2. CASE ~(Splits(b) /\ ~HeaderBacked(b + total))
  <2> DEFINE g == Taken(b)
             p == b + HeaderSize
  <2>1. /\ heap' = g /\ heap_end' = heap_end /\ backed' = backed
        /\ pc' = "idle" /\ want' = 0 /\ total' = 0 /\ expanded' = FALSE
        /\ live' = [q \in DOMAIN live \cup {p} |-> IF q = p THEN want ELSE live[q]]
        /\ pc = "search" /\ Fits(b)
    BY <1>2 DEF kmalloc_found, Return, FirstFit
  <2>2. /\ IsHeap(g)
        /\ Tiled(g, heap_end)
        /\ \A c, d \in DOMAIN g : g[c].free /\ g[d].free => c + g[c].size # d
        /\ \A c \in DOMAIN g : Mult(c)
        /\ b \in DOMAIN g /\ ~g[b].free /\ g[b].size >= total
        /\ \A c \in DOMAIN heap : c # b => c \in DOMAIN g /\ g[c] = heap[c]
        /\ \A c \in DOMAIN g : ~g[c].free => (c = b \/ (c \in DOMAIN heap /\ ~heap[c].free))
    BY <2>1, TakenFacts
  <2> HIDE DEF g
  <2>3. b \in Nat /\ p \in Nat /\ p - HeaderSize = b /\ HeaderSize \in Nat
    BY KheapConstants DEF IInv, TypeOK
  <2>4. DOMAIN live' = DOMAIN live \cup {p} /\ live'[p] = want
        /\ \A q \in DOMAIN live : q # p => live'[q] = live[q]
    BY <2>1
  <2>5. TypeOK'
    <3>1. live' \in [DOMAIN live' -> Nat] /\ DOMAIN live' \subseteq Nat
      BY <2>1, <2>3 DEF IInv, TypeOK
    <3>2. heap' \in [DOMAIN heap' -> Block] /\ DOMAIN heap' \subseteq Nat
      BY <2>1, <2>2 DEF IsHeap
    <3> QED
      BY <2>1, <3>1, <3>2 DEF IInv, TypeOK
  <2>6. Tiling' /\ NoAdjacentFree' /\ Aligned'
    BY <2>1, <2>2 DEF IInv, BlocksInv, Tiling, NoAdjacentFree, Aligned
  <2>7. LiveExact'
    <3>1. ASSUME NEW q \in DOMAIN live'
          PROVE  /\ q - HeaderSize \in DOMAIN g
                 /\ ~g[q - HeaderSize].free
                 /\ g[q - HeaderSize].size >= live'[q] + HeaderSize
      <4>1. CASE q = p
        <5>1. total >= want + HeaderSize /\ total \in Nat /\ want \in Nat /\ g[b].size \in Nat
          BY <2>1, <2>2 DEF IInv, SearchInv, TypeOK, IsHeap, Block
        <5> QED
          BY <4>1, <5>1, <2>2, <2>3, <2>4
      <4>2. CASE q # p
        <5>1. q \in DOMAIN live /\ q \in Nat /\ live'[q] = live[q]
          BY <4>2, <2>4 DEF IInv, TypeOK
        <5>2. q - HeaderSize # b
          BY <4>2, <5>1, <2>3
        <5>3. /\ q - HeaderSize \in DOMAIN heap
              /\ ~heap[q - HeaderSize].free
              /\ heap[q - HeaderSize].size >= live[q] + HeaderSize
          BY <5>1 DEF IInv, BlocksInv, LiveExact
        <5>4. q - HeaderSize \in DOMAIN g /\ g[q - HeaderSize] = heap[q - HeaderSize]
          BY <5>2, <5>3, <2>2
        <5>5. ~g[q - HeaderSize].free
          BY <5>3, <5>4, Zenon
        <5> QED
          BY <5>1, <5>3, <5>4, <5>5
      <4> QED
        BY <4>1, <4>2
    <3>2. ASSUME NEW c \in DOMAIN g, ~g[c].free
          PROVE  c + HeaderSize \in DOMAIN live'
      BY <3>2, <2>2, <2>4 DEF IInv, BlocksInv, LiveExact
    <3> QED
      BY <2>1, <3>1, <3>2 DEF LiveExact
  <2>8. SearchInv' /\ RetrySucceeds'
    BY <2>1 DEF SearchInv, RetrySucceeds
  <2> QED
    BY <2>5, <2>6, <2>7, <2>8 DEF IInv, BlocksInv
<1> QED
  BY <1>1, <1>2

\* A kmalloc that fails leaves the heap alone.
LEMMA FailStep ==
    ASSUME IInv, kmalloc_fail
    PROVE  IInv'
<1>1. /\ heap' = heap /\ heap_end' = heap_end /\ live' = live /\ backed' = backed
      /\ pc' = "idle" /\ want' = 0 /\ total' = 0 /\ expanded' = FALSE
  BY DEF kmalloc_fail, Return
<1> QED
  BY <1>1 DEF IInv, TypeOK, BlocksInv, Tiling, NoAdjacentFree, LiveExact, Aligned,
              SearchInv, RetrySucceeds

\* Growing the heap keeps it tiled, touches no allocated block and leaves a
\* free block that is large enough for the request.
LEMMA GrownFacts ==
    ASSUME IInv, pc = "search"
    PROVE  LET g == Grown
           IN  /\ IsHeap(g)
               /\ Tiled(g, heap_end + Expansion)
               /\ \A c, d \in DOMAIN g : g[c].free /\ g[d].free => c + g[c].size # d
               /\ \A c \in DOMAIN g : Mult(c)
               /\ \E c \in DOMAIN g : g[c].free /\ g[c].size >= total
               /\ \A c \in DOMAIN heap : ~heap[c].free => c \in DOMAIN g /\ g[c] = heap[c]
               /\ \A c \in DOMAIN g : ~g[c].free => c \in DOMAIN heap /\ ~heap[c].free
<1> DEFINE g == Grown
           x == Expansion
           last == {b \in DOMAIN heap : heap[b].free /\ b + heap[b].size = heap_end}
<1>1. /\ x \in Nat /\ x >= total /\ x >= PageSize /\ total \in Nat /\ heap_end \in Nat
      /\ x >= MinBlock /\ MinBlock > 0 /\ MinBlock \in Nat
  BY ExpansionFacts, KheapConstants DEF IInv, TypeOK
<1>2. \A c \in DOMAIN heap : c \in Nat /\ heap[c] \in Block /\ heap[c].size \in Nat
                             /\ heap[c].free \in BOOLEAN
  BY DEF IInv, TypeOK, Block
<1>3. Tiled(heap, heap_end)
  BY DEF IInv, BlocksInv, Tiling
<1>4. \A c \in DOMAIN heap :
         /\ c >= Start /\ heap[c].size >= MinBlock /\ c + heap[c].size <= heap_end
         /\ c + heap[c].size \in DOMAIN heap \cup {heap_end} /\ c < heap_end
  BY <1>1, <1>2, <1>3 DEF Tiled
<1>5. \A c, d \in DOMAIN heap : heap[c].free /\ heap[d].free => c + heap[c].size # d
  BY DEF IInv, BlocksInv, NoAdjacentFree
<1>6. g = IF last # {}
          THEN [b \in DOMAIN heap |->
                  IF b \in last THEN [heap[b] EXCEPT !.size = @ + x] ELSE heap[b]]
          ELSE [b \in DOMAIN heap \cup {heap_end} |->
                  IF b = heap_end THEN [size |-> x, free |-> TRUE] ELSE heap[b]]
  BY DEF Grown
<1> HIDE DEF g, x
<1>7. CASE last # {}
  <2>1. PICK l \in last : TRUE
    BY <1>7
  <2>2. l \in DOMAIN heap /\ heap[l].free /\ l + heap[l].size = heap_end
    BY <2>1
  <2>3. \A b \in DOMAIN heap : b # l => b + heap[b].size <= l
    <3> SUFFICES ASSUME NEW b \in DOMAIN heap, b # l PROVE b + heap[b].size <= l
      OBVIOUS
    <3>1. ~(l < b)
      BY <2>2, <1>2, <1>3, <1>4 DEF Tiled
    <3> QED
      BY <3>1, <2>2, <1>2, <1>3 DEF Tiled
  <2>4. last = {l}
    BY <2>1, <2>3, <1>2, <1>4
  <2> HIDE DEF last
  <2>5. g = [b \in DOMAIN heap |->
               IF b = l THEN [heap[b] EXCEPT !.size = @ + x] ELSE heap[b]]
    BY <1>6, <2>4
  <2>6. DOMAIN g = DOMAIN heap
    BY <2>5
  <2>7. \A c \in DOMAIN heap : c # l => g[c] = heap[c]
    BY <2>5
  <2>8. g[l] \in Block /\ g[l].size = heap[l].size + x /\ g[l].free
    BY <2>5, <2>2, <1>1, <1>2 DEF Block
  <2>9. IsHeap(g)
    <3>1. \A c \in DOMAIN g : g[c] \in Block
      BY <1>2, <2>6, <2>7, <2>8
    <3>2. g = [c \in DOMAIN g |-> g[c]]
      BY <2>5
    <3> QED
      BY <1>2, <2>6, <3>1, <3>2 DEF IsHeap
  <2>10. Tiled(g, heap_end + x)
    <3>1. Start \in DOMAIN g
      BY <1>3, <2>6 DEF Tiled
    <3>2. ASSUME NEW c \in DOMAIN heap
          PROVE  /\ c >= Start
                 /\ g[c].size >= MinBlock
                 /\ c + g[c].size \in DOMAIN heap \cup {heap_end + x}
                 /\ c + g[c].size <= heap_end + x
      <4>1. CASE c = l
        BY <4>1, <1>1, <1>2, <1>4, <2>2, <2>8
      <4>2. CASE c # l
        BY <4>2, <1>1, <1>2, <1>4, <2>2, <2>3, <2>7
      <4> QED
        BY <4>1, <4>2
    <3>3. ASSUME NEW c \in DOMAIN heap, NEW d \in DOMAIN heap, c < d
          PROVE  c + g[c].size <= d
      <4>1. c # l
        BY <3>3, <2>2, <2>3, <1>1, <1>2, <1>4
      <4> QED
        BY <4>1, <3>3, <2>7, <1>3 DEF Tiled
    <3> QED
      BY <2>6, <3>1, <3>2, <3>3 DEF Tiled
  <2>11. ASSUME NEW c \in DOMAIN heap, NEW d \in DOMAIN heap, g[c].free, g[d].free
         PROVE  c + g[c].size # d
    <3>1. heap[d].free /\ heap[c].free
      BY <2>2, <2>7, <2>11
    <3>2. CASE c = l
      BY <3>2, <2>2, <2>8, <1>1, <1>2, <1>4
    <3>3. CASE c # l
      BY <3>1, <3>3, <2>7, <1>5
    <3> QED
      BY <3>2, <3>3
  <2>12. \A c \in DOMAIN g : Mult(c)
    BY <2>6 DEF IInv, BlocksInv, Aligned
  <2>13. g[l].size >= total
    BY <2>2, <2>8, <1>1, <1>2
  <2>14. ASSUME NEW c \in DOMAIN heap, ~heap[c].free PROVE g[c] = heap[c]
    BY <2>2, <2>7, <2>14
  <2>15. ASSUME NEW c \in DOMAIN g, ~g[c].free
         PROVE  c \in DOMAIN heap /\ ~heap[c].free
    <3>1. c # l
      BY <2>8, <2>15
    <3>2. c \in DOMAIN heap /\ g[c] = heap[c]
      BY <2>6, <2>7, <3>1
    <3> QED
      BY <2>15, <3>2, Zenon
  <2> QED
    BY <2>2, <2>6, <2>8, <2>9, <2>10, <2>11, <2>12, <2>13, <2>14, <2>15 DEF g, x
<1>8. CASE last = {}
  <2>1. \A c \in DOMAIN heap : heap[c].free => c + heap[c].size # heap_end
    BY <1>8
  <2> HIDE DEF last
  <2>2. g = [b \in DOMAIN heap \cup {heap_end} |->
               IF b = heap_end THEN [size |-> x, free |-> TRUE] ELSE heap[b]]
    BY <1>6, <1>8
  <2>3. heap_end \notin DOMAIN heap
    BY <1>1, <1>2, <1>4
  <2>4. DOMAIN g = DOMAIN heap \cup {heap_end}
    BY <2>2
  <2>5. \A c \in DOMAIN heap : g[c] = heap[c]
    BY <2>2, <2>3
  <2>6. g[heap_end] = [size |-> x, free |-> TRUE]
    BY <2>2
  <2>7. g[heap_end] \in Block /\ g[heap_end].size = x /\ g[heap_end].free
    BY <2>6, <1>1 DEF Block
  <2>8. IsHeap(g)
    <3>1. \A c \in DOMAIN g : g[c] \in Block
      BY <1>2, <2>4, <2>5, <2>7
    <3>2. g = [c \in DOMAIN g |-> g[c]]
      BY <2>2
    <3> QED
      BY <1>1, <1>2, <2>4, <3>1, <3>2 DEF IsHeap
  <2>9. Tiled(g, heap_end + x)
    <3>1. Start \in DOMAIN g
      BY <1>3, <2>4 DEF Tiled
    <3>2. ASSUME NEW c \in DOMAIN g
          PROVE  /\ c >= Start
                 /\ g[c].size >= MinBlock
                 /\ c + g[c].size \in DOMAIN g \cup {heap_end + x}
                 /\ c + g[c].size <= heap_end + x
      <4>1. CASE c = heap_end
        <5>1. heap_end >= Start
          BY <1>1, <1>2, <1>3, <1>4, KheapConstants DEF Tiled
        <5> QED
          BY <4>1, <5>1, <1>1, <2>7
      <4>2. CASE c \in DOMAIN heap
        BY <4>2, <1>1, <1>2, <1>4, <2>4, <2>5
      <4> QED
        BY <2>4, <4>1, <4>2
    <3>3. ASSUME NEW c \in DOMAIN g, NEW d \in DOMAIN g, c < d
          PROVE  c + g[c].size <= d
      <4>1. c \in DOMAIN heap
        BY <3>3, <1>1, <1>2, <1>4, <2>4
      <4> QED
        BY <4>1, <3>3, <1>3, <1>4, <2>4, <2>5 DEF Tiled
    <3> QED
      BY <3>1, <3>2, <3>3 DEF Tiled
  <2>10. ASSUME NEW c \in DOMAIN g, NEW d \in DOMAIN g, g[c].free, g[d].free
         PROVE  c + g[c].size # d
    <3>1. CASE c = heap_end
      BY <3>1, <1>1, <1>2, <1>4, <2>4, <2>7
    <3>2. CASE c \in DOMAIN heap
      BY <3>2, <2>1, <2>4, <2>5, <2>10, <1>5
    <3> QED
      BY <2>4, <3>1, <3>2
  <2>11. \A c \in DOMAIN g : Mult(c)
    BY <2>4 DEF IInv, BlocksInv, Aligned
  <2>12. ASSUME NEW c \in DOMAIN g, ~g[c].free
         PROVE  c \in DOMAIN heap /\ ~heap[c].free
    <3>1. c \in DOMAIN heap /\ g[c] = heap[c]
      BY <2>4, <2>5, <2>7, <2>12
    <3> QED
      BY <2>12, <3>1, Zenon
  <2>13. \E c \in DOMAIN g : g[c].free /\ g[c].size >= total
    BY <2>4, <2>7, <1>1
  <2> QED
    BY <2>4, <2>5, <2>8, <2>9, <2>10, <2>11, <2>12, <2>13 DEF g, x
<1> QED
  BY <1>7, <1>8

\* An expansion, complete or not, keeps the invariant; its retry will succeed.
LEMMA ExpandStep ==
    ASSUME IInv, NEW n \in 0 .. Expansion \div PageSize, kmalloc_expand(n)
    PROVE  IInv'
<1>1. /\ Expansion \in Nat /\ Mult(Expansion) /\ heap_end \in Nat /\ Mult(heap_end)
      /\ pc = "search"
  BY ExpansionFacts DEF IInv, TypeOK, BlocksInv, Aligned, kmalloc_expand
<1>2. /\ live' = live /\ want' = want /\ total' = total
      /\ backed' = backed \cup (heap_end \div PageSize .. heap_end \div PageSize + n - 1)
  BY DEF kmalloc_expand
<1>3. backed' \subseteq Nat
  <2>1. heap_end \div PageSize \in Nat
    BY <1>1, KheapConstants
  <2> DEFINE f == heap_end \div PageSize
  <2>2. f .. f + n - 1 \subseteq Nat
    BY <2>1
  <2> QED
    BY <1>2, <2>2 DEF IInv, TypeOK
<1>4. CASE n = 0
  <2>1. heap' = heap /\ heap_end' = heap_end /\ pc' = "wild" /\ expanded' = expanded
    BY <1>4 DEF kmalloc_expand
  <2> QED
    BY <1>2, <1>3, <2>1 DEF IInv, TypeOK, BlocksInv, Tiling, NoAdjacentFree, LiveExact,
                            Aligned, SearchInv, RetrySucceeds
<1>5. CASE n # 0
  <2> DEFINE g == Grown
             e == heap_end + Expansion
  <2>1. heap' = g /\ heap_end' = e /\ pc' = pc /\ expanded' = TRUE
    BY <1>5 DEF kmalloc_expand
  <2>2. /\ IsHeap(g)
        /\ Tiled(g, e)
        /\ \A c, d \in DOMAIN g : g[c].free /\ g[d].free => c + g[c].size # d
        /\ \A c \in DOMAIN g : Mult(c)
        /\ \E c \in DOMAIN g : g[c].free /\ g[c].size >= total
        /\ \A c \in DOMAIN heap : ~heap[c].free => c \in DOMAIN g /\ g[c] = heap[c]
        /\ \A c \in DOMAIN g : ~g[c].free => c \in DOMAIN heap /\ ~heap[c].free
    BY <1>1, GrownFacts
  <2>3. e \in Nat /\ Mult(e)
    BY <1>1, MultClosed
  <2> HIDE DEF g, e
  <2>4. TypeOK'
    BY <1>2, <1>3, <2>1, <2>2, <2>3 DEF IInv, TypeOK, IsHeap
  <2>5. Tiling' /\ NoAdjacentFree' /\ Aligned'
    BY <2>1, <2>2, <2>3 DEF Tiling, NoAdjacentFree, Aligned
  <2>6. LiveExact'
    <3>1. ASSUME NEW p \in DOMAIN live
          PROVE  /\ p - HeaderSize \in DOMAIN g
                 /\ ~g[p - HeaderSize].free
                 /\ g[p - HeaderSize].size >= live[p] + HeaderSize
      <4>1. /\ p - HeaderSize \in DOMAIN heap
            /\ ~heap[p - HeaderSize].free
            /\ heap[p - HeaderSize].size >= live[p] + HeaderSize
        BY DEF IInv, BlocksInv, LiveExact
      <4>2. p - HeaderSize \in DOMAIN g /\ g[p - HeaderSize] = heap[p - HeaderSize]
        BY <2>2, <4>1
      <4>3. ~g[p - HeaderSize].free
        BY <4>1, <4>2, Zenon
      <4> QED
        BY <4>1, <4>2, <4>3
    <3>2. ASSUME NEW c \in DOMAIN g, ~g[c].free PROVE c + HeaderSize \in DOMAIN live
      BY <2>2, <3>2 DEF IInv, BlocksInv, LiveExact
    <3> QED
      BY <1>2, <2>1, <3>1, <3>2 DEF LiveExact
  <2>7. SearchInv'
    BY <1>2, <2>1 DEF IInv, SearchInv, Mult
  <2>8. RetrySucceeds'
    BY <1>2, <2>1, <2>2 DEF RetrySucceeds, NoFit, Fits
  <2> QED
    BY <2>4, <2>5, <2>6, <2>7, <2>8 DEF IInv, BlocksInv
<1> QED
  BY <1>4, <1>5

\* Marking a held block free leaves a tiled heap for the walk to coalesce.
LEMMA MarkedFacts ==
    ASSUME IInv, NEW ptr \in DOMAIN live
    PROVE  LET h == [heap EXCEPT ![ptr - HeaderSize].free = TRUE]
           IN  /\ IsHeap(h)
               /\ Tiled(h, heap_end)
               /\ DOMAIN h = DOMAIN heap
               /\ h[ptr - HeaderSize].free
               /\ \A c \in DOMAIN heap : c # ptr - HeaderSize => h[c] = heap[c]
<1> DEFINE b == ptr - HeaderSize
           h == [heap EXCEPT ![b].free = TRUE]
<1>1. b \in DOMAIN heap
  BY DEF IInv, BlocksInv, LiveExact
<1> HIDE DEF b
<1>2. \A c \in DOMAIN heap : c \in Nat /\ heap[c] \in Block
  BY DEF IInv, TypeOK
<1>3. DOMAIN h = DOMAIN heap /\ h = [c \in DOMAIN h |-> h[c]]
  OBVIOUS
<1>4. \A c \in DOMAIN heap : c # b => h[c] = heap[c]
  OBVIOUS
<1>5. h[b] \in Block /\ h[b].free /\ h[b].size = heap[b].size
  BY <1>1, <1>2 DEF Block
<1> HIDE DEF h
<1>6. IsHeap(h)
  <2>1. \A c \in DOMAIN h : h[c] \in Block
    BY <1>2, <1>3, <1>4, <1>5
  <2> QED
    BY <1>2, <1>3, <2>1 DEF IsHeap
<1>7. \A c \in DOMAIN heap : h[c].size = heap[c].size
  BY <1>4, <1>5
<1>8. Tiled(h, heap_end)
  BY <1>3, <1>7 DEF IInv, BlocksInv, Tiling, Tiled
<1> QED
  BY <1>3, <1>4, <1>5, <1>6, <1>8 DEF h, b

\* What kfree does to the heap, on top of what coalescing does in general.
LEMMA FreedFacts ==
    ASSUME IInv, NEW ptr \in DOMAIN live, kfree(ptr)
    PROVE  /\ IsHeap(heap')
           /\ Tiled(heap', heap_end)
           /\ \A b, c \in DOMAIN heap' :
                 heap'[b].free /\ heap'[c].free => b + heap'[b].size # c
           /\ DOMAIN heap' \subseteq DOMAIN heap
           /\ \A b \in DOMAIN heap : b # ptr - HeaderSize /\ ~heap[b].free =>
                 b \in DOMAIN heap' /\ heap'[b] = heap[b]
           /\ \A b \in DOMAIN heap' : ~heap'[b].free =>
                 b # ptr - HeaderSize /\ ~heap[b].free
<1> DEFINE h == [heap EXCEPT ![ptr - HeaderSize].free = TRUE]
           q == ptr - HeaderSize
<1>1. /\ IsHeap(h) /\ Tiled(h, heap_end) /\ DOMAIN h = DOMAIN heap
      /\ h[q].free /\ \A c \in DOMAIN heap : c # q => h[c] = heap[c]
  BY MarkedFacts
<1>2. heap' = Coalesced(h)
  BY DEF kfree
<1>3. heap_end \in Nat
  BY DEF IInv, TypeOK
<1> HIDE DEF h, q
<1>4. /\ DOMAIN heap' = Heads(h)
      /\ IsHeap(heap')
      /\ Tiled(heap', heap_end)
      /\ \A b, c \in DOMAIN heap' :
            heap'[b].free /\ heap'[c].free => b + heap'[b].size # c
      /\ \A b \in DOMAIN heap' : heap'[b].free = h[b].free
      /\ \A b \in DOMAIN h : ~h[b].free => b \in DOMAIN heap' /\ heap'[b] = h[b]
  BY <1>1, <1>2, <1>3, CoalescedFacts
<1>5. DOMAIN heap' \subseteq DOMAIN heap
  BY <1>1, <1>4 DEF Heads
<1>6. ASSUME NEW b \in DOMAIN heap, b # q, ~heap[b].free
      PROVE  b \in DOMAIN heap' /\ heap'[b] = heap[b]
  <2>1. b \in DOMAIN h /\ h[b] = heap[b]
    BY <1>1, <1>6
  <2>2. ~h[b].free
    BY <1>6, <2>1, Zenon
  <2> QED
    BY <1>4, <2>1, <2>2
<1>7. ASSUME NEW b \in DOMAIN heap', ~heap'[b].free
      PROVE  b # q /\ ~heap[b].free
  <2>1. ~h[b].free
    BY <1>4, <1>7, Zenon
  <2>2. b # q
    BY <1>1, <2>1
  <2>3. h[b] = heap[b]
    BY <1>1, <1>5, <2>2
  <2> QED
    BY <2>1, <2>2, <2>3, Zenon
<1> QED
  BY <1>4, <1>5, <1>6, <1>7 DEF q

\* kfree keeps the invariant.
LEMMA FreeStep ==
    ASSUME IInv, NEW ptr \in DOMAIN live, kfree(ptr)
    PROVE  IInv'
<1> DEFINE q == ptr - HeaderSize
<1>1. /\ IsHeap(heap')
      /\ Tiled(heap', heap_end)
      /\ \A b, c \in DOMAIN heap' :
            heap'[b].free /\ heap'[c].free => b + heap'[b].size # c
      /\ DOMAIN heap' \subseteq DOMAIN heap
      /\ \A b \in DOMAIN heap : b # q /\ ~heap[b].free =>
            b \in DOMAIN heap' /\ heap'[b] = heap[b]
      /\ \A b \in DOMAIN heap' : ~heap'[b].free => b # q /\ ~heap[b].free
  BY FreedFacts
<1>2. /\ heap_end' = heap_end /\ backed' = backed /\ pc' = pc /\ pc = "idle"
      /\ want' = want /\ total' = total /\ expanded' = expanded
      /\ live' = [p \in DOMAIN live \ {ptr} |-> live[p]]
  BY DEF kfree
<1>3. DOMAIN live' = DOMAIN live \ {ptr} /\ \A p \in DOMAIN live' : live'[p] = live[p]
  BY <1>2
<1>4. \A p \in DOMAIN live : p \in Nat
  BY DEF IInv, TypeOK
<1>5. HeaderSize \in Nat
  BY KheapConstants
<1>6. TypeOK'
  BY <1>1, <1>2 DEF IInv, TypeOK, IsHeap
<1>7. Tiling' /\ NoAdjacentFree' /\ Aligned'
  BY <1>1, <1>2 DEF IInv, BlocksInv, Tiling, NoAdjacentFree, Aligned
<1>8. LiveExact'
  <2>1. ASSUME NEW p \in DOMAIN live'
        PROVE  /\ p - HeaderSize \in DOMAIN heap'
               /\ ~heap'[p - HeaderSize].free
               /\ heap'[p - HeaderSize].size >= live'[p] + HeaderSize
    <3>1. p \in DOMAIN live /\ p # ptr /\ live'[p] = live[p]
      BY <1>3
    <3>2. /\ p - HeaderSize \in DOMAIN heap
          /\ ~heap[p - HeaderSize].free
          /\ heap[p - HeaderSize].size >= live[p] + HeaderSize
      BY <3>1 DEF IInv, BlocksInv, LiveExact
    <3>3. p - HeaderSize # q
      BY <1>4, <1>5, <3>1
    <3>4. p - HeaderSize \in DOMAIN heap' /\ heap'[p - HeaderSize] = heap[p - HeaderSize]
      BY <1>1, <3>2, <3>3
    <3>5. ~heap'[p - HeaderSize].free
      BY <3>2, <3>4, Zenon
    <3> QED
      BY <3>1, <3>2, <3>4, <3>5
  <2>2. ASSUME NEW b \in DOMAIN heap', ~heap'[b].free
        PROVE  b + HeaderSize \in DOMAIN live'
    <3>1. b \in DOMAIN heap /\ b \in Nat /\ b # q /\ ~heap[b].free
      BY <1>1, <2>2 DEF IInv, TypeOK
    <3>2. b + HeaderSize \in DOMAIN live
      BY <3>1 DEF IInv, BlocksInv, LiveExact
    <3>3. b + HeaderSize # ptr
      BY <1>4, <1>5, <3>1
    <3> QED
      BY <1>3, <3>2, <3>3
  <2> QED
    BY <2>1, <2>2 DEF LiveExact
<1>9. SearchInv' /\ RetrySucceeds'
  BY <1>2 DEF SearchInv, RetrySucceeds
<1> QED
  BY <1>6, <1>7, <1>8, <1>9 DEF IInv, BlocksInv

\* Every step of the heap keeps the invariant.
LEMMA NextIInv == IInv /\ [Next]_vars => IInv'
<1> SUFFICES ASSUME IInv, [Next]_vars PROVE IInv'
  OBVIOUS
<1>1. CASE UNCHANGED vars
  <2>1. /\ heap' = heap /\ heap_end' = heap_end /\ live' = live /\ backed' = backed
        /\ pc' = pc /\ want' = want /\ total' = total /\ expanded' = expanded
    BY <1>1 DEF vars
  <2> QED
    BY <2>1 DEF IInv, TypeOK, BlocksInv, Tiling, NoAdjacentFree, LiveExact, Aligned,
                SearchInv, RetrySucceeds, NoFit, Fits
<1>2. CASE kmalloc_zero \/ kfree_null \/ Wild
  BY <1>1, <1>2 DEF kmalloc_zero, kfree_null, Wild
<1>3. CASE \E size \in Sizes : kmalloc(size)
  BY <1>3, CallStep
<1>4. CASE \E b \in DOMAIN heap : kmalloc_found(b)
  BY <1>4, FoundStep
<1>5. CASE kmalloc_fail
  BY <1>5, FailStep
<1>6. CASE \E n \in 0 .. Expansion \div PageSize : kmalloc_expand(n)
  BY <1>6, ExpandStep
<1>7. CASE \E ptr \in DOMAIN live : kfree(ptr)
  BY <1>7, FreeStep
<1> QED
  BY <1>1, <1>2, <1>3, <1>4, <1>5, <1>6, <1>7 DEF Next, KmallocStep

(***************************************************************************)
(* The theorems.                                                           *)
(***************************************************************************)

\* The inductive invariant holds of every behaviour of the heap.
THEOREM KheapInvariant == Spec => []IInv
  BY InitIInv, NextIInv, PTL DEF Spec

\* Every variable of the heap keeps its type; in particular no subtraction of kmalloc
\* and kfree takes the size of a block below 0, where the code's size_t would wrap.
THEOREM KheapTypeOK == Spec => []TypeOK
<1>1. IInv => TypeOK
  BY DEF IInv
<1> QED
  BY <1>1, KheapInvariant, PTL

\* The headers always tile the heap, so that every walk of kmalloc, kfree and
\* kheap_expand visits each block once and ends at heap_end.
THEOREM TilingAlways == Spec => []Tiling
<1>1. IInv => Tiling
  BY DEF IInv, BlocksInv
<1> QED
  BY <1>1, KheapInvariant, PTL

\* No two adjacent blocks are ever both free.
THEOREM NoAdjacentFreeAlways == Spec => []NoAdjacentFree
<1>1. IInv => NoAdjacentFree
  BY DEF IInv, BlocksInv
<1> QED
  BY <1>1, KheapInvariant, PTL

\* The allocated blocks are the ones callers hold, each as large as requested.
THEOREM LiveExactAlways == Spec => []LiveExact
<1>1. IInv => LiveExact
  BY DEF IInv, BlocksInv
<1> QED
  BY <1>1, KheapInvariant, PTL

\* After an expansion the retry of kmalloc finds a block.
THEOREM RetrySucceedsAlways == Spec => []RetrySucceeds
<1>1. IInv => RetrySucceeds
  BY DEF IInv
<1> QED
  BY <1>1, KheapInvariant, PTL

\* Every pointer kmalloc returns is aligned.
THEOREM PointersAlignedAlways == Spec => []PointersAligned
<1>1. IInv => PointersAligned
  <2> SUFFICES ASSUME IInv, NEW p \in DOMAIN live PROVE p % Align = 0
    BY DEF PointersAligned
  <2>1. p \in Nat /\ p - HeaderSize \in DOMAIN heap
    BY DEF IInv, TypeOK, BlocksInv, LiveExact
  <2>2. Mult(p - HeaderSize) /\ p - HeaderSize \in Int
    BY <2>1, KheapConstants DEF IInv, BlocksInv, Aligned
  <2>3. HeaderSize \in Nat /\ Mult(HeaderSize)
    BY KheapConstants, MultOfRemainder
  <2>4. Mult((p - HeaderSize) + HeaderSize)
    BY <2>2, <2>3, MultClosed
  <2>5. (p - HeaderSize) + HeaderSize = p
    BY <2>1, <2>3
  <2> QED
    BY <2>1, <2>4, <2>5, RemainderOfMult
<1> QED
  BY <1>1, KheapInvariant, PTL

\* When nothing is held the heap is a single free block.
THEOREM FreedHeapIsOneBlockAlways == Spec => []FreedHeapIsOneBlock
<1>1. IInv => FreedHeapIsOneBlock
  <2> SUFFICES ASSUME IInv, DOMAIN live = {}
               PROVE  heap = [b \in {Start} |-> [size |-> heap_end - Start, free |-> TRUE]]
    BY DEF FreedHeapIsOneBlock
  <2>1. \A b \in DOMAIN heap : b \in Nat /\ heap[b] \in Block /\ heap[b].size \in Nat
                               /\ heap[b].free \in BOOLEAN
    BY DEF IInv, TypeOK, Block
  <2>2. \A b \in DOMAIN heap : heap[b].free
    BY DEF IInv, BlocksInv, LiveExact
  <2>3. Start \in DOMAIN heap /\ heap_end \in Nat
    BY DEF IInv, TypeOK, BlocksInv, Tiling, Tiled
  <2>4. Start + heap[Start].size = heap_end
    BY <2>2, <2>3 DEF IInv, BlocksInv, NoAdjacentFree, Tiling, Tiled
  <2>5. ASSUME NEW c \in DOMAIN heap PROVE c = Start
    <3>1. c >= Start /\ c + heap[c].size <= heap_end /\ heap[c].size >= MinBlock
      BY DEF IInv, BlocksInv, Tiling, Tiled
    <3>2. Start < c => heap_end <= c
      BY <2>3, <2>4 DEF IInv, BlocksInv, Tiling, Tiled
    <3> QED
      BY <2>1, <2>3, <3>1, <3>2, KheapConstants
  <2>6. DOMAIN heap = {Start}
    BY <2>3, <2>5
  <2>7. heap[Start] = [size |-> heap_end - Start, free |-> TRUE]
    <3>1. heap[Start].size = heap_end - Start /\ heap[Start].free = TRUE
      BY <2>1, <2>2, <2>3, <2>4
    <3> QED
      BY <2>1, <2>3, <3>1 DEF Block
  <2>8. heap = [b \in DOMAIN heap |-> heap[b]]
    BY DEF IInv, TypeOK
  <2> QED
    BY <2>6, <2>7, <2>8
<1> QED
  BY <1>1, KheapInvariant, PTL

\* No step changes the header of a block that stays held.
THEOREM HeldBlocksUntouchedAlways == Spec => HeldBlocksUntouched
<1> DEFINE Held == \A p \in DOMAIN live :
                      p \in DOMAIN live' => heap'[p - HeaderSize] = heap[p - HeaderSize]
<1>1. IInv /\ [Next]_vars => Held
  <2> SUFFICES ASSUME IInv, [Next]_vars, heap' # heap,
                      NEW p \in DOMAIN live, p \in DOMAIN live'
               PROVE  heap'[p - HeaderSize] = heap[p - HeaderSize]
    OBVIOUS
  <2> DEFINE b == p - HeaderSize
  <2>1. b \in DOMAIN heap /\ ~heap[b].free
    BY DEF IInv, BlocksInv, LiveExact
  <2>2. CASE \E c \in DOMAIN heap : kmalloc_found(c)
    <3>1. PICK c \in DOMAIN heap : kmalloc_found(c)
      BY <2>2
    <3>2. pc = "search" /\ Fits(c) /\ heap' = Taken(c)
      BY <3>1 DEF kmalloc_found, FirstFit
    <3>3. b # c
      BY <2>1, <3>2 DEF Fits
    <3>4. \A d \in DOMAIN heap : d # c => Taken(c)[d] = heap[d]
      BY <3>2, TakenFacts
    <3> QED
      BY <2>1, <3>2, <3>3, <3>4
  <2>3. CASE \E n \in 0 .. Expansion \div PageSize : kmalloc_expand(n)
    <3>1. pc = "search" /\ heap' = Grown
      BY <2>3 DEF kmalloc_expand
    <3> QED
      BY <2>1, <3>1, GrownFacts
  <2>4. CASE \E ptr \in DOMAIN live : kfree(ptr)
    <3>1. PICK ptr \in DOMAIN live : kfree(ptr)
      BY <2>4
    <3>2. p # ptr
      BY <3>1 DEF kfree
    <3>3. p \in Nat /\ ptr \in Nat /\ HeaderSize \in Nat
      BY KheapConstants DEF IInv, TypeOK
    <3>4. b # ptr - HeaderSize
      BY <3>2, <3>3
    <3> QED
      BY <2>1, <3>1, <3>4, FreedFacts
  <2> QED
    BY <2>2, <2>3, <2>4
       DEF Next, KmallocStep, vars, kmalloc_zero, kmalloc, kmalloc_fail, kfree_null, Wild
<1> QED
  BY <1>1, KheapInvariant, PTL DEF Spec, HeldBlocksUntouched

=============================================================================
