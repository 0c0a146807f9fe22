----------------------------- MODULE VmmProofs ------------------------------
(***************************************************************************)
(* Proofs about Vmm, for every fan-out, memory size and virtual layout.    *)
(*                                                                         *)
(* The tables form a tree, which the invariant describes from the point of *)
(* view of a page: at each level at most one table serves it (Unique), a   *)
(* present entry leads to the one of the next level (Down), and every      *)
(* table is reached that way (Up).  Rights never grow on the way down      *)
(* (Rights), so that the rights of a translation are those of its leaf.    *)
(***************************************************************************)
EXTENDS Vmm, TLAPS

\* Table g serves page v at level l; its entry for v.
Serves(g, l, v) == covers[g].level = l /\ v \in covers[g].pages
Ent(g, l, v) == table[g][Index(v, l)]

Walking == Mapping \/ call.by = "unmap"

Roots ==
    /\ pml4 = 0 => /\ call = Idle /\ cr3 = FALSE
                   /\ \A g \in Frame : covers[g] = NoTable
    /\ pml4 # 0 => covers[pml4] = [level |-> 4, pages |-> Page]

Unique == \A l \in Level, v \in Page, f, g \in Frame :
              Serves(f, l, v) /\ Serves(g, l, v) => f = g

Spans == \A l \in Level, v \in Page, g \in Frame :
             Serves(g, l, v) => covers[g].pages = Span(v, l)

Down == \A l \in 2 .. 4, v \in Page, g \in Frame :
            Serves(g, l, v) /\ Present(Ent(g, l, v)) =>
                /\ Serves(Ent(g, l, v).frame, l - 1, v)
                /\ KernelFlags \subseteq Ent(g, l, v).flags

Up == \A l \in 2 .. 4, v \in Page, g \in Frame :
          Serves(g, l - 1, v) =>
              \E f \in Frame : /\ Serves(f, l, v)
                               /\ Present(Ent(f, l, v)) /\ Ent(f, l, v).frame = g

Rights == \A l \in 2 .. 4, v \in Page, g, h \in Frame :
              /\ Serves(g, l, v) /\ Present(Ent(g, l, v))
              /\ Serves(h, l - 1, v) /\ Present(Ent(h, l - 1, v))
              => Ent(h, l - 1, v).flags \subseteq Ent(g, l, v).flags

Leaves == \A v \in Page, g \in Frame :
              Serves(g, 1, v) => Ent(g, 1, v) = Empty \/ Present(Ent(g, 1, v))

Taken ==
    /\ \A f \in free : f >= FirstFree /\ covers[f] = NoTable
    /\ \A g \in Frame : covers[g] = NoTable \/ covers[g].level \in Level

Walk ==
    Walking =>
        /\ pml4 # 0
        /\ Serves(cur, lvl, call.page)
        /\ Mapping => Present(call.to)
        /\ call.by = "unmap" => call.to = Empty
        /\ Mapping /\ lvl < 4 =>
              \A f \in Frame : Serves(f, lvl + 1, call.page) =>
                  /\ Present(Ent(f, lvl + 1, call.page))
                  /\ Intermediate \subseteq Ent(f, lvl + 1, call.page).flags

\* A translation that ring 3 may use leads to a frame of a user page.
Safe(v, e) ==
    "USER" \in e.flags =>
        /\ v \in UserPages
        /\ e.frame \notin free /\ covers[e.frame] = NoTable
        /\ e.frame >= FirstFree

Data ==
    /\ Safe(call.page, call.to)
    /\ \A v \in Page : Safe(v, tlb[v])
    /\ \A v \in Page, g \in Frame : Serves(g, 1, v) => Safe(v, Ent(g, 1, v))

Tree == Unique /\ Spans /\ Down /\ Up /\ Rights /\ Leaves

IInv == TypeOK /\ Roots /\ Tree /\ Taken /\ Walk /\ Data


(***************************************************************************)
(* Indices and spans.                                                      *)
(***************************************************************************)

LEMMA PageNat == Page \subseteq Nat /\ 0 \in Page /\ 0 \in Frame
  BY VmmConstants DEF Page, UserPages, Frame

LEMMA IndexRange == \A v \in Page, l \in Level : Index(v, l) \in 0 .. Fanout - 1
<1> SUFFICES ASSUME NEW v \in Page, NEW l \in Level PROVE Index(v, l) \in 0 .. Fanout - 1
  OBVIOUS
<1>1. v \in Nat
  BY PageNat
<1>2. \A a, b \in Nat \ {0} : a * b \in Nat \ {0}
  OBVIOUS
<1>3. Fanout \in Nat \ {0} /\ Fanout * Fanout \in Nat \ {0}
  BY <1>2, VmmConstants
<1>4. Fanout * Fanout * Fanout \in Nat \ {0}
  BY <1>2, <1>3
<1>5. Weight[l] \in Nat \ {0}
  BY <1>3, <1>4 DEF Weight, Level
<1>6. v \div Weight[l] \in Int
  BY <1>1, <1>5
<1> QED
  BY <1>3, <1>6 DEF Index

LEMMA SpanFacts ==
    ASSUME NEW v \in Page, NEW w \in Page, NEW l \in Level
    PROVE  /\ v \in Span(v, l) /\ Span(v, l) \subseteq Page
           /\ w \in Span(v, l) => Span(w, l) = Span(v, l)
           /\ l = 4 => Span(v, l) = Page
  BY DEF Span, Level

\* The entry of v at level l leads to the pages that agree with v on that index too.
LEMMA SpanNarrow ==
    ASSUME NEW v \in Page, NEW w \in Page, NEW l \in 2 .. 4
    PROVE  w \in Span(v, l - 1) <=> w \in Span(v, l) /\ Index(w, l) = Index(v, l)
<1>1. (l - 1) + 1 .. 4 = {l} \cup (l + 1 .. 4)
  OBVIOUS
<1> QED
  BY <1>1 DEF Span

LEMMA SpanLeaf ==
    ASSUME NEW v \in Page, NEW w \in Page, w \in Span(v, 1), Index(w, 1) = Index(v, 1)
    PROVE  w = v
<1>1. Level = {1} \cup (1 + 1 .. 4)
  BY DEF Level
<1> QED
  BY <1>1, IndexInjective DEF Span

\* What one table serves.
LEMMA ServesSpan ==
    ASSUME IInv, NEW g \in Frame, NEW l \in Level, NEW v \in Page, Serves(g, l, v),
           NEW w \in Page
    PROVE  Serves(g, l, w) <=> w \in Span(v, l)
  BY DEF IInv, Tree, Spans, Serves

LEMMA EntType ==
    ASSUME TypeOK, NEW g \in Frame, NEW l \in Level, NEW v \in Page
    PROVE  /\ Ent(g, l, v) \in Entry
           /\ Ent(g, l, v).frame \in Frame /\ Ent(g, l, v).flags \subseteq Flags
<1>1. Index(v, l) \in 0 .. Fanout - 1
  BY IndexRange
<1>2. table \in [Frame -> [0 .. Fanout - 1 -> Entry]]
  BY DEF TypeOK
<1>3. Ent(g, l, v) \in Entry
  BY <1>1, <1>2, Zenon DEF Ent
<1> QED
  BY <1>3 DEF Entry

(***************************************************************************)
(* The translation of a page is the entry of its leaf table.               *)
(***************************************************************************)

Translations ==
    /\ \A v \in Page, g \in Frame : Serves(g, 1, v) => Translate(v) = Ent(g, 1, v)
    /\ \A v \in Page : (\A g \in Frame : ~Serves(g, 1, v)) => Translate(v) = Empty

LEMMA TranslateLeaf ==
    IInv => \A v \in Page, g \in Frame : Serves(g, 1, v) => Translate(v) = Ent(g, 1, v)
<1> SUFFICES ASSUME IInv, NEW v \in Page, NEW g \in Frame, Serves(g, 1, v)
             PROVE  Translate(v) = Ent(g, 1, v)
  OBVIOUS
<1> USE DEF Level
<1>1. PICK g2 \in Frame : /\ Serves(g2, 2, v)
                          /\ Present(Ent(g2, 2, v)) /\ Ent(g2, 2, v).frame = g
  BY DEF IInv, Tree, Up
<1>2. PICK g3 \in Frame : /\ Serves(g3, 3, v)
                          /\ Present(Ent(g3, 3, v)) /\ Ent(g3, 3, v).frame = g2
  BY <1>1 DEF IInv, Tree, Up
<1>3. PICK g4 \in Frame : /\ Serves(g4, 4, v)
                          /\ Present(Ent(g4, 4, v)) /\ Ent(g4, 4, v).frame = g3
  BY <1>2 DEF IInv, Tree, Up
<1>4. pml4 # 0 /\ g4 = pml4
  <2>1. pml4 # 0
    BY DEF IInv, Roots, Serves, NoTable
  <2>2. pml4 \in Frame /\ Serves(pml4, 4, v)
    BY <2>1 DEF IInv, Roots, Serves, TypeOK
  <2> QED
    BY <1>3, <2>1, <2>2 DEF IInv, Tree, Unique
<1>5. Ent(g, 1, v) \in Entry
  BY EntType DEF IInv
<1>6. Ent(g, 1, v) = Empty \/ Present(Ent(g, 1, v))
  BY DEF IInv, Tree, Leaves
<1>7. CASE Present(Ent(g, 1, v))
  <2>1. /\ Ent(g, 1, v).flags \subseteq Ent(g2, 2, v).flags
        /\ Ent(g2, 2, v).flags \subseteq Ent(g3, 3, v).flags
        /\ Ent(g3, 3, v).flags \subseteq Ent(g4, 4, v).flags
    BY <1>1, <1>2, <1>3, <1>7 DEF IInv, Tree, Rights
  <2>2. Ent(g4, 4, v).flags \cap Ent(g3, 3, v).flags \cap Ent(g2, 2, v).flags
            \cap Ent(g, 1, v).flags = Ent(g, 1, v).flags
    BY <2>1, ZenonT(30)
  <2>3. Translate(v) = [frame |-> Ent(g, 1, v).frame, flags |-> Ent(g, 1, v).flags]
    BY <1>1, <1>2, <1>3, <1>4, <1>7, <2>2, ZenonT(30) DEF Translate, Ent
  <2> QED
    BY <1>5, <2>3 DEF Entry
<1>8. CASE ~Present(Ent(g, 1, v))
  BY <1>1, <1>2, <1>3, <1>4, <1>6, <1>8, ZenonT(30) DEF Translate, Ent
<1> QED
  BY <1>7, <1>8

LEMMA TranslateNone ==
    IInv => \A v \in Page : (\A g \in Frame : ~Serves(g, 1, v)) => Translate(v) = Empty
<1> SUFFICES ASSUME IInv, NEW v \in Page, \A g \in Frame : ~Serves(g, 1, v),
                    Translate(v) # Empty
             PROVE  FALSE
  BY ZenonT(30)
<1> USE DEF Level
<1> DEFINE e4 == Ent(pml4, 4, v)
           e3 == Ent(e4.frame, 3, v)
           e2 == Ent(e3.frame, 2, v)
<1>1. pml4 # 0 /\ Present(e4) /\ Present(e3) /\ Present(e2)
  BY ZenonT(30) DEF Translate, Ent
<1>2. pml4 \in Frame /\ Serves(pml4, 4, v)
  BY <1>1 DEF IInv, Roots, Serves, TypeOK
<1>3. Serves(e4.frame, 3, v) /\ e4.frame \in Frame
  BY <1>1, <1>2, EntType DEF IInv, Tree, Down
<1>4. Serves(e3.frame, 2, v) /\ e3.frame \in Frame
  BY <1>1, <1>3, EntType DEF IInv, Tree, Down
<1>5. Serves(e2.frame, 1, v) /\ e2.frame \in Frame
  BY <1>1, <1>4, EntType DEF IInv, Tree, Down
<1> QED
  BY <1>5

LEMMA TranslationsHold == IInv => Translations
  BY TranslateLeaf, TranslateNone DEF Translations

LEMMA TranslationsPrimed == IInv' => Translations'
  BY TranslationsHold, PTL


(***************************************************************************)
(* The invariant holds initially, and steps that change no table keep it.  *)
(***************************************************************************)

LEMMA IdleCall == Idle \in Call /\ Empty \in Entry /\ Garbage \in Entry
  BY PageNat DEF Idle, Call, Empty, Garbage, Entry, Flags

LEMMA InitIInv == Init => IInv
<1> SUFFICES ASSUME Init PROVE IInv
  OBVIOUS
<1> USE DEF Init
<1>1. \A g \in Frame : covers[g] = NoTable
  OBVIOUS
<1>2. TypeOK
  <2>1. free \subseteq Frame \ {0}
    BY VmmConstants DEF Frame
  <2>2. covers \in [Frame -> [level : 0 .. 4, pages : SUBSET Page]]
    BY DEF NoTable
  <2>3. table \in [Frame -> [0 .. Fanout - 1 -> Entry]]
    BY IdleCall
  <2>4. tlb \in [Page -> Entry] /\ call \in Call
    BY IdleCall
  <2>5. pml4 \in Frame /\ cur \in Frame /\ lvl \in Level
    BY PageNat DEF Level
  <2>6. cr3 \in BOOLEAN
    BY Zenon
  <2> QED
    BY <2>1, <2>2, <2>3, <2>4, <2>5, <2>6, Zenon DEF TypeOK
<1>3. \A l \in Level, v \in Page, g \in Frame : ~Serves(g, l, v) /\ ~Serves(g, l - 1, v)
  BY <1>1 DEF Serves, NoTable, Level
<1>4. Tree
  <2>1. Unique /\ Spans
    BY <1>3 DEF Unique, Spans
  <2>2. Down /\ Up /\ Rights
    BY <1>3 DEF Down, Up, Rights, Level
  <2>3. Leaves
    BY <1>3 DEF Leaves, Level
  <2> QED
    BY <2>1, <2>2, <2>3 DEF Tree
<1>5. Taken
  BY <1>1, VmmConstants, <1>2 DEF Taken, TypeOK
<1>6. Walk
  BY DEF Walk, Walking, Mapping, Idle
<1>7. Data
  <2>1. \A v \in Page : Safe(v, tlb[v])
    BY DEF Safe, Empty
  <2>2. Safe(call.page, call.to)
    BY DEF Safe, Empty, Idle
  <2> QED
    BY <1>3, <2>1, <2>2 DEF Data, Level
<1>8. Roots
  BY <1>1 DEF Roots
<1> QED
  BY <1>2, <1>4, <1>5, <1>6, <1>7, <1>8 DEF IInv

LEMMA TreeKept ==
    ASSUME Tree, UNCHANGED <<table, covers>> PROVE Tree'
<1>1. \A g, l, v : (Serves(g, l, v)' <=> Serves(g, l, v)) /\ Ent(g, l, v)' = Ent(g, l, v)
  BY DEF Serves, Ent
<1>2. Unique' /\ Spans'
  BY <1>1 DEF Tree, Unique, Spans
<1>3. Down' /\ Leaves'
  BY <1>1 DEF Tree, Down, Leaves
<1>4. Up' /\ Rights'
  BY <1>1 DEF Tree, Up, Rights
<1> QED
  BY <1>2, <1>3, <1>4 DEF Tree

LEMMA QuietStep ==
    ASSUME IInv, UNCHANGED <<table, covers, pml4>>, free' \subseteq free,
           TypeOK', Walk', pml4 = 0 => call' = Idle /\ cr3' = FALSE,
           Safe(call.page, call.to)', \A v \in Page : Safe(v, tlb[v])'
    PROVE  IInv'
<1>1. Tree'
  BY TreeKept DEF IInv
<1>2. Roots' /\ Taken'
  BY DEF IInv, Roots, Taken
<1>3. \A v \in Page, g \in Frame : Serves(g, 1, v)' => Safe(v, Ent(g, 1, v))'
  BY DEF IInv, Data, Serves, Ent, Safe
<1>4. Data'
  BY <1>3 DEF Data
<1> QED
  BY <1>1, <1>2, <1>4 DEF IInv


LEMMA StartWalk ==
    ASSUME IInv, cr3 \/ pml4 # 0, UNCHANGED <<table, covers, pml4>>,
           cur' = pml4, lvl' = 4, call'.page \in Page,
           call'.by \in {"map", "map_invlpg", "vmm_init", "unmap"},
           IF call'.by = "unmap" THEN call'.to = Empty ELSE Present(call'.to)
    PROVE  Walk'
<1>1. pml4 # 0 /\ covers[pml4] = [level |-> 4, pages |-> Page]
  BY DEF IInv, Roots
<1>2. Serves(cur, lvl, call.page)'
  BY <1>1 DEF Serves
<1> QED
  BY <1>1, <1>2 DEF Walk, Walking, Mapping

LEMMA MapNewFrameStep ==
    ASSUME IInv, NEW by \in {"map", "map_invlpg"}, NEW v \in Page,
           NEW flags \in SUBSET Flags, "PRESENT" \in flags,
           "USER" \in flags => v \in UserPages,
           map_new_frame(by, v, flags)
    PROVE  IInv'
<1>1. PICK f \in free : /\ free' = free \ {f}
                        /\ call' = [by |-> by, page |-> v, to |-> [frame |-> f, flags |-> flags]]
                        /\ cur' = pml4 /\ lvl' = 4
  BY DEF map_new_frame, Start
<1>2. cr3 /\ UNCHANGED <<pml4, table, cr3, tlb, covers>>
  BY DEF map_new_frame
<1>3. f \in Frame /\ f >= FirstFree /\ covers[f] = NoTable
  BY DEF IInv, TypeOK, Taken
<1>4. "PRESENT" \in flags /\ flags \subseteq Flags
  OBVIOUS
<1>5. call' \in Call
  BY <1>1, <1>3, <1>4 DEF Call, Entry
<1>6. TypeOK'
  BY <1>1, <1>2, <1>5 DEF IInv, TypeOK, Level
<1>7. Walk'
  BY <1>1, <1>2, <1>4, StartWalk DEF Present
<1>8. Safe(call.page, call.to)'
  BY <1>1, <1>2, <1>3, <1>4 DEF Safe
<1>9. \A w \in Page : Safe(w, tlb[w])'
  BY <1>1, <1>2 DEF IInv, Data, Safe
<1>10. pml4 # 0
  BY <1>2 DEF IInv, Roots
<1> QED
  BY <1>1, <1>2, <1>6, <1>7, <1>8, <1>9, <1>10, QuietStep

LEMMA UnmapStartStep ==
    ASSUME IInv, NEW v \in UserPages, vmm_unmap_page(v)
    PROVE  IInv'
<1> USE DEF vmm_unmap_page, Start
<1>1. v \in Page /\ call' \in Call
  BY IdleCall DEF Page, Call, UserPages
<1>2. TypeOK'
  BY <1>1 DEF IInv, TypeOK, Level
<1>3. Walk'
  BY <1>1, StartWalk
<1>4. Safe(call.page, call.to)' /\ \A w \in Page : Safe(w, tlb[w])'
  BY DEF IInv, Data, Safe, Empty
<1>5. pml4 # 0
  BY DEF IInv, Roots
<1> QED
  BY <1>2, <1>3, <1>4, <1>5, QuietStep

LEMMA InitNextStep ==
    ASSUME IInv, vmm_init_next
    PROVE  IInv'
<1> DEFINE v == call.page + 1
<1>1. call.page \in Nat /\ call.by = "vmm_init_next" /\ call.page \in Page
  BY PageNat, ZenonT(30) DEF vmm_init_next, IInv, TypeOK, Call
<1>2. pml4 # 0
  BY <1>1 DEF IInv, Roots, Idle
<1>3. UNCHANGED <<free, pml4, table, tlb, covers>>
  BY DEF vmm_init_next
<1>4. \A w \in Page : Safe(w, tlb[w])'
  BY <1>3 DEF IInv, Data, Safe
<1>5. CASE v < IdentityEnd
  <2>1. /\ call' = [by |-> "vmm_init", page |-> v,
                    to |-> [frame |-> v, flags |-> KernelFlags]]
        /\ cur' = pml4 /\ lvl' = 4 /\ cr3' = cr3
    BY <1>5 DEF vmm_init_next, Start
  <2>2. v \in Page /\ v \in Frame
    BY <1>1, <1>5, VmmConstants DEF Page, Frame
  <2>3. call' \in Call
    BY <2>1, <2>2 DEF Call, Entry, KernelFlags, Flags
  <2>4. TypeOK'
    BY <1>3, <2>1, <2>3 DEF IInv, TypeOK, Level
  <2>5. Walk'
    BY <1>2, <1>3, <2>1, <2>2, StartWalk DEF Present, KernelFlags
  <2>6. Safe(call.page, call.to)'
    BY <2>1 DEF Safe, KernelFlags
  <2> QED
    BY <1>2, <1>3, <1>4, <2>4, <2>5, <2>6, QuietStep, ZenonT(30)
<1>6. CASE ~(v < IdentityEnd)
  <2>1. call' = Idle /\ cr3' = TRUE /\ UNCHANGED <<cur, lvl>>
    BY <1>6 DEF vmm_init_next
  <2>2. TypeOK'
    BY <1>3, <2>1, IdleCall DEF IInv, TypeOK
  <2>3. Walk'
    BY <2>1 DEF Walk, Walking, Mapping, Idle
  <2>4. Safe(call.page, call.to)'
    BY <2>1 DEF Safe, Idle, Empty
  <2> QED
    BY <1>2, <1>3, <1>4, <2>2, <2>3, <2>4, QuietStep, ZenonT(30)
<1> QED
  BY <1>5, <1>6


LEMMA ReturnFacts ==
    ASSUME TypeOK, Mapping, Return
    PROVE  /\ call' \in Call /\ call' # call
           /\ call' = Idle \/ (/\ call'.by \in {"vmm_init_next", "invlpg"}
                               /\ call'.page = call.page /\ call'.to = call.to)
           /\ ~Walking'
<1>1. call \in Call /\ call.by \in {"vmm_init", "map", "map_invlpg"}
  BY DEF TypeOK, Mapping
<1>2. CASE call.by = "vmm_init"
  <2>1. call' = [call EXCEPT !.by = "vmm_init_next"]
    BY <1>2 DEF Return
  <2> QED
    BY <1>1, <1>2, <2>1 DEF Call, Walking, Mapping
<1>3. CASE call.by = "map_invlpg"
  <2>1. call' = [call EXCEPT !.by = "invlpg"]
    BY <1>3 DEF Return
  <2> QED
    BY <1>1, <1>3, <2>1 DEF Call, Walking, Mapping
<1>4. CASE call.by = "map"
  <2>1. call' = Idle
    BY <1>4 DEF Return
  <2> QED
    BY <1>1, <1>4, <2>1, IdleCall DEF Walking, Mapping, Idle
<1> QED
  BY <1>1, <1>2, <1>3, <1>4

\* A call that ends, or goes on with what it had, keeps Safe.
LEMMA CallSafe ==
    ASSUME IInv, UNCHANGED covers, free' \subseteq free,
           call' = Idle \/ (call'.page = call.page /\ call'.to = call.to)
    PROVE  Safe(call.page, call.to)'
  BY DEF IInv, Data, Safe, Idle, Empty

LEMMA MapNoneStep == ASSUME IInv, vmm_map_page_none PROVE IInv'
<1>1. UNCHANGED <<free, pml4, table, cr3, cur, lvl, tlb, covers>> /\ Mapping /\ Return
  BY DEF vmm_map_page_none
<1>2. TypeOK'
  BY <1>1, ReturnFacts DEF IInv, TypeOK
<1>3. Walk' /\ pml4 # 0
  BY <1>1, ReturnFacts DEF IInv, Walk, Walking
<1>4. Safe(call.page, call.to)' /\ \A v \in Page : Safe(v, tlb[v])'
  BY <1>1, ReturnFacts, CallSafe DEF IInv, Data, Safe
<1> QED
  BY <1>1, <1>2, <1>3, <1>4, QuietStep, ZenonT(30)

LEMMA UnmapDownStep == ASSUME IInv, vmm_unmap_page_down PROVE IInv'
<1> USE DEF vmm_unmap_page_down
<1>1. /\ pml4 # 0 /\ cur \in Frame /\ lvl \in 2 .. 4 /\ call.page \in Page
      /\ Serves(cur, lvl, call.page) /\ call.to = Empty
  BY DEF IInv, TypeOK, Walk, Walking, Inner, Call, Level
<1>2. Here = Ent(cur, lvl, call.page)
  BY DEF Here, Slot, Ent
<1>3. Serves(Here.frame, lvl - 1, call.page)
  BY <1>1, <1>2 DEF IInv, Tree, Down
<1>4. Here.frame \in Frame
  BY <1>1, <1>2, EntType DEF IInv, Level
<1>5. TypeOK'
  BY <1>1, <1>4 DEF IInv, TypeOK, Level
<1>6. Serves(cur, lvl, call.page)'
  BY <1>3 DEF Serves
<1>7. Walk'
  BY <1>1, <1>6 DEF Walk, Walking, Mapping
<1>8. Safe(call.page, call.to)' /\ \A v \in Page : Safe(v, tlb[v])'
  BY CallSafe DEF IInv, Data, Safe
<1> QED
  BY <1>1, <1>5, <1>7, <1>8, QuietStep, ZenonT(30)

LEMMA EndStep ==
    ASSUME IInv, UNCHANGED <<free, pml4, table, cr3, cur, lvl, covers>>, call # Idle,
           call' = Idle, tlb' \in [Page -> Entry],
           \A v \in Page : tlb'[v] = Empty \/ tlb'[v] = tlb[v]
    PROVE  IInv'
<1>1. TypeOK'
  BY IdleCall DEF IInv, TypeOK
<1>2. Walk'
  BY DEF Walk, Walking, Mapping, Idle
<1>3. \A v \in Page : Safe(v, tlb[v])'
  BY DEF IInv, Data, Safe, Empty
<1>4. pml4 # 0
  BY DEF IInv, Roots
<1> QED
  BY <1>1, <1>2, <1>3, <1>4, CallSafe, QuietStep, ZenonT(30)

LEMMA UnmapAbsentStep == ASSUME IInv, vmm_unmap_page_absent PROVE IInv'
<1>1. call # Idle
  BY DEF vmm_unmap_page_absent, Idle
<1> QED
  BY <1>1, EndStep DEF vmm_unmap_page_absent, IInv, TypeOK

LEMMA InvlpgStep == ASSUME IInv, invlpg PROVE IInv'
<1>1. call # Idle /\ tlb' = [tlb EXCEPT ![call.page] = Empty]
  BY DEF invlpg, Idle
<1>2. tlb' \in [Page -> Entry] /\ \A v \in Page : tlb'[v] = Empty \/ tlb'[v] = tlb[v]
  BY <1>1, IdleCall, ZenonT(30) DEF IInv, TypeOK
<1> QED
  BY <1>1, <1>2, EndStep DEF invlpg

LEMMA TlbStep ==
    ASSUME IInv, NEW v \in Page, tlb_fill(v) \/ tlb_evict(v)
    PROVE  IInv'
<1> DEFINE e == tlb'[v]
<1>1. UNCHANGED <<free, pml4, table, cr3, call, cur, lvl, covers>>
  BY DEF tlb_fill, tlb_evict
<1>2. PICK x \in {Empty, Translate(v)} : tlb' = [tlb EXCEPT ![v] = x]
  BY DEF tlb_fill, tlb_evict
<1>3. x \in Entry /\ Safe(v, x)
  <2>1. CASE x = Empty
    BY <2>1, IdleCall DEF Safe, Empty
  <2>2. CASE x = Translate(v)
    <3>1. CASE \E g \in Frame : Serves(g, 1, v)
      <4>1. PICK g \in Frame : Serves(g, 1, v)
        BY <3>1
      <4>2. x = Ent(g, 1, v)
        BY <2>2, <4>1, TranslationsHold DEF Translations
      <4> QED
        BY <4>1, <4>2, EntType DEF IInv, Data, Level
    <3>2. CASE \A g \in Frame : ~Serves(g, 1, v)
      BY <2>2, <3>2, TranslationsHold, IdleCall DEF Translations, Safe, Empty
    <3> QED
      BY <3>1, <3>2
  <2> QED
    BY <2>1, <2>2
<1>4. TypeOK'
  BY <1>1, <1>2, <1>3, ZenonT(30) DEF IInv, TypeOK
<1>5. \A w \in Page : Safe(w, tlb[w])'
  BY <1>1, <1>2, <1>3, ZenonT(30) DEF IInv, Data, Safe, TypeOK
<1>6. Walk'
  BY <1>1 DEF IInv, Walk, Walking, Mapping, Serves, Ent, Intermediate
<1>7. Safe(call.page, call.to)'
  BY <1>1, CallSafe
<1>8. pml4 = 0 => call' = Idle /\ cr3' = FALSE
  BY <1>1 DEF IInv, Roots
<1> QED
  BY <1>1, <1>4, <1>5, <1>6, <1>7, <1>8, QuietStep, ZenonT(30)


(***************************************************************************)
(* Steps that change a table.                                              *)
(***************************************************************************)

LEMMA VmmInitStep ==
    ASSUME IInv, vmm_init
    PROVE  IInv' /\ \A v \in Page, g \in Frame : ~Serves(g, 1, v)' 
<1>1. PICK f \in free :
        /\ free' = free \ {f} /\ pml4' = f /\ cur' = f /\ lvl' = 4
        /\ table' = [table EXCEPT ![f] = ZeroTable]
        /\ covers' = [covers EXCEPT ![f] = [level |-> 4, pages |-> Page]]
  BY ZenonT(30) DEF vmm_init
<1>2. /\ call' = [by |-> "vmm_init", page |-> 0, to |-> [frame |-> 0, flags |-> KernelFlags]]
      /\ UNCHANGED <<cr3, tlb>> /\ pml4 = 0
  BY DEF vmm_init
<1>3. f \in Frame /\ f # 0 /\ \A g \in Frame : covers[g] = NoTable
  BY <1>2 DEF IInv, TypeOK, Roots
<1>4. /\ covers'[f] = [level |-> 4, pages |-> Page]
      /\ \A g \in Frame : g # f => covers'[g] = NoTable
  BY <1>1, <1>3 DEF IInv, TypeOK
<1>5. \A g \in Frame, l \in Level, v \in Page : Serves(g, l, v)' <=> g = f /\ l = 4
  BY <1>4 DEF Serves, NoTable, Level
<1>6. \A v \in Page : ~Present(Ent(f, 4, v)')
  <2>1. table'[f] = ZeroTable
    BY <1>1, <1>3 DEF IInv, TypeOK
  <2> QED
    BY <2>1, IndexRange DEF Ent, ZeroTable, Present, Empty, Level
<1>7. TypeOK'
  <2>1. call' \in Call
    BY <1>2, PageNat DEF Call, Entry, KernelFlags, Flags
  <2>2. table' \in [Frame -> [0 .. Fanout - 1 -> Entry]]
    BY <1>1, IdleCall DEF IInv, TypeOK, ZeroTable
  <2>3. covers' \in [Frame -> [level : 0 .. 4, pages : SUBSET Page]]
    BY <1>1 DEF IInv, TypeOK
  <2> QED
    BY <1>1, <1>2, <1>3, <2>1, <2>2, <2>3 DEF IInv, TypeOK, Level
<1>8. Tree'
  <2>1. Unique' /\ Leaves'
    BY <1>5 DEF Unique, Leaves, Level
  <2>2. Spans'
    BY <1>4, <1>5, SpanFacts DEF Spans, Level
  <2>3. Down' /\ Up' /\ Rights'
    BY <1>5, <1>6 DEF Down, Up, Rights, Level
  <2> QED
    BY <2>1, <2>2, <2>3 DEF Tree
<1>9. Roots' /\ Taken'
  BY <1>1, <1>3, <1>4 DEF IInv, TypeOK, Roots, Taken, Level
<1>10. Walk'
  BY <1>1, <1>2, <1>3, <1>5, PageNat
     DEF Walk, Walking, Mapping, Present, KernelFlags, Level
<1>11. Data'
  <2>1. Safe(call.page, call.to)'
    BY <1>2 DEF Safe, KernelFlags
  <2>2. \A v \in Page : Safe(v, tlb[v])'
    <3> SUFFICES ASSUME NEW v \in Page PROVE Safe(v, tlb[v])'
      OBVIOUS
    <3>1. Safe(v, tlb[v]) /\ tlb[v].frame \in Frame
      BY DEF IInv, Data, TypeOK, Entry
    <3> QED
      BY <1>1, <1>2, <1>4, <3>1 DEF Safe
  <2> QED
    BY <1>5, <2>1, <2>2 DEF Data, Level
<1> QED
  BY <1>5, <1>7, <1>8, <1>9, <1>10, <1>11 DEF IInv, Level

\* What is known of a walk in progress.
LEMMA WalkFacts ==
    ASSUME IInv, Walking
    PROVE  /\ cur \in Frame /\ lvl \in Level /\ call.page \in Page
           /\ Slot = Index(call.page, lvl) /\ Slot \in 0 .. Fanout - 1
           /\ Serves(cur, lvl, call.page) /\ Here = Ent(cur, lvl, call.page)
           /\ pml4 # 0 /\ cur \notin free
           /\ call.to \in Entry /\ call \in Call
<1>1. /\ cur \in Frame /\ lvl \in Level /\ call \in Call
      /\ Serves(cur, lvl, call.page) /\ pml4 # 0
  BY DEF IInv, TypeOK, Walk
<1>2. call.page \in Page /\ call.to \in Entry
  BY <1>1 DEF Call
<1>3. cur \notin free
  BY <1>1 DEF IInv, Taken, Serves, NoTable, Level
<1> QED
  BY <1>1, <1>2, <1>3, IndexRange DEF Slot, Here, Ent

\* The entry above a table that the walk has reached carries Intermediate.
LEMMA ParentWide ==
    ASSUME IInv, Mapping, lvl < 4, NEW v \in Page, NEW g \in Frame,
           Serves(cur, lvl, v), Serves(g, lvl + 1, v)
    PROVE  Present(Ent(g, lvl + 1, v)) /\ Intermediate \subseteq Ent(g, lvl + 1, v).flags
<1> DEFINE q == call.page
<1>1. cur \in Frame /\ lvl \in Level /\ q \in Page /\ Serves(cur, lvl, q)
  BY WalkFacts DEF Walking
<1>2. lvl + 1 \in 2 .. 4 /\ lvl + 1 \in Level /\ (lvl + 1) - 1 = lvl
  BY <1>1 DEF Level
<1>3. v \in Span(q, lvl)
  BY <1>1, ServesSpan
<1>4. v \in Span(q, lvl + 1) /\ Index(v, lvl + 1) = Index(q, lvl + 1)
  BY <1>1, <1>2, <1>3, SpanNarrow
<1>5. q \in Span(v, lvl + 1)
  BY <1>1, <1>2, <1>4, SpanFacts
<1>6. Serves(g, lvl + 1, q)
  BY <1>1, <1>2, <1>5, ServesSpan
<1>7. Ent(g, lvl + 1, v) = Ent(g, lvl + 1, q)
  BY <1>4 DEF Ent
<1> QED
  BY <1>6, <1>7 DEF IInv, Walk, Walking

\* The other pages whose entry in the walk's table is the one it is about to change.
LEMMA SameSlot ==
    ASSUME IInv, Walking, NEW l \in Level, NEW v \in Page, Serves(cur, l, v)
    PROVE  /\ l = lvl /\ v \in Span(call.page, lvl)
           /\ Index(v, l) = Slot =>
                 /\ lvl = 1 => v = call.page
                 /\ lvl > 1 => v \in Span(call.page, lvl - 1)
<1>1. cur \in Frame /\ lvl \in Level /\ call.page \in Page /\ Serves(cur, lvl, call.page)
  BY WalkFacts
<1>2. l = lvl
  BY <1>1 DEF Serves
<1>3. v \in Span(call.page, lvl)
  BY <1>1, <1>2, ServesSpan
<1>4. ASSUME Index(v, l) = Slot, lvl = 1 PROVE v = call.page
  BY <1>1, <1>2, <1>3, <1>4, SpanLeaf DEF Slot
<1>5. ASSUME Index(v, l) = Slot, lvl > 1 PROVE v \in Span(call.page, lvl - 1)
  <2>1. lvl \in 2 .. 4 /\ Index(v, lvl) = Index(call.page, lvl)
    BY <1>1, <1>2, <1>5 DEF Slot, Level
  <2> QED
    BY <1>1, <1>3, <2>1, SpanNarrow
<1> QED
  BY <1>2, <1>3, <1>4, <1>5


\* The leaf of the page is replaced by x.
LEMMA LeafWrite ==
    ASSUME IInv, Walking, lvl = 1, NEW x \in Entry,
           x = Empty \/ (Mapping /\ x = call.to),
           table' = [table EXCEPT ![cur][Slot] = x],
           UNCHANGED <<free, pml4, cr3, cur, lvl, tlb, covers>>,
           call' \in Call, ~Walking',
           call' = Idle \/ (call'.page = call.page /\ call'.to = call.to)
    PROVE  /\ IInv'
           /\ \A v \in Page, g \in Frame : Serves(g, 1, v) =>
                 Ent(g, 1, v)' = IF v = call.page THEN x ELSE Ent(g, 1, v)
<1> USE DEF Level
<1>1. /\ cur \in Frame /\ call.page \in Page /\ Slot = Index(call.page, 1)
      /\ Slot \in 0 .. Fanout - 1 /\ Serves(cur, 1, call.page) /\ pml4 # 0
  BY WalkFacts
<1>2. \A g \in Frame, l \in Level, v \in Page :
        Ent(g, l, v)' = IF g = cur /\ Index(v, l) = Slot THEN x ELSE Ent(g, l, v)
  BY <1>1, IndexRange, ZenonT(30) DEF Ent, IInv, TypeOK
<1>3. \A g, l, v : Serves(g, l, v)' <=> Serves(g, l, v)
  BY DEF Serves
<1>4. \A g \in Frame, v \in Page, l \in 2 .. 4 : Serves(g, l, v) => Ent(g, l, v)' = Ent(g, l, v)
  <2>1. \A v \in Page, l \in 2 .. 4 : ~Serves(cur, l, v)
    BY SameSlot
  <2> QED
    BY <1>2, <2>1
<1>5. \A g \in Frame, v \in Page : Serves(g, 1, v) =>
        Ent(g, 1, v)' = IF v = call.page THEN x ELSE Ent(g, 1, v)
  <2> SUFFICES ASSUME NEW g \in Frame, NEW v \in Page, Serves(g, 1, v)
               PROVE  Ent(g, 1, v)' = IF v = call.page THEN x ELSE Ent(g, 1, v)
    OBVIOUS
  <2>1. CASE v = call.page
    BY <1>1, <1>2, <2>1 DEF IInv, Tree, Unique
  <2>2. CASE v # call.page
    BY <1>1, <1>2, <2>2, SameSlot
  <2> QED
    BY <2>1, <2>2
<1>6. TypeOK'
  <2>1. table' \in [Frame -> [0 .. Fanout - 1 -> Entry]]
    BY <1>1 DEF IInv, TypeOK
  <2> QED
    BY <2>1 DEF IInv, TypeOK
<1>7. Unique' /\ Spans'
  BY <1>3 DEF IInv, Tree, Unique, Spans
<1>8. Down'
  BY <1>3, <1>4 DEF IInv, Tree, Down
<1>9. Up'
  <2> SUFFICES ASSUME NEW l \in 2 .. 4, NEW v \in Page, NEW g \in Frame, Serves(g, l - 1, v)
               PROVE  \E f \in Frame : /\ Serves(f, l, v)'
                                       /\ Present(Ent(f, l, v)') /\ Ent(f, l, v)'.frame = g
    BY <1>3 DEF Up, Present
  <2>1. PICK f \in Frame : Serves(f, l, v) /\ Present(Ent(f, l, v)) /\ Ent(f, l, v).frame = g
    BY DEF IInv, Tree, Up
  <2> QED
    BY <1>3, <1>4, <2>1
<1>10. Rights'
  <2> SUFFICES ASSUME NEW l \in 2 .. 4, NEW v \in Page, NEW g \in Frame, NEW h \in Frame,
                      Serves(g, l, v), Present(Ent(g, l, v)'),
                      Serves(h, l - 1, v), Present(Ent(h, l - 1, v)')
               PROVE  Ent(h, l - 1, v)'.flags \subseteq Ent(g, l, v)'.flags
    BY <1>3 DEF Rights, Present
  <2>1. Ent(g, l, v)' = Ent(g, l, v)
    BY <1>4
  <2>2. CASE Ent(h, l - 1, v)' = Ent(h, l - 1, v)
    BY <2>1, <2>2 DEF IInv, Tree, Rights
  <2>3. CASE Ent(h, l - 1, v)' # Ent(h, l - 1, v)
    <3>1. l - 1 = 1 /\ l = 2
      BY <1>4, <2>3
    <3>2. v = call.page /\ Ent(h, 1, v)' = x
      BY <1>5, <2>3, <3>1
    <3>3. h = cur
      BY <1>1, <3>1, <3>2 DEF IInv, Tree, Unique
    <3>4. Mapping /\ x = call.to
      BY <3>1, <3>2 DEF Present, Empty
    <3>5. Intermediate \subseteq Ent(g, 2, v).flags
      BY <1>1, <3>1, <3>2, <3>3, <3>4, ParentWide
    <3>6. x.flags \subseteq Intermediate
      BY <3>4 DEF Intermediate, Entry, Flags, KernelFlags
    <3> QED
      BY <2>1, <3>1, <3>2, <3>5, <3>6
  <2> QED
    BY <2>2, <2>3
<1>11. Leaves'
  <2>1. x = Empty \/ Present(x)
    BY DEF IInv, Walk
  <2> QED
    BY <1>3, <1>5, <2>1 DEF IInv, Tree, Leaves, Present
<1>12. Roots' /\ Taken' /\ Walk'
  BY <1>1 DEF IInv, Roots, Taken, Walk
<1>13. Data'
  <2>1. Safe(call.page, x)
    BY DEF IInv, Data, Safe, Empty
  <2>2. Safe(call.page, call.to)' /\ \A v \in Page : Safe(v, tlb[v])'
    BY CallSafe DEF IInv, Data, Safe
  <2>3. \A v \in Page, g \in Frame : Serves(g, 1, v)' => Safe(v, Ent(g, 1, v))'
    BY <1>3, <1>5, <2>1 DEF IInv, Data, Safe
  <2> QED
    BY <2>2, <2>3 DEF Data
<1> QED
  BY <1>5, <1>6, <1>7, <1>8, <1>9, <1>10, <1>11, <1>12, <1>13 DEF IInv, Tree

\* The entry at which the walk stands is widened.
LEMMA MapDownStep ==
    ASSUME IInv, vmm_map_page_down
    PROVE  /\ IInv'
           /\ \A v \in Page, g \in Frame : Serves(g, 1, v) => Ent(g, 1, v)' = Ent(g, 1, v)
<1> USE DEF Level
<1>1. /\ Mapping /\ lvl > 1 /\ Present(Here)
      /\ table' = [table EXCEPT ![cur][Slot].flags = @ \cup Intermediate]
      /\ cur' = Here.frame /\ lvl' = lvl - 1
      /\ UNCHANGED <<free, pml4, cr3, call, tlb, covers>>
  BY DEF vmm_map_page_down, Inner
<1>2. /\ cur \in Frame /\ lvl \in Level /\ call.page \in Page /\ Slot = Index(call.page, lvl)
      /\ Slot \in 0 .. Fanout - 1 /\ Serves(cur, lvl, call.page) /\ pml4 # 0
      /\ Here = Ent(cur, lvl, call.page) /\ call.to \in Entry
  BY <1>1, WalkFacts DEF Walking
<1>3. Intermediate \subseteq Flags /\ KernelFlags \subseteq Intermediate
  BY DEF Intermediate, KernelFlags, Flags
<1>4. Here \in Entry /\ Here.frame \in Frame
  BY <1>2, EntType DEF IInv
<1> DEFINE wide == [frame |-> Here.frame, flags |-> Here.flags \cup Intermediate]
<1>5. wide \in Entry /\ table' = [table EXCEPT ![cur][Slot] = wide]
  <2>1. wide \in Entry
    BY <1>3, <1>4 DEF Entry
  <2>2. [Here EXCEPT !.flags = @ \cup Intermediate] = wide
    BY <1>4 DEF Entry
  <2>3. Here = table[cur][Slot]
    BY DEF Here
  <2> QED
    BY <1>1, <1>2, <2>1, <2>2, <2>3, ZenonT(30) DEF IInv, TypeOK
<1>6. \A g \in Frame, l \in Level, v \in Page :
        Ent(g, l, v)' = IF g = cur /\ Index(v, l) = Slot THEN wide ELSE Ent(g, l, v)
  BY <1>2, <1>5, IndexRange, ZenonT(30) DEF Ent, IInv, TypeOK
<1>7. \A g \in Frame, l \in Level, v \in Page :
        g = cur /\ Index(v, l) = Slot /\ Serves(g, l, v) => Ent(g, l, v) = Here
  BY <1>1, <1>2, SameSlot DEF Ent, Walking
<1> HIDE DEF wide
<1>8. wide.frame = Here.frame /\ wide.flags = Here.flags \cup Intermediate /\ Present(wide)
  BY <1>1 DEF wide, Present
<1>9. \A g, l, v : Serves(g, l, v)' <=> Serves(g, l, v)
  BY <1>1 DEF Serves
<1>10. \A g \in Frame, l \in Level, v \in Page : Serves(g, l, v) =>
         /\ Ent(g, l, v)'.frame = Ent(g, l, v).frame
         /\ Present(Ent(g, l, v)') <=> Present(Ent(g, l, v))
         /\ Ent(g, l, v).flags \subseteq Ent(g, l, v)'.flags
  BY <1>1, <1>6, <1>7, <1>8
<1>11. TypeOK'
  <2>1. table' \in [Frame -> [0 .. Fanout - 1 -> Entry]]
    BY <1>2, <1>5 DEF IInv, TypeOK
  <2> QED
    BY <1>1, <1>2, <1>4, <2>1 DEF IInv, TypeOK
<1>12. Unique' /\ Spans'
  BY <1>1, <1>9 DEF IInv, Tree, Unique, Spans
<1>13. Down'
  <2> SUFFICES ASSUME NEW l \in 2 .. 4, NEW v \in Page, NEW g \in Frame,
                      Serves(g, l, v), Present(Ent(g, l, v)')
               PROVE  /\ Serves(Ent(g, l, v)'.frame, l - 1, v)
                      /\ KernelFlags \subseteq Ent(g, l, v)'.flags
    BY <1>1, <1>9 DEF Down, Present, Serves
  <2> QED
    BY <1>10 DEF IInv, Tree, Down
<1>14. Up'
  <2> SUFFICES ASSUME NEW l \in 2 .. 4, NEW v \in Page, NEW g \in Frame, Serves(g, l - 1, v)
               PROVE  \E f \in Frame : /\ Serves(f, l, v)'
                                       /\ Present(Ent(f, l, v)') /\ Ent(f, l, v)'.frame = g
    BY <1>9 DEF Up, Present
  <2>1. PICK f \in Frame : Serves(f, l, v) /\ Present(Ent(f, l, v)) /\ Ent(f, l, v).frame = g
    BY DEF IInv, Tree, Up
  <2> QED
    BY <1>9, <1>10, <2>1
<1>15. Rights'
  <2> SUFFICES ASSUME NEW l \in 2 .. 4, NEW v \in Page, NEW g \in Frame, NEW h \in Frame,
                      Serves(g, l, v), Present(Ent(g, l, v)'),
                      Serves(h, l - 1, v), Present(Ent(h, l - 1, v)')
               PROVE  Ent(h, l - 1, v)'.flags \subseteq Ent(g, l, v)'.flags
    BY <1>9 DEF Rights, Present
  <2>1. l - 1 \in Level
    BY SMTT(30)
  <2>2. /\ Ent(h, l - 1, v).flags \subseteq Ent(g, l, v).flags
        /\ Ent(g, l, v).flags \subseteq Ent(g, l, v)'.flags
    <3>1. l \in Level
      BY SMTT(30) DEF Level
    <3>2. Present(Ent(g, l, v)) /\ Ent(g, l, v).flags \subseteq Ent(g, l, v)'.flags
      BY <1>10, <3>1, ZenonT(30)
    <3>3. Present(Ent(h, l - 1, v))
      BY <1>10, <2>1, ZenonT(30)
    <3> QED
      BY <3>2, <3>3, ZenonT(30) DEF IInv, Tree, Rights
  <2>3. CASE h = cur /\ Index(v, l - 1) = Slot
    <3>1. l - 1 = lvl /\ Ent(h, l - 1, v) = Here /\ Ent(h, l - 1, v)' = wide
      BY <1>1, <1>6, <1>7, <2>1, <2>3, SameSlot DEF Walking
    <3>2. Serves(g, lvl + 1, v) /\ Serves(cur, lvl, v) /\ lvl < 4 /\ l = lvl + 1
      BY <1>2, <2>3, <3>1
    <3>3. Intermediate \subseteq Ent(g, lvl + 1, v).flags
      BY <1>1, <3>2, ParentWide, ZenonT(30)
    <3> QED
      BY <1>8, <2>2, <3>1, <3>2, <3>3
  <2>4. CASE ~(h = cur /\ Index(v, l - 1) = Slot)
    BY <1>6, <2>1, <2>2, <2>4
  <2> QED
    BY <2>3, <2>4, ZenonT(30)
<1>16. \A g \in Frame, v \in Page : Serves(g, 1, v) => Ent(g, 1, v)' = Ent(g, 1, v)
  BY <1>1, <1>6, SameSlot DEF Walking
<1>17. Leaves'
  BY <1>9, <1>16 DEF IInv, Tree, Leaves, Present
<1>18. Roots' /\ Taken'
  BY <1>1, <1>2 DEF IInv, Roots, Taken
<1>19. Walk'
  <2>1. Serves(cur, lvl, call.page)'
    BY <1>1, <1>2 DEF IInv, Tree, Down, Serves
  <2>2. table'[cur][Index(call.page, lvl)] = wide
    BY <1>2, <1>5, <1>6 DEF Ent
  <2>3. Intermediate' = Intermediate /\ (Mapping' <=> Mapping) /\ (Walking' <=> Walking)
    BY <1>1 DEF Intermediate, Mapping, Walking
  <2>4. ASSUME NEW f \in Frame, Serves(f, lvl + 1, call.page)'
        PROVE  /\ Present(Ent(f, lvl + 1, call.page))'
               /\ (Intermediate \subseteq Ent(f, lvl + 1, call.page).flags)'
    <3>1. lvl' + 1 = lvl /\ call' = call /\ Serves(f, lvl, call.page)
      BY <1>1, <1>2, <2>4 DEF Serves
    <3>2. f = cur
      BY <1>2, <3>1 DEF IInv, Tree, Unique
    <3>3. Ent(f, lvl + 1, call.page)' = wide
      BY <2>2, <3>1, <3>2 DEF Ent
    <3> QED
      BY <1>8, <2>3, <3>3 DEF Present
  <2> QED
    BY <1>1, <2>1, <2>3, <2>4 DEF IInv, Walk, Walking, Present
<1>20. Data'
  <2>1. Safe(call.page, call.to)' /\ \A v \in Page : Safe(v, tlb[v])'
    BY <1>1, CallSafe DEF IInv, Data, Safe
  <2>2. \A v \in Page, g \in Frame : Serves(g, 1, v)' => Safe(v, Ent(g, 1, v))'
    BY <1>1, <1>9, <1>16 DEF IInv, Data, Safe
  <2> QED
    BY <2>1, <2>2 DEF Data
<1> QED
  BY <1>11, <1>12, <1>13, <1>14, <1>15, <1>16, <1>17, <1>18, <1>19, <1>20 DEF IInv, Tree


\* The walk adds a table.  No leaf of another table changes.
LEMMA MapTableStep ==
    ASSUME IInv, vmm_map_page_table
    PROVE  /\ IInv'
           /\ \A v \in Page, g \in Frame : Serves(g, 1, v)' =>
                 \/ Serves(g, 1, v) /\ Ent(g, 1, v)' = Ent(g, 1, v)
                 \/ (\A h \in Frame : ~Serves(h, 1, v)) /\ Ent(g, 1, v)' = Empty
           /\ \A v \in Page, g \in Frame : Serves(g, 1, v) => Serves(g, 1, v)'
<1> USE DEF Level
<1> DEFINE q == call.page
           k == lvl - 1
<1>1. PICK f \in free :
        /\ free' = free \ {f} /\ cur' = f
        /\ table' = [table EXCEPT ![f] = ZeroTable,
                                  ![cur][Slot] = [frame |-> f, flags |-> Intermediate]]
        /\ covers' = [covers EXCEPT ![f] = [level |-> lvl - 1, pages |-> Span(call.page, lvl - 1)]]
  BY ZenonT(30) DEF vmm_map_page_table
<1>2. /\ Mapping /\ lvl > 1 /\ ~Present(Here) /\ lvl' = lvl - 1
      /\ UNCHANGED <<pml4, cr3, call, tlb>>
  BY DEF vmm_map_page_table, Inner
<1>3. /\ cur \in Frame /\ lvl \in 2 .. 4 /\ q \in Page /\ Slot = Index(q, lvl)
      /\ Slot \in 0 .. Fanout - 1 /\ Serves(cur, lvl, q) /\ pml4 # 0
      /\ Here = Ent(cur, lvl, q) /\ call.to \in Entry /\ cur \notin free /\ Walking
  BY <1>2, WalkFacts DEF Walking
<1>4. f \in Frame /\ f # cur /\ covers[f] = NoTable /\ f >= FirstFree /\ f # 0
  BY <1>3 DEF IInv, TypeOK, Taken
<1>5. k \in 1 .. 3 /\ k + 1 = lvl /\ Span(q, k) \subseteq Page /\ q \in Span(q, k)
  BY <1>3, SpanFacts
<1> DEFINE down == [frame |-> f, flags |-> Intermediate]
<1>6. down \in Entry /\ Present(down) /\ KernelFlags \subseteq down.flags
  BY <1>4, ZenonT(30) DEF Entry, Intermediate, KernelFlags, Flags, Present
<1>7. table' \in [Frame -> [0 .. Fanout - 1 -> Entry]]
  BY <1>1, <1>3, <1>6, IdleCall, ZenonT(30) DEF IInv, TypeOK, ZeroTable
<1>8. \A l \in Level, v \in Page : Ent(f, l, v)' = Empty
  <2>1. table'[f] = ZeroTable
    BY <1>1, <1>4, ZenonT(30) DEF IInv, TypeOK
  <2> QED
    BY <2>1, IndexRange, ZenonT(30) DEF Ent, ZeroTable
<1>9. \A g \in Frame, l \in Level, v \in Page : g # f =>
        Ent(g, l, v)' = IF g = cur /\ Index(v, l) = Slot THEN down ELSE Ent(g, l, v)
  <2>1. \A g \in Frame : g # f /\ g # cur => table'[g] = table[g]
    BY <1>1 DEF IInv, TypeOK
  <2>2. table'[cur] = [table[cur] EXCEPT ![Slot] = down]
    BY <1>1, <1>3, <1>4 DEF IInv, TypeOK
  <2>3. table[cur] \in [0 .. Fanout - 1 -> Entry]
    BY <1>3 DEF IInv, TypeOK
  <2> QED
    BY <1>3, <2>1, <2>2, <2>3, IndexRange, ZenonT(30) DEF Ent
<1> HIDE DEF down, q, k
<1>10. down.frame = f /\ down.flags = Intermediate
  BY ZenonT(30) DEF down
<1>11. \A g \in Frame : covers'[g] = IF g = f THEN [level |-> k, pages |-> Span(q, k)]
                                              ELSE covers[g]
  <2>1. covers \in [Frame -> [level : 0 .. 4, pages : SUBSET Page]]
    BY ZenonT(30) DEF IInv, TypeOK
  <2>2. covers' = [covers EXCEPT ![f] = [level |-> k, pages |-> Span(q, k)]]
    BY <1>1, ZenonT(30) DEF q, k
  <2> QED
    BY <2>1, <2>2, ZenonT(30)
<1>12. \A g \in Frame, l \in Level, v \in Page :
         Serves(g, l, v)' <=> Serves(g, l, v) \/ (g = f /\ l = k /\ v \in Span(q, k))
  BY <1>4, <1>11 DEF Serves, NoTable
<1>13. \A l \in Level, v \in Page : ~Serves(f, l, v)
  BY <1>4, SMTT(30) DEF Serves, NoTable
\* The pages of the new table had none at its level.
<1>14. \A v \in Page, g \in Frame : v \in Span(q, k) => ~Serves(g, k, v)
  <2> SUFFICES ASSUME NEW v \in Page, NEW g \in Frame, v \in Span(q, k), Serves(g, k, v)
               PROVE  FALSE
    OBVIOUS
  <2>1. v \in Span(q, lvl) /\ Index(v, lvl) = Index(q, lvl)
    BY <1>3, <1>5, SpanNarrow DEF k
  <2>2. Serves(cur, lvl, v)
    BY <1>3, <2>1, ServesSpan
  <2>3. PICK h \in Frame : Serves(h, lvl, v) /\ Present(Ent(h, lvl, v))
    BY <1>3 DEF IInv, Tree, Up, k
  <2>4. h = cur
    BY <1>3, <2>2, <2>3 DEF IInv, Tree, Unique
  <2> QED
    BY <1>2, <1>3, <2>1, <2>3, <2>4 DEF Ent
<1>15. \A v \in Page, l \in Level :
         Serves(cur, l, v) => l = lvl /\ (Index(v, l) = Slot => v \in Span(q, k))
  BY <1>3, SameSlot DEF q, k
<1>16. \A v \in Page, l \in Level :
         Serves(cur, l, v) /\ Index(v, l) = Slot => ~Present(Ent(cur, l, v))
  BY <1>2, <1>3, <1>15 DEF Ent
<1>17. TypeOK'
  <2>1. covers' \in [Frame -> [level : 0 .. 4, pages : SUBSET Page]]
    BY <1>1, <1>3, <1>5, SMTT(30) DEF IInv, TypeOK, q, k
  <2>2. free' \subseteq Frame \ {0} /\ cur' \in Frame
    BY <1>1, <1>4 DEF IInv, TypeOK
  <2>3. lvl' \in Level
    BY <1>2, <1>3
  <2>4. pml4' \in Frame /\ cr3' \in BOOLEAN /\ call' \in Call /\ tlb' \in [Page -> Entry]
    BY <1>2 DEF IInv, TypeOK
  <2> QED
    BY <1>7, <2>1, <2>2, <2>3, <2>4, ZenonT(30) DEF TypeOK
<1>18. Unique'
  BY <1>12, <1>14, SMTT(30) DEF IInv, Tree, Unique
<1>19. Spans'
  <2>1. \A v \in Page : v \in Span(q, k) => Span(v, k) = Span(q, k)
    BY <1>3, <1>5, SpanFacts, SMTT(30)
  <2> SUFFICES ASSUME NEW l \in Level, NEW v \in Page, NEW g \in Frame, Serves(g, l, v)'
               PROVE  covers'[g].pages = Span(v, l)
    BY DEF Spans
  <2>2. CASE g = f
    <3>1. l = k /\ v \in Span(q, k)
      BY <1>12, <1>13, <2>2
    <3>2. covers'[g].pages = Span(q, k)
      BY <1>11, <2>2
    <3> QED
      BY <2>1, <3>1, <3>2
  <2>3. CASE g # f
    <3>1. Serves(g, l, v)
      BY <1>12, <2>3
    <3>2. covers'[g] = covers[g]
      BY <1>11, <2>3
    <3> QED
      BY <3>1, <3>2 DEF IInv, Tree, Spans
  <2> QED
    BY <2>2, <2>3
<1>20. Down'
  <2> SUFFICES ASSUME NEW l \in 2 .. 4, NEW v \in Page, NEW g \in Frame,
                      Serves(g, l, v)', Present(Ent(g, l, v)')
               PROVE  /\ \E h \in Frame : h = Ent(g, l, v)'.frame /\ Serves(h, l - 1, v)'
                      /\ KernelFlags \subseteq Ent(g, l, v)'.flags
    BY DEF Down, Present, Serves
  <2>1. g # f /\ Serves(g, l, v)
    BY <1>8, <1>12, SMTT(30) DEF Present, Empty
  <2>2. CASE g = cur /\ Index(v, l) = Slot
    <3>1. l = lvl /\ v \in Span(q, k) /\ Ent(g, l, v)' = down
      BY <1>9, <1>15, <2>1, <2>2, SMTT(30)
    <3> QED
      BY <1>4, <1>5, <1>6, <1>10, <1>12, <3>1
  <2>3. CASE ~(g = cur /\ Index(v, l) = Slot)
    <3>1. Ent(g, l, v)' = Ent(g, l, v)
      BY <1>9, <2>1, <2>3, SMTT(30)
    <3>2. Serves(Ent(g, l, v).frame, l - 1, v) /\ KernelFlags \subseteq Ent(g, l, v).flags
      BY <2>1, <3>1, ZenonT(30) DEF IInv, Tree, Down
    <3>3. Ent(g, l, v).frame \in Frame
      BY EntType DEF IInv
    <3> QED
      BY <1>12, <3>1, <3>2, <3>3
  <2> QED
    BY <2>2, <2>3, ZenonT(30)
<1>21. Up'
  <2> SUFFICES ASSUME NEW l \in 2 .. 4, NEW v \in Page, NEW g \in Frame, Serves(g, l - 1, v)'
               PROVE  \E h \in Frame : /\ Serves(h, l, v)'
                                       /\ Present(Ent(h, l, v)') /\ Ent(h, l, v)'.frame = g
    BY DEF Up, Present
  <2>1. CASE Serves(g, l - 1, v)
    <3>1. PICK h \in Frame : Serves(h, l, v) /\ Present(Ent(h, l, v)) /\ Ent(h, l, v).frame = g
      BY <2>1 DEF IInv, Tree, Up
    <3>2. h # f /\ ~(h = cur /\ Index(v, l) = Slot)
      BY <1>13, <1>16, <3>1, SMTT(30)
    <3> QED
      BY <1>9, <1>12, <3>1, <3>2
  <2>2. CASE g = f /\ l - 1 = k /\ v \in Span(q, k)
    <3>1. l = lvl /\ Serves(cur, l, v) /\ Index(v, l) = Slot
      BY <1>3, <1>5, <2>2, SpanNarrow, ServesSpan, SMTT(30) DEF k
    <3> QED
      BY <1>3, <1>4, <1>6, <1>9, <1>10, <1>12, <2>2, <3>1
  <2> QED
    BY <1>12, <2>1, <2>2
<1>22. Rights'
  <2> SUFFICES ASSUME NEW l \in 2 .. 4, NEW v \in Page, NEW g \in Frame, NEW h \in Frame,
                      Serves(g, l, v)', Present(Ent(g, l, v)'),
                      Serves(h, l - 1, v)', Present(Ent(h, l - 1, v)')
               PROVE  Ent(h, l - 1, v)'.flags \subseteq Ent(g, l, v)'.flags
    BY DEF Rights, Present
  <2>1. l - 1 \in Level
    OBVIOUS
  <2>2. g # f /\ h # f /\ Serves(g, l, v) /\ Serves(h, l - 1, v)
    BY <1>8, <1>12, <2>1 DEF Present, Empty
  <2>3. ~(g = cur /\ Index(v, l) = Slot)
    <3>1. ASSUME g = cur, Index(v, l) = Slot PROVE FALSE
      <4>1. l = lvl /\ v \in Span(q, k)
        BY <1>15, <2>2, <3>1
      <4> QED
        BY <1>5, <1>14, <2>2, <4>1 DEF k
    <3> QED
      BY <3>1
  <2>4. Ent(g, l, v)' = Ent(g, l, v)
    BY <1>9, <2>2, <2>3, SMTT(30)
  <2>5. CASE h = cur /\ Index(v, l - 1) = Slot
    <3>1. l - 1 = lvl /\ l = lvl + 1 /\ lvl < 4
      BY <1>3, <1>15, <2>1, <2>2, <2>5, SMTT(30)
    <3>2. Intermediate \subseteq Ent(g, lvl + 1, v).flags
      BY <1>2, <2>2, <2>5, <3>1, ParentWide
    <3>3. Ent(h, l - 1, v)' = down
      BY <1>9, <2>1, <2>2, <2>5, ZenonT(30)
    <3> QED
      BY <1>10, <2>4, <3>1, <3>2, <3>3
  <2>6. CASE ~(h = cur /\ Index(v, l - 1) = Slot)
    <3>1. Ent(h, l - 1, v)' = Ent(h, l - 1, v)
      BY <1>9, <2>1, <2>2, <2>6
    <3> QED
      BY <2>2, <2>4, <3>1, ZenonT(30) DEF IInv, Tree, Rights
  <2> QED
    BY <2>5, <2>6, ZenonT(30)
<1>23. \A v \in Page, g \in Frame : Serves(g, 1, v) => g # f /\ Ent(g, 1, v)' = Ent(g, 1, v)
  BY <1>3, <1>9, <1>13, <1>15
<1>24. \A v \in Page, g \in Frame : Serves(g, 1, v)' =>
         \/ Serves(g, 1, v) /\ Ent(g, 1, v)' = Ent(g, 1, v)
         \/ (\A h \in Frame : ~Serves(h, 1, v)) /\ Ent(g, 1, v)' = Empty
  BY <1>8, <1>12, <1>14, <1>23, SMTT(30)
<1>25. Leaves'
  BY <1>24 DEF IInv, Tree, Leaves, Present
<1>26. Taken'
  <2>1. \A h \in free' : h \in Frame /\ h # f /\ h \in free
    BY <1>1, ZenonT(30) DEF IInv, TypeOK
  <2>2. \A h \in free' : h >= FirstFree /\ covers'[h] = NoTable
    BY <1>11, <2>1 DEF IInv, Taken
  <2>3. \A g \in Frame : covers'[g] = NoTable \/ covers'[g].level \in Level
    <3>1. k \in Level
      BY <1>5
    <3>2. covers'[f].level = k
      BY <1>4, <1>11, SMTT(30)
    <3> QED
      BY <1>11, <3>1, <3>2 DEF IInv, Taken
  <2> QED
    BY <2>2, <2>3, ZenonT(30) DEF Taken
<1>27. Roots'
  <2>1. pml4' = pml4 /\ pml4 # 0 /\ pml4 \in Frame
    BY <1>2, <1>3 DEF IInv, TypeOK
  <2>2. covers[pml4] = [level |-> 4, pages |-> Page]
    BY <2>1 DEF IInv, Roots
  <2>3. pml4 # f
    BY <1>4, <2>2 DEF NoTable
  <2>4. covers'[pml4] = covers[pml4]
    BY <1>11, <2>1, <2>3
  <2> QED
    BY <2>1, <2>2, <2>4 DEF Roots
<1>28. Walk'
  <2>1. Serves(cur, lvl, call.page)'
    BY <1>1, <1>2, <1>4, <1>5, <1>11 DEF Serves, q, k
  <2>2. Intermediate' = Intermediate /\ (Mapping' <=> Mapping) /\ (Walking' <=> Walking)
    BY <1>2 DEF Intermediate, Mapping, Walking
  <2>3. table'[cur][Index(q, lvl)] = down
    BY <1>3, <1>4, <1>9 DEF Ent
  <2>4. ASSUME NEW g \in Frame, Serves(g, lvl + 1, call.page)'
        PROVE  /\ Present(Ent(g, lvl + 1, call.page))'
               /\ (Intermediate \subseteq Ent(g, lvl + 1, call.page).flags)'
    <3>1. lvl' + 1 = lvl /\ call'.page = q
      BY <1>2, <1>3, SMTT(30) DEF q
    <3>2. g # f
      <4>1. covers'[g].level = lvl
        BY <2>4, <3>1 DEF Serves
      <4>2. covers'[f].level = k
        BY <1>4, <1>11
      <4> QED
        BY <1>3, <1>5, <4>1, <4>2
    <3>3. Serves(g, lvl, q)
      BY <1>11, <2>4, <3>1, <3>2 DEF Serves
    <3>4. g = cur
      BY <1>3, <3>3 DEF IInv, Tree, Unique
    <3>5. Ent(g, lvl + 1, call.page)' = down
      BY <2>3, <3>1, <3>4, ZenonT(30) DEF Ent
    <3> QED
      BY <1>6, <1>10, <2>2, <3>5 DEF Present
  <2> QED
    BY <1>2, <2>1, <2>2, <2>4, ZenonT(30) DEF IInv, Walk, Walking, Present
<1>29. Data'
  <2>2. Safe(call.page, call.to)'
    BY <1>1, <1>2, <1>3, <1>11, ZenonT(30) DEF IInv, Data, Safe, Entry
  <2>3. \A v \in Page : Safe(v, tlb[v])'
    BY <1>1, <1>2, <1>11, ZenonT(30) DEF IInv, Data, Safe, TypeOK, Entry
  <2>4. \A v \in Page, g \in Frame : Serves(g, 1, v)' => Safe(v, Ent(g, 1, v))'
    <3> SUFFICES ASSUME NEW v \in Page, NEW g \in Frame, Serves(g, 1, v)'
                 PROVE  Safe(v, Ent(g, 1, v))'
      BY ZenonT(30)
    <3>1. CASE Serves(g, 1, v) /\ Ent(g, 1, v)' = Ent(g, 1, v)
      <4>1. Safe(v, Ent(g, 1, v))
        BY <3>1 DEF IInv, Data
      <4>2. Ent(g, 1, v).frame \in Frame
        BY EntType DEF IInv
      <4>3. \A h \in Frame : covers[h] = NoTable /\ h \notin free =>
                covers'[h] = NoTable /\ h \notin free'
        BY <1>1, <1>11
      <4> QED
        BY <3>1, <4>1, <4>2, <4>3, ZenonT(30) DEF Safe
    <3>2. CASE Ent(g, 1, v)' = Empty
      BY <3>2 DEF Safe, Empty
    <3> QED
      BY <1>24, <3>1, <3>2
  <2> QED
    BY <2>2, <2>3, <2>4, ZenonT(30) DEF Data
<1>30. \A v \in Page, g \in Frame : Serves(g, 1, v) => Serves(g, 1, v)'
  BY <1>12
<1> QED
  BY <1>17, <1>18, <1>19, <1>20, <1>21, <1>22, <1>24, <1>25, <1>26, <1>27, <1>28, <1>29, <1>30
     DEF IInv, Tree


LEMMA MapLeafStep ==
    ASSUME IInv, vmm_map_page_leaf
    PROVE  /\ IInv'
           /\ \A v \in Page, g \in Frame : Serves(g, 1, v) =>
                 Ent(g, 1, v)' = IF v = call.page THEN call.to ELSE Ent(g, 1, v)
<1>1. /\ Mapping /\ Walking /\ lvl = 1 /\ Return
      /\ table' = [table EXCEPT ![cur][Slot] = call.to]
      /\ UNCHANGED <<free, pml4, cr3, cur, lvl, tlb, covers>>
  BY DEF vmm_map_page_leaf, Walking
<1>2. call.to \in Entry
  BY <1>1, WalkFacts
<1>3. /\ call' \in Call /\ ~Walking'
      /\ call' = Idle \/ (call'.page = call.page /\ call'.to = call.to)
  BY <1>1, ReturnFacts DEF IInv
<1> QED
  BY <1>1, <1>2, <1>3, LeafWrite, ZenonT(30)

LEMMA UnmapLeafStep ==
    ASSUME IInv, vmm_unmap_page_leaf
    PROVE  /\ IInv'
           /\ \A v \in Page, g \in Frame : Serves(g, 1, v) =>
                 Ent(g, 1, v)' = IF v = call.page THEN Empty ELSE Ent(g, 1, v)
<1>1. /\ Walking /\ lvl = 1 /\ call' = [call EXCEPT !.by = "invlpg"]
      /\ table' = [table EXCEPT ![cur][Slot] = Empty]
      /\ UNCHANGED <<free, pml4, cr3, cur, lvl, tlb, covers>>
  BY DEF vmm_unmap_page_leaf, Walking
<1>2. call \in Call
  BY <1>1, WalkFacts
<1>3. call' \in Call /\ ~Walking' /\ call'.page = call.page /\ call'.to = call.to
  BY <1>1, <1>2 DEF Call, Walking, Mapping
<1> QED
  BY <1>1, <1>3, IdleCall, LeafWrite, ZenonT(30)

(***************************************************************************)
(* The invariant.                                                          *)
(***************************************************************************)

LEMMA CallersStep ==
    ASSUME IInv,
           \/ \E v \in HeapPages : kheap_map_region(v)
           \/ \E v \in ImagePages : load_segment(v)
           \/ \E v \in StackPages : map_stack(v)
    PROVE  IInv'
<1>1. ASSUME NEW v \in HeapPages, kheap_map_region(v) PROVE IInv'
  <2>1. v \in Page /\ KernelFlags \in SUBSET Flags
          /\ "PRESENT" \in KernelFlags /\ "USER" \notin KernelFlags
    BY DEF Page, KernelFlags, Flags
  <2> QED
    BY <1>1, <2>1, MapNewFrameStep DEF kheap_map_region
<1>2. ASSUME NEW v \in ImagePages, load_segment(v) PROVE IInv'
  <2>1. v \in Page /\ v \in UserPages
    BY DEF Page, UserPages
  <2>2. PICK w \in SUBSET {"WRITE"} : map_new_frame("map_invlpg", v, {"PRESENT", "USER"} \cup w)
    BY <1>2, ZenonT(30) DEF load_segment
  <2>3. {"PRESENT", "USER"} \cup w \in SUBSET Flags
    BY DEF Flags
  <2> QED
    BY <2>1, <2>2, <2>3, MapNewFrameStep, ZenonT(30)
<1>3. ASSUME NEW v \in StackPages, map_stack(v) PROVE IInv'
  <2>1. v \in Page /\ v \in UserPages /\ "PRESENT" \in Flags
    BY DEF Page, UserPages, Flags
  <2> QED
    BY <1>3, <2>1, MapNewFrameStep DEF map_stack
<1> QED
  BY <1>1, <1>2, <1>3

LEMMA NextIInv == IInv /\ [Next]_vars => IInv'
<1> SUFFICES ASSUME IInv, [Next]_vars PROVE IInv'
  BY ZenonT(30)
<1>1. CASE UNCHANGED vars
  <2>1. TypeOK' /\ Walk'
    BY <1>1, ZenonT(30) DEF vars, IInv, TypeOK, Walk, Walking, Mapping, Serves, Ent, Intermediate
  <2>2. Safe(call.page, call.to)' /\ \A v \in Page : Safe(v, tlb[v])'
    BY <1>1, ZenonT(30) DEF vars, IInv, Data, Safe
  <2>3. pml4 = 0 => call' = Idle /\ cr3' = FALSE
    BY <1>1 DEF vars, IInv, Roots
  <2> QED
    BY <1>1, <2>1, <2>2, <2>3, QuietStep, ZenonT(30) DEF vars
<1>2. CASE vmm_init \/ vmm_init_next
  BY <1>2, VmmInitStep, InitNextStep
<1>3. CASE \/ \E v \in HeapPages : kheap_map_region(v)
           \/ \E v \in ImagePages : load_segment(v)
           \/ \E v \in StackPages : map_stack(v)
  BY <1>3, CallersStep
<1>4. CASE \E v \in UserPages : vmm_unmap_page(v)
  BY <1>4, UnmapStartStep
<1>5. CASE vmm_map_page_down \/ vmm_map_page_table \/ vmm_map_page_none \/ vmm_map_page_leaf
  BY <1>5, MapDownStep, MapTableStep, MapNoneStep, MapLeafStep
<1>6. CASE vmm_unmap_page_down \/ vmm_unmap_page_absent \/ vmm_unmap_page_leaf
  BY <1>6, UnmapDownStep, UnmapAbsentStep, UnmapLeafStep
<1>7. CASE invlpg
  BY <1>7, InvlpgStep
<1>8. CASE \E v \in Page : tlb_fill(v) \/ tlb_evict(v)
  BY <1>8, TlbStep
<1> QED
  BY <1>1, <1>2, <1>3, <1>4, <1>5, <1>6, <1>7, <1>8 DEF Next

\* The tables are a tree with one table per page and level, walks in progress
\* stand on it, and rights do not grow downwards.
THEOREM VmmInvariant == Spec => []IInv
  BY InitIInv, NextIInv, PTL DEF Spec

\* What ring 3 can reach, through the tables or through a stale TLB entry, is
\* never a page table, a frame of the pool or the kernel image.
THEOREM UserReachesDataAlways == Spec => []UserReachesData
<1>1. IInv => UserReachesData
  <2> SUFFICES ASSUME IInv, NEW v \in Page, NEW e \in {Translate(v), tlb[v]}
               PROVE  Safe(v, e)
    BY ZenonT(30) DEF UserReachesData, Safe
  <2>1. CASE e = tlb[v]
    BY <2>1, ZenonT(30) DEF IInv, Data
  <2>2. CASE e = Translate(v) /\ \E g \in Frame : Serves(g, 1, v)
    BY <2>2, TranslationsHold, ZenonT(30) DEF Translations, IInv, Data
  <2>3. CASE e = Translate(v) /\ \A g \in Frame : ~Serves(g, 1, v)
    <3>1. e = Empty
      BY <2>3, TranslationsHold, ZenonT(30) DEF Translations
    <3> QED
      BY <3>1, ZenonT(30) DEF Safe, Empty
  <2> QED
    BY <2>1, <2>2, <2>3
<1> QED
  BY <1>1, VmmInvariant, PTL


(***************************************************************************)
(* The effect of every step on the translations.                           *)
(***************************************************************************)

LEMMA SameTables ==
    ASSUME UNCHANGED <<table, pml4>>
    PROVE  \A v : Translate(v)' = Translate(v)
  BY ZenonT(30) DEF Translate

LEMMA InitTranslations ==
    ASSUME IInv, vmm_init
    PROVE  \A v \in Page : Translate(v)' = Translate(v)
<1>1. \A v \in Page : Translate(v) = Empty
  BY ZenonT(30) DEF vmm_init, Translate
<1>2. \A v \in Page : Translate(v)' = Empty
  BY VmmInitStep, TranslationsPrimed DEF Translations
<1> QED
  BY <1>1, <1>2

LEMMA DownTranslations ==
    ASSUME IInv, vmm_map_page_down
    PROVE  \A v \in Page : Translate(v)' = Translate(v)
<1>1. \A g, v : Serves(g, 1, v)' <=> Serves(g, 1, v)
  BY DEF vmm_map_page_down, Serves
<1> QED
  BY <1>1, MapDownStep, TranslationsHold, TranslationsPrimed DEF Translations

LEMMA TableTranslations ==
    ASSUME IInv, vmm_map_page_table
    PROVE  \A v \in Page : Translate(v)' = Translate(v)
<1> SUFFICES ASSUME NEW v \in Page PROVE Translate(v)' = Translate(v)
  OBVIOUS
<1>1. Translations /\ Translations'
  BY MapTableStep, TranslationsHold, TranslationsPrimed
<1>2. CASE \E g \in Frame : Serves(g, 1, v)'
  <2>1. PICK g \in Frame : Serves(g, 1, v)'
    BY <1>2
  <2>2. Translate(v)' = Ent(g, 1, v)'
    BY <1>1, <2>1 DEF Translations
  <2>3. CASE Serves(g, 1, v) /\ Ent(g, 1, v)' = Ent(g, 1, v)
    BY <1>1, <2>2, <2>3 DEF Translations
  <2>4. CASE (\A h \in Frame : ~Serves(h, 1, v)) /\ Ent(g, 1, v)' = Empty
    BY <1>1, <2>2, <2>4 DEF Translations
  <2> QED
    BY <2>1, <2>3, <2>4, MapTableStep
<1>3. CASE \A g \in Frame : ~Serves(g, 1, v)'
  <2>1. \A g \in Frame : ~Serves(g, 1, v)
    BY <1>3, MapTableStep
  <2> QED
    BY <1>1, <1>3, <2>1 DEF Translations
<1> QED
  BY <1>2, <1>3

\* A leaf write changes the translation of its page to x and no other.
LEMMA LeafTranslations ==
    ASSUME IInv, vmm_map_page_leaf \/ vmm_unmap_page_leaf
    PROVE  \A v \in Page : Translate(v)' = IF v = call.page THEN call.to ELSE Translate(v)
<1> SUFFICES ASSUME NEW v \in Page
             PROVE  Translate(v)' = IF v = call.page THEN call.to ELSE Translate(v)
  OBVIOUS
<1>1. Walking /\ lvl = 1 /\ UNCHANGED covers
  BY DEF vmm_map_page_leaf, vmm_unmap_page_leaf, Walking
<1>2. cur \in Frame /\ Serves(cur, 1, call.page)
  BY <1>1, WalkFacts, ZenonT(30)
<1>3. call.by = "unmap" => call.to = Empty
  BY <1>1 DEF IInv, Walk
<1>4. IInv' /\ \A g \in Frame : Serves(g, 1, v) =>
                  Ent(g, 1, v)' = IF v = call.page THEN call.to ELSE Ent(g, 1, v)
  <2>1. CASE vmm_map_page_leaf
    BY <2>1, MapLeafStep
  <2>2. CASE vmm_unmap_page_leaf
    BY <1>3, <2>2, UnmapLeafStep DEF vmm_unmap_page_leaf
  <2> QED
    BY <2>1, <2>2
<1>5. Translations /\ Translations'
  BY <1>4, TranslationsHold, TranslationsPrimed
<1>6. \A g : Serves(g, 1, v)' <=> Serves(g, 1, v)
  BY <1>1 DEF Serves
<1>7. CASE \E g \in Frame : Serves(g, 1, v)
  BY <1>4, <1>5, <1>6, <1>7 DEF Translations
<1>8. CASE \A g \in Frame : ~Serves(g, 1, v)
  BY <1>2, <1>5, <1>6, <1>8, ZenonT(30) DEF Translations
<1> QED
  BY <1>7, <1>8

(***************************************************************************)
(* The tables implement the dictionary.                                    *)
(***************************************************************************)

Mapped == [v \in Page |-> Translate(v)]
Asked == IF Walking THEN [page |-> call.page, to |-> call.to] ELSE Idle

LEMMA AskedFacts ==
    /\ Walking => Asked # Idle /\ Asked = [page |-> call.page, to |-> call.to]
    /\ ~Walking => Asked = Idle
  BY ZenonT(30) DEF Asked, Idle

LEMMA DictionaryForm ==
    /\ Dictionary!Init <=> (Mapped = [v \in Page |-> Empty] /\ Asked = Idle)
    /\ [Dictionary!Next]_(Dictionary!vars) <=>
          \/ /\ Asked = Idle /\ Asked' \in [page : Page, to : Entry] /\ Mapped' = Mapped
          \/ /\ Asked # Idle /\ Asked' = Idle
             /\ Mapped' = [Mapped EXCEPT ![Asked.page] = Asked.to] \/ Mapped' = Mapped
          \/ Asked' = Asked /\ Mapped' = Mapped
  BY ZenonT(30)
     DEF Dictionary!Init, Dictionary!Next, Dictionary!vars, Dictionary!Ask, Dictionary!Fulfil,
         Dictionary!Refuse, Dictionary!Request, Mapped, Asked, Walking


LEMMA MappedKept ==
    ASSUME \A v \in Page : Translate(v)' = Translate(v) PROVE Mapped' = Mapped
  BY DEF Mapped

LEMMA AskStep ==
    ASSUME ~Walking, Walking', call' \in Call, Mapped' = Mapped
    PROVE  [Dictionary!Next]_(Dictionary!vars)
<1>1. Asked = Idle /\ Asked' = [page |-> call'.page, to |-> call'.to]
  BY DEF Asked
<1>2. Asked' \in [page : Page, to : Entry]
  BY <1>1 DEF Call
<1> QED
  BY <1>1, <1>2, DictionaryForm

LEMMA StayStep ==
    ASSUME Mapped' = Mapped, \/ ~Walking /\ ~Walking'
                             \/ Walking /\ ~Walking'
                             \/ Walking /\ Walking' /\ call' = call
    PROVE  [Dictionary!Next]_(Dictionary!vars)
<1>1. CASE ~Walking /\ ~Walking'
  <2>1. Asked' = Asked
    BY <1>1 DEF Asked
  <2> QED
    BY <2>1, DictionaryForm
<1>2. CASE Walking /\ ~Walking'
  <2>1. Asked # Idle /\ Asked' = Idle
    BY <1>2, AskedFacts DEF Asked
  <2> QED
    BY <2>1, DictionaryForm
<1>3. CASE Walking /\ Walking' /\ call' = call
  <2>1. Asked' = Asked
    BY <1>3 DEF Asked
  <2> QED
    BY <2>1, DictionaryForm
<1> QED
  BY <1>1, <1>2, <1>3

LEMMA CallerAsks ==
    ASSUME IInv', NEW by \in {"map", "map_invlpg"}, NEW v, NEW flags, map_new_frame(by, v, flags)
    PROVE  [Dictionary!Next]_(Dictionary!vars)
<1>1. call = Idle /\ call'.by = by /\ UNCHANGED <<table, pml4>>
  BY DEF map_new_frame, Start
<1>2. ~Walking /\ Walking' /\ call' \in Call
  BY <1>1 DEF Walking, Mapping, Idle, IInv, TypeOK
<1> QED
  BY <1>1, <1>2, SameTables, MappedKept, AskStep

LEMMA DictionaryStep ==
    ASSUME IInv, IInv', [Next]_vars
    PROVE  [Dictionary!Next]_(Dictionary!vars)
<1>1. CASE UNCHANGED vars
  <2>1. (Walking' <=> Walking) /\ call' = call /\ Mapped' = Mapped
    BY <1>1, SameTables, MappedKept DEF vars, Walking, Mapping
  <2> QED
    BY <2>1, StayStep
<1>2. CASE vmm_init
  <2>1. ~Walking /\ Walking' /\ call' \in Call
    BY <1>2 DEF vmm_init, Walking, Mapping, Idle, IInv, TypeOK
  <2> QED
    BY <1>2, <2>1, InitTranslations, MappedKept, AskStep, SMTT(30)
<1>3. CASE vmm_init_next
  <2>1. ~Walking /\ call' \in Call /\ UNCHANGED <<table, pml4>>
    BY <1>3 DEF vmm_init_next, Walking, Mapping, IInv, TypeOK
  <2>2. CASE Walking'
    BY <2>1, <2>2, SameTables, MappedKept, AskStep
  <2>3. CASE ~Walking'
    BY <2>1, <2>3, SameTables, MappedKept, StayStep
  <2> QED
    BY <2>2, <2>3, ZenonT(30)
<1>4. CASE \/ \E v \in HeapPages : kheap_map_region(v)
           \/ \E v \in ImagePages : load_segment(v)
           \/ \E v \in StackPages : map_stack(v)
  BY <1>4, CallerAsks, ZenonT(30) DEF kheap_map_region, load_segment, map_stack
<1>5. ASSUME NEW v \in UserPages, vmm_unmap_page(v)
      PROVE  [Dictionary!Next]_(Dictionary!vars)
  <2>1. ~Walking /\ Walking' /\ call' \in Call /\ UNCHANGED <<table, pml4>>
    BY <1>5 DEF vmm_unmap_page, Start, Walking, Mapping, Idle, IInv, TypeOK
  <2> QED
    BY <2>1, SameTables, MappedKept, AskStep, SMTT(30)
<1>6. CASE vmm_map_page_down \/ vmm_map_page_table
  <2>1. Walking /\ Walking' /\ call' = call
    BY <1>6 DEF vmm_map_page_down, vmm_map_page_table, Walking, Mapping
  <2> QED
    BY <1>6, <2>1, DownTranslations, TableTranslations, MappedKept, StayStep
<1>7. CASE vmm_unmap_page_down
  <2>1. Walking /\ Walking' /\ call' = call /\ UNCHANGED <<table, pml4>>
    BY <1>7 DEF vmm_unmap_page_down, Walking, Mapping
  <2> QED
    BY <2>1, SameTables, MappedKept, StayStep
<1>8. CASE vmm_map_page_none
  <2>1. Walking /\ ~Walking' /\ UNCHANGED <<table, pml4>>
    BY <1>8, ReturnFacts DEF vmm_map_page_none, Walking, IInv
  <2> QED
    BY <2>1, SameTables, MappedKept, StayStep
<1>9. CASE vmm_unmap_page_absent
  <2>1. Walking /\ ~Walking' /\ UNCHANGED <<table, pml4>>
    BY <1>9 DEF vmm_unmap_page_absent, Walking, Mapping, Idle
  <2> QED
    BY <2>1, SameTables, MappedKept, StayStep
<1>10. CASE vmm_map_page_leaf \/ vmm_unmap_page_leaf
  <2>1. Walking
    BY <1>10 DEF vmm_map_page_leaf, vmm_unmap_page_leaf, Walking
  <2>2. ~Walking'
    <3>1. CASE vmm_map_page_leaf
      BY <3>1, ReturnFacts DEF vmm_map_page_leaf, IInv
    <3>2. CASE vmm_unmap_page_leaf
      BY <2>1, <3>2, WalkFacts, ZenonT(30) DEF vmm_unmap_page_leaf, Walking, Mapping, Call
    <3> QED
      BY <1>10, <3>1, <3>2
  <2>3. Asked = [page |-> call.page, to |-> call.to] /\ Asked # Idle /\ Asked' = Idle
    BY <2>1, <2>2, AskedFacts DEF Asked
  <2>4. Mapped' = [Mapped EXCEPT ![Asked.page] = Asked.to]
    BY <1>10, <2>3, LeafTranslations, ZenonT(30) DEF Mapped
  <2> QED
    BY <2>3, <2>4, DictionaryForm
<1>11. CASE invlpg
  <2>1. ~Walking /\ ~Walking' /\ UNCHANGED <<table, pml4>>
    BY <1>11 DEF invlpg, Walking, Mapping, Idle
  <2> QED
    BY <2>1, SameTables, MappedKept, StayStep
<1>12. ASSUME NEW v \in Page, tlb_fill(v) \/ tlb_evict(v)
       PROVE  [Dictionary!Next]_(Dictionary!vars)
  <2>1. call' = call /\ UNCHANGED <<table, pml4>> /\ (Walking' <=> Walking)
    BY <1>12 DEF tlb_fill, tlb_evict, Walking, Mapping
  <2> QED
    BY <2>1, SameTables, MappedKept, StayStep, SMTT(30)
<1> QED
  BY <1>1, <1>2, <1>3, <1>4, <1>5, <1>6, <1>7, <1>8, <1>9, <1>10, <1>11, <1>12 DEF Next

\* vmm.c implements one dictionary of translations: vmm_map_page and
\* vmm_unmap_page change the translation of their page at one instant and never
\* that of another, also when frames run out on the way.
THEOREM VmmImplementsPageMap == Spec => DictionarySpec
<1>1. Init => Dictionary!Init
  <2> SUFFICES ASSUME Init PROVE Mapped = [v \in Page |-> Empty] /\ Asked = Idle
    BY DictionaryForm, ZenonT(30)
  <2>1. \A v \in Page : Translate(v) = Empty
    BY ZenonT(30) DEF Init, Translate
  <2>2. ~Walking
    BY DEF Init, Walking, Mapping, Idle
  <2> QED
    BY <2>1, <2>2 DEF Mapped, Asked
<1>2. IInv /\ IInv' /\ [Next]_vars => [Dictionary!Next]_(Dictionary!vars)
  BY DictionaryStep
<1> QED
  BY <1>1, <1>2, VmmInvariant, PTL DEF Spec, DictionarySpec, Dictionary!Spec

(***************************************************************************)
(* The TLB.                                                                *)
(***************************************************************************)

\* Image pages are mapped by load_segment only.
Callers ==
    /\ call.by = "map" => call.page \in HeapPages \cup StackPages
    /\ call.by \in {"vmm_init", "vmm_init_next"} => call.page < IdentityEnd

Coherent ==
    \A v \in ImagePages :
        tlb[v] \in {Empty, Translate(v)} \/ (call.by = "invlpg" /\ call.page = v)


LEMMA ImageSeparate ==
    \A v \in ImagePages : v \in Page /\ v \notin HeapPages \cup StackPages
                          /\ ~(v \in Nat /\ v < IdentityEnd)
  BY VmmConstants DEF Page, UserPages

LEMMA CallersKept ==
    ASSUME Callers, TypeOK, [Next]_vars PROVE Callers'
<1>1. call \in Call /\ call.page \in Nat
  BY PageNat, ZenonT(30) DEF TypeOK, Call
<1>2. CASE UNCHANGED call
  BY <1>2 DEF Callers
<1>3. CASE call' = Idle
  BY <1>3, ZenonT(30) DEF Callers, Idle
<1>4. CASE vmm_init
  BY <1>4, VmmConstants, SMTT(30) DEF vmm_init, Callers
<1>5. CASE vmm_init_next
  BY <1>5, SMTT(30) DEF vmm_init_next, Start, Callers, Idle
<1>6. CASE Mapping /\ Return
  <2>1. CASE call.by = "vmm_init"
    BY <1>1, <1>6, <2>1 DEF Return, Callers, Call
  <2>2. CASE call.by # "vmm_init"
    BY <1>1, <1>6, <2>2, ZenonT(30) DEF Return, Callers, Call, Mapping, Idle
  <2> QED
    BY <2>1, <2>2
<1>7. ASSUME NEW v \in HeapPages, kheap_map_region(v) PROVE Callers'
  BY <1>7, SMTT(30) DEF kheap_map_region, map_new_frame, Start, Callers
<1>8. ASSUME NEW v \in ImagePages, load_segment(v) PROVE Callers'
  BY <1>8, SMTT(30) DEF load_segment, map_new_frame, Start, Callers
<1>9. ASSUME NEW v \in StackPages, map_stack(v) PROVE Callers'
  BY <1>9 DEF map_stack, map_new_frame, Start, Callers
<1>10. ASSUME NEW v \in UserPages, vmm_unmap_page(v) PROVE Callers'
  BY <1>10 DEF vmm_unmap_page, Start, Callers
<1>11. CASE vmm_unmap_page_leaf
  BY <1>1, <1>11 DEF vmm_unmap_page_leaf, Callers, Call
<1>12. UNCHANGED call \/ call' = Idle \/ (Mapping /\ Return) \/ vmm_init \/ vmm_init_next
       \/ vmm_unmap_page_leaf
       \/ (\E v \in HeapPages : kheap_map_region(v))
       \/ (\E v \in ImagePages : load_segment(v))
       \/ (\E v \in StackPages : map_stack(v))
       \/ (\E v \in UserPages : vmm_unmap_page(v))
  BY ZenonT(30) DEF Next, vars, vmm_map_page_down, vmm_map_page_table, vmm_map_page_none,
         vmm_map_page_leaf, vmm_unmap_page_down, vmm_unmap_page_absent, invlpg,
         tlb_fill, tlb_evict
<1> QED
  BY <1>2, <1>3, <1>4, <1>5, <1>6, <1>7, <1>8, <1>9, <1>10, <1>11, <1>12

\* Steps that change neither a translation nor the TLB, outside invlpg.
LEMMA CoherentKept ==
    ASSUME Coherent, UNCHANGED tlb, \A v \in Page : Translate(v)' = Translate(v),
           call.by # "invlpg" \/ call' = call
    PROVE  Coherent'
  BY ImageSeparate DEF Coherent

LEMMA CoherentStep ==
    ASSUME IInv, Callers, Coherent, [Next]_vars PROVE Coherent'
<1>1. CASE UNCHANGED vars
  BY <1>1, SameTables, CoherentKept DEF vars
<1>2. CASE vmm_init \/ vmm_map_page_down \/ vmm_map_page_table
  <2>1. UNCHANGED tlb /\ call.by # "invlpg"
    BY <1>2 DEF vmm_init, vmm_map_page_down, vmm_map_page_table, Mapping, Idle
  <2> QED
    BY <1>2, <2>1, InitTranslations, DownTranslations, TableTranslations, CoherentKept
<1>3. CASE vmm_init_next \/ vmm_map_page_none \/ vmm_unmap_page_down \/ vmm_unmap_page_absent
  <2>1. UNCHANGED <<tlb, table, pml4>> /\ call.by # "invlpg"
    BY <1>3 DEF vmm_init_next, vmm_map_page_none, vmm_unmap_page_down,
                vmm_unmap_page_absent, Mapping
  <2> QED
    BY <2>1, SameTables, CoherentKept, ZenonT(30)
<1>4. CASE \/ \E v \in HeapPages : kheap_map_region(v)
           \/ \E v \in ImagePages : load_segment(v)
           \/ \E v \in StackPages : map_stack(v)
           \/ \E v \in UserPages : vmm_unmap_page(v)
  <2>1. UNCHANGED <<tlb, table, pml4>> /\ call = Idle
    BY <1>4 DEF kheap_map_region, load_segment, map_stack, map_new_frame, vmm_unmap_page
  <2> QED
    BY <2>1, SameTables, CoherentKept, SMTT(30) DEF Idle
<1>5. CASE vmm_map_page_leaf \/ vmm_unmap_page_leaf
  <2>1. Walking /\ UNCHANGED tlb
    BY <1>5 DEF vmm_map_page_leaf, vmm_unmap_page_leaf, Walking
  <2>2. call \in Call /\ call.page \in Page /\ call.page \in Nat
    BY <2>1, WalkFacts, PageNat, ZenonT(30)
  <2>3. CASE call.page \in ImagePages
    <3>1. call.by \in {"map_invlpg", "unmap"}
      BY <2>1, <2>2, <2>3, ImageSeparate DEF Callers, Walking, Mapping
    <3>2. call'.by = "invlpg" /\ call'.page = call.page
      BY <1>5, <2>2, <3>1 DEF vmm_map_page_leaf, vmm_unmap_page_leaf, Mapping, Return, Call
    <3> QED
      BY <1>5, <2>1, <3>1, <3>2, LeafTranslations, ImageSeparate DEF Coherent
  <2>4. CASE call.page \notin ImagePages
    <3>1. call.by # "invlpg"
      BY <2>1 DEF Walking, Mapping
    <3> QED
      BY <1>5, <2>1, <2>4, <3>1, LeafTranslations, ImageSeparate DEF Coherent
  <2> QED
    BY <2>3, <2>4
<1>6. CASE invlpg
  <2>1. /\ tlb' = [tlb EXCEPT ![call.page] = Empty] /\ UNCHANGED <<table, pml4>>
        /\ tlb \in [Page -> Entry]
    BY <1>6 DEF invlpg, IInv, TypeOK
  <2> QED
    BY <2>1, SameTables, ImageSeparate DEF Coherent
<1>7. ASSUME NEW v \in Page, tlb_fill(v) \/ tlb_evict(v) PROVE Coherent'
  <2>1. /\ call' = call /\ UNCHANGED <<table, pml4>> /\ tlb \in [Page -> Entry]
        /\ \E x \in {Empty, Translate(v)} : tlb' = [tlb EXCEPT ![v] = x]
    BY <1>7 DEF tlb_fill, tlb_evict, IInv, TypeOK
  <2> QED
    BY <2>1, SameTables, ImageSeparate DEF Coherent
<1> QED
  BY <1>1, <1>2, <1>3, <1>4, <1>5, <1>6, <1>7 DEF Next

\* When load_segment or vmm_unmap_page is over, the processor uses no other
\* translation of an image page than that of the tables.
THEOREM TlbCoherentAlways == Spec => []TlbCoherent
<1>1. Init => Callers /\ Coherent
  BY ImageSeparate DEF Init, Callers, Coherent, Idle
<1>2. IInv /\ Callers /\ Coherent /\ [Next]_vars => (Callers /\ Coherent)'
  BY CallersKept, CoherentStep DEF IInv
<1>3. Coherent => TlbCoherent
  BY DEF Coherent, TlbCoherent, Idle
<1> QED
  BY <1>1, <1>2, <1>3, VmmInvariant, PTL DEF Spec

\* The type invariant holds for every size of memory and layout.
THEOREM VmmTypeOK == Spec => []TypeOK
<1>1. IInv => TypeOK
  BY DEF IInv
<1> QED
  BY <1>1, VmmInvariant, PTL

=============================================================================
