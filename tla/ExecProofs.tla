----------------------------- MODULE ExecProofs -----------------------------
(***************************************************************************)
(* Proofs about Exec, for every layout, program size and memory size.      *)
(*                                                                         *)
(* Three invariants carry them: which frames the pages are in (Frames),    *)
(* how far a load has come and who waits for whom (Control), and, as long  *)
(* as the frames lie below the heap, what the frames hold (Contents).      *)
(***************************************************************************)
EXTENDS Exec, TLAPS

Heap == HeapPage .. HeapPage + HeapPages - 1
Loading == pc \in {"page", "map"}
Extent == IF job.part = "image" THEN Pages(job.prog) ELSE StackPages

\* Heap pages stay where kheap_init put them, everything mapped later is in a
\* frame handed out later, and so are the page tables and a frame on its way.
Frames ==
    /\ BootFrames <= next_frame
    /\ \A v \in DOMAIN pt : v \in Heap \/ ImagePage <= v
    /\ \A v \in Heap : v \in DOMAIN pt /\ pt[v] = HeapFrame + (v - HeapPage)
    /\ \A v \in DOMAIN pt : ImagePage <= v => BootFrames <= pt[v]
    /\ \A v \in DOMAIN pt : UserStack <= v => Region(UserStack) \in DOMAIN tables
    /\ \A r \in DOMAIN tables : BootFrames <= tables[r]
    /\ FramesDisjoint
    /\ pc = "map" =>
          /\ BootFrames <= job.frame /\ job.frame < next_frame
          /\ \A v \in DOMAIN pt : pt[v] # job.frame
          /\ \A r \in DOMAIN tables : tables[r] # job.frame

\* The stack pages below job.i are mapped, unless the first one got no table.
StackSoFar ==
    \/ \A j \in 0 .. job.i - 1 : StackBase + j \in DOMAIN pt
    \/ pc = "page" /\ job.i = 1 /\ next_frame = ram

Control ==
    /\ pc = "map" => job.i < Extent
    /\ Loading /\ job.part = "stack" => job.why # "exit" /\ StackSoFar
    /\ Loading /\ job.why # "exit" => started < MaxPrograms
    /\ Loading /\ job.why = "exit" => job.prog = "shell"
    /\ Loading /\ job.why = "boot" => calls = <<>> /\ ~child_running /\ ~nested
    /\ ~nested =>
          /\ Loading /\ job.why = "exec" =>
                Len(calls) = 1 /\ running = calls[1] /\ ~child_running
          /\ Loading /\ job.why = "exit" =>
                Len(calls) = 2 /\ saved_frame = calls[1] /\ ~child_running
          /\ pc = "user" =>
                /\ Len(calls) \in {1, 2} /\ running = calls[Len(calls)]
                /\ child_running = (Len(calls) = 2)
                /\ Len(calls) = 2 => saved_frame = calls[1]
          /\ Len(calls) >= 1 => calls[1].stk = UserStack
          /\ Len(calls) = 2 => calls[2].stk = ChildStack

FileFrame(p, i) == HeapFrame + i + (IF p = "shell" THEN HelloPages ELSE 0)
Files == \A p \in Program : \A i \in 0 .. Pages(p) - 1 : mem[FileFrame(p, i)] = File(p, i)

\* Every program that runs or waits has its stack.
Stacks ==
    ~nested => \A k \in DOMAIN calls : \A j \in 0 .. StackPages - 1 :
        /\ calls[k].stk + j \in DOMAIN pt
        /\ mem[pt[calls[k].stk + j]] = Stack(calls[k])

\* The first n pages of p's image are in place.
Upto(p, n) ==
    \A i \in 0 .. n - 1 : ImagePage + i \in DOMAIN pt /\ mem[pt[ImagePage + i]] = File(p, i)

Images ==
    ~refused =>
        /\ saved_frame.prog = "shell"
        /\ pc = "user" => Upto(running.prog, Pages(running.prog))
        /\ Loading /\ job.part = "image" => Upto(job.prog, job.i)
        /\ Loading /\ job.part = "stack" => Upto(job.prog, Pages(job.prog))
        /\ Loading /\ job.why = "exec" => running.prog = "shell"
        /\ pc = "map" /\ job.part = "image" => mem[job.frame] = File(job.prog, job.i)

Contents == Below => Files /\ Stacks /\ Images

IInv == TypeOK /\ Frames /\ Control /\ Contents

-----------------------------------------------------------------------------
(* Arithmetic of the layout. *)

LEMMA DivMonotone ==
    ASSUME NEW d \in Nat \ {0}, NEW a \in Nat, NEW b \in Nat, a <= b
    PROVE  a \div d <= b \div d
<1> DEFINE q == a \div d
           r == b \div d
<1>1. q \in Nat /\ r \in Nat /\ d * q <= a /\ b < d * r + d
    OBVIOUS
<1> HIDE DEF q, r
<1>2. SUFFICES ASSUME q >= r + 1 PROVE FALSE
    BY <1>1 DEF q, r
<1>3. PICK k \in Nat : q = (r + 1) + k
    BY <1>1, <1>2
<1>4. d * ((r + 1) + k) = (d * r + d) + d * k /\ d * k >= 0
    BY <1>1, <1>3
<1> QED
    BY <1>1, <1>3, <1>4

LEMMA Layout ==
    /\ {FirstFree, Span, IdentityEnd, HeapPage, ImagePage, UserStack, ChildStack, ShellPages,
        HelloPages, StackPages, MaxPrograms} \subseteq Nat \ {0}
    /\ StackPages > 1 /\ HeapPages \in Nat /\ HeapPages = ShellPages + HelloPages
    /\ HeapFrame \in Nat \ {0} /\ BootFrames \in Nat /\ BootFrames = HeapFrame + HeapPages
    /\ HeapPage + HeapPages <= IdentityEnd /\ IdentityEnd <= ImagePage
    /\ \A p \in Program : Pages(p) \in Nat \ {0} /\ ImagePage + Pages(p) <= UserStack
    /\ ImagePage < UserStack /\ UserStack + StackPages <= ChildStack
    /\ HeapPage < ImagePage
    /\ MaxRam \in Nat /\ MaxRam >= BootFrames
    /\ \A r \in RamSizes : r \in Nat /\ BootFrames <= r /\ r <= MaxRam
<1>1. BootTables \in Nat
    <2>1. (IdentityEnd + Span - 1) \div Span \in Nat
        BY ExecConstants
    <2> QED
        BY <2>1 DEF BootTables
<1>2. HeapPages \in Nat /\ HeapFrame \in Nat \ {0} /\ BootFrames \in Nat
    BY <1>1, ExecConstants DEF HeapPages, HeapFrame, BootFrames
<1>3. MaxRam \in RamSizes /\ \A s \in RamSizes : s <= MaxRam
    BY ExecConstants, ZenonT(30) DEF MaxRam
<1>4. \A p \in Program : Pages(p) \in Nat \ {0} /\ ImagePage + Pages(p) <= UserStack
    BY ExecConstants DEF Pages, Program
<1>5. ImagePage < UserStack
    <2>1. "shell" \in Program
        BY DEF Program
    <2>2. Pages("shell") \in Nat \ {0} /\ ImagePage + Pages("shell") <= UserStack
        BY <1>4, <2>1
    <2> QED
        BY <2>2, ExecConstants
<1> QED
    BY <1>2, <1>3, <1>4, <1>5, ExecConstants DEF HeapPages, BootFrames

LEMMA Sizes ==
    /\ MaxPrograms \in Nat /\ MaxPrograms > 0 /\ StackPages \in Nat /\ StackPages > 1
    /\ ImagePage \in Nat /\ UserStack \in Nat /\ ChildStack \in Nat
    /\ HeapFrame \in Nat /\ BootFrames \in Nat
    /\ ImagePage < UserStack /\ UserStack + StackPages <= ChildStack
    BY Layout

\* The image is reached through one page table, both stacks through another.
LEMMA Regions ==
    /\ \A p \in Program : \A i \in 0 .. Pages(p) - 1 : Region(ImagePage + i) = Region(ImagePage)
    /\ \A v \in UserStack .. ChildStack + StackPages - 1 : Region(v) = Region(UserStack)
<1>1. ASSUME NEW a \in Nat, NEW b \in Nat, NEW v \in a .. b, Region(a) = Region(b)
      PROVE  Region(v) = Region(a)
    <2>0. v \in Nat /\ a <= v /\ v <= b /\ Span \in Nat \ {0}
        BY Layout
    <2>1. Region(a) <= Region(v) /\ Region(v) <= Region(b)
        <3>1. a \div Span <= v \div Span
            BY <2>0, DivMonotone
        <3>2. v \div Span <= b \div Span
            BY <2>0, DivMonotone
        <3> QED
            BY <3>1, <3>2 DEF Region
    <2>2. Region(a) \in Int /\ Region(v) \in Int
        BY Layout DEF Region
    <2> QED
        BY <1>1, <2>1, <2>2
<1>2. ASSUME NEW p \in Program PROVE Region(ImagePage) = Region(ImagePage + Pages(p) - 1)
    BY ExecConstants DEF Program, Pages
<1>3. ASSUME NEW p \in Program, NEW i \in 0 .. Pages(p) - 1
      PROVE  Region(ImagePage + i) = Region(ImagePage)
    <2>1. /\ ImagePage \in Nat /\ ImagePage + Pages(p) - 1 \in Nat
          /\ ImagePage + i \in ImagePage .. ImagePage + Pages(p) - 1
        BY Layout
    <2> QED
        BY <1>1, <1>2, <2>1
<1>4. ASSUME NEW v \in UserStack .. ChildStack + StackPages - 1
      PROVE  Region(v) = Region(UserStack)
    <2>1. UserStack \in Nat /\ ChildStack + StackPages - 1 \in Nat
        BY Layout
    <2> QED
        BY <1>1, <2>1, ExecConstants
<1> QED
    BY <1>3, <1>4

-----------------------------------------------------------------------------
(* What the invariants say about the operators. *)

\* The page that vmm_map_page is called for.
LEMMA MappedPageIs ==
    ASSUME TypeOK, Control, pc = "map"
    PROVE  /\ MappedPage \in ImagePage .. ChildStack + StackPages - 1
           /\ job.part = "image" => MappedPage = ImagePage + job.i /\ MappedPage < UserStack
                                    /\ Region(MappedPage) = Region(ImagePage)
           /\ job.part = "stack" => MappedPage = StackBase + job.i /\ MappedPage >= UserStack
                                    /\ Region(MappedPage) = Region(UserStack)
           /\ StackBase \in {UserStack, ChildStack}
<1>1. job.i \in Nat /\ job.part \in {"image", "stack"} /\ job.prog \in Program /\ job.i < Extent
    BY DEF TypeOK, Control
<1>2. StackBase \in {UserStack, ChildStack}
    BY DEF StackBase
<1>3. CASE job.part = "image"
    <2>1. MappedPage = job.i + ImagePage /\ job.i < Pages(job.prog)
        BY <1>1, <1>3 DEF MappedPage, Extent
    <2>2. MappedPage = ImagePage + job.i /\ MappedPage < UserStack
          /\ MappedPage \in ImagePage .. ChildStack + StackPages - 1
          /\ job.i \in 0 .. Pages(job.prog) - 1
        BY <1>1, <2>1, Layout
    <2>3. Region(MappedPage) = Region(ImagePage)
        BY <1>1, <2>2, Regions
    <2> QED
        BY <1>2, <1>3, <2>2, <2>3
<1>4. CASE job.part = "stack"
    <2>1. MappedPage = job.i + StackBase /\ job.i < StackPages
        BY <1>1, <1>4 DEF MappedPage, Extent
    <2>2. MappedPage = StackBase + job.i /\ MappedPage >= UserStack
          /\ MappedPage \in ImagePage .. ChildStack + StackPages - 1
          /\ MappedPage \in UserStack .. ChildStack + StackPages - 1
        BY <1>1, <1>2, <2>1, Layout
    <2>3. Region(MappedPage) = Region(UserStack)
        BY <2>2, Regions
    <2> QED
        BY <1>2, <1>4, <2>2, <2>3
<1> QED
    BY <1>1, <1>3, <1>4

\* Where the pages of a file are, and that they do not move.
LEMMA FilePlace ==
    ASSUME TypeOK, Frames, NEW p \in Program, NEW i \in 0 .. Pages(p) - 1
    PROVE  /\ Translate(FilePage(p, i)) = FileFrame(p, i)
           /\ FileFrame(p, i) \in HeapFrame .. BootFrames - 1
           /\ FileFrame(p, i) \in Frame
<1>1. /\ FilePage(p, i) \in Heap
      /\ FileFrame(p, i) = HeapFrame + (FilePage(p, i) - HeapPage)
      /\ FileFrame(p, i) \in HeapFrame .. BootFrames - 1
    BY Layout DEF FilePage, FileFrame, Heap, Program, Pages
<1>2. FilePage(p, i) \in DOMAIN pt /\ pt[FilePage(p, i)] = FileFrame(p, i)
    BY <1>1 DEF Frames
<1> QED
    BY <1>1, <1>2, Layout DEF Translate, Frame

\* Below the heap a frame is reached at its own address.
LEMMA FreshFrame ==
    ASSUME TypeOK, Frames, next_frame < ram
    PROVE  /\ next_frame \in Frame
           /\ Translate(next_frame) # None => Translate(next_frame) \in Frame
           /\ next_frame < HeapPage => Translate(next_frame) = next_frame
<1>1. next_frame \in Nat /\ next_frame \in Frame
    <2>1. next_frame \in Nat /\ ram \in RamSizes
        BY DEF TypeOK
    <2> QED
        BY <2>1, Layout DEF Frame
<1>2. \A v \in DOMAIN pt : pt[v] \in Frame
    BY DEF TypeOK
<1>3. next_frame \in Int /\ (next_frame < HeapPage =>
          next_frame \notin DOMAIN pt /\ next_frame < IdentityEnd)
    BY <1>1, Layout DEF Frames, Heap
<1> QED
    BY <1>1, <1>2, <1>3 DEF Translate

-----------------------------------------------------------------------------
(* What a step leaves alone. *)

LEMMA FramesKept ==
    ASSUME TypeOK, Frames, UNCHANGED <<pt, tables>>, next_frame' \in Nat,
           next_frame <= next_frame',
           pc' = "map" => /\ BootFrames <= job'.frame /\ job'.frame < next_frame'
                          /\ \A v \in DOMAIN pt : pt[v] # job'.frame
                          /\ \A r \in DOMAIN tables : tables[r] # job'.frame
    PROVE  Frames'
<1>1. next_frame \in Nat /\ BootFrames \in Nat /\ \A v \in DOMAIN pt : pt[v] \in Int
    BY Layout DEF TypeOK, Frame
<1>2. \A r \in DOMAIN tables : tables[r] \in Int
    BY DEF TypeOK, Frame
<1>3. FramesDisjoint'
    BY <1>1, <1>2 DEF Frames, FramesDisjoint
<1> QED
    BY <1>1, <1>3 DEF Frames

LEMMA FilesKept ==
    ASSUME TypeOK, Frames, Files,
           \A f \in HeapFrame .. BootFrames - 1 : f \in Frame => mem'[f] = mem[f]
    PROVE  Files'
<1> SUFFICES ASSUME NEW p \in Program, NEW i \in 0 .. Pages(p) - 1
             PROVE  mem'[FileFrame(p, i)] = File(p, i)
    BY DEF Files, FileFrame, File
<1> QED
    BY FilePlace DEF Files

LEMMA StacksKept ==
    ASSUME Stacks, ~nested' => ~nested, UNCHANGED <<pt, calls>>,
           \A v \in DOMAIN pt : mem'[pt[v]] = mem[pt[v]]
    PROVE  Stacks'
    BY DEF Stacks, Stack

LEMMA UptoKept ==
    ASSUME UNCHANGED pt, \A v \in DOMAIN pt : mem'[pt[v]] = mem[pt[v]], NEW p, NEW n, Upto(p, n)
    PROVE  Upto(p, n)'
    BY DEF Upto, File

\* Steps that load nothing and write no memory.
LEMMA MemoryKept ==
    ASSUME TypeOK, Frames, Contents, UNCHANGED <<pt, mem>>,
           next_frame' \in Nat, next_frame <= next_frame',
           (Below /\ ~nested') => ~nested /\ UNCHANGED calls,
           Below /\ Images => Images'
    PROVE  Contents'
<1> SUFFICES ASSUME Below' PROVE Files' /\ Stacks' /\ Images'
    BY DEF Contents
<1>1. Below
    <2>1. next_frame \in Nat /\ HeapPage \in Nat
        BY Layout DEF TypeOK
    <2> QED
        BY <2>1 DEF Below
<1>2. Files /\ Stacks /\ Images
    BY <1>1 DEF Contents
<1>3. Files'
    BY <1>2, FilesKept
<1>4. Stacks'
    BY <1>1, <1>2, StacksKept DEF Stacks
<1> QED
    BY <1>1, <1>2, <1>3, <1>4

-----------------------------------------------------------------------------
(* Initially. *)

LEMMA InitIInv == Init => IInv
<1> SUFFICES ASSUME Init PROVE IInv
    OBVIOUS
<1>1. /\ ram \in RamSizes /\ ram \in Nat /\ next_frame = BootFrames /\ next_frame <= ram
      /\ BootFrames \in Nat /\ BootFrames <= MaxRam
    BY Layout DEF Init
<1>2. DOMAIN pt = Heap /\ \A v \in Heap : pt[v] = HeapFrame + (v - HeapPage)
    BY DEF Heap, Init
<1>3. ASSUME NEW v \in Heap
      PROVE  /\ v \in Nat /\ v < ImagePage /\ HeapPage <= v
             /\ pt[v] \in HeapFrame .. BootFrames - 1 /\ pt[v] \in Frame
    <2>1. v \in Nat /\ HeapPage <= v /\ v < HeapPage + HeapPages
        BY Layout DEF Heap
    <2>2. pt[v] = HeapFrame + (v - HeapPage)
        BY <1>2
    <2> QED
        BY <1>1, <2>1, <2>2, Layout DEF Frame
<1>4. tables = <<>> /\ DOMAIN tables = {}
    BY DEF Init
<1>0. /\ pc = "page" /\ job = Idle /\ running = NoProgram /\ rax = 0 /\ saved_frame = NoProgram
      /\ child_running = FALSE /\ calls = <<>> /\ started = 0 /\ nested = FALSE /\ refused = FALSE
    BY DEF Init
<1>m. mem = [f \in Frame |->
                CASE f - HeapFrame \in 0 .. HelloPages - 1 -> File("hello", f - HeapFrame)
                  [] f - HeapFrame \in HelloPages .. HeapPages - 1 ->
                         File("shell", f - HeapFrame - HelloPages)
                  [] OTHER -> Other]
    BY DEF Init
<1>5. mem \in [Frame -> Content]
    <2> SUFFICES ASSUME NEW f \in Frame PROVE mem[f] \in Content
        BY <1>m
    <2>1. /\ f \in Int /\ HeapFrame \in Nat /\ HelloPages \in Nat
          /\ HeapPages = ShellPages + HelloPages
          /\ ShellPages \in Nat
        BY Layout DEF Frame
    <2>2. CASE f - HeapFrame \in 0 .. HelloPages - 1
        <3>1. mem[f] = File("hello", f - HeapFrame)
            BY <1>m, <2>1, <2>2
        <3>2. f - HeapFrame \in 0 .. ShellPages + HelloPages
            BY <2>1, <2>2
        <3> QED
            BY <3>1, <3>2 DEF Content, File, Program
    <2>3. CASE f - HeapFrame \in HelloPages .. HeapPages - 1
        <3>1. mem[f] = File("shell", f - HeapFrame - HelloPages)
            BY <1>m, <2>1, <2>3
        <3>2. f - HeapFrame - HelloPages \in 0 .. ShellPages + HelloPages
            BY <2>1, <2>3
        <3> QED
            BY <3>1, <3>2 DEF Content, File, Program
    <2>4. CASE /\ f - HeapFrame \notin 0 .. HelloPages - 1
               /\ f - HeapFrame \notin HelloPages .. HeapPages - 1
        <3>1. mem[f] = Other
            BY <1>m, <2>4
        <3> QED
            BY <3>1 DEF Content
    <2> QED
        BY <2>2, <2>3, <2>4
<1>6. TypeOK
    <2>1. DOMAIN pt \subseteq 0 .. ChildStack + StackPages - 1
        BY <1>2, <1>3, Layout
    <2>2. \A v \in DOMAIN pt : pt[v] \in Frame
        BY <1>2, <1>3
    <2>3. job \in [why : {"boot", "exec", "exit"}, prog : Program, part : {"image", "stack"},
                   i : Nat, frame : Frame] /\ job.i <= Pages(job.prog) /\ job.part = "image"
        BY <1>0, <1>1, Layout DEF Idle, Program, Frame
    <2>4. running \in Activation /\ saved_frame \in Activation
        BY <1>0 DEF Activation
    <2>5. child_running \in BOOLEAN /\ refused \in BOOLEAN /\ nested \in BOOLEAN
        BY <1>0, Zenon
    <2>6. calls \in Seq(Activation) /\ started \in 0 .. MaxPrograms /\ rax \in {0, -1}
        BY <1>0, Layout
    <2>7. pc \in {"page", "map", "user", "halted"}
        BY <1>0
    <2> QED
        BY <1>1, <1>4, <1>5, <2>1, <2>2, <2>3, <2>4, <2>5, <2>6, <2>7 DEF TypeOK
<1>7. Frames
    <2>1. \A v, w \in Heap : pt[v] = pt[w] => v = w
        BY <1>2, <1>3, Layout
    <2>2. FramesDisjoint
        <3>1. \A v \in Heap : pt[v] < next_frame
            BY <1>1, <1>3, Layout
        <3> QED
            BY <1>2, <1>4, <2>1, <3>1 DEF FramesDisjoint
    <2>3. \A v \in Heap : ~(ImagePage <= v) /\ ~(UserStack <= v)
        BY <1>3, Layout
    <2> QED
        BY <1>0, <1>1, <1>2, <1>4, <2>2, <2>3 DEF Frames
<1>8. Control
    <2>1. job.why = "boot" /\ job.part = "image" /\ Len(calls) = 0 /\ started < MaxPrograms
        <3>1. job.why = "boot" /\ job.part = "image"
            BY <1>0 DEF Idle
        <3>2. Len(calls) = 0 /\ started < MaxPrograms
            BY <1>0, Sizes
        <3> QED
            BY <3>1, <3>2
    <2> QED
        BY <1>0, <2>1 DEF Control
<1>9. Files
    <2> SUFFICES ASSUME NEW p \in Program, NEW i \in 0 .. Pages(p) - 1
                 PROVE  mem[FileFrame(p, i)] = File(p, i)
        BY DEF Files
    <2>1. FileFrame(p, i) \in Frame
        BY <1>6, <1>7, FilePlace
    <2>2. CASE p = "hello"
        <3>1. FileFrame(p, i) - HeapFrame = i /\ i \in 0 .. HelloPages - 1
            BY <2>2, Layout DEF FileFrame, Pages
        <3>2. mem[FileFrame(p, i)] = File("hello", FileFrame(p, i) - HeapFrame)
            <4> DEFINE f == FileFrame(p, i)
            <4>1. /\ f \in Frame /\ f \in Int /\ f - HeapFrame \in 0 .. HelloPages - 1
                  /\ HeapFrame \in Nat /\ HelloPages \in Nat /\ HeapPages \in Nat
                BY <2>1, <3>1, Layout DEF Frame
            <4> HIDE DEF f
            <4>2. mem[f] = File("hello", f - HeapFrame)
                BY <1>m, <4>1
            <4> QED
                BY <4>2 DEF f
        <3> QED
            BY <2>2, <3>1, <3>2
    <2>3. CASE p = "shell"
        <3>1. /\ FileFrame(p, i) - HeapFrame - HelloPages = i
              /\ FileFrame(p, i) - HeapFrame \in HelloPages .. HeapPages - 1
              /\ FileFrame(p, i) - HeapFrame \notin 0 .. HelloPages - 1
            BY <2>3, Layout DEF FileFrame, Pages
        <3> QED
            BY <1>m, <2>1, <2>3, <3>1
    <2> QED
        BY <2>2, <2>3 DEF Program
<1>10. Stacks /\ Images
    BY <1>0 DEF Stacks, Images, Upto, NoProgram, Idle, Loading
<1> QED
    BY <1>6, <1>7, <1>8, <1>9, <1>10 DEF IInv, Contents

-----------------------------------------------------------------------------
(* load_segment. *)

LEMMA LoadSegmentStep == ASSUME IInv, load_segment PROVE IInv'
<1> DEFINE dst == Translate(next_frame)
           src == Translate(FilePage(job.prog, job.i))
<1>1. /\ pc = "page" /\ job.part = "image" /\ job.i < Pages(job.prog)
      /\ next_frame < ram /\ next_frame' = next_frame + 1 /\ dst # None
      /\ mem' = [mem EXCEPT ![dst] = IF src = dst THEN Other ELSE mem[src]]
      /\ job' = [job EXCEPT !.frame = next_frame] /\ pc' = "map"
      /\ UNCHANGED <<ram, pt, tables, refused>> /\ UNCHANGED userVars
    BY DEF load_segment, LoadingImage, MorePages, pmm_alloc_frame
<1>2. TypeOK /\ Frames /\ Control /\ Contents
    BY DEF IInv
<1>3. /\ job \in [why : {"boot", "exec", "exit"}, prog : Program, part : {"image", "stack"},
                  i : Nat, frame : Frame]
      /\ next_frame \in Nat /\ ram \in Nat /\ mem \in [Frame -> Content] /\ BootFrames <= next_frame
      /\ BootFrames \in Nat
    BY <1>2, Layout DEF TypeOK, Frames
<1>4. /\ job'.why = job.why /\ job'.prog = job.prog /\ job'.part = job.part /\ job'.i = job.i
      /\ job'.frame = next_frame
    BY <1>1, <1>3
<1>5. job.i \in 0 .. Pages(job.prog) - 1
    BY <1>1, <1>3, Layout
<1>6. src = FileFrame(job.prog, job.i) /\ src \in HeapFrame .. BootFrames - 1 /\ src \in Frame
    BY <1>2, <1>3, <1>5, FilePlace
<1>7. next_frame \in Frame /\ dst \in Frame /\ (next_frame < HeapPage => dst = next_frame)
    BY <1>1, <1>2, FreshFrame
<1> HIDE DEF dst, src
<1>8. TypeOK'
    <2>1. mem' \in [Frame -> Content]
        BY <1>1, <1>3, <1>6, <1>7 DEF Content
    <2>2. job' \in [why : {"boot", "exec", "exit"}, prog : Program, part : {"image", "stack"},
                    i : Nat, frame : Frame]
        BY <1>1, <1>3, <1>7
    <2>3. next_frame' \in Nat /\ next_frame' <= ram
        BY <1>1, <1>3
    <2> QED
        BY <1>1, <1>2, <1>4, <2>1, <2>2, <2>3 DEF TypeOK, userVars
<1>9. Frames'
    <2>1. \A v \in DOMAIN pt : pt[v] # next_frame
        BY <1>2, <1>3 DEF Frames, FramesDisjoint, TypeOK, Frame
    <2>2. \A r \in DOMAIN tables : tables[r] # next_frame
        BY <1>2, <1>3 DEF Frames, FramesDisjoint, TypeOK, Frame
    <2> QED
        BY <1>1, <1>2, <1>3, <1>4, <2>1, <2>2, FramesKept
<1>10. Control'
    <2>1. Loading /\ Loading' /\ pc # "user" /\ pc' # "user"
        BY <1>1 DEF Loading
    <2>2. Extent' = Extent /\ job.i < Extent
        BY <1>1, <1>4 DEF Extent
    <2> QED
        BY <1>1, <1>2, <1>4, <2>1, <2>2 DEF Control, userVars
<1>11. Contents'
    <2> SUFFICES ASSUME Below' PROVE Files' /\ Stacks' /\ Images'
        BY DEF Contents
    <2>1. next_frame < HeapPage /\ Below /\ dst = next_frame /\ src # dst
        BY <1>1, <1>3, <1>6, <1>7, Layout DEF Below
    <2>2. Files /\ Stacks /\ Images
        BY <1>2, <2>1 DEF Contents
    <2>3. mem'[next_frame] = File(job.prog, job.i)
        BY <1>1, <1>3, <1>5, <1>6, <1>7, <2>1, <2>2 DEF Files
    <2>4. \A f \in Frame : f # next_frame => mem'[f] = mem[f]
        BY <1>1, <1>3, <2>1
    <2>5. \A v \in DOMAIN pt : mem'[pt[v]] = mem[pt[v]]
        BY <1>2, <1>3, <2>4 DEF Frames, FramesDisjoint, TypeOK, Frame
    <2>6. Files'
        BY <1>2, <1>3, <2>2, <2>4, FilesKept, Layout
    <2>7. Stacks'
        BY <1>1, <2>2, <2>5, StacksKept DEF userVars
    <2>8. Images'
        <3> SUFFICES ASSUME ~refused PROVE Images'
            BY <1>1 DEF Images
        <3>1. Upto(job.prog, job.i)'
            <4>1. Upto(job.prog, job.i)
                BY <1>1, <2>2 DEF Images, Loading
            <4> QED
                BY <1>1, <1>4, <2>5, <4>1, UptoKept DEF Upto, File
        <3> QED
            BY <1>1, <1>4, <2>2, <2>3, <3>1 DEF Images, Loading, userVars, File
    <2> QED
        BY <2>6, <2>7, <2>8
<1> QED
    BY <1>8, <1>9, <1>10, <1>11 DEF IInv

\* The machine stops, or the loader gives up.
LEMMA LoadSegmentEndStep ==
    ASSUME IInv, load_segment_fault \/ load_segment_none PROVE IInv'
<1>1. TypeOK /\ Frames /\ Control /\ Contents
    BY DEF IInv
<1>2. /\ job \in [why : {"boot", "exec", "exit"}, prog : Program, part : {"image", "stack"},
                  i : Nat, frame : Frame]
      /\ next_frame \in Nat /\ ram \in Nat /\ next_frame <= ram
    BY <1>1, Layout DEF TypeOK
<1>3. CASE load_segment_fault
    <2>1. /\ next_frame < ram /\ next_frame' = next_frame + 1 /\ pc' = "halted"
          /\ UNCHANGED <<ram, pt, tables, mem, job, refused>> /\ UNCHANGED userVars
        BY <1>3 DEF load_segment_fault, pmm_alloc_frame
    <2>2. TypeOK'
        BY <1>1, <1>2, <2>1 DEF TypeOK, userVars
    <2>3. Frames'
        BY <1>1, <1>2, <2>1, FramesKept
    <2>4. Control'
        BY <1>1, <2>1 DEF Control, Loading, userVars
    <2>5. Contents'
        BY <1>1, <1>2, <2>1, MemoryKept DEF Images, Loading, userVars
    <2> QED
        BY <2>2, <2>3, <2>4, <2>5 DEF IInv
<1>4. CASE load_segment_none
    <2>1. /\ pc = "page" /\ job.part = "image" /\ refused' = TRUE
          /\ job' = [job EXCEPT !.i = Pages(job.prog)]
          /\ UNCHANGED <<ram, next_frame, pt, tables, mem, pc>> /\ UNCHANGED userVars
        BY <1>4 DEF load_segment_none, LoadingImage, GivenUp
    <2>2. /\ job'.why = job.why /\ job'.prog = job.prog /\ job'.part = "image"
          /\ job'.i = Pages(job.prog) /\ job' \in [why : {"boot", "exec", "exit"}, prog : Program,
                  part : {"image", "stack"}, i : Nat, frame : Frame]
        BY <1>2, <2>1, Layout
    <2>3. TypeOK'
        <3>1. refused' \in BOOLEAN
            BY <2>1, Zenon
        <3>2. job'.i <= Pages(job'.prog)
            BY <1>2, <2>2, Layout
        <3> QED
            BY <1>1, <2>1, <2>2, <3>1, <3>2 DEF TypeOK, userVars
    <2>4. Frames'
        BY <1>1, <1>2, <2>1, FramesKept
    <2>5. Control'
        BY <1>1, <2>1, <2>2 DEF Control, Loading, userVars
    <2>6. Contents'
        BY <1>1, <1>2, <2>1, MemoryKept DEF Images, userVars
    <2> QED
        BY <2>3, <2>4, <2>5, <2>6 DEF IInv
<1> QED
    BY <1>3, <1>4

-----------------------------------------------------------------------------
(* vmm_map_page. *)

\* With or without a new table, the page is mapped to the frame on its way.
LEMMA MapStep == ASSUME IInv, vmm_map_page \/ vmm_map_page_table PROVE IInv'
<1> DEFINE m == MappedPage
<1>1. /\ pc = "map" /\ pt' = Mapped /\ job' = [job EXCEPT !.i = @ + 1] /\ pc' = "page"
      /\ UNCHANGED <<ram, refused>> /\ UNCHANGED userVars
    BY DEF vmm_map_page, vmm_map_page_table
<1>2. TypeOK /\ Frames /\ Control /\ Contents
    BY DEF IInv
<1>3. /\ job \in [why : {"boot", "exec", "exit"}, prog : Program, part : {"image", "stack"},
                  i : Nat, frame : Frame]
      /\ next_frame \in Nat /\ ram \in Nat /\ next_frame <= ram
      /\ mem \in [Frame -> Content] /\ BootFrames <= next_frame /\ BootFrames \in Nat
    BY <1>2, Layout DEF TypeOK, Frames
<1>4. /\ job'.why = job.why /\ job'.prog = job.prog /\ job'.part = job.part
      /\ job'.i = job.i + 1 /\ job'.frame = job.frame
    BY <1>1, <1>3
<1>5. /\ m \in ImagePage .. ChildStack + StackPages - 1
      /\ job.part = "image" => m = ImagePage + job.i /\ m < UserStack
                               /\ Region(m) = Region(ImagePage)
      /\ job.part = "stack" => m = StackBase + job.i /\ m >= UserStack
                               /\ Region(m) = Region(UserStack)
      /\ StackBase \in {UserStack, ChildStack}
    BY <1>1, <1>2, MappedPageIs
<1>6. /\ BootFrames <= job.frame /\ job.frame < next_frame /\ job.frame \in Nat
      /\ \A v \in DOMAIN pt : pt[v] # job.frame
      /\ \A r \in DOMAIN tables : tables[r] # job.frame
      /\ job.i < Extent
    BY <1>1, <1>2, <1>3 DEF Frames, Control, Frame
<1>7. /\ DOMAIN pt' = DOMAIN pt \cup {m} /\ pt'[m] = job.frame
      /\ \A v \in DOMAIN pt : v # m => pt'[v] = pt[v]
    BY <1>1 DEF Mapped
<1>8. \A v \in DOMAIN pt : pt[v] \in Frame /\ pt[v] \in Nat /\ pt[v] < next_frame
    BY <1>2 DEF Frames, FramesDisjoint, TypeOK, Frame
<1>9. /\ next_frame' \in Nat /\ next_frame <= next_frame' /\ next_frame' <= ram
      /\ DOMAIN tables' = DOMAIN tables \cup {Region(m)}
      /\ \A r \in DOMAIN tables : tables'[r] = tables[r]
      /\ \A r \in DOMAIN tables' : r \notin DOMAIN tables =>
             r = Region(m) /\ tables'[r] = next_frame /\ next_frame < next_frame'
      /\ mem' \in [Frame -> Content]
      /\ Below' => \A f \in Frame : f < next_frame => mem'[f] = mem[f]
    <2>1. CASE vmm_map_page
        <3>1. UNCHANGED <<next_frame, tables, mem>> /\ Region(m) \in DOMAIN tables
            BY <2>1 DEF vmm_map_page
        <3> QED
            BY <1>3, <3>1
    <2>2. CASE vmm_map_page_table
        <3>1. /\ next_frame < ram /\ next_frame' = next_frame + 1 /\ tables' = Linked
              /\ mem' = [mem EXCEPT ![Translate(next_frame)] = Other]
              /\ Region(m) \notin DOMAIN tables
            BY <2>2 DEF vmm_map_page_table, pmm_alloc_frame
        <3>2. mem' \in [Frame -> Content]
            <4>1. Other \in Content
                BY DEF Content
            <4> QED
                BY <1>3, <3>1, <4>1, ZenonT(30)
        <3>3. ASSUME Below', NEW f \in Frame, f < next_frame PROVE mem'[f] = mem[f]
            <4>1. next_frame < HeapPage
                BY <1>3, <3>1, <3>3, Layout DEF Below
            <4>2. Translate(next_frame) = next_frame
                BY <1>2, <3>1, <4>1, FreshFrame
            <4>3. f # next_frame
                BY <1>3, <3>3 DEF Frame
            <4> QED
                BY <1>3, <3>1, <4>2, <4>3
        <3> QED
            BY <1>3, <3>1, <3>2, <3>3 DEF Linked
    <2> QED
        BY <2>1, <2>2
<1>10. \A r \in DOMAIN tables : tables[r] \in Frame /\ tables[r] \in Nat /\ tables[r] < next_frame
                                /\ BootFrames <= tables[r]
    BY <1>2 DEF Frames, FramesDisjoint, TypeOK, Frame
<1>11. next_frame < next_frame' => next_frame \in Frame
    <2>1. ram <= MaxRam /\ MaxRam \in Nat
        BY <1>2, Layout DEF TypeOK
    <2> QED
        BY <1>3, <1>9, <2>1 DEF Frame
<1> HIDE DEF m
<1>12. TypeOK'
    <2>1. DOMAIN pt' \subseteq 0 .. ChildStack + StackPages - 1
        <3>1. DOMAIN pt \subseteq 0 .. ChildStack + StackPages - 1
            BY <1>2 DEF TypeOK
        <3>2. m \in 0 .. ChildStack + StackPages - 1
            BY <1>5, Layout
        <3> QED
            BY <1>7, <3>1, <3>2
    <2>2. \A v \in DOMAIN pt' : pt'[v] \in Frame
        BY <1>3, <1>7, <1>8
    <2>3. DOMAIN tables' \subseteq {Region(ImagePage), Region(UserStack)}
        <3>1. Region(m) \in {Region(ImagePage), Region(UserStack)}
            BY <1>3, <1>5
        <3> QED
            BY <1>2, <1>9, <3>1 DEF TypeOK
    <2>4. \A r \in DOMAIN tables' : tables'[r] \in Frame
        BY <1>9, <1>10, <1>11
    <2>5. job' \in [why : {"boot", "exec", "exit"}, prog : Program, part : {"image", "stack"},
                    i : Nat, frame : Frame]
        BY <1>1, <1>3
    <2>6. job'.i <= (IF job'.part = "image" THEN Pages(job'.prog) ELSE StackPages)
        BY <1>3, <1>4, <1>6, Layout DEF Extent
    <2> QED
        BY <1>1, <1>2, <1>9, <2>1, <2>2, <2>3, <2>4, <2>5, <2>6 DEF TypeOK, userVars
<1>13. Frames'
    <2>1. m \in Nat /\ ImagePage <= m /\ m \notin Heap
        BY <1>5, Layout DEF Heap
    <2>2. \A v \in DOMAIN pt' : v \in Heap \/ ImagePage <= v
        BY <1>2, <1>7, <2>1 DEF Frames
    <2>3. \A v \in Heap : v \in DOMAIN pt' /\ pt'[v] = HeapFrame + (v - HeapPage)
        BY <1>2, <1>7, <2>1 DEF Frames
    <2>4. \A v \in DOMAIN pt' : ImagePage <= v => BootFrames <= pt'[v]
        BY <1>2, <1>6, <1>7 DEF Frames
    <2>5. \A v \in DOMAIN pt' : UserStack <= v => Region(UserStack) \in DOMAIN tables'
        <3>1. UserStack <= m => Region(m) = Region(UserStack)
            BY <1>3, <1>5, <2>1, Layout
        <3> QED
            BY <1>2, <1>7, <1>9, <3>1 DEF Frames
    <2>6. \A r \in DOMAIN tables' : BootFrames <= tables'[r]
        BY <1>3, <1>9, <1>10
    <2>7. FramesDisjoint'
        <3>1. \A v, w \in DOMAIN pt' : pt'[v] = pt'[w] => v = w
            BY <1>2, <1>6, <1>7, ZenonT(30) DEF Frames, FramesDisjoint
        <3>2. \A r, s \in DOMAIN tables' : tables'[r] = tables'[s] => r = s
            BY <1>2, <1>3, <1>9, <1>10 DEF Frames, FramesDisjoint
        <3>3. \A v \in DOMAIN pt' : pt'[v] \in Nat /\ pt'[v] < next_frame
                                    /\ \A r \in DOMAIN tables : pt'[v] # tables[r]
            BY <1>2, <1>6, <1>7, <1>8, SMTT(30) DEF Frames, FramesDisjoint
        <3>4. \A v \in DOMAIN pt' : pt'[v] < next_frame'
                                    /\ \A r \in DOMAIN tables' : pt'[v] # tables'[r]
            BY <1>3, <1>9, <3>3
        <3>5. \A r \in DOMAIN tables' : tables'[r] < next_frame'
            BY <1>3, <1>9, <1>10
        <3> QED
            BY <3>1, <3>2, <3>4, <3>5 DEF FramesDisjoint
    <2>8. BootFrames <= next_frame'
        BY <1>3, <1>9
    <2> QED
        BY <1>1, <2>2, <2>3, <2>4, <2>5, <2>6, <2>7, <2>8 DEF Frames
<1>14. Control'
    <2>1. Loading /\ Loading' /\ pc # "user" /\ pc' # "user" /\ pc' # "map"
        BY <1>1 DEF Loading
    <2>2. ASSUME job.part = "stack" PROVE StackSoFar'
        <3>1. \A j \in 0 .. job.i - 1 : StackBase + j \in DOMAIN pt
            BY <1>1, <1>2, <2>1, <2>2 DEF Control, StackSoFar
        <3>2. StackBase' = StackBase
            BY <1>4 DEF StackBase
        <3>3. \A j \in 0 .. (job.i + 1) - 1 : j \in 0 .. job.i - 1 \/ j = job.i
            BY <1>3
        <3> QED
            BY <1>4, <1>5, <1>7, <2>2, <3>1, <3>2, <3>3 DEF StackSoFar
    <2> QED
        BY <1>1, <1>2, <1>4, <2>1, <2>2 DEF Control, userVars
<1>15. Contents'
    <2> SUFFICES ASSUME Below' PROVE Files' /\ Stacks' /\ Images'
        BY DEF Contents
    <2>1. Below
        BY <1>3, <1>9, Layout DEF Below
    <2>2. Files /\ Stacks /\ Images
        BY <1>2, <2>1 DEF Contents
    <2>3. \A v \in DOMAIN pt : v # m => v \in DOMAIN pt' /\ mem'[pt'[v]] = mem[pt[v]]
        BY <1>7, <1>8, <1>9
    <2>4. Files'
        BY <1>2, <1>3, <1>9, <2>2, FilesKept, Layout
    <2>5. Stacks'
        <3> SUFFICES ASSUME ~nested, NEW k \in DOMAIN calls, NEW j \in 0 .. StackPages - 1
                     PROVE  /\ calls[k].stk + j \in DOMAIN pt'
                            /\ mem'[pt'[calls[k].stk + j]] = Stack(calls[k])
            BY <1>1 DEF Stacks, userVars, Stack
        <3>1. calls[k].stk + j \in DOMAIN pt /\ mem[pt[calls[k].stk + j]] = Stack(calls[k])
            BY <2>2 DEF Stacks
        <3>2. calls \in Seq(Activation) /\ calls[k].stk \in {UserStack, ChildStack}
            <4>1. calls \in Seq(Activation)
                BY <1>2 DEF TypeOK
            <4>2. calls[k] \in Activation
                BY <4>1
            <4>3. \A a \in Activation : a.stk \in {UserStack, ChildStack}
                BY DEF Activation, NoProgram
            <4> QED
                BY <4>1, <4>2, <4>3
        <3>3. calls[k].stk + j # m
            <4>1. CASE job.part = "image"
                <5>1. m < UserStack /\ m \in Int
                    BY <1>5, <4>1, Layout
                <5>2. UserStack \in Nat /\ ChildStack \in Nat /\ UserStack <= ChildStack
                    BY Layout
                <5>3. \A s \in {UserStack, ChildStack} : s \in Nat /\ UserStack <= s
                    BY <5>2
                <5>4. UserStack <= calls[k].stk /\ calls[k].stk \in Nat
                    BY <3>2, <5>3, Zenon
                <5> QED
                    BY <5>1, <5>2, <5>4
            <4>2. CASE job.part = "stack" /\ job.why = "boot"
                BY <1>1, <1>2, <4>2 DEF Control, Loading
            <4>3. CASE job.part = "stack" /\ job.why = "exec"
                <5>1. Len(calls) = 1 /\ calls[1].stk = UserStack
                    BY <1>1, <1>2, <4>3 DEF Control, Loading
                <5>2. calls[k].stk = UserStack
                    BY <3>2, <5>1
                <5>3. StackBase = ChildStack
                    BY <4>3 DEF StackBase
                <5> QED
                    BY <1>3, <1>5, <4>3, <5>2, <5>3, Layout
            <4>4. job.part = "stack" => job.why # "exit"
                BY <1>1, <1>2 DEF Control, Loading
            <4> QED
                BY <1>3, <4>1, <4>2, <4>3, <4>4
        <3> QED
            BY <2>3, <3>1, <3>3
    <2>6. Images'
        <3> SUFFICES ASSUME ~refused PROVE Images'
            BY <1>1 DEF Images
        <3>1. CASE job.part = "image"
            <4>1. Upto(job.prog, job.i) /\ mem[job.frame] = File(job.prog, job.i)
                BY <1>1, <2>2, <3>1 DEF Images, Loading
            <4>2. ASSUME NEW i \in 0 .. (job.i + 1) - 1
                  PROVE  /\ ImagePage + i \in DOMAIN pt'
                         /\ mem'[pt'[ImagePage + i]] = File(job.prog, i)
                <5>1. CASE i = job.i
                    BY <1>3, <1>5, <1>6, <1>7, <1>9, <3>1, <4>1, <5>1
                <5>2. CASE i # job.i
                    <6>1. i \in 0 .. job.i - 1 /\ ImagePage + i # m
                        BY <1>3, <1>5, <3>1, <5>2, Layout
                    <6> QED
                        BY <2>3, <4>1, <6>1 DEF Upto
                <5> QED
                    BY <5>1, <5>2, ZenonT(30)
            <4>3. Upto(job.prog, job.i)'
                BY <1>4, <4>2 DEF Upto, File
            <4> QED
                BY <1>1, <1>4, <2>2, <3>1, <4>3 DEF Images, Loading, userVars
        <3>2. CASE job.part = "stack"
            <4>1. Upto(job.prog, Pages(job.prog))
                BY <1>1, <2>2, <3>2 DEF Images, Loading
            <4>2. ASSUME NEW i \in 0 .. Pages(job.prog) - 1
                  PROVE  /\ ImagePage + i \in DOMAIN pt'
                         /\ mem'[pt'[ImagePage + i]] = File(job.prog, i)
                <5>1. ImagePage + i # m
                    BY <1>3, <1>5, <3>2, Layout
                <5> QED
                    BY <2>3, <4>1, <5>1 DEF Upto
            <4>3. Upto(job.prog, Pages(job.prog))'
                BY <1>4, <4>2 DEF Upto, File, Pages
            <4> QED
                BY <1>1, <1>4, <2>2, <3>2, <4>3 DEF Images, Loading, userVars
        <3> QED
            BY <1>3, <3>1, <3>2
    <2> QED
        BY <2>4, <2>5, <2>6
<1> QED
    BY <1>12, <1>13, <1>14, <1>15 DEF IInv

\* No frame for the table.
LEMMA MapNoneStep == ASSUME IInv, vmm_map_page_none PROVE IInv'
<1>1. /\ pc = "map" /\ Region(MappedPage) \notin DOMAIN tables /\ next_frame = ram
      /\ refused' = TRUE /\ job' = [job EXCEPT !.i = @ + 1] /\ pc' = "page"
      /\ UNCHANGED <<ram, next_frame, pt, tables, mem>> /\ UNCHANGED userVars
    BY DEF vmm_map_page_none
<1>2. TypeOK /\ Frames /\ Control /\ Contents
    BY DEF IInv
<1>3. /\ job \in [why : {"boot", "exec", "exit"}, prog : Program, part : {"image", "stack"},
                  i : Nat, frame : Frame]
      /\ next_frame \in Nat /\ job.i < Extent
    BY <1>1, <1>2 DEF TypeOK, Control
<1>4. /\ job'.why = job.why /\ job'.prog = job.prog /\ job'.part = job.part
      /\ job'.i = job.i + 1 /\ job'.frame = job.frame
    BY <1>1, <1>3
<1>5. TypeOK'
    <2>1. refused' \in BOOLEAN
        BY <1>1, Zenon
    <2>2. job'.i <= (IF job'.part = "image" THEN Pages(job'.prog) ELSE StackPages)
        BY <1>3, <1>4, Layout DEF Extent
    <2>3. job' \in [why : {"boot", "exec", "exit"}, prog : Program, part : {"image", "stack"},
                    i : Nat, frame : Frame]
        BY <1>1, <1>3
    <2> QED
        BY <1>1, <1>2, <2>1, <2>2, <2>3 DEF TypeOK, userVars
<1>6. Frames'
    BY <1>1, <1>2, <1>3, FramesKept
<1>7. Control'
    <2>1. Loading /\ Loading' /\ pc # "user" /\ pc' # "user" /\ pc' # "map"
        BY <1>1 DEF Loading
    <2>2. ASSUME job.part = "stack" PROVE StackSoFar'
        <3>1. Region(UserStack) \notin DOMAIN tables /\ StackBase \in {UserStack, ChildStack}
            BY <1>1, <1>2, <2>2, MappedPageIs
        <3>2. \A j \in 0 .. job.i - 1 : StackBase + j \in DOMAIN pt
            BY <1>1, <1>2, <2>1, <2>2 DEF Control, StackSoFar
        <3>3. StackBase \notin DOMAIN pt
            BY <1>2, <3>1, Layout DEF Frames
        <3>4. job.i = 0
            <4>1. SUFFICES ASSUME job.i # 0 PROVE FALSE
                OBVIOUS
            <4>2. 0 \in 0 .. job.i - 1
                BY <1>3, <4>1
            <4>3. StackBase + 0 = StackBase
                BY <3>1, Layout
            <4> QED
                BY <3>2, <3>3, <4>2, <4>3
        <3> QED
            BY <1>1, <1>4, <3>4 DEF StackSoFar
    <2> QED
        BY <1>1, <1>2, <1>4, <2>1, <2>2 DEF Control, userVars
<1>8. Contents'
    BY <1>1, <1>2, <1>3, MemoryKept DEF Images, userVars
<1> QED
    BY <1>5, <1>6, <1>7, <1>8 DEF IInv

-----------------------------------------------------------------------------
(* usermode_exec_elf, handle_exec and handle_exit. *)

LEMMA JobType ==
    ASSUME NEW w \in {"boot", "exec", "exit"}, NEW p \in Program, NEW n \in Nat
    PROVE  [why |-> w, prog |-> p, part |-> "image", i |-> n, frame |-> 0] \in
               [why : {"boot", "exec", "exit"}, prog : Program, part : {"image", "stack"},
                i : Nat, frame : Frame]
<1>1. 0 \in Frame
    BY Layout, SMTT(30) DEF Frame
<1> QED
    BY <1>1

LEMMA IdleType ==
    /\ Idle \in [why : {"boot", "exec", "exit"}, prog : Program, part : {"image", "stack"},
                 i : Nat, frame : Frame]
    /\ Idle.i <= (IF Idle.part = "image" THEN Pages(Idle.prog) ELSE StackPages)
<1>1. "shell" \in Program /\ Pages("shell") \in Nat \ {0}
    BY Layout DEF Program
<1>2. Idle \in [why : {"boot", "exec", "exit"}, prog : Program, part : {"image", "stack"},
                i : Nat, frame : Frame]
    <2>1. 0 \in Nat
        OBVIOUS
    <2> QED
        BY <1>1, <2>1, JobType, ZenonT(30) DEF Idle
<1>3. Idle.i = 0 /\ Idle.part = "image" /\ Idle.prog = "shell"
    BY DEF Idle
<1> QED
    BY <1>1, <1>2, <1>3

LEMMA EntryStep == ASSUME IInv, elf_load_entry PROVE IInv'
<1>1. /\ pc = "page" /\ job.part = "image" /\ job.i = Pages(job.prog) /\ job.why # "exit"
      /\ job' = [job EXCEPT !.part = "stack", !.i = 0]
      /\ UNCHANGED <<ram, next_frame, pt, tables, mem, pc, refused>> /\ UNCHANGED userVars
    BY ZenonT(30) DEF elf_load_entry, LoadingImage
<1>2. TypeOK /\ Frames /\ Control /\ Contents
    BY DEF IInv
<1>3. /\ job \in [why : {"boot", "exec", "exit"}, prog : Program, part : {"image", "stack"},
                  i : Nat, frame : Frame]
      /\ next_frame \in Nat
    BY <1>2 DEF TypeOK
<1>4. /\ job'.why = job.why /\ job'.prog = job.prog /\ job'.part = "stack" /\ job'.i = 0
      /\ job' \in [why : {"boot", "exec", "exit"}, prog : Program, part : {"image", "stack"},
                   i : Nat, frame : Frame]
    BY <1>1, <1>3, ZenonT(30)
<1>5. TypeOK'
    <2>1. job'.i <= (IF job'.part = "image" THEN Pages(job'.prog) ELSE StackPages)
        BY <1>4, Layout
    <2> QED
        BY <1>1, <1>2, <1>4, <2>1 DEF TypeOK, userVars
<1>6. Frames'
    BY <1>1, <1>2, <1>3, FramesKept
<1>7. Control'
    <2>1. StackSoFar'
        BY <1>4 DEF StackSoFar
    <2> QED
        BY <1>1, <1>2, <1>4, <2>1 DEF Control, Loading, userVars
<1>8. Below /\ Images => Images'
    BY <1>1, <1>4 DEF Images, Loading, userVars, Upto
<1>9. Contents'
    BY <1>1, <1>2, <1>3, <1>8, MemoryKept DEF userVars
<1> QED
    BY <1>5, <1>6, <1>7, <1>9 DEF IInv

LEMMA StackPageStep == ASSUME IInv, stack_page PROVE IInv'
<1>1. /\ pc = "page" /\ job.part = "stack" /\ job.i < StackPages
      /\ next_frame < ram /\ next_frame' = next_frame + 1
      /\ job' = [job EXCEPT !.frame = next_frame] /\ pc' = "map"
      /\ UNCHANGED <<ram, pt, tables, mem, refused>> /\ UNCHANGED userVars
    BY ZenonT(30) DEF stack_page, LoadingStack, pmm_alloc_frame
<1>2. TypeOK /\ Frames /\ Control /\ Contents
    BY DEF IInv
<1>3. /\ job \in [why : {"boot", "exec", "exit"}, prog : Program, part : {"image", "stack"},
                  i : Nat, frame : Frame]
      /\ next_frame \in Nat /\ ram \in Nat /\ BootFrames <= next_frame
    BY <1>2, Layout DEF TypeOK, Frames
<1>4. next_frame \in Frame
    BY <1>1, <1>2, FreshFrame
<1>5. /\ job'.why = job.why /\ job'.prog = job.prog /\ job'.part = job.part
      /\ job'.i = job.i /\ job'.frame = next_frame
      /\ job' \in [why : {"boot", "exec", "exit"}, prog : Program, part : {"image", "stack"},
                   i : Nat, frame : Frame]
    BY <1>1, <1>3, <1>4
<1>6. TypeOK'
    <2>1. next_frame' \in Nat /\ next_frame' <= ram
        BY <1>1, <1>3
    <2> QED
        BY <1>1, <1>2, <1>5, <2>1 DEF TypeOK, userVars
<1>7. Frames'
    <2>1. \A v \in DOMAIN pt : pt[v] \in Int /\ pt[v] < next_frame
        BY <1>2 DEF TypeOK, Frame, Frames, FramesDisjoint
    <2>2. \A r \in DOMAIN tables : tables[r] \in Int /\ tables[r] < next_frame
        BY <1>2 DEF TypeOK, Frame, Frames, FramesDisjoint
    <2> QED
        BY <1>1, <1>2, <1>3, <1>5, <2>1, <2>2, FramesKept, SMTT(30)
<1>8. Control'
    <2>1. StackSoFar
        BY <1>1, <1>2 DEF Control, Loading
    <2>2. \A j \in 0 .. job.i - 1 : StackBase + j \in DOMAIN pt
        BY <1>1, <1>3, <2>1 DEF StackSoFar
    <2>3. StackSoFar'
        BY <1>1, <1>5, <2>2 DEF StackSoFar, StackBase
    <2> QED
        BY <1>1, <1>2, <1>5, <2>3 DEF Control, Loading, Extent, userVars
<1>9. Below /\ Images => Images'
    BY <1>1, <1>5 DEF Images, Loading, userVars, Upto
<1>10. Contents'
    BY <1>1, <1>2, <1>3, <1>9, MemoryKept DEF userVars
<1> QED
    BY <1>6, <1>7, <1>8, <1>10 DEF IInv

LEMMA StackNoneStep == ASSUME IInv, stack_page_none PROVE IInv'
<1>1. /\ pc = "page" /\ job.part = "stack" /\ refused' = TRUE /\ job' = Idle
      /\ \/ job.why = "boot" /\ pc' = "halted" /\ UNCHANGED rax
         \/ job.why = "exec" /\ pc' = "user" /\ rax' = -1
      /\ UNCHANGED <<ram, next_frame, pt, tables, mem, running, saved_frame,
                     child_running, calls, started, nested>>
    BY ZenonT(30) DEF stack_page_none, LoadingStack
<1>2. TypeOK /\ Frames /\ Control /\ Contents
    BY DEF IInv
<1>3. next_frame \in Nat
    BY <1>2, ZenonT(30) DEF TypeOK
<1>4. TypeOK'
    <2>1. refused' \in BOOLEAN
        BY <1>1, Zenon
    <2>2. rax' \in {0, -1} /\ pc' \in {"page", "map", "user", "halted"}
        BY <1>1, <1>2 DEF TypeOK
    <2> QED
        BY <1>1, <1>2, <2>1, <2>2, IdleType DEF TypeOK
<1>5. Frames'
    BY <1>1, <1>2, <1>3, FramesKept
<1>6. Control'
    <2>1. Loading /\ ~Loading' /\ pc' # "map"
        BY <1>1, ZenonT(30) DEF Loading
    <2>2. CASE pc' = "halted"
        BY <1>1, <1>2, <2>1, <2>2, ZenonT(30) DEF Control
    <2>3. CASE job.why = "exec" /\ pc' = "user"
        <3>1. ~nested => /\ Len(calls) = 1 /\ running = calls[1] /\ ~child_running
            BY <1>2, <2>1, <2>3, ZenonT(30) DEF Control
        <3>2. ~nested => child_running = (Len(calls) = 2)
            BY <1>2, <3>1, SMTT(30) DEF TypeOK
        <3> QED
            BY <1>1, <1>2, <2>1, <3>1, <3>2 DEF Control
    <2> QED
        BY <1>1, <2>2, <2>3
<1>7. Contents'
    <2>1. Images'
        BY <1>1 DEF Images
    <2> QED
        BY <1>1, <1>2, <1>3, <2>1, MemoryKept, SMTT(30)
<1> QED
    BY <1>4, <1>5, <1>6, <1>7 DEF IInv

\* The program starts: it uses the stack just mapped, and nothing else changes.
LEMMA EnterStep == ASSUME IInv, usermode_exec_elf \/ handle_exec PROVE IInv'
<1>1. /\ pc = "page" /\ job.part = "stack" /\ job.i = StackPages /\ running' = Child
      /\ calls' = Append(calls, Child) /\ started' = started + 1 /\ mem' = StackUsed(Child)
      /\ pc' = "user" /\ job' = Idle
      /\ UNCHANGED <<ram, next_frame, pt, tables, rax, nested, refused>>
      /\ \/ job.why = "boot" /\ UNCHANGED <<saved_frame, child_running>>
         \/ job.why = "exec" /\ saved_frame' = running /\ child_running' = TRUE
    BY DEF usermode_exec_elf, handle_exec, Enter, LoadingStack, SavedFrame
<1>2. TypeOK /\ Frames /\ Control /\ Contents
    BY DEF IInv
<1>3. Loading /\ ~Loading' /\ pc' # "map"
    BY <1>1 DEF Loading
<1>4. /\ job.prog \in Program /\ next_frame \in Nat /\ mem \in [Frame -> Content]
      /\ calls \in Seq(Activation) /\ started \in Nat /\ started < MaxPrograms
      /\ running \in Activation /\ saved_frame \in Activation
      /\ child_running \in BOOLEAN
    <2>1. job.prog \in Program /\ next_frame \in Nat /\ mem \in [Frame -> Content]
        BY <1>2, ZenonT(30) DEF TypeOK
    <2>2. calls \in Seq(Activation) /\ running \in Activation /\ saved_frame \in Activation
          /\ child_running \in BOOLEAN /\ started \in 0 .. MaxPrograms
        BY <1>2 DEF TypeOK
    <2>3. started < MaxPrograms
        BY <1>1, <1>2, <1>3, ZenonT(30) DEF Control
    <2> QED
        BY <2>1, <2>2, <2>3, SMTT(30)
<1>5. /\ Child.id = started + 1 /\ Child.prog = job.prog /\ Child.stk = StackBase
      /\ StackBase \in {UserStack, ChildStack} /\ StackBase \in Nat /\ UserStack <= StackBase
      /\ StackBase = IF job.why = "boot" THEN UserStack ELSE ChildStack
    BY Layout DEF Child, StackBase
<1>6. Child \in Activation
    <2>1. started + 1 \in 1 .. MaxPrograms
        BY <1>4, Sizes
    <2> QED
        BY <1>4, <1>5, <2>1 DEF Child, Activation
<1>7. \A j \in 0 .. StackPages - 1 : StackBase + j \in DOMAIN pt
    <2>1. StackSoFar
        BY <1>1, <1>2, <1>3, ZenonT(30) DEF Control
    <2> QED
        BY <1>1, <2>1, Sizes DEF StackSoFar
<1>8. \A v \in DOMAIN pt : pt[v] \in Frame
    BY <1>2 DEF TypeOK
<1>9. \A f \in Frame : mem'[f] = IF \E j \in 0 .. StackPages - 1 : f = pt[StackBase + j]
                                 THEN Stack(Child) ELSE mem[f]
    BY <1>1, <1>5 DEF StackUsed
<1>10. mem' \in [Frame -> Content]
    <2>1. Stack(Child) \in Content
        <3>1. started + 1 \in 1 .. MaxPrograms
            BY <1>4, Sizes
        <3> QED
            BY <1>4, <1>5, <3>1, SMTT(30) DEF Stack, Content
    <2>2. mem' = [f \in Frame |->
                    IF f \in {pt[Child.stk + j] : j \in 0 .. StackPages - 1}
                    THEN Stack(Child) ELSE mem[f]]
        BY <1>1 DEF StackUsed
    <2> QED
        BY <1>4, <2>1, <2>2
<1>11. \A v \in DOMAIN pt : v \notin StackBase .. StackBase + StackPages - 1 =>
           mem'[pt[v]] = mem[pt[v]]
    <2> SUFFICES ASSUME NEW v \in DOMAIN pt, v \notin StackBase .. StackBase + StackPages - 1
                 PROVE  ~\E j \in 0 .. StackPages - 1 : pt[v] = pt[StackBase + j]
        BY <1>8, <1>9
    <2> SUFFICES ASSUME NEW j \in 0 .. StackPages - 1, pt[v] = pt[StackBase + j]
                 PROVE  FALSE
        OBVIOUS
    <2>1. v = StackBase + j
        BY <1>2, <1>7, ZenonT(30) DEF Frames, FramesDisjoint
    <2> QED
        BY <1>5, <2>1, Sizes, SMTT(30)
<1>12. calls' \in Seq(Activation) /\ Len(calls') = Len(calls) + 1 /\ Len(calls) \in Nat
       /\ calls'[Len(calls) + 1] = Child /\ \A k \in 1 .. Len(calls) : calls'[k] = calls[k]
    BY <1>1, <1>4, <1>6, SMTT(30)
<1>13. TypeOK'
    <2>1. started' \in 0 .. MaxPrograms
        BY <1>1, <1>4, Sizes
    <2>2. child_running' \in BOOLEAN
        BY <1>1, <1>4, Zenon
    <2>3. running' \in Activation /\ saved_frame' \in Activation
        BY <1>1, <1>4, <1>6
    <2> QED
        BY <1>1, <1>2, <1>10, <1>12, <2>1, <2>2, <2>3, IdleType, ZenonT(30) DEF TypeOK
<1>14. Frames'
    BY <1>1, <1>2, <1>4, FramesKept
<1>15. ~nested => \/ /\ job.why = "boot" /\ Len(calls) = 0
                     /\ ~child_running' /\ StackBase = UserStack
                  \/ /\ job.why = "exec" /\ Len(calls) = 1 /\ running = calls[1]
                     /\ calls[1].stk = UserStack /\ StackBase = ChildStack
                     /\ child_running' /\ saved_frame' = calls[1]
    <2>1. CASE job.why = "boot"
        <3>1. calls = <<>> /\ ~child_running
            BY <1>2, <1>3, <2>1, ZenonT(30) DEF Control
        <3> QED
            BY <1>1, <1>5, <2>1, <3>1
    <2>2. CASE job.why = "exec"
        <3>1. ~nested => Len(calls) = 1 /\ running = calls[1] /\ calls[1].stk = UserStack
            BY <1>2, <1>3, <2>2, SMTT(30) DEF Control
        <3> QED
            BY <1>1, <1>5, <2>2, <3>1
    <2> QED
        BY <1>1, <2>1, <2>2, ZenonT(30)
<1>16. Control'
    <2> SUFFICES ASSUME ~nested
                 PROVE  /\ Len(calls') \in {1, 2} /\ running' = calls'[Len(calls')]
                        /\ child_running' = (Len(calls') = 2)
                        /\ Len(calls') = 2 => saved_frame' = calls'[1]
                        /\ calls'[1].stk = UserStack
                        /\ Len(calls') = 2 => calls'[2].stk = ChildStack
        BY <1>1, <1>3, ZenonT(30) DEF Control
    <2>0. child_running' \in BOOLEAN
        BY <1>13, ZenonT(30) DEF TypeOK
    <2>1. CASE job.why = "boot"
        BY <1>1, <1>5, <1>12, <1>15, <2>0, <2>1, SMTT(30)
    <2>2. CASE job.why = "exec"
        <3>1. /\ Len(calls) = 1 /\ calls[1].stk = UserStack /\ StackBase = ChildStack
              /\ child_running' /\ saved_frame' = calls[1]
            BY <1>15, <2>2
        <3>2. Len(calls') = 2 /\ calls'[2] = Child /\ calls'[1] = calls[1]
            BY <1>12, <3>1
        <3>3. child_running' = (Len(calls') = 2)
            BY <2>0, <3>1, <3>2, ZenonT(30)
        <3> QED
            BY <1>1, <1>5, <3>1, <3>2, <3>3, ZenonT(30)
    <2> QED
        BY <1>1, <2>1, <2>2, ZenonT(30)
<1>17. Contents'
    <2> SUFFICES ASSUME Below' PROVE Files' /\ Stacks' /\ Images'
        BY DEF Contents
    <2>1. Files /\ Stacks /\ Images
        BY <1>1, <1>2 DEF Contents, Below
    <2>2. Files'
        <3>1. \A j \in 0 .. StackPages - 1 : BootFrames <= pt[StackBase + j]
                                             /\ pt[StackBase + j] \in Int
            <4>1. \A j \in 0 .. StackPages - 1 : ImagePage <= StackBase + j
                BY <1>5, Sizes, SMTT(30)
            <4> QED
                BY <1>2, <1>7, <1>8, <4>1 DEF Frames, Frame
        <3>2. \A f \in HeapFrame .. BootFrames - 1 : f \in Frame => mem'[f] = mem[f]
            BY <1>9, <3>1, Sizes
        <3> QED
            BY <1>2, <2>1, <3>2, FilesKept
    <2>3. Stacks'
        <3> SUFFICES ASSUME ~nested, NEW k \in 1 .. Len(calls) + 1, NEW j \in 0 .. StackPages - 1
                     PROVE  /\ calls'[k].stk + j \in DOMAIN pt
                            /\ mem'[pt[calls'[k].stk + j]] = Stack(calls'[k])
            <4>1. DOMAIN calls' = 1 .. Len(calls) + 1
                BY <1>12, SMTT(30)
            <4> QED
                BY <1>1, <4>1, Zenon DEF Stacks, Stack
        <3>1. CASE k = Len(calls) + 1
            BY <1>5, <1>7, <1>8, <1>9, <1>12, <3>1, ZenonT(30)
        <3>2. CASE k # Len(calls) + 1
            <4>1. k \in 1 .. Len(calls) /\ k \in DOMAIN calls /\ calls'[k] = calls[k]
                BY <1>4, <1>12, <3>2
            <4>2. calls[k].stk + j \in DOMAIN pt /\ mem[pt[calls[k].stk + j]] = Stack(calls[k])
                BY <2>1, <4>1, ZenonT(30) DEF Stacks
            <4>3. k = 1 /\ calls[k].stk = UserStack /\ StackBase = ChildStack
                BY <1>15, <4>1
            <4>4. calls[k].stk + j \notin StackBase .. StackBase + StackPages - 1
                BY <4>3, Sizes, SMTT(30)
            <4> QED
                BY <1>11, <4>1, <4>2, <4>4, ZenonT(30)
        <3> QED
            BY <3>1, <3>2
    <2>4. Images'
        <3> SUFFICES ASSUME ~refused
                     PROVE  /\ saved_frame'.prog = "shell"
                            /\ \A i \in 0 .. Pages(job.prog) - 1 :
                                  /\ ImagePage + i \in DOMAIN pt
                                  /\ mem'[pt[ImagePage + i]] = File(job.prog, i)
            BY <1>1, <1>3, <1>5, ZenonT(30) DEF Images, Upto, Pages, File
        <3>1. saved_frame'.prog = "shell"
            BY <1>1, <1>3, <2>1, ZenonT(30) DEF Images
        <3>2. Upto(job.prog, Pages(job.prog))
            BY <1>1, <1>3, <2>1 DEF Images
        <3>3. \A i \in 0 .. Pages(job.prog) - 1 :
                  ImagePage + i \notin StackBase .. StackBase + StackPages - 1
            <4>1. Pages(job.prog) \in Nat /\ ImagePage + Pages(job.prog) <= UserStack
                BY <1>4, Layout, ZenonT(30)
            <4> QED
                BY <1>5, <4>1, Sizes
        <3>4. \A i \in 0 .. Pages(job.prog) - 1 :
                  ImagePage + i \in DOMAIN pt /\ mem'[pt[ImagePage + i]] = File(job.prog, i)
            BY <1>11, <3>2, <3>3 DEF Upto
        <3> QED
            BY <3>1, <3>4, ZenonT(30)
    <2> QED
        BY <2>2, <2>3, <2>4
<1> QED
    BY <1>13, <1>14, <1>16, <1>17 DEF IInv

\* The caller resumes, with the shell's image back in place.
LEMMA ExitStep == ASSUME IInv, handle_exit PROVE IInv'
<1>1. /\ pc = "page" /\ job.part = "image" /\ job.i = Pages(job.prog) /\ job.why = "exit"
      /\ running' = saved_frame /\ rax' = 0
      /\ calls' = SubSeq(calls, 1, Len(calls) - 1)
      /\ pc' = "user" /\ job' = Idle
      /\ UNCHANGED <<ram, next_frame, pt, tables, mem, saved_frame, child_running,
                     started, nested, refused>>
    BY DEF handle_exit, LoadingImage
<1>2. TypeOK /\ Frames /\ Control /\ Contents
    BY DEF IInv
<1>3. Loading /\ ~Loading' /\ pc' # "map"
    BY <1>1 DEF Loading
<1>4. next_frame \in Nat /\ calls \in Seq(Activation)
    BY <1>2 DEF TypeOK
<1>5. /\ calls' \in Seq(Activation)
      /\ Len(calls) = 2 => Len(calls') = 1 /\ calls'[1] = calls[1]
    <2>1. Len(calls) - 1 \in Int /\ \A k \in 1 .. Len(calls) - 1 : calls[k] \in Activation
        BY <1>4
    <2>2. SubSeq(calls, 1, Len(calls) - 1) \in Seq(Activation)
        BY <2>1
    <2>3. ASSUME Len(calls) = 2 PROVE Len(calls') = 1 /\ calls'[1] = calls[1]
        <3>1. Len(SubSeq(calls, 1, 1)) = 1 /\ SubSeq(calls, 1, 1)[1] = calls[1]
            BY <1>4, <2>3
        <3> QED
            BY <1>1, <2>3, <3>1
    <2> QED
        BY <1>1, <2>2, <2>3, Zenon
<1>6. ~nested => Len(calls) = 2 /\ saved_frame = calls[1] /\ ~child_running
                 /\ calls[1].stk = UserStack
    <2>1. ~nested => Len(calls) = 2 /\ saved_frame = calls[1] /\ ~child_running
        BY <1>1, <1>2, <1>3 DEF Control
    <2>2. ~nested /\ Len(calls) >= 1 => calls[1].stk = UserStack
        BY <1>2, ZenonT(30) DEF Control
    <2> QED
        BY <2>1, <2>2
<1>7. TypeOK'
    BY <1>1, <1>2, <1>5, IdleType DEF TypeOK
<1>8. Frames'
    BY <1>1, <1>2, <1>4, FramesKept
<1>9. Control'
    <2>1. ~nested => child_running' = (Len(calls') = 2)
        <3>1. child_running \in BOOLEAN
            BY <1>2 DEF TypeOK
        <3> QED
            <4>1. ~nested => Len(calls') # 2
                BY <1>5, <1>6
            <4>2. child_running' \in BOOLEAN /\ (~nested => ~child_running')
                BY <1>1, <1>6, <3>1
            <4> QED
                BY <4>1, <4>2, ZenonT(30)
    <2> QED
        BY <1>1, <1>3, <1>5, <1>6, <2>1, ZenonT(30) DEF Control
<1>10. Contents'
    <2> SUFFICES ASSUME Below' PROVE Files' /\ Stacks' /\ Images'
        BY DEF Contents
    <2>1. Files /\ Stacks /\ Images
        BY <1>1, <1>2 DEF Contents, Below
    <2>2. Files'
        BY <1>1, <1>2, <2>1, FilesKept
    <2>3. Stacks'
        <3> SUFFICES ASSUME ~nested, NEW k \in DOMAIN calls', NEW j \in 0 .. StackPages - 1
                     PROVE  /\ calls'[k].stk + j \in DOMAIN pt
                            /\ mem[pt[calls'[k].stk + j]] = Stack(calls'[k])
            BY <1>1, Zenon DEF Stacks, Stack
        <3>1. k = 1 /\ calls'[k] = calls[1] /\ 1 \in DOMAIN calls
            BY <1>4, <1>5, <1>6
        <3> QED
            BY <2>1, <3>1 DEF Stacks
    <2>4. Images'
        <3>1. job.prog = "shell"
            BY <1>1, <1>2, <1>3 DEF Control
        <3> QED
            BY <1>1, <1>3, <2>1, <3>1, ZenonT(30) DEF Images, Upto
    <2> QED
        BY <2>2, <2>3, <2>4
<1> QED
    BY <1>7, <1>8, <1>9, <1>10 DEF IInv

-----------------------------------------------------------------------------
(* The system calls. *)

\* The program halts the machine, or goes on after a refused exec.
LEMMA UserStep ==
    ASSUME IInv, sys_exec_fails \/ sys_exit_halt \/ user_fault
    PROVE  IInv'
<1>1. /\ pc = "user" /\ pc' \in {"user", "halted"} /\ rax' \in {rax, -1}
      /\ UNCHANGED <<ram, next_frame, pt, tables, mem, job, running, saved_frame,
                     child_running, calls, started, nested, refused>>
    BY DEF sys_exec_fails, sys_exit_halt, user_fault, MayExec, userVars
<1>2. TypeOK /\ Frames /\ Control /\ Contents
    BY ZenonT(30) DEF IInv
<1>3. next_frame \in Nat /\ rax' \in {0, -1}
    BY <1>1, <1>2, ZenonT(30) DEF TypeOK
<1>4. TypeOK'
    BY <1>1, <1>2, <1>3 DEF TypeOK
<1>5. Frames'
    BY <1>1, <1>2, <1>3, FramesKept, SMTT(30)
<1>6. Control'
    BY <1>1, <1>2, ZenonT(30) DEF Control, Loading
<1>7. Below /\ Images => Images'
    BY <1>1 DEF Images, Loading, Upto
<1>8. Contents'
    BY <1>1, <1>2, <1>3, <1>7, MemoryKept
<1> QED
    BY <1>4, <1>5, <1>6, <1>8 DEF IInv

\* While its image is in place only the shell calls exec.
LEMMA ExecStep == ASSUME IInv, NEW p \in Program, sys_exec(p) PROVE IInv'
<1>1. /\ pc = "user" /\ (running.prog = "shell" \/ ~Intact(running.prog))
      /\ started < MaxPrograms /\ pc' = "page" /\ nested' = (nested \/ child_running)
      /\ job' = [why |-> "exec", prog |-> p, part |-> "image", i |-> 0, frame |-> 0]
      /\ UNCHANGED <<ram, next_frame, pt, tables, mem, refused, running, rax, saved_frame,
                     child_running, calls, started>>
    BY DEF sys_exec, MayExec
<1>2. TypeOK /\ Frames /\ Control /\ Contents
    BY ZenonT(30) DEF IInv
<1>3. next_frame \in Nat /\ child_running \in BOOLEAN /\ nested \in BOOLEAN
    BY <1>2, ZenonT(30) DEF TypeOK
<1>4. ~Loading /\ Loading' /\ pc' # "map" /\ pc' # "user" /\ job'.why = "exec"
      /\ job'.part = "image" /\ job'.prog = p /\ job'.i = 0
    BY <1>1 DEF Loading
<1>5. ~nested' => ~nested /\ ~child_running
    BY <1>1, <1>3, Zenon
<1>6. TypeOK'
    <2>1. nested' \in BOOLEAN
        BY <1>1, <1>3, Zenon
    <2>2. job' \in [why : {"boot", "exec", "exit"}, prog : Program, part : {"image", "stack"},
                    i : Nat, frame : Frame]
        BY <1>1, JobType, ZenonT(30)
    <2>3. job'.i <= (IF job'.part = "image" THEN Pages(job'.prog) ELSE StackPages)
        BY <1>4, Layout, SMTT(30)
    <2> QED
        BY <1>1, <1>2, <2>1, <2>2, <2>3, ZenonT(30) DEF TypeOK
<1>7. Frames'
    BY <1>1, <1>2, <1>3, FramesKept, SMTT(30)
<1>8. Control'
    <2>1. ~nested' => /\ Len(calls) = 1 /\ running = calls[1] /\ ~child_running
                      /\ calls[1].stk = UserStack
        <3> SUFFICES ASSUME ~nested' PROVE /\ Len(calls) = 1 /\ running = calls[1]
                                           /\ ~child_running /\ calls[1].stk = UserStack
            OBVIOUS
        <3>1. /\ Len(calls) \in {1, 2} /\ running = calls[Len(calls)]
              /\ child_running = (Len(calls) = 2)
              /\ Len(calls) >= 1 => calls[1].stk = UserStack
            BY <1>1, <1>2, <1>5, Zenon DEF Control
        <3>2. Len(calls) = 1
            BY <1>5, <3>1, ZenonT(30)
        <3> QED
            BY <1>5, <3>1, <3>2
    <2> QED
        BY <1>1, <1>4, <2>1 DEF Control
<1>9. Below /\ Images => Images'
    <2>1. ASSUME Images, ~refused PROVE saved_frame.prog = "shell" /\ running.prog = "shell"
        <3>1. Upto(running.prog, Pages(running.prog)) => Intact(running.prog)
            BY ZenonT(30) DEF Upto, Intact
        <3> QED
            BY <1>1, <2>1, <3>1, ZenonT(30) DEF Images
    <2>2. Upto(job.prog, job.i)'
        BY <1>4 DEF Upto
    <2> QED
        BY <1>1, <1>4, <2>1, <2>2, ZenonT(30) DEF Images
<1>10. Contents'
    BY <1>1, <1>2, <1>3, <1>5, <1>9, MemoryKept, SMTT(30)
<1> QED
    BY <1>6, <1>7, <1>8, <1>10, ZenonT(30) DEF IInv

\* The shell's file is whole, so that it is loaded from its first page.
LEMMA ExitChildStep == ASSUME IInv, sys_exit_child PROVE IInv'
<1>1. /\ pc = "user" /\ child_running /\ child_running' = FALSE /\ pc' = "page"
      /\ job' = [why |-> "exit", prog |-> "shell", part |-> "image", i |-> ReloadFrom,
                 frame |-> 0]
      /\ UNCHANGED <<ram, next_frame, pt, tables, mem, refused, running, rax,
                     saved_frame, calls, started, nested>>
    BY DEF sys_exit_child
<1>2. TypeOK /\ Frames /\ Control /\ Contents
    BY DEF IInv
<1>3. next_frame \in Nat
    BY <1>2, ZenonT(30) DEF TypeOK
<1>4. ReloadFrom \in Nat /\ ReloadFrom <= Pages("shell") /\ "shell" \in Program
    BY Layout DEF ReloadFrom, Pages, Program
<1>5. ~Loading /\ Loading' /\ pc' # "map" /\ pc' # "user" /\ job'.why = "exit"
      /\ job'.part = "image" /\ job'.prog = "shell" /\ job'.i = ReloadFrom
    BY <1>1, SMTT(30) DEF Loading
<1>6. TypeOK'
    <2>1. child_running' \in BOOLEAN
        BY <1>1, Zenon
    <2>2. job' \in [why : {"boot", "exec", "exit"}, prog : Program, part : {"image", "stack"},
                    i : Nat, frame : Frame]
        BY <1>1, <1>4, JobType, ZenonT(30)
    <2>3. job'.i <= (IF job'.part = "image" THEN Pages(job'.prog) ELSE StackPages)
        BY <1>4, <1>5, ZenonT(30)
    <2> QED
        BY <1>1, <1>2, <2>1, <2>2, <2>3 DEF TypeOK
<1>7. Frames'
    BY <1>1, <1>2, <1>3, FramesKept, SMTT(30)
<1>8. Control'
    <2>1. ~nested => /\ Len(calls) = 2 /\ saved_frame = calls[1]
                     /\ calls[1].stk = UserStack /\ calls[2].stk = ChildStack
        <3> SUFFICES ASSUME ~nested
                     PROVE  /\ Len(calls) = 2 /\ saved_frame = calls[1]
                            /\ calls[1].stk = UserStack /\ calls[2].stk = ChildStack
            OBVIOUS
        <3>1. /\ child_running = (Len(calls) = 2)
              /\ Len(calls) = 2 => saved_frame = calls[1]
              /\ Len(calls) >= 1 => calls[1].stk = UserStack
              /\ Len(calls) = 2 => calls[2].stk = ChildStack
            BY <1>1, <1>2, Zenon DEF Control
        <3>2. Len(calls) = 2
            BY <1>1, <3>1, ZenonT(30)
        <3> QED
            BY <3>1, <3>2
    <2> QED
        BY <1>1, <1>5, <2>1 DEF Control
<1>9. Below /\ Images => Images'
    <2>1. ASSUME Below PROVE ReloadFrom = 0
        <3>1. 0 \in 0 .. Pages("shell") - 1
            BY <1>4, Layout
        <3>2. mem[Translate(FilePage("shell", 0))] = File("shell", 0)
            BY <1>2, <1>4, <2>1, <3>1, FilePlace, ZenonT(30) DEF Contents, Files
        <3> QED
            BY <3>2, ZenonT(30) DEF ReloadFrom, elf_validate
    <2>2. Below => Upto(job.prog, job.i)'
        BY <1>5, <2>1 DEF Upto
    <2> QED
        BY <1>1, <1>5, <2>2, ZenonT(30) DEF Images
<1>10. Contents'
    BY <1>1, <1>2, <1>3, <1>9, MemoryKept
<1> QED
    BY <1>6, <1>7, <1>8, <1>10 DEF IInv

-----------------------------------------------------------------------------
(* Theorems. *)

LEMMA NextIInv == IInv /\ [Next]_vars => IInv'
<1> SUFFICES ASSUME IInv, [Next]_vars PROVE IInv'
    OBVIOUS
<1>1. CASE load_segment
    BY <1>1, LoadSegmentStep
<1>2. CASE load_segment_fault \/ load_segment_none
    BY <1>2, LoadSegmentEndStep
<1>3. CASE vmm_map_page \/ vmm_map_page_table
    BY <1>3, MapStep
<1>4. CASE vmm_map_page_none
    BY <1>4, MapNoneStep
<1>5. CASE elf_load_entry
    BY <1>5, EntryStep
<1>6. CASE stack_page
    BY <1>6, StackPageStep
<1>7. CASE stack_page_none
    BY <1>7, StackNoneStep
<1>8. CASE usermode_exec_elf \/ handle_exec
    BY <1>8, EnterStep
<1>9. CASE handle_exit
    BY <1>9, ExitStep
<1>10. CASE sys_exec_fails \/ sys_exit_halt \/ user_fault
    BY <1>10, UserStep
<1>11. CASE \E p \in Program : sys_exec(p)
    BY <1>11, ExecStep
<1>12. CASE sys_exit_child
    BY <1>12, ExitChildStep
<1>13. CASE UNCHANGED vars
    <2>1. UNCHANGED <<ram, next_frame, pt, tables, mem, pc, job, running, rax, saved_frame,
                      child_running, calls, started, nested, refused>>
        BY <1>13 DEF vars
    <2>2. TypeOK' /\ Frames'
        BY <2>1, Zenon DEF IInv, TypeOK, Frames, FramesDisjoint
    <2>3. Control'
        BY <2>1, Zenon DEF IInv, Control, Loading, Extent, StackSoFar, StackBase
    <2>4. Files' = Files /\ Stacks' = Stacks /\ Images' = Images /\ Below' = Below
        BY <2>1, Zenon DEF Files, FileFrame, File, Stacks, Stack, Images, Loading, Upto, Below
    <2> QED
        BY <2>2, <2>3, <2>4 DEF IInv, Contents
<1> QED
    BY <1>1, <1>2, <1>3, <1>4, <1>5, <1>6, <1>7, <1>8, <1>9, <1>10, <1>11, <1>12, <1>13
       DEF Next, KernelStep, Halted

\* The kernel's steps from the boot to the last exit keep frames, control and
\* contents as the three invariants describe them.
THEOREM ExecInvariant == Spec => []IInv
    BY InitIInv, NextIInv, PTL DEF Spec

\* The state of the kernel keeps its types: in particular no load or stack
\* set-up runs past the end of the segment or of the stack.
THEOREM ExecTypeOK == Spec => []TypeOK
<1>1. IInv => TypeOK
    BY DEF IInv
<1> QED
    BY <1>1, ExecInvariant, PTL

\* pmm_alloc_frame, load_segment and vmm_map_page never put one frame to two
\* uses, for every layout and every memory size.
THEOREM FramesDisjointAlways == Spec => []FramesDisjoint
<1>1. IInv => FramesDisjoint
    BY DEF IInv, Frames
<1> QED
    BY <1>1, ExecInvariant, PTL

\* As long as the frames lie below the heap, what load_segment and alloc_table
\* write at a frame's address never lands in a file of ramfs.
THEOREM FilesIntactAlways == Spec => []FilesIntact
<1>1. IInv => FilesIntact
    BY FilePlace DEF IInv, Contents, Files, FilesIntact
<1> QED
    BY <1>1, ExecInvariant, PTL

\* However many programs have replaced each other's image, the program that runs
\* finds its own: handle_exec loads the child's, handle_exit the shell's again.
THEOREM ImageIntactAlways == Spec => []ImageIntact
<1>1. IInv => ImageIntact
    BY DEF IInv, Contents, Images, ImageIntact, Intact, Upto
<1> QED
    BY <1>1, ExecInvariant, PTL

\* Until a child calls exec itself, the saved frame of handle_exec is the caller's
\* when handle_exit resumes it, and child_running says whether there is a caller.
THEOREM ReturnsToCallerAlways == Spec => []ReturnsToCaller
<1>1. IInv => ReturnsToCaller
    <2> SUFFICES ASSUME IInv, pc = "user", ~nested
                 PROVE  running = calls[Len(calls)] /\ child_running = (Len(calls) > 1)
        BY DEF ReturnsToCaller
    <2>1. /\ Len(calls) \in {1, 2} /\ running = calls[Len(calls)]
          /\ child_running = (Len(calls) = 2)
        BY Zenon DEF IInv, Control
    <2>2. (Len(calls) = 2) = (Len(calls) > 1)
        BY <2>1
    <2> QED
        BY <2>1, <2>2, Zenon
<1> QED
    BY <1>1, ExecInvariant, PTL

\* The stacks of the shell and of its child stay apart (USER_STACK_VADDR and
\* CHILD_STACK_VADDR), and no later load writes into the stack of one that waits.
THEOREM StackKeptAlways == Spec => []StackKept
<1>1. IInv => StackKept
    <2> SUFFICES ASSUME IInv, pc = "user", ~nested, Below, NEW j \in 0 .. StackPages - 1
                 PROVE  mem[Translate(running.stk + j)] = Stack(running)
        BY DEF StackKept
    <2>1. /\ Len(calls) \in {1, 2} /\ running = calls[Len(calls)] /\ calls \in Seq(Activation)
        BY Zenon DEF IInv, Control, TypeOK
    <2>2. Len(calls) \in DOMAIN calls
        BY <2>1
    <2>3. running.stk + j \in DOMAIN pt /\ mem[pt[running.stk + j]] = Stack(running)
        BY <2>1, <2>2, Zenon DEF IInv, Contents, Stacks
    <2> QED
        BY <2>3 DEF Translate
<1> QED
    BY <1>1, ExecInvariant, PTL

=============================================================================
