-------------------------------- MODULE Exec --------------------------------
(***************************************************************************)
(* User programs: the shell started by usermode.c, exec and exit of        *)
(* syscall.c, the ELF loader elf.c, the mappings of vmm.c and the frames   *)
(* of pmm.c they consume, with the program files of ramfs.c in the heap.   *)
(*                                                                         *)
(* Memory is modelled by page: pt maps virtual pages to frames (the        *)
(* identity mapping of vmm_init underneath), mem says what a frame holds.  *)
(* The kernel writes to a frame through the virtual address equal to its   *)
(* physical one, so that the write lands in whatever frame that page is    *)
(* mapped to.  Nothing gives frames back, so that the first-fit allocator  *)
(* hands them out in increasing order: next_frame is the next one.         *)
(***************************************************************************)
EXTENDS Integers, Sequences

CONSTANTS
    FirstFree,      \* first frame above the kernel image
    RamSizes,       \* the memory sizes considered, in frames
    Span,           \* pages covered by one page table (512 in the code)
    IdentityEnd,    \* vmm_init identity-maps the pages below this one
    HeapPage, ImagePage, UserStack, ChildStack,    \* virtual layout, in pages
    ShellPages, HelloPages, StackPages,            \* sizes, in pages
    MaxPrograms     \* bound on the programs started

Program == {"shell", "hello"}
Pages(p) == IF p = "shell" THEN ShellPages ELSE HelloPages
HeapPages == ShellPages + HelloPages

\* Frames handed out before the shell is loaded: the PML4, the PDPT, the PD, a
\* page table per Span of the identity mapping, and the pages of the heap.
BootTables == 3 + (IdentityEnd + Span - 1) \div Span
HeapFrame == FirstFree + BootTables
BootFrames_heap_unmarked == HeapFrame
BootFrames == HeapFrame + HeapPages

Region(v) == v \div Span

ASSUME ExecConstants ==
    /\ {FirstFree, Span, IdentityEnd, HeapPage, ImagePage, UserStack, ChildStack,
        ShellPages, HelloPages, StackPages, MaxPrograms} \subseteq Nat \ {0}
    /\ StackPages > 1
    /\ RamSizes \subseteq Nat /\ \A r \in RamSizes : r >= BootFrames
    /\ \E r \in RamSizes : \A s \in RamSizes : s <= r
    /\ HeapPage + HeapPages <= IdentityEnd /\ IdentityEnd <= ImagePage
    /\ \A p \in Program : ImagePage + Pages(p) <= UserStack
    /\ UserStack + StackPages <= ChildStack
    \* both stacks are reached through one page table, the image through another
    /\ Region(UserStack) = Region(ChildStack + StackPages - 1)
    /\ Region(ImagePage) = Region(ImagePage + ShellPages - 1)
    /\ Region(ImagePage) = Region(ImagePage + HelloPages - 1)
    /\ Region(IdentityEnd - 1) < Region(ImagePage) /\ Region(ImagePage) < Region(UserStack)
    \* the boot up to the shell's first instruction stays below the heap's address
    /\ BootFrames + ShellPages + StackPages + 2 <= HeapPage

VARIABLES
    ram, next_frame,              \* pmm.c: size of memory, next frame to hand out
    pt, tables, mem,              \* vmm.c: mappings, page tables; memory contents
    pc, job,                      \* what the kernel is doing
    running, rax,                 \* the interrupt frame: who resumes, with which result
    saved_frame, child_running,   \* syscall.c
    calls, started,               \* history: who waits for whom, programs started;
    nested, refused               \* has a child called exec, an allocation failed?

vars == <<ram, next_frame, pt, tables, mem, pc, job, running, rax, saved_frame,
          child_running, calls, started, nested, refused>>
userVars == <<running, rax, saved_frame, child_running, calls, started, nested>>

MaxRam == CHOOSE r \in RamSizes : \A s \in RamSizes : s <= r
Frame == 0 .. MaxRam - 1
None == -1

\* What a frame holds: a page of a program's file, the stack of a started
\* program, or something that is neither.
File(p, i) == <<"file", p, i>>
Stack(a) == <<"stack", a.prog, a.id>>
Other == <<"other", "", 0>>
Content == {Other} \cup {<<"file", p, i>> : p \in Program, i \in 0 .. ShellPages + HelloPages}
                   \cup {<<"stack", p, i>> : p \in Program, i \in 1 .. MaxPrograms}

\* A program started: the registers that matter are its code and its stack.
NoProgram == [id |-> 0, prog |-> "shell", stk |-> UserStack]
Activation == [id : 1 .. MaxPrograms, prog : Program, stk : {UserStack, ChildStack}]
                  \cup {NoProgram}

Idle == [why |-> "boot", prog |-> "shell", part |-> "image", i |-> 0, frame |-> 0]

TypeOK ==
    /\ ram \in RamSizes /\ next_frame \in Nat /\ next_frame <= ram
    /\ DOMAIN pt \subseteq 0 .. ChildStack + StackPages - 1
    /\ \A v \in DOMAIN pt : pt[v] \in Frame
    /\ DOMAIN tables \subseteq {Region(ImagePage), Region(UserStack)}
    /\ \A r \in DOMAIN tables : tables[r] \in Frame
    /\ mem \in [Frame -> Content]
    /\ pc \in {"page", "map", "user", "halted"}
    /\ job \in [why : {"boot", "exec", "exit"}, prog : Program, part : {"image", "stack"},
               i : Nat, frame : Frame]
    /\ job.i <= (IF job.part = "image" THEN Pages(job.prog) ELSE StackPages)
    /\ running \in Activation /\ saved_frame \in Activation
    /\ rax \in {0, -1} /\ child_running \in BOOLEAN /\ refused \in BOOLEAN
    /\ calls \in Seq(Activation) /\ started \in 0 .. MaxPrograms /\ nested \in BOOLEAN

\* hello.elf was created first, so that its data comes first in the heap.
FilePage(p, i) == HeapPage + i + (IF p = "shell" THEN HelloPages ELSE 0)

\* The frame a virtual page is mapped to.
Translate(v) ==
    CASE v \in DOMAIN pt -> pt[v]
      [] v \notin DOMAIN pt /\ v < IdentityEnd -> v
      [] OTHER -> None

\* kernel_main up to usermode_exec_elf: tables, heap and files are in place.
Init ==
    /\ ram \in RamSizes
    /\ next_frame = BootFrames
    /\ pt = [v \in HeapPage .. HeapPage + HeapPages - 1 |-> HeapFrame + (v - HeapPage)]
    /\ tables = <<>>
    /\ mem = [f \in Frame |->
                CASE f - HeapFrame \in 0 .. HelloPages - 1 -> File("hello", f - HeapFrame)
                  [] f - HeapFrame \in HelloPages .. HeapPages - 1 ->
                         File("shell", f - HeapFrame - HelloPages)
                  [] OTHER -> Other]
    /\ pc = "page" /\ job = Idle
    /\ running = NoProgram /\ rax = 0
    /\ saved_frame = NoProgram /\ child_running = FALSE
    /\ calls = <<>> /\ started = 0 /\ nested = FALSE /\ refused = FALSE

-----------------------------------------------------------------------------
(* elf.c *)

\* elf_validate and the checks of elf_load look at the headers, in page 0.
elf_validate(p) == mem[Translate(FilePage(p, 0))] = File(p, 0)

LoadingImage == pc = "page" /\ job.part = "image"

\* Fault: the loop runs up to and including vaddr_end.
MorePages_inclusive == job.i <= Pages(job.prog)
MorePages == job.i < Pages(job.prog)

\* Fault: the frame is not marked as used.
pmm_alloc_frame_unmarked == next_frame < ram /\ UNCHANGED next_frame
pmm_alloc_frame == next_frame < ram /\ next_frame' = next_frame + 1

\* One turn of the loop of load_segment: a frame is zeroed and filled from the
\* file, both through the address equal to the frame's.
load_segment ==
    /\ LoadingImage /\ MorePages
    /\ pmm_alloc_frame
    /\ Translate(next_frame) # None
    /\ LET dst == Translate(next_frame)
           src == Translate(FilePage(job.prog, job.i))
       IN  mem' = [mem EXCEPT ![dst] = IF src = dst THEN Other ELSE mem[src]]
    /\ job' = [job EXCEPT !.frame = next_frame]
    /\ pc' = "map"
    /\ UNCHANGED <<ram, pt, tables, refused>> /\ UNCHANGED userVars

\* The frame's address is not mapped: page fault, isr_dispatch halts.
load_segment_fault ==
    /\ LoadingImage /\ MorePages
    /\ pmm_alloc_frame
    /\ Translate(next_frame) = None
    /\ pc' = "halted"
    /\ UNCHANGED <<ram, pt, tables, mem, job, refused>> /\ UNCHANGED userVars

\* Fault: the loop tries again instead of giving up.
GivenUp_not == job
GivenUp == [job EXCEPT !.i = Pages(job.prog)]

\* Out of frames: load_segment returns, and so does every later call of it.
load_segment_none ==
    /\ LoadingImage /\ MorePages
    /\ next_frame = ram
    /\ refused' = TRUE
    /\ job' = GivenUp
    /\ UNCHANGED <<ram, next_frame, pt, tables, mem, pc>> /\ UNCHANGED userVars

-----------------------------------------------------------------------------
(* vmm.c *)

StackBase_shared == UserStack
StackBase == IF job.why = "boot" THEN UserStack ELSE ChildStack
MappedPage == job.i + (IF job.part = "image" THEN ImagePage ELSE StackBase)

\* The leaf entry is written; the entry for a new page table.
Mapped == [v \in DOMAIN pt \cup {MappedPage} |-> IF v = MappedPage THEN job.frame ELSE pt[v]]
Linked == [r \in DOMAIN tables \cup {Region(MappedPage)} |->
              IF r = Region(MappedPage) THEN next_frame ELSE tables[r]]

\* vmm_map_page when the page table exists.
vmm_map_page ==
    /\ pc = "map"
    /\ Region(MappedPage) \in DOMAIN tables
    /\ pt' = Mapped
    /\ job' = [job EXCEPT !.i = @ + 1]
    /\ pc' = "page"
    /\ UNCHANGED <<ram, next_frame, tables, mem, refused>> /\ UNCHANGED userVars

\* vmm_map_page when alloc_table provides the page table.
vmm_map_page_table ==
    /\ pc = "map"
    /\ Region(MappedPage) \notin DOMAIN tables
    /\ pmm_alloc_frame
    /\ mem' = [mem EXCEPT ![Translate(next_frame)] = Other]
    /\ tables' = Linked
    /\ pt' = Mapped
    /\ job' = [job EXCEPT !.i = @ + 1]
    /\ pc' = "page"
    /\ UNCHANGED <<ram, refused>> /\ UNCHANGED userVars

\* vmm_map_page when alloc_table fails: it returns without a word.
vmm_map_page_none ==
    /\ pc = "map"
    /\ Region(MappedPage) \notin DOMAIN tables
    /\ next_frame = ram
    /\ refused' = TRUE
    /\ job' = [job EXCEPT !.i = @ + 1]
    /\ pc' = "page"
    /\ UNCHANGED <<ram, next_frame, pt, tables, mem>> /\ UNCHANGED userVars

-----------------------------------------------------------------------------
(* usermode_exec_elf, handle_exec, handle_exit *)

LoadingStack == pc = "page" /\ job.part = "stack"

\* elf_load returns the entry point to usermode_exec_elf or handle_exec.
elf_load_entry ==
    /\ LoadingImage /\ job.i = Pages(job.prog) /\ job.why # "exit"
    /\ job' = [job EXCEPT !.part = "stack", !.i = 0]
    /\ UNCHANGED <<ram, next_frame, pt, tables, mem, pc, refused>> /\ UNCHANGED userVars

stack_page ==
    /\ LoadingStack /\ job.i < StackPages
    /\ pmm_alloc_frame
    /\ job' = [job EXCEPT !.frame = next_frame]
    /\ pc' = "map"
    /\ UNCHANGED <<ram, pt, tables, mem, refused>> /\ UNCHANGED userVars

\* No frame for the stack.  At boot usermode_exec_elf returns and the kernel
\* idles; handle_exec returns -1 to its caller.
stack_page_none ==
    /\ LoadingStack /\ job.i < StackPages
    /\ next_frame = ram
    /\ refused' = TRUE
    /\ \/ job.why = "boot" /\ pc' = "halted" /\ UNCHANGED rax
       \/ job.why = "exec" /\ pc' = "user" /\ rax' = -1
    /\ job' = Idle
    /\ UNCHANGED <<ram, next_frame, pt, tables, mem, running, saved_frame,
                   child_running, calls, started, nested>>

\* The program that starts, and memory once it has used its stack.
Child == [id |-> started + 1, prog |-> job.prog, stk |-> StackBase]
StackUsed(a) ==
    LET used == {pt[a.stk + j] : j \in 0 .. StackPages - 1}
    IN  [f \in Frame |-> IF f \in used THEN Stack(a) ELSE mem[f]]

Enter ==
    /\ LoadingStack /\ job.i = StackPages
    /\ running' = Child
    /\ calls' = Append(calls, Child)
    /\ started' = started + 1
    /\ mem' = StackUsed(Child)
    /\ pc' = "user" /\ job' = Idle
    /\ UNCHANGED <<ram, next_frame, pt, tables, rax, nested, refused>>

\* The iretq of usermode_exec_elf.
usermode_exec_elf ==
    /\ job.why = "boot"
    /\ Enter
    /\ UNCHANGED <<saved_frame, child_running>>

\* Fault: the frame is saved after it has been redirected to the child.
SavedFrame_late == Child
SavedFrame == running

\* The end of handle_exec: the caller's frame is saved, the child starts.
handle_exec ==
    /\ job.why = "exec"
    /\ Enter
    /\ saved_frame' = SavedFrame /\ child_running' = TRUE

\* The end of handle_exit: the saved frame resumes with the result 0.
handle_exit ==
    /\ LoadingImage /\ job.i = Pages(job.prog) /\ job.why = "exit"
    /\ running' = saved_frame /\ rax' = 0
    /\ calls' = SubSeq(calls, 1, Len(calls) - 1)
    /\ pc' = "user" /\ job' = Idle
    /\ UNCHANGED <<ram, next_frame, pt, tables, mem, saved_frame, child_running,
                   started, nested, refused>>

-----------------------------------------------------------------------------
(* The programs.  The shell runs what its user types; hello.elf exits.  A    *)
(* program whose code has been replaced may do anything a program may.       *)

Intact(p) ==
    \A i \in 0 .. Pages(p) - 1 :
        /\ ImagePage + i \in DOMAIN pt
        /\ mem[pt[ImagePage + i]] = File(p, i)

MayExec == pc = "user" /\ (running.prog = "shell" \/ ~Intact(running.prog))

\* exec of a name ramfs_find does not know, or of a file that is not an ELF.
sys_exec_fails ==
    /\ MayExec
    /\ rax' = -1
    /\ UNCHANGED <<ram, next_frame, pt, tables, mem, pc, job, running, saved_frame,
                   child_running, calls, started, nested, refused>>

sys_exec(p) ==
    /\ MayExec /\ started < MaxPrograms
    /\ elf_validate(p)
    /\ job' = [why |-> "exec", prog |-> p, part |-> "image", i |-> 0, frame |-> 0]
    /\ pc' = "page"
    /\ nested' = (nested \/ child_running)
    /\ UNCHANGED <<ram, next_frame, pt, tables, mem, refused, running, rax, saved_frame,
                   child_running, calls, started>>

\* Fault: the shell is not loaded again.
ReloadFrom_end == ShellPages
\* elf_load loads the shell's file from its first page, or refuses it.
ReloadFrom == IF elf_validate("shell") THEN 0 ELSE ShellPages

\* A child exits: the shell is loaded again.
sys_exit_child ==
    /\ pc = "user" /\ child_running
    /\ child_running' = FALSE
    /\ job' = [why |-> "exit", prog |-> "shell", part |-> "image", i |-> ReloadFrom,
               frame |-> 0]
    /\ pc' = "page"
    /\ UNCHANGED <<ram, next_frame, pt, tables, mem, refused, running, rax,
                   saved_frame, calls, started, nested>>

\* handle_exit when no child runs: "shell exited, halting".
sys_exit_halt ==
    /\ pc = "user" /\ ~child_running
    /\ pc' = "halted"
    /\ UNCHANGED <<ram, next_frame, pt, tables, mem, job, refused>> /\ UNCHANGED userVars

\* Foreign code raises an exception; isr_dispatch halts.
user_fault ==
    /\ pc = "user" /\ ~Intact(running.prog)
    /\ pc' = "halted"
    /\ UNCHANGED <<ram, next_frame, pt, tables, mem, job, refused>> /\ UNCHANGED userVars

Halted == pc = "halted" /\ UNCHANGED vars

KernelStep ==
    \/ load_segment \/ load_segment_fault \/ load_segment_none
    \/ vmm_map_page \/ vmm_map_page_table \/ vmm_map_page_none
    \/ elf_load_entry \/ stack_page \/ stack_page_none
    \/ usermode_exec_elf \/ handle_exec \/ handle_exit

Next ==
    \/ KernelStep
    \/ sys_exec_fails \/ \E p \in Program : sys_exec(p)
    \/ sys_exit_child \/ sys_exit_halt \/ user_fault
    \/ Halted

\* The kernel does not wait for anything between entry and iretq.
Spec == Init /\ [][Next]_vars /\ WF_vars(KernelStep)

-----------------------------------------------------------------------------
(* Properties *)

\* Every frame handed out so far lies below the address of the heap.
Below == next_frame <= HeapPage

\* As long as no allocation has been refused and the frames lie below the heap,
\* the program that runs finds its own code at its addresses: load_segment has
\* replaced what the other programs, linked at the same address, left there, and
\* handle_exit has brought the shell back (syscall.c:187-190).
ImageIntact == pc = "user" /\ Below /\ ~refused => Intact(running.prog)

\* handle_exit brings the shell's code back whatever happened before
\* (syscall.c:187, "Re-load shell ELF to restore code pages the child overwrote").
ShellRestored == pc = "user" => Intact(running.prog)

\* Until a child calls exec itself, exit resumes the program that called exec, and
\* it halts the machine only when the shell started at boot exits: the program
\* that runs is the last one called, and child_running says whether it has a caller.
ReturnsToCaller ==
    pc = "user" /\ ~nested =>
        running = calls[Len(calls)] /\ child_running = (Len(calls) > 1)

\* The same also when a child calls exec: exit "restores the caller's (shell's)
\* saved frame and returns to it", whoever the caller is.
ExitReturnsToCaller ==
    pc = "user" => running = calls[Len(calls)] /\ child_running = (Len(calls) > 1)

\* A program that is resumed finds its stack as it left it: the child's stack is
\* another one (syscall.c:35), and no load writes into it.
StackKept ==
    pc = "user" /\ ~nested /\ Below =>
        \A j \in 0 .. StackPages - 1 :
            mem[Translate(running.stk + j)] = Stack(running)

\* While the frames lie below the heap the files of ramfs keep their contents,
\* whatever is loaded and whichever allocation fails.
FilesIntact ==
    Below => \A p \in Program : \A i \in 0 .. Pages(p) - 1 :
                 mem[Translate(FilePage(p, i))] = File(p, i)

\* No frame serves two purposes: the pages of the heap, of the image and of the
\* stacks and the page tables are in frames of their own, all of them handed out.
FramesDisjoint ==
    /\ \A v, w \in DOMAIN pt : pt[v] = pt[w] => v = w
    /\ \A r, s \in DOMAIN tables : tables[r] = tables[s] => r = s
    /\ \A v \in DOMAIN pt : pt[v] < next_frame /\ \A r \in DOMAIN tables : pt[v] # tables[r]
    /\ \A r \in DOMAIN tables : tables[r] < next_frame

\* Loading ends, also when frames run out on the way: the caller gets an answer,
\* the child starts, or the kernel idles.
LoadingEnds == pc \in {"page", "map"} ~> pc \in {"user", "halted"}

=============================================================================
