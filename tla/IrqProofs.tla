------------------------------ MODULE IrqProofs -----------------------------
(***************************************************************************)
(* Proofs about module Irq, for every number of tasks, every set of lines  *)
(* and every scheduling interval.                                          *)
(*                                                                         *)
(* The argument: an interrupt can only be taken while nothing is in        *)
(* service, so the chips hold at most the one interrupt whose handler is   *)
(* the innermost activation of the running task, and that handler has not  *)
(* sent its EOI.  schedule() is reached after the early EOI only, so no    *)
(* switch takes an interrupt in service along to another task, and the     *)
(* second EOI of a tick finds nothing to end.                              *)
(***************************************************************************)
EXTENDS Irq, TLAPS

\* Only an IRQ's handler goes through isr_dispatch; only the timer's schedules.
Good == {a \in Activation : /\ a.pc # "iretq" => a.vector \in 32 .. 47
                            /\ a.pc \in {"early_eoi", "schedule"} => a.vector = 32}

Handlers == stack \in [Task -> Seq(Good)]

\* What is in service is the interrupt of the innermost handler, before its EOI.
InService ==
    isr # {} =>
        /\ ~ints
        /\ stack[cpu] # <<>>
        /\ Top.pc \in {"dispatch", "early_eoi", "eoi"}
        /\ isr \subseteq {Top.vector - 32, Input(Top.vector - 32)}

IInv == TypeOK /\ Handlers /\ InService

-----------------------------------------------------------------------------

\* What Top and Front yield of a stack of handlers that is not empty.
LEMMA Popped ==
    ASSUME NEW A, NEW s \in Seq(A), s # <<>>
    PROVE  Last(s) \in A /\ Front(s) \in Seq(A)
<1>1. Len(s) \in Nat \ {0} /\ s \in [1 .. Len(s) -> A]
  OBVIOUS
<1>2. Last(s) \in A
  BY <1>1 DEF Last
<1>3. Front(s) \in Seq(A)
  BY <1>1 DEF Front
<1> QED  BY <1>2, <1>3

\* What an entry, or the next step of a handler, leaves on top.
LEMMA Pushed ==
    ASSUME NEW A, NEW s \in Seq(A), NEW x \in A
    PROVE  Append(s, x) \in Seq(A) /\ Append(s, x) # <<>> /\ Last(Append(s, x)) = x
<1>1. Append(s, x) \in Seq(A) /\ Len(Append(s, x)) = Len(s) + 1 /\ Len(s) \in Nat
  OBVIOUS
<1>2. Append(s, x)[Len(s) + 1] = x
  OBVIOUS
<1> QED  BY <1>1, <1>2 DEF Last

\* pic_eoi(k), sent while at most k and its cascade line are in service, leaves
\* nothing in service.
LEMMA EoiClears ==
    ASSUME NEW k \in Irq, isr \subseteq {k, Input(k)}
    PROVE  AfterEoi(k) = {}
<1>1. CASE k >= 8
  <2>1. isr \cap 8 .. 15 \subseteq {k} /\ isr \cap 0 .. 7 \subseteq {2}
    BY <1>1 DEF Irq, Input
  <2>2. Retire(isr \cap 8 .. 15) = {} /\ Retire(isr \cap 0 .. 7) = {}
    BY <2>1, <1>1 DEF Retire, Irq
  <2> QED  BY <2>2, <1>1 DEF AfterEoi
<1>2. CASE ~(k >= 8)
  <2>1. isr \cap 8 .. 15 = {} /\ isr \cap 0 .. 7 \subseteq {k}
    BY <1>2 DEF Irq, Input
  <2>2. Retire(isr \cap 0 .. 7) = {}
    BY <2>1, <1>2 DEF Retire, Irq
  <2> QED  BY <2>1, <2>2, <1>2 DEF AfterEoi
<1> QED  BY <1>1, <1>2

\* The innermost handler, where there is one.
LEMMA TopIsGood ==
    ASSUME IInv, stack[cpu] # <<>>
    PROVE  Top \in Good /\ Front(stack[cpu]) \in Seq(Good)
<1>1. stack[cpu] \in Seq(Good)
  BY DEF IInv, TypeOK, Handlers
<1> QED  BY <1>1, Popped DEF Top

\* A handler that goes on to its next step.
LEMMA GotoKeeps ==
    ASSUME IInv, stack[cpu] # <<>>, NEW pc, Goto(pc), [Top EXCEPT !.pc = pc] \in Good
    PROVE  /\ Handlers'
           /\ stack'[cpu] # <<>>
           /\ Last(stack'[cpu]) = [Top EXCEPT !.pc = pc]
<1>1. Front(stack[cpu]) \in Seq(Good)
  BY TopIsGood
<1>2. stack'[cpu] = Append(Front(stack[cpu]), [Top EXCEPT !.pc = pc])
  BY DEF Goto, IInv, TypeOK, Handlers
<1>3. stack'[cpu] \in Seq(Good) /\ stack'[cpu] # <<>>
        /\ Last(stack'[cpu]) = [Top EXCEPT !.pc = pc]
  BY <1>1, <1>2, Pushed
<1>4. Handlers'
  BY <1>2, <1>3 DEF Goto, IInv, TypeOK, Handlers
<1> QED  BY <1>3, <1>4

\* An entry through a gate.
LEMMA EnterKeeps ==
    ASSUME IInv, NEW vector, NEW pc, Enter(vector, pc),
           [vector |-> vector, ints |-> ints, pc |-> pc] \in Good
    PROVE  /\ Handlers'
           /\ stack'[cpu] # <<>>
           /\ Last(stack'[cpu]) = [vector |-> vector, ints |-> ints, pc |-> pc]
<1> DEFINE a == [vector |-> vector, ints |-> ints, pc |-> pc]
<1>1. stack[cpu] \in Seq(Good) /\ a \in Good
  BY DEF IInv, TypeOK, Handlers
<1> HIDE DEF a
<1>2. stack'[cpu] = Append(stack[cpu], a)
  BY DEF Enter, IInv, TypeOK, Handlers, a
<1>3. stack'[cpu] \in Seq(Good) /\ stack'[cpu] # <<>> /\ Last(stack'[cpu]) = a
  BY <1>1, <1>2, Pushed
<1>4. Handlers'
  BY <1>2, <1>3 DEF Enter, IInv, TypeOK, Handlers
<1> QED  BY <1>3, <1>4 DEF a

\* A stack of good handlers is a stack of handlers.
LEMMA HandlersTyped == Handlers => stack \in [Task -> Seq(Activation)]
<1>1. \A s \in Seq(Good) : s \in Seq(Activation)
  BY DEF Good
<1> QED  BY <1>1 DEF Handlers

\* The part of TypeOK that is not about the stack.
Typed ==
    /\ irr \subseteq Lines /\ isr \subseteq Lines \cup {2} /\ masked \subseteq Irq
    /\ ints \in BOOLEAN /\ halted \in BOOLEAN
    /\ handler \subseteq Irq
    /\ tick_count \in 0 .. SCHEDULE_INTERVAL - 1
    /\ cpu \in Task
    /\ life \in [Task -> {"new", "started", "dead"}]

\* The parts in which the steps below show the invariant.
LEMMA Assembled == IInv <=> Typed /\ Handlers /\ InService
  BY HandlersTyped DEF Typed, IInv, TypeOK

\* The tick count stays below the interval.
LEMMA TickTyped ==
    ASSUME tick_count \in 0 .. SCHEDULE_INTERVAL - 1
    PROVE  NextTick \in 0 .. SCHEDULE_INTERVAL - 1
  BY IrqConstants DEF NextTick

\* An interrupt is taken while nothing is in service: afterwards it alone is.
LEMMA irq_entry_keeps ==
    ASSUME IInv, irq_entry
    PROVE  Typed' /\ Handlers' /\ InService'
<1>1. isr = {} /\ ints
  BY DEF irq_entry, Interrupt, IInv, InService
<1>2. PICK k \in Pending : /\ irr' = irr \ {k}
                           /\ isr' = isr \cup {k, Input(k)}
                           /\ Enter(32 + k, "dispatch")
  BY DEF irq_entry
<1>3. k \in Lines /\ k \in 0 .. 15
  BY <1>2, IrqConstants DEF Pending, IInv, TypeOK
<1>4. [vector |-> 32 + k, ints |-> ints, pc |-> "dispatch"] \in Good
  <2>1. 32 + k \in 32 .. 47 /\ 32 + k \in Vector
    BY <1>3 DEF Vector
  <2>2. [vector |-> 32 + k, ints |-> ints, pc |-> "dispatch"] \in Activation
    BY <2>1 DEF Activation, IInv, TypeOK
  <2> QED  BY <2>1, <2>2 DEF Good
<1>5. Handlers' /\ stack'[cpu] # <<>>
        /\ Last(stack'[cpu]) = [vector |-> 32 + k, ints |-> ints, pc |-> "dispatch"]
  BY <1>2, <1>4, EnterKeeps
<1>6. ~ints' /\ ints' \in BOOLEAN
  <2>1. 32 + k # 128
    BY <1>3
  <2> QED  BY <2>1, <1>2 DEF Enter, ClearsIF
<1>7. cpu' = cpu
  BY DEF irq_entry, taskVars
<1>8. InService'
  <2>1. Top' = [vector |-> 32 + k, ints |-> ints, pc |-> "dispatch"]
    BY <1>5, <1>7 DEF Top
  <2>2. Top'.vector - 32 = k /\ Top'.pc = "dispatch"
    BY <2>1, <1>3
  <2>3. isr' = {k, Input(k)}
    BY <1>1, <1>2
  <2> QED  BY <2>2, <2>3, <1>5, <1>6, <1>7 DEF InService, Input
<1>9. Typed'
  <2>1. isr' \subseteq Lines \cup {2}
    BY <1>1, <1>2, <1>3 DEF Input
  <2>2. irr' \subseteq Lines
    BY <1>2 DEF IInv, TypeOK
  <2> QED  BY <2>1, <2>2, <1>6, Assembled DEF Typed, irq_entry, taskVars
<1> QED  BY <1>5, <1>8, <1>9

\* A spurious interrupt puts the cascade line into service, or nothing.
LEMMA irq_spurious_keeps ==
    ASSUME IInv, irq_spurious
    PROVE  Typed' /\ Handlers' /\ InService'
<1>1. isr = {} /\ ints /\ cpu' = cpu
  BY DEF irq_spurious, IInv, InService, taskVars
<1>2. PICK k \in {7, 15} : Enter(32 + k, "dispatch") /\ isr' \subseteq {2}
                            /\ (k = 7 => isr' = {})
  <2>1. CASE Enter(32 + 7, "dispatch") /\ isr' = isr
    BY <2>1, <1>1
  <2>2. CASE Enter(32 + 15, "dispatch") /\ isr' = isr \cup {2}
    BY <2>2, <1>1
  <2> QED  BY <2>1, <2>2 DEF irq_spurious
<1>3. [vector |-> 32 + k, ints |-> ints, pc |-> "dispatch"] \in Good
  <2>1. 32 + k \in 32 .. 47 /\ 32 + k \in Vector
    BY <1>2 DEF Vector
  <2>2. [vector |-> 32 + k, ints |-> ints, pc |-> "dispatch"] \in Activation
    BY <2>1 DEF Activation, IInv, TypeOK
  <2> QED  BY <2>1, <2>2 DEF Good
<1>4. Handlers' /\ stack'[cpu] # <<>>
        /\ Last(stack'[cpu]) = [vector |-> 32 + k, ints |-> ints, pc |-> "dispatch"]
  BY <1>2, <1>3, EnterKeeps
<1>5. ~ints' /\ ints' \in BOOLEAN
  <2>1. 32 + k # 128
    BY <1>2
  <2> QED  BY <2>1, <1>2 DEF Enter, ClearsIF
<1>6. InService'
  <2>1. Top' = [vector |-> 32 + k, ints |-> ints, pc |-> "dispatch"]
    BY <1>4, <1>1 DEF Top
  <2>2. Top'.vector - 32 = k /\ Top'.pc = "dispatch"
    BY <2>1, <1>2
  <2>3. Input(15) = 2
    BY DEF Input
  <2> QED  BY <2>2, <2>3, <1>1, <1>2, <1>4, <1>5 DEF InService
<1>7. Typed'
  BY <1>2, <1>5, Assembled DEF Typed, irq_spurious, taskVars
<1> QED  BY <1>4, <1>6, <1>7

\* Each later step of a handler, up to the return.
LEMMA isr_dispatch_keeps ==
    ASSUME IInv, isr_dispatch
    PROVE  Typed' /\ Handlers' /\ InService'
<1>1. stack[cpu] # <<>> /\ Top \in Good /\ Top.pc = "dispatch" /\ cpu' = cpu /\ isr' = isr
        /\ ints' = ints
  BY TopIsGood DEF isr_dispatch, In, taskVars, picVars
<1>2. PICK pc \in {"early_eoi", "eoi"} : Goto(pc) /\ (pc = "early_eoi" => Top.vector = 32)
  BY DEF isr_dispatch, pit_irq_handler
<1>3. [Top EXCEPT !.pc = pc] \in Good
  BY <1>1, <1>2 DEF Good, Activation
<1>4. Handlers' /\ stack'[cpu] # <<>> /\ Last(stack'[cpu]) = [Top EXCEPT !.pc = pc]
  BY <1>1, <1>2, <1>3, GotoKeeps
<1>5. Top'.vector = Top.vector /\ Top'.pc = pc
  <2>1. Top' = [Top EXCEPT !.pc = pc]
    BY <1>1, <1>4 DEF Top
  <2> QED  BY <2>1, <1>1 DEF Good, Activation
<1>6. InService'
  BY <1>1, <1>2, <1>4, <1>5 DEF IInv, InService
<1>7. tick_count' \in 0 .. SCHEDULE_INTERVAL - 1
  BY TickTyped DEF isr_dispatch, pit_irq_handler, IInv, TypeOK
<1>8. Typed'
  BY <1>7, Assembled DEF Typed, isr_dispatch, picVars, taskVars
<1> QED  BY <1>4, <1>6, <1>8

LEMMA early_eoi_keeps ==
    ASSUME IInv, early_eoi
    PROVE  Typed' /\ Handlers' /\ InService'
<1>1. stack[cpu] # <<>> /\ Top \in Good /\ Top.pc = "early_eoi"
  BY TopIsGood DEF early_eoi, In
<1>2. isr' = {}
  <2>1. Top.vector = 32
    BY <1>1 DEF Good
  <2>2. isr \subseteq {0, Input(0)}
    BY <2>1 DEF IInv, InService
  <2>3. AfterEoi(0) = {}
    <3>1. 0 \in Irq
      BY DEF Irq
    <3> QED  BY <3>1, <2>2, EoiClears
  <2> QED  BY <2>3 DEF early_eoi
<1>3. [Top EXCEPT !.pc = "schedule"] \in Good
  BY <1>1 DEF Good, Activation
<1>4. Handlers'
  BY <1>1, <1>3, GotoKeeps DEF early_eoi
<1>5. Typed'
  BY <1>2, Assembled DEF Typed, early_eoi, taskVars
<1> QED  BY <1>2, <1>4, <1>5 DEF InService

LEMMA schedule_keeps ==
    ASSUME IInv, schedule
    PROVE  Typed' /\ Handlers' /\ InService'
<1>1. stack[cpu] # <<>> /\ Top \in Good /\ Top.pc = "schedule"
  BY TopIsGood DEF schedule, In
<1>2. isr' = {}
  BY <1>1 DEF IInv, InService, schedule, picVars
<1>3. [Top EXCEPT !.pc = "eoi"] \in Good
  BY <1>1 DEF Good, Activation
<1>4. Handlers'
  BY <1>1, <1>3, GotoKeeps DEF schedule
<1>5. Typed'
  BY <1>2, Assembled DEF Typed, schedule, picVars
<1> QED  BY <1>2, <1>4, <1>5 DEF InService

\* The last EOI ends the interrupt of its handler, if anything is in service.
LEMMA isr_dispatch_eoi_keeps ==
    ASSUME IInv, isr_dispatch_eoi
    PROVE  Typed' /\ Handlers' /\ InService'
<1>1. stack[cpu] # <<>> /\ Top \in Good /\ Top.pc = "eoi"
  BY TopIsGood DEF isr_dispatch_eoi, In
<1>2. isr' = {}
  <2>1. Top.vector - 32 \in Irq
    BY <1>1 DEF Good, Irq
  <2>2. isr \subseteq {Top.vector - 32, Input(Top.vector - 32)}
    BY DEF IInv, InService
  <2>3. AfterEoi(Top.vector - 32) = {}
    BY <2>1, <2>2, EoiClears
  <2> QED  BY <2>3 DEF isr_dispatch_eoi
<1>3. [Top EXCEPT !.pc = "iretq"] \in Good
  BY <1>1 DEF Good, Activation
<1>4. Handlers'
  BY <1>1, <1>3, GotoKeeps DEF isr_dispatch_eoi
<1>5. Typed'
  BY <1>2, Assembled DEF Typed, isr_dispatch_eoi, taskVars
<1> QED  BY <1>2, <1>4, <1>5 DEF InService

\* The return, with nothing left in service.
LEMMA iretq_keeps ==
    ASSUME IInv, iretq
    PROVE  Typed' /\ Handlers' /\ InService'
<1>1. stack[cpu] # <<>> /\ Top \in Good /\ Top.pc = "iretq" /\ Front(stack[cpu]) \in Seq(Good)
  BY TopIsGood DEF iretq, In
<1>2. isr' = {}
  BY <1>1 DEF IInv, InService, iretq, picVars
<1>3. Handlers'
  BY <1>1 DEF iretq, IInv, TypeOK, Handlers
<1>4. ints' \in BOOLEAN
  BY <1>1 DEF iretq, Good, Activation
<1>5. Typed'
  BY <1>2, <1>4, Assembled DEF Typed, iretq, picVars, taskVars
<1> QED  BY <1>2, <1>3, <1>5 DEF InService

\* A system call or a breakpoint enters from a task without a handler.
LEMMA entry_keeps ==
    ASSUME IInv, syscall \/ breakpoint
    PROVE  Typed' /\ Handlers' /\ InService'
<1>1. PICK vector \in {3, 128} : Enter(vector, "iretq")
  BY DEF syscall, breakpoint
<1>2. stack[cpu] = <<>> /\ UNCHANGED <<irr, isr, masked, handler, tick_count, cpu, life, halted>>
  BY DEF syscall, breakpoint, InTask, picVars, taskVars
<1>3. isr' = {}
  BY <1>2 DEF IInv, InService
<1>4. [vector |-> vector, ints |-> ints, pc |-> "iretq"] \in Good
  BY <1>1 DEF Good, Activation, Vector, IInv, TypeOK
<1>5. Handlers'
  BY <1>1, <1>4, EnterKeeps
<1>6. ints' \in BOOLEAN
  BY <1>1 DEF Enter
<1>7. Typed'
  BY <1>2, <1>6, Assembled DEF Typed
<1> QED  BY <1>3, <1>5, <1>7 DEF InService

\* Every other step leaves the stacks alone, and where it enables interrupts or
\* leaves for another task no handler is active.
LEMMA others_keep ==
    ASSUME IInv,
           \/ \E k \in Lines : device_raise(k)
           \/ sti \/ pit_init
           \/ \E k \in (Lines \cup {2}) \ {0} : irq_unmask(k) \/ irq_mask(k)
           \/ task_exit \/ fatal_exception
           \/ UNCHANGED vars
    PROVE  Typed' /\ Handlers' /\ InService'
<1>1. stack' = stack /\ isr' = isr
  BY DEF device_raise, sti, pit_init, irq_unmask, irq_mask, task_exit, fatal_exception,
         vars, picVars, taskVars
<1>2. Handlers'
  BY <1>1 DEF IInv, Handlers
<1>3. InService'
  <2>1. CASE ints' = ints /\ cpu' = cpu
    BY <2>1, <1>1 DEF IInv, InService, Top
  <2>2. CASE sti \/ task_exit \/ fatal_exception
    BY <2>2, <1>1 DEF sti, task_exit, fatal_exception, InTask, IInv, InService
  <2> QED  BY <2>1, <2>2 DEF device_raise, pit_init, irq_unmask, irq_mask, vars, taskVars
<1>4. Typed'
  <2>1. CASE sti
    BY <2>1, Assembled DEF Typed, sti, picVars
  <2>2. CASE task_exit
    BY <2>2, Assembled DEF Typed, task_exit, picVars
  <2>3. CASE fatal_exception
    BY <2>3, Assembled DEF Typed, fatal_exception, picVars, taskVars
  <2>4. CASE \E k \in (Lines \cup {2}) \ {0} : irq_unmask(k) \/ irq_mask(k)
    BY <2>4, Assembled, IrqConstants DEF Typed, irq_unmask, irq_mask, taskVars, Irq
  <2>5. CASE pit_init
    BY <2>5, Assembled DEF Typed, pit_init, taskVars, Irq
  <2>6. CASE \E k \in Lines : device_raise(k)
    BY <2>6, Assembled DEF Typed, device_raise, taskVars
  <2>7. CASE UNCHANGED vars
    BY <2>7, Assembled DEF Typed, vars
  <2> QED  BY <2>1, <2>2, <2>3, <2>4, <2>5, <2>6, <2>7
<1> QED  BY <1>2, <1>3, <1>4

-----------------------------------------------------------------------------

\* In every reachable state the interrupt in service, if any, is that of the
\* innermost handler of the running task, which still owes its EOI (isr_dispatch,
\* pic_eoi and the early EOI of pit_irq_handler).
THEOREM IrqInvariant == Spec => []IInv
<1>1. Init => Typed /\ Handlers /\ InService
  <2> SUFFICES ASSUME Init PROVE Typed /\ Handlers /\ InService
    OBVIOUS
  <2>1. Typed
    <3>1. 0 \in 0 .. SCHEDULE_INTERVAL - 1 /\ 0 \in Task
      BY IrqConstants DEF Task
    <3>2. life \in [Task -> {"new", "started", "dead"}]
      BY DEF Init
    <3> QED  BY <3>1, <3>2 DEF Init, Typed
  <2>2. Handlers
    <3>1. <<>> \in Seq(Good)
      OBVIOUS
    <3> QED  BY <3>1 DEF Init, Handlers
  <2>3. InService
    BY DEF Init, InService
  <2> QED  BY <2>1, <2>2, <2>3
<1>2. IInv /\ [Next]_vars => Typed' /\ Handlers' /\ InService'
  <2> SUFFICES ASSUME IInv, [Next]_vars
               PROVE  Typed' /\ Handlers' /\ InService'
    OBVIOUS
  <2>1. CASE irq_entry          BY <2>1, irq_entry_keeps
  <2>2. CASE irq_spurious       BY <2>2, irq_spurious_keeps
  <2>3. CASE isr_dispatch       BY <2>3, isr_dispatch_keeps
  <2>4. CASE early_eoi          BY <2>4, early_eoi_keeps
  <2>5. CASE schedule           BY <2>5, schedule_keeps
  <2>6. CASE isr_dispatch_eoi   BY <2>6, isr_dispatch_eoi_keeps
  <2>7. CASE iretq              BY <2>7, iretq_keeps
  <2>8. CASE syscall \/ breakpoint
    BY <2>8, entry_keeps
  <2>9. CASE \/ \E k \in Lines : device_raise(k)
             \/ sti \/ pit_init
             \/ \E k \in (Lines \cup {2}) \ {0} : irq_unmask(k) \/ irq_mask(k)
             \/ task_exit \/ fatal_exception
             \/ UNCHANGED vars
    BY <2>9, others_keep
  <2> QED
    BY <2>1, <2>2, <2>3, <2>4, <2>5, <2>6, <2>7, <2>8, <2>9 DEF Next, Cpu, Halted
<1> QED  BY <1>1, <1>2, Assembled, PTL DEF Spec

\* The types of the interrupt model hold for every instance: the tick count of
\* pit_irq_handler stays below SCHEDULE_INTERVAL among them.
THEOREM IrqTypeOK == Spec => []TypeOK
<1>1. IInv => TypeOK
  BY DEF IInv
<1> QED  BY <1>1, IrqInvariant, PTL

\* Whatever the tasks, lines and interval: code with interrupts enabled never runs
\* while the controllers hold an interrupt in service, also after the switch that
\* pit_irq_handler makes in the middle of a tick.
THEOREM EnabledMeansServedAlways == Spec => []EnabledMeansServed
<1>1. IInv => EnabledMeansServed
  BY DEF IInv, InService, EnabledMeansServed
<1> QED  BY <1>1, IrqInvariant, PTL

\* Whatever the tasks, lines and interval: neither EOI of a tick, nor that of any
\* other handler, ends an interrupt of another handler.
THEOREM EoiEndsOwnAlways == Spec => EoiEndsOwn
<1>1. IInv /\ [Next]_vars =>
        [\A k \in isr \ isr' : Top.vector - 32 = k \/ (k = 2 /\ Top.vector - 32 >= 8)]_vars
  <2> SUFFICES ASSUME IInv, [Next]_vars, NEW k \in isr \ isr'
               PROVE  Top.vector - 32 = k \/ (k = 2 /\ Top.vector - 32 >= 8)
    OBVIOUS
  <2>1. stack[cpu] # <<>> /\ isr \subseteq {Top.vector - 32, Input(Top.vector - 32)}
    BY DEF IInv, InService
  <2>2. Top.vector - 32 \in Int
    BY <2>1, TopIsGood DEF Good, Activation, Vector
  <2> QED  BY <2>1, <2>2 DEF Input
<1> QED  BY <1>1, IrqInvariant, PTL DEF Spec, EoiEndsOwn

=============================================================================
