-------------------------------- MODULE Irq ---------------------------------
(***************************************************************************)
(* Interrupts: the gates of idt.c, the entry and exit of interrupts.S,     *)
(* isr_dispatch, the two 8259s behind pic.c, and the timer handler of      *)
(* pit.c, whose schedule() leaves for another task in the middle of it.    *)
(*                                                                         *)
(* irr, isr and masked are the request, in-service and mask bits of both   *)
(* chips; line 2 of the first is the cascade of the second.  An interrupt  *)
(* that can be delivered is taken before the next instruction.             *)
(*                                                                         *)
(* Of the scheduler (module Task) only this is kept: a switch may lead to  *)
(* any other task, and the task keeps the IF of the one that left.         *)
(* stack[t] holds the handlers that have interrupted t, innermost last.    *)
(***************************************************************************)
EXTENDS Integers, Sequences, SequencesExt

CONSTANTS
    MaxTask,            \* the tasks are 0..MaxTask
    Lines,              \* the lines devices are attached to
    SCHEDULE_INTERVAL   \* ticks per call of schedule()

ASSUME IrqConstants ==
    /\ MaxTask \in Nat
    /\ Lines \subseteq (0 .. 15) \ {2} /\ 0 \in Lines
    /\ SCHEDULE_INTERVAL \in Nat \ {0}

VARIABLES
    irr, isr, masked,   \* the 8259s
    ints,               \* IF
    handler,            \* lines with an entry in irq_handlers
    tick_count,         \* modulo SCHEDULE_INTERVAL
    cpu,                \* the task that runs
    life,               \* of each task: "new", "started" or "dead"
    stack,
    halted

vars == <<irr, isr, masked, ints, handler, tick_count, cpu, life, stack, halted>>
picVars == <<irr, isr, masked>>
taskVars == <<cpu, life>>

Task == 0 .. MaxTask
Irq == 0 .. 15
Vector == {3, 128} \cup 32 .. 47

\* A handler that has not returned, with the IF that its iretq restores.
Activation == [vector : Vector, ints : BOOLEAN,
               pc : {"dispatch", "early_eoi", "schedule", "eoi", "iretq"}]

TypeOK ==
    /\ irr \subseteq Lines /\ isr \subseteq Lines \cup {2} /\ masked \subseteq Irq
    /\ ints \in BOOLEAN /\ halted \in BOOLEAN
    /\ handler \subseteq Irq
    /\ tick_count \in 0 .. SCHEDULE_INTERVAL - 1
    /\ cpu \in Task
    /\ life \in [Task -> {"new", "started", "dead"}]
    /\ stack \in [Task -> Seq(Activation)]

\* idt_init and pic_init have run: every line masked, interrupts disabled.
Init ==
    /\ irr = {} /\ isr = {} /\ masked = Irq
    /\ ints = FALSE /\ halted = FALSE
    /\ handler = {}
    /\ tick_count = 0
    /\ cpu = 0
    /\ life = [t \in Task |-> "new"]
    /\ stack = [t \in Task |-> <<>>]

(***************************************************************************)
(* The interrupt controllers.                                              *)
(***************************************************************************)

\* The input of the first chip that a line arrives at.
Input(k) == IF k >= 8 THEN 2 ELSE k
Before(j, k) == Input(j) < Input(k) \/ (Input(j) = Input(k) /\ j < k)

\* Requests that pass the masks and outrank everything in service; of those, the
\* one that is delivered.
Pending == {k \in irr : {k, Input(k)} \cap masked = {}
                        /\ \A j \in isr : Input(k) < Input(j)}
Interrupt == ints /\ Pending # {} /\ ~halted

device_raise(k) ==
    /\ ~halted
    /\ irr' = irr \cup {k}
    /\ UNCHANGED <<isr, masked, ints, handler, tick_count, taskVars, stack, halted>>

\* A non-specific EOI ends the interrupt of highest priority in service.
Retire(S) == {k \in S : \E j \in S : j < k}

\* Fault: the second chip is not told.
AfterEoi_master_only(irq) == (isr \cap 8 .. 15) \cup Retire(isr \cap 0 .. 7)

\* The in-service bits after pic_eoi(irq).
AfterEoi(irq) ==
    (IF irq >= 8 THEN Retire(isr \cap 8 .. 15) ELSE isr \cap 8 .. 15)
        \cup Retire(isr \cap 0 .. 7)

(***************************************************************************)
(* Entry and exit.                                                         *)
(***************************************************************************)

\* Fault: every gate is a trap gate.
ClearsIF_trap(vector) == FALSE

\* The gates of idt_init: interrupt gates, which clear IF, but for the trap gate
\* of the system call.
ClearsIF(vector) == vector # 128

Top == Last(stack[cpu])
In(pc) == stack[cpu] # <<>> /\ Top.pc = pc
Goto(pc) == stack' = [stack EXCEPT ![cpu] = Append(Front(@), [Top EXCEPT !.pc = pc])]
Enter(vector, pc) ==
    /\ stack' = [stack EXCEPT ![cpu] = Append(@, [vector |-> vector, ints |-> ints, pc |-> pc])]
    /\ ints' = (ints /\ ~ClearsIF(vector))

irq_entry ==
    /\ Interrupt
    /\ \E k \in Pending :
          /\ \A j \in Pending \ {k} : Before(k, j)
          /\ irr' = irr \ {k}
          /\ isr' = isr \cup {k, Input(k)}
          /\ Enter(32 + k, "dispatch")
    /\ UNCHANGED <<masked, handler, tick_count, taskVars, halted>>

\* A request that was withdrawn: the chip answers with its line 7, not in service.
irq_spurious ==
    /\ ints /\ ~halted /\ Pending = {} /\ stack[cpu] = <<>>
    /\ \/ Enter(32 + 7, "dispatch") /\ UNCHANGED isr
       \/ 2 \notin masked /\ Enter(32 + 15, "dispatch") /\ isr' = isr \cup {2}
    /\ UNCHANGED <<irr, masked, handler, tick_count, taskVars, halted>>

\* isr_common_stub restores the registers and returns.
iretq ==
    /\ ~Interrupt /\ In("iretq")
    /\ ints' = Top.ints
    /\ stack' = [stack EXCEPT ![cpu] = Front(@)]
    /\ UNCHANGED <<picVars, handler, tick_count, taskVars, halted>>

(***************************************************************************)
(* isr_dispatch for an IRQ.                                                *)
(***************************************************************************)

\* Fault: the count wraps one tick too late.
NextTick_late == IF tick_count = SCHEDULE_INTERVAL THEN 0 ELSE tick_count + 1
NextTick == (tick_count + 1) % SCHEDULE_INTERVAL

\* Fault: the tick that schedules sends no EOI of its own.
pit_irq_handler_no_eoi ==
    /\ tick_count' = NextTick
    /\ Goto(IF tick_count' = 0 THEN "schedule" ELSE "eoi")

pit_irq_handler ==
    /\ tick_count' = NextTick
    /\ Goto(IF tick_count' = 0 THEN "early_eoi" ELSE "eoi")

\* The handler of the line, or a log message where there is none.
isr_dispatch ==
    /\ ~Interrupt /\ In("dispatch")
    /\ IF Top.vector = 32 /\ 0 \in handler
       THEN pit_irq_handler
       ELSE Goto("eoi") /\ UNCHANGED tick_count
    /\ UNCHANGED <<picVars, ints, handler, taskVars, halted>>

\* "Send EOI before schedule()".
early_eoi ==
    /\ ~Interrupt /\ In("early_eoi")
    /\ isr' = AfterEoi(0)
    /\ Goto("schedule")
    /\ UNCHANGED <<irr, masked, ints, handler, tick_count, taskVars, halted>>

\* schedule() returns, now or when this task is switched to again.
schedule ==
    /\ ~Interrupt /\ In("schedule")
    /\ Goto("eoi")
    /\ cpu' \in {t \in Task : life[t] # "dead"}
    /\ UNCHANGED <<picVars, ints, handler, tick_count, life, halted>>

\* The pic_eoi that isr_dispatch sends after any handler.
isr_dispatch_eoi ==
    /\ ~Interrupt /\ In("eoi")
    /\ isr' = AfterEoi(Top.vector - 32)
    /\ Goto("iretq")
    /\ UNCHANGED <<irr, masked, ints, handler, tick_count, taskVars, halted>>

(***************************************************************************)
(* The code that is interrupted.                                           *)
(***************************************************************************)

InTask == ~Interrupt /\ ~halted /\ stack[cpu] = <<>> /\ life[cpu] = "started"

\* task_trampoline, or the boot task once it has set everything up.
sti ==
    /\ ~Interrupt /\ ~halted /\ stack[cpu] = <<>> /\ life[cpu] = "new"
    /\ life' = [life EXCEPT ![cpu] = "started"]
    /\ ints' = TRUE
    /\ UNCHANGED <<picVars, handler, tick_count, cpu, stack, halted>>

pit_init ==
    /\ cpu = 0 /\ life[0] = "new"
    /\ handler' = handler \cup {0}
    /\ masked' = masked \ {0}
    /\ UNCHANGED <<irr, isr, ints, tick_count, taskVars, stack, halted>>

\* A driver of another line; its handler changes nothing that is modelled.
irq_unmask(k) ==
    /\ InTask
    /\ masked' = masked \ {k}
    /\ UNCHANGED <<irr, isr, ints, handler, tick_count, taskVars, stack, halted>>

irq_mask(k) ==
    /\ InTask
    /\ masked' = masked \cup {k}
    /\ UNCHANGED <<irr, isr, ints, handler, tick_count, taskVars, stack, halted>>

\* task_exit calls schedule() with interrupts enabled.
task_exit ==
    /\ InTask /\ cpu # 0
    /\ life' = [life EXCEPT ![cpu] = "dead"]
    /\ cpu' \in {t \in Task \ {cpu} : life[t] # "dead"}
    /\ UNCHANGED <<picVars, ints, handler, tick_count, stack, halted>>

\* A system call is dispatched with IF as it was; a breakpoint is logged.
syscall == InTask /\ Enter(128, "iretq")
           /\ UNCHANGED <<picVars, handler, tick_count, taskVars, halted>>
breakpoint == InTask /\ Enter(3, "iretq")
              /\ UNCHANGED <<picVars, handler, tick_count, taskVars, halted>>

\* Any other exception, from ring 3 or ring 0: cli and hlt for ever.
fatal_exception ==
    /\ InTask
    /\ halted' = TRUE /\ ints' = FALSE
    /\ UNCHANGED <<picVars, handler, tick_count, taskVars, stack>>

Halted == halted /\ UNCHANGED vars

Cpu ==
    \/ irq_entry \/ iretq
    \/ isr_dispatch \/ early_eoi \/ schedule \/ isr_dispatch_eoi
    \/ sti

Next ==
    \/ Cpu
    \/ \E k \in Lines : device_raise(k)
    \/ irq_spurious
    \/ pit_init
    \/ \E k \in (Lines \cup {2}) \ {0} : irq_unmask(k) \/ irq_mask(k)
    \/ task_exit \/ syscall \/ breakpoint \/ fatal_exception
    \/ Halted

\* The processor keeps executing.
Spec == Init /\ [][Next]_vars /\ WF_vars(Cpu)

(***************************************************************************)
(* Properties.                                                             *)
(***************************************************************************)

\* Each EOI ends the interrupt whose handler sends it or none at all, although
\* the tick that schedules sends two, the second one after other tasks have run
\* and taken interrupts of their own.
EoiEndsOwn ==
    [][\A k \in isr \ isr' : Top.vector - 32 = k \/ (k = 2 /\ Top.vector - 32 >= 8)]_vars

\* Code that runs with interrupts enabled never runs while an interrupt is in
\* service, in whatever task a handler has left for: nothing that code waits for
\* is held back by the controller.
EnabledMeansServed == ints => isr = {}

\* "Without early EOI, the timer would stop firing": once pit_init has unmasked
\* line 0 every tick is taken, whatever tasks run and whichever of them ends.
TimerKeepsFiring ==
    (0 \in irr /\ 0 \notin masked) ~> (0 \notin irr \/ halted)

=============================================================================
