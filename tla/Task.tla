-------------------------------- MODULE Task --------------------------------
(***************************************************************************)
(* Kernel threads and the round-robin scheduler: src/kernel/src/task.c,    *)
(* switch.S and the timer handler of pit.c, on one CPU.                    *)
(*                                                                         *)
(* A timer interrupt is taken between any two steps of the running code    *)
(* whenever they are enabled (ints), also in the middle of the schedule()   *)
(* that task_exit calls.  Interrupt gates clear IF, so that the schedule() *)
(* called by the handler is not interrupted.  switch_to does not save IF:  *)
(* a task that is switched to keeps the IF of the task that left, until    *)
(* its own iretq or the sti of task_trampoline.                            *)
(*                                                                         *)
(* cpu is the task whose stack the CPU runs on and current_task what the   *)
(* scheduler believes; they differ between task.c:191 and the load of RSP. *)
(* stack[t] is the sequence of activations on the stack of t, innermost    *)
(* last.  rsp[t] names the stack that the saved stack pointer of t points  *)
(* into.                                                                   *)
(***************************************************************************)
EXTENDS Integers, Sequences

CONSTANTS
    MaxTasks,           \* bound on the calls of task_create
    SCHEDULE_INTERVAL,  \* ticks per call of schedule()
    WindowTicks         \* may a tick hit between task.c:191 and the load of RSP?

ASSUME TaskConstants ==
    /\ MaxTasks \in Nat
    /\ SCHEDULE_INTERVAL \in Nat \ {0}
    /\ WindowTicks \in BOOLEAN

VARIABLES
    task_list, current_task, next_id,   \* the globals of task.c
    state, next, rsp,                   \* the fields of the TCBs
    tcbs, stacks,                       \* whose TCB and stack memory is allocated
    cpu, ints, stack,                     \* the processor and the stacks' contents
    tick_count,                         \* modulo SCHEDULE_INTERVAL
    waited                              \* history: switches to others while READY

vars == <<task_list, current_task, next_id, state, next, rsp, tcbs, stacks,
          cpu, ints, stack, tick_count, waited>>
tcbVars == <<task_list, next_id, next, tcbs, stacks>>

Boot == 0
Task == 0 .. MaxTasks

PCs == {"fresh", "run", "exit", "halt", "enter", "reap", "unlink", "free_stack",
        "free_tcb", "find", "set_current", "set_running", "switch", "ret"}

\* An activation: where it stands, the locals of schedule() and task_destroy().
Frame == [pc : PCs, irq : BOOLEAN, t : Task, save_next : Task, next : Task, prev : Task]
Activation(pc, irq) ==
    [pc |-> pc, irq |-> irq, t |-> Boot, save_next |-> Boot, next |-> Boot, prev |-> Boot]

TypeOK ==
    /\ task_list \in Task /\ current_task \in Task /\ cpu \in Task
    /\ next_id \in 1 .. MaxTasks + 1
    /\ state \in [Task -> {"NONE", "READY", "RUNNING", "DEAD"}]
    /\ next \in [Task -> Task]
    /\ rsp \in [Task -> Task]
    /\ tcbs \subseteq Task /\ stacks \subseteq Task
    /\ ints \in BOOLEAN
    /\ stack \in [Task -> Seq(Frame)]
    /\ tick_count \in 0 .. SCHEDULE_INTERVAL - 1
    /\ waited \in [Task -> Nat]

\* task_init: kernel_main becomes task 0, alone in the list, interrupts disabled.
Init ==
    /\ task_list = Boot /\ current_task = Boot /\ cpu = Boot
    /\ next_id = 1
    /\ state = [t \in Task |-> IF t = Boot THEN "RUNNING" ELSE "NONE"]
    /\ next = [t \in Task |-> t]
    /\ rsp = [t \in Task |-> t]
    /\ tcbs = {Boot} /\ stacks = {Boot}
    /\ ints = FALSE
    /\ stack = [t \in Task |-> IF t = Boot THEN <<Activation("fresh", FALSE)>> ELSE <<>>]
    /\ tick_count = 0
    /\ waited = [t \in Task |-> 0]

Innermost(t) == stack[t][Len(stack[t])]
Top == Innermost(cpu)
At(pc) == Top.pc = pc
SetTop(f) == stack' = [stack EXCEPT ![cpu] = [@ EXCEPT ![Len(@)] = f]]
Goto(pc) == SetTop([Top EXCEPT !.pc = pc])
Push(f) == stack' = [stack EXCEPT ![cpu] = Append(@, f)]

\* The tasks a loop over the list meets, from s on: as many as there can be.
Walk(links, s) ==
    LET walk[n \in 0 .. MaxTasks] == IF n = 0 THEN s ELSE links[walk[n - 1]]
    IN  walk

\* The tasks reached from task_list.
Ring == {Walk(next, task_list)[n] : n \in 0 .. MaxTasks}

(***************************************************************************)
(* Tasks.                                                                  *)
(***************************************************************************)

\* kernel_main creates the tasks before it enables interrupts.  The new task is
\* inserted before task_list; its stack returns into task_trampoline.
task_create ==
    /\ cpu = Boot /\ At("fresh")
    /\ next_id <= MaxTasks
    /\ LET t == next_id
           tail == CHOOSE p \in Ring : next[p] = task_list
       IN  /\ next_id' = next_id + 1
           /\ tcbs' = tcbs \cup {t} /\ stacks' = stacks \cup {t}
           /\ state' = [state EXCEPT ![t] = "READY"]
           /\ rsp' = [rsp EXCEPT ![t] = t]
           /\ stack' = [stack EXCEPT ![t] = <<Activation("fresh", FALSE)>>]
           /\ next' = [next EXCEPT ![tail] = t, ![t] = task_list]
    /\ UNCHANGED <<task_list, current_task, cpu, ints, tick_count, waited>>

\* A failed kmalloc: what was allocated is freed again and NULL returned.
task_create_fail ==
    /\ cpu = Boot /\ At("fresh")
    /\ UNCHANGED vars

\* Fault: no sti in task_trampoline.
sti_missing == ints \/ cpu = Boot
\* The sti of task_trampoline; for the boot task, the sti before its idle loop.
sti == TRUE

task_trampoline ==
    /\ At("fresh")
    /\ ints' = sti
    /\ Goto("run")
    /\ UNCHANGED <<tcbVars, current_task, state, rsp, cpu, tick_count, waited>>

\* The entry function returned.
task_exit ==
    /\ At("run") /\ cpu # Boot
    /\ state' = [state EXCEPT ![current_task] = "DEAD"]
    /\ Goto("exit")
    /\ UNCHANGED <<tcbVars, current_task, rsp, cpu, ints, tick_count, waited>>

\* It calls schedule(); should that return, it halts.
task_exit_schedule ==
    /\ At("exit")
    /\ stack' = [stack EXCEPT ![cpu] =
                    Append([@ EXCEPT ![Len(@)] = Activation("halt", FALSE)],
                           Activation("enter", FALSE))]
    /\ UNCHANGED <<tcbVars, current_task, state, rsp, cpu, ints, tick_count, waited>>

(***************************************************************************)
(* pit_irq_handler.  A tick that does not schedule returns at once.        *)
(***************************************************************************)

\* Fault: the count wraps one tick too late.
NextTick_late == IF tick_count = SCHEDULE_INTERVAL THEN 0 ELSE tick_count + 1
NextTick == (tick_count + 1) % SCHEDULE_INTERVAL

pit_irq_handler ==
    /\ ints
    /\ WindowTicks \/ Top.pc \notin {"set_running", "switch"}
    /\ tick_count' = NextTick
    /\ IF tick_count' = 0
       THEN ints' = FALSE /\ Push(Activation("enter", TRUE))
       ELSE UNCHANGED <<ints, stack>>
    /\ UNCHANGED <<tcbVars, current_task, state, rsp, cpu, waited>>

(***************************************************************************)
(* schedule().                                                             *)
(***************************************************************************)

\* Fault: no reap pass.
FirstPass_find == "find"
FirstPass == "reap"

schedule ==
    /\ At("enter")
    /\ SetTop([Top EXCEPT !.pc = FirstPass, !.t = next[current_task]])
    /\ UNCHANGED <<tcbVars, current_task, state, rsp, cpu, ints, tick_count, waited>>

\* Faults: every task that is not RUNNING is reaped; the current task is reaped.
Reapable_not_running(t) == t # current_task /\ state[t] # "RUNNING"
Reapable_current(t) == state[t] = "DEAD"
Reapable(t) == t # current_task /\ state[t] = "DEAD"

\* One turn of the reap loop, which ends where it comes back to current_task.
reap ==
    /\ At("reap")
    /\ LET t == Top.t
       IN  SetTop(IF Reapable(t) THEN [Top EXCEPT !.pc = "unlink", !.save_next = next[t]]
                  ELSE IF t = current_task THEN [Top EXCEPT !.pc = "find", !.t = Boot]
                  ELSE [Top EXCEPT !.t = next[t]])
    /\ UNCHANGED <<tcbVars, current_task, state, rsp, cpu, ints, tick_count, waited>>

\* Fault: a destroyed task stays in the list.
Unlinked_not(t) == next
Unlinked(t) == [next EXCEPT ![CHOOSE p \in Ring : next[p] = t] = next[t]]

\* task_destroy removes the task from the list, in which it is never alone:
\* current_task is another one ...
task_destroy ==
    /\ At("unlink")
    /\ next' = Unlinked(Top.t)
    /\ task_list' = IF task_list = Top.t THEN next[Top.t] ELSE task_list
    /\ Goto("free_stack")
    /\ UNCHANGED <<current_task, next_id, state, rsp, tcbs, stacks, cpu, ints, tick_count, waited>>

\* ... and then frees its stack ...
task_destroy_stack ==
    /\ At("free_stack")
    /\ stacks' = stacks \ {Top.t}
    /\ LET top == [Top EXCEPT !.pc = "free_tcb"]
       IN  stack' = [s \in Task |-> IF s = cpu THEN [stack[s] EXCEPT ![Len(stack[s])] = top]
                                   ELSE IF s = Top.t THEN <<>> ELSE stack[s]]
    /\ UNCHANGED <<task_list, current_task, next_id, state, next, rsp, tcbs, cpu, ints,
                   tick_count, waited>>

\* ... and its TCB; the reap loop goes on with the saved next task.
task_destroy_tcb ==
    /\ At("free_tcb")
    /\ tcbs' = tcbs \ {Top.t}
    /\ state' = [state EXCEPT ![Top.t] = "NONE"]
    /\ SetTop([Top EXCEPT !.pc = "reap", !.t = Top.save_next, !.save_next = Boot])
    /\ UNCHANGED <<task_list, current_task, next_id, next, rsp, stacks, cpu, ints,
                   tick_count, waited>>

\* Fault: the search starts at the head of the list.
NextReady_from_head ==
    IF \E t \in Ring : state[t] = "READY"
    THEN CHOOSE t \in Ring : state[t] = "READY" /\ \A u \in Ring : state[u] = "READY" => t <= u
    ELSE next[current_task]

\* The first READY task after current_task in list order; where the loop came
\* full circle without one, the task it started from.
NextReady ==
    LET walk == Walk(next, next[current_task])
        Ready(n) == state[walk[n]] = "READY"
        First(n) == Ready(n) /\ \A m \in 0 .. n - 1 : ~Ready(m)
    IN  IF \E n \in 0 .. MaxTasks : Ready(n)
        THEN walk[CHOOSE n \in 0 .. MaxTasks : First(n)]
        ELSE next[current_task]

\* Fault: a dead task is not switched away from.
Stays_dead(n) == n = current_task \/ state[n] # "READY" \/ state[current_task] # "RUNNING"
Stays(n) == n = current_task \/ state[n] # "READY"

schedule_find ==
    /\ At("find")
    /\ LET n == NextReady
       IN  IF Stays(n)
           THEN /\ Goto("ret")
                /\ UNCHANGED state
           ELSE /\ state' = [state EXCEPT ![current_task] =
                                IF @ = "RUNNING" THEN "READY" ELSE @]
                /\ SetTop([Top EXCEPT !.pc = "set_current", !.next = n,
                                      !.prev = current_task])
    /\ UNCHANGED <<tcbVars, current_task, rsp, cpu, ints, tick_count, waited>>

schedule_current ==
    /\ At("set_current")
    /\ current_task' = Top.next
    /\ Goto("set_running")
    /\ UNCHANGED <<tcbVars, state, rsp, cpu, ints, tick_count, waited>>

schedule_running ==
    /\ At("set_running")
    /\ state' = [state EXCEPT ![Top.next] = "RUNNING"]
    /\ Goto("switch")
    /\ UNCHANGED <<tcbVars, current_task, rsp, cpu, ints, tick_count, waited>>

\* The activation left behind resumes at the return of schedule().
switch_to ==
    /\ At("switch")
    /\ rsp' = [rsp EXCEPT ![Top.prev] = cpu]
    /\ cpu' = rsp[Top.next]
    /\ SetTop(Activation("ret", Top.irq))
    /\ waited' = [t \in Task |-> IF state[t] = "READY" /\ t # Top.prev
                                 THEN waited[t] + 1 ELSE 0]
    /\ UNCHANGED <<tcbVars, current_task, state, ints, tick_count>>

\* schedule() returns: to the handler, whose iretq enables interrupts again, or
\* to task_exit.
schedule_return ==
    /\ At("ret")
    /\ ints' = (ints \/ Top.irq)
    /\ stack' = [stack EXCEPT ![cpu] = SubSeq(@, 1, Len(@) - 1)]
    /\ UNCHANGED <<tcbVars, current_task, state, rsp, cpu, tick_count, waited>>

\* What the CPU does by itself once it is in kernel code.
KernelStep ==
    \/ task_trampoline
    \/ task_exit_schedule
    \/ schedule \/ reap
    \/ task_destroy \/ task_destroy_stack \/ task_destroy_tcb
    \/ schedule_find \/ schedule_current \/ schedule_running \/ switch_to
    \/ schedule_return

Next ==
    \/ task_create \/ task_create_fail
    \/ task_exit
    \/ pit_irq_handler
    \/ KernelStep

\* The CPU keeps executing and the timer keeps ticking; tasks need not end.
Spec == Init /\ [][Next]_vars /\ WF_vars(KernelStep) /\ WF_vars(pit_irq_handler)

(***************************************************************************)
(* Properties.                                                             *)
(***************************************************************************)

\* The circular list stays one cycle through the boot task and current_task,
\* over TCBs that have not been freed, however reaping is interrupted.
RingIntact ==
    /\ {Boot, task_list, current_task} \subseteq Ring
    /\ Ring \subseteq tcbs
    /\ {next[t] : t \in Ring} = Ring

\* A READY task that is not executing can be switched to: its saved stack
\* pointer points into its own stack, which is still allocated, at a context
\* that task_create or switch_to left there.
ContextSaved ==
    \A t \in Task \ {cpu} :
        state[t] = "READY" =>
            /\ t \in tcbs /\ t \in stacks /\ rsp[t] = t
            /\ Innermost(t).pc \in {"fresh", "ret"}

\* "schedule() always runs on the current (live) task's stack": the stack the
\* CPU runs on is never freed, nor is a TCB that switch_to will write to.
StackAlive == cpu \in stacks /\ (At("switch") => Top.prev \in tcbs)

\* "Should never reach here, but halt just in case": the schedule() of
\* task_exit does not return.
ExitNeverReturns == ~At("halt")

\* Round robin: a READY task is passed over at most once by each other task.
BoundedWait ==
    \A t \in Task : waited[t] = 0 \/ waited[t] + 1 < next_id

\* Every READY task gets the CPU again, whatever the others do.
NoStarvation == \A t \in Task : state[t] = "READY" ~> cpu = t

\* A finished task leaves the list (F-011 AC-3).  Its stack and TCB are freed as
\* well where no two tasks are DEAD at once: a reaper that is DEAD itself may be
\* preempted in task_destroy for good, and what it had unlinked is never freed.
DeadReaped ==
    /\ \A t \in Task : state[t] = "DEAD" ~> t \notin Ring
    /\ [](\A t, u \in Task : state[t] = "DEAD" /\ state[u] = "DEAD" => t = u)
       => \A t \in Task : state[t] = "DEAD" ~> t \notin tcbs \cup stacks

=============================================================================
