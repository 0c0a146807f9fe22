----------------------------- MODULE TaskProofs -----------------------------
(***************************************************************************)
(* Proofs about Task, for any number of tasks and any tick rate, as long   *)
(* as no tick hits between task.c:191 and the load of RSP (~WindowTicks;    *)
(* the run task_window shows what such a tick does).                       *)
(*                                                                         *)
(* The list is sorted by id: task_create appends, the boot task never      *)
(* dies, and task_destroy only removes.  A walk over it from any member    *)
(* meets every member in cyclic order of the ids, which is what makes the  *)
(* search of schedule() a round robin.                                     *)
(***************************************************************************)
EXTENDS Task, WellFoundedInduction, TLAPS

(***************************************************************************)
(* The inductive invariant.                                                *)
(***************************************************************************)

\* n follows t in the cyclic order of R.
Follows(R, t, n) ==
    /\ n \in R
    /\ \/ n = Boot /\ \A u \in R : u <= t
       \/ t < n /\ \A u \in R : u <= t \/ n <= u

Sorted(R, links, N) ==
    /\ Boot \in R /\ R \subseteq 0 .. N - 1
    /\ \A t \in R : Follows(R, t, links[t])

\* How many ids forward b is from a, of N ids in a circle.
Ahead(N, a, b) == IF a <= b THEN b - a ELSE b - a + N

InSchedule == {"enter", "reap", "unlink", "free_stack", "free_tcb", "find",
               "set_current", "set_running", "switch"}
Choosing == {"set_current", "set_running", "switch"}
Leaving == {"set_running", "switch"}

Alive(t) == state[t] \in {"READY", "RUNNING"}

\* The list, the memory of the tasks in it, and the states of those outside.
Listed ==
    /\ task_list = Boot
    /\ Sorted(Ring, next, next_id)
    /\ Ring \subseteq tcbs /\ Ring \subseteq stacks
    /\ \A t \in Task : t \in Ring => state[t] # "NONE"
    /\ \A t \in Task : Alive(t) => t \in Ring
    /\ Alive(Boot)

\* Who executes, who is current, and who is RUNNING.
Executing ==
    /\ cpu \in Ring /\ current_task \in Ring
    /\ \A t \in Task : rsp[t] = t
    /\ \A t \in Task : state[t] = "RUNNING" => t = current_task
    /\ IF Top.pc \in Leaving THEN cpu = Top.prev /\ current_task = Top.next
                             ELSE cpu = current_task
    /\ IF Top.pc \in Choosing THEN state[cpu] # "RUNNING" ELSE state[cpu] # "READY"

\* Under the innermost activation of a live task lie handlers that wait for
\* schedule() to return, on top of the entry function.
Sound(t) ==
    /\ stack[t] # <<>>
    /\ stack[t][1].pc \in {"fresh", "run"}
    /\ \A i \in 2 .. Len(stack[t]) - 1 : stack[t][i].pc = "ret" /\ stack[t][i].irq
    /\ Len(stack[t]) > 1 => Innermost(t).irq
    /\ t # cpu => Innermost(t).pc \in {"fresh", "ret"}
    /\ Len(stack[t]) > 1 => Innermost(t).pc \in InSchedule \cup {"ret"}

\* A dead task is in a schedule() that does not return, or about to call it.
Stacked ==
    /\ \A t \in Task : Alive(t) => Sound(t)
    /\ stack[cpu] # <<>>
    /\ state[cpu] = "DEAD" => Top.pc \in InSchedule \cup {"exit"}
    /\ Top.pc \in InSchedule /\ Top.irq => ~ints
    /\ Top.pc \in InSchedule /\ ~Top.irq => state[cpu] = "DEAD"

\* What the locals of the innermost schedule() hold.
Locals ==
    /\ Top.pc = "reap" => Top.t \in Ring
    /\ Top.pc = "unlink" => /\ Top.t \in Ring \ {cpu} /\ state[Top.t] = "DEAD"
                            /\ Top.save_next = next[Top.t]
    /\ Top.pc \in {"free_stack", "free_tcb"} =>
           Top.t \notin Ring /\ state[Top.t] = "DEAD" /\ Top.save_next \in Ring
    /\ Top.pc \in Choosing =>
           /\ Top.prev = cpu /\ Top.next \in Ring \ {cpu}
           /\ state[Top.next] = IF Top.pc = "switch" THEN "RUNNING" ELSE "READY"
           /\ \A u \in Ring : u # cpu /\ state[u] = "READY" =>
                  Ahead(next_id, cpu, Top.next) <= Ahead(next_id, cpu, u)

\* A task is passed over once by each of those between it and the one executing.
Fair ==
    \A t \in Task : IF t < next_id /\ t # cpu THEN waited[t] + 1 <= Ahead(next_id, t, cpu)
                                              ELSE waited[t] = 0

IInv == TypeOK /\ Listed /\ Executing /\ Stacked /\ Locals /\ Fair

(***************************************************************************)
(* Induction over the naturals, on sets, and the walk over the list.       *)
(***************************************************************************)

\* A set of naturals has a least member.
LEMMA Least ==
    ASSUME NEW S \in SUBSET Nat, S # {}
    PROVE  \E n \in S : \A m \in S : n <= m
<1> DEFINE R == OpToRel(<, Nat)
<1>1. IsWellFoundedOn(R, Nat)
  BY NatLessThanWellFounded, ZenonT(30)
<1>2. \A m, n \in Nat : m < n => <<m, n>> \in R
  BY DEF OpToRel
<1> HIDE DEF R
<1>3. PICK x \in S : \A y \in S : ~ (<<y, x>> \in R)
  BY <1>1, WFMin, ZenonT(30)
<1>4. ASSUME NEW y \in S PROVE x <= y
  <2>1. y < x => <<y, x>> \in R
    BY <1>2
  <2> QED
    BY <1>3, <2>1
<1> QED
  BY <1>3, <1>4

\* A set with 0 and the successor of each of its members has all naturals.
LEMMA Induct ==
    ASSUME NEW S, 0 \in S, \A n \in Nat : n \in S => n + 1 \in S
    PROVE  Nat \subseteq S
<1>1. SUFFICES ASSUME Nat \ S # {} PROVE FALSE
  OBVIOUS
<1>2. PICK n \in Nat \ S : \A m \in Nat \ S : n <= m
  BY <1>1, Least, ZenonT(30)
<1>3. n # 0 /\ n - 1 \in Nat /\ n - 1 \in S
  BY <1>2
<1> QED
  BY <1>2, <1>3

\* The recursive definition of a walk has a solution.
LEMMA WalkDef ==
    ASSUME NEW links, NEW s
    PROVE  Walk(links, s) =
               [n \in 0 .. MaxTasks |-> IF n = 0 THEN s ELSE links[Walk(links, s)[n - 1]]]
<1> DEFINE Solves(f, k) == f = [n \in 0 .. k |-> IF n = 0 THEN s ELSE links[f[n - 1]]]
           S == {k \in Nat : \E f : Solves(f, k)}
<1>1. SUFFICES \E f : Solves(f, MaxTasks)
  BY ZenonT(30) DEF Walk
<1>2. 0 \in S
  <2>1. Solves([n \in 0 .. 0 |-> s], 0)
    OBVIOUS
  <2> QED
    BY <2>1, ZenonT(30)
<1>3. ASSUME NEW k \in Nat, k \in S PROVE k + 1 \in S
  <2>1. PICK f : Solves(f, k)
    BY <1>3
  <2> DEFINE g == [n \in 0 .. k + 1 |-> IF n = k + 1 THEN links[f[k]] ELSE f[n]]
  <2>2. Solves(g, k + 1)
    BY <2>1
  <2>3. \E h : Solves(h, k + 1)
    BY <2>2, ZenonT(30)
  <2> QED
    BY <2>3
<1> HIDE DEF S
<1>4. MaxTasks \in S
  BY <1>2, <1>3, Induct, TaskConstants
<1> QED
  BY <1>4 DEF S

\* A walk starts at s and follows the links.
LEMMA WalkStep ==
    ASSUME NEW links, NEW s
    PROVE  /\ Walk(links, s)[0] = s
           /\ \A n \in 1 .. MaxTasks : Walk(links, s)[n] = links[Walk(links, s)[n - 1]]
<1> DEFINE w == Walk(links, s)
<1>1. w = [n \in 0 .. MaxTasks |-> IF n = 0 THEN s ELSE links[w[n - 1]]]
  BY WalkDef
<1> HIDE DEF w
<1>2. PICK h : h = w
  OBVIOUS
<1>3. w = [n \in 0 .. MaxTasks |-> IF n = 0 THEN s ELSE links[h[n - 1]]]
  BY <1>1, <1>2, ZenonT(30)
<1>4. \A n \in 0 .. MaxTasks : w[n] = IF n = 0 THEN s ELSE links[h[n - 1]]
  BY <1>3, Zenon
<1>5. w[0] = s
  BY <1>4, TaskConstants
<1>6. ASSUME NEW n \in 1 .. MaxTasks PROVE w[n] = links[h[n - 1]]
  BY <1>4, TaskConstants
<1> QED
  BY <1>2, <1>5, <1>6 DEF w

\* Before step n the walk w has met all of R, or it is n or more ids ahead of its
\* start and has met every member of R that it passed.
Met(R, w, N, n) ==
    \/ \A u \in R : \E m \in 0 .. n - 1 : w[m] = u
    \/ /\ n <= Ahead(N, w[0], w[n])
       /\ \A u \in R : Ahead(N, w[0], u) < Ahead(N, w[0], w[n]) => \E m \in 0 .. n - 1 : w[m] = u

\* One step of a walk over a sorted list.
LEMMA MetNext ==
    ASSUME NEW R, NEW links, NEW N \in Nat, Sorted(R, links, N), NEW w, NEW n \in Nat,
           w[0] \in R, w[n] \in R, w[n + 1] = links[w[n]], Met(R, w, N, n)
    PROVE  w[n + 1] \in R /\ Met(R, w, N, n + 1)
<1> DEFINE s == w[0]  v == w[n]  x == w[n + 1]
<1>1. R \subseteq 0 .. N - 1 /\ Follows(R, v, x)
  BY ZenonT(30) DEF Sorted
<1>2. x \in R /\ s \in Nat /\ v \in Nat /\ x \in Nat
  <2>1. x \in R
    BY <1>1, Zenon DEF Follows
  <2>2. \A u \in R : u \in Nat
    BY <1>1
  <2> QED
    BY <2>1, <2>2
<1>3. CASE \A u \in R : \E m \in 0 .. n - 1 : w[m] = u
  <2>1. \A u \in R : \E m \in 0 .. n : w[m] = u
    BY <1>3
  <2> QED
    BY <1>2, <2>1 DEF Met
<1>4. CASE /\ n <= Ahead(N, s, v)
           /\ \A u \in R : Ahead(N, s, u) < Ahead(N, s, v) => \E m \in 0 .. n - 1 : w[m] = u
  <2>1. CASE Ahead(N, s, v) < Ahead(N, s, x)
    <3>1. n + 1 <= Ahead(N, s, x)
      BY <1>1, <1>2, <1>4, <2>1 DEF Ahead
    <3>2. ASSUME NEW u \in R, Ahead(N, s, u) < Ahead(N, s, x)
          PROVE  Ahead(N, s, u) < Ahead(N, s, v) \/ u = v
      BY <1>1, <1>2, <2>1, <3>2 DEF Ahead, Follows, Boot
    <3>3. ASSUME NEW u \in R, Ahead(N, s, u) < Ahead(N, s, x)
          PROVE  \E m \in 0 .. n : w[m] = u
      <4>1. CASE Ahead(N, s, u) < Ahead(N, s, v)
        <5>1. PICK m \in 0 .. n - 1 : w[m] = u
          BY <1>4, <4>1
        <5> QED
          BY <5>1
      <4> QED
        BY <3>2, <3>3, <4>1
    <3> QED
      BY <1>2, <3>1, <3>3 DEF Met
  <2>2. CASE ~(Ahead(N, s, v) < Ahead(N, s, x))
    <3>1. ASSUME NEW u \in R PROVE Ahead(N, s, u) < Ahead(N, s, v) \/ u = v
      BY <1>1, <1>2, <2>2 DEF Ahead, Follows, Boot
    <3>2. ASSUME NEW u \in R PROVE \E m \in 0 .. n : w[m] = u
      <4>1. CASE Ahead(N, s, u) < Ahead(N, s, v)
        <5>1. PICK m \in 0 .. n - 1 : w[m] = u
          BY <1>4, <4>1
        <5> QED
          BY <5>1
      <4> QED
        BY <3>1, <4>1
    <3> QED
      BY <1>2, <3>2 DEF Met
  <2> QED
    BY <2>1, <2>2
<1> QED
  BY <1>3, <1>4 DEF Met

\* A walk from a member of a sorted list stays in the list, and meets all of it,
\* each member before those further ahead.
LEMMA WalkMeets ==
    ASSUME NEW R, NEW links, NEW N \in Nat, N <= MaxTasks + 1, Sorted(R, links, N), NEW s \in R
    PROVE  /\ \A n \in 0 .. MaxTasks :
                 Walk(links, s)[n] \in R /\ Met(R, Walk(links, s), N, n)
           /\ \A u \in R : \E n \in 0 .. MaxTasks : Walk(links, s)[n] = u
<1> DEFINE w == Walk(links, s)
           S == {n \in Nat : n <= MaxTasks => w[n] \in R /\ Met(R, w, N, n)}
<1>1. w[0] = s /\ \A n \in 1 .. MaxTasks : w[n] = links[w[n - 1]]
  BY WalkStep
<1> HIDE DEF w
<1>2. R \subseteq 0 .. N - 1
  BY DEF Sorted
<1>3. 0 \in S
  <2>1. Ahead(N, s, s) = 0 /\ \A u \in R : ~(Ahead(N, s, u) < 0)
    BY <1>2 DEF Ahead
  <2>2. Met(R, w, N, 0)
    BY <1>1, <2>1 DEF Met
  <2> QED
    BY <1>1, <2>2
<1>4. ASSUME NEW n \in Nat, n \in S PROVE n + 1 \in S
  <2>1. SUFFICES ASSUME n + 1 <= MaxTasks PROVE w[n + 1] \in R /\ Met(R, w, N, n + 1)
    OBVIOUS
  <2>2. w[n] \in R /\ Met(R, w, N, n)
    BY <1>4, <2>1, TaskConstants
  <2>3. w[n + 1] = links[w[n]]
    <3>1. n + 1 \in 1 .. MaxTasks /\ (n + 1) - 1 = n
      BY <2>1, TaskConstants
    <3> QED
      BY <1>1, <3>1
  <2> QED
    BY <1>1, <2>2, <2>3, MetNext
<1>5. Nat \subseteq S
  <2> HIDE DEF S
  <2> QED
    BY <1>3, <1>4, Induct
<1>6. \A n \in 0 .. MaxTasks : w[n] \in R /\ Met(R, w, N, n)
  BY <1>5, TaskConstants
<1>7. ASSUME NEW u \in R PROVE \E n \in 0 .. MaxTasks : w[n] = u
  <2>1. w[MaxTasks] \in R /\ Met(R, w, N, MaxTasks)
    BY <1>6, TaskConstants
  <2>2. CASE \A v \in R : \E m \in 0 .. MaxTasks - 1 : w[m] = v
    <3>1. PICK m \in 0 .. MaxTasks - 1 : w[m] = u
      BY <2>2
    <3> QED
      BY <3>1, TaskConstants
  <2>3. CASE /\ MaxTasks <= Ahead(N, s, w[MaxTasks])
             /\ \A v \in R : Ahead(N, s, v) < Ahead(N, s, w[MaxTasks]) =>
                             \E m \in 0 .. MaxTasks - 1 : w[m] = v
    <3>1. Ahead(N, s, u) < Ahead(N, s, w[MaxTasks]) \/ u = w[MaxTasks]
      <4> DEFINE v == w[MaxTasks]
      <4>1. s \in 0 .. N - 1 /\ u \in 0 .. N - 1 /\ v \in 0 .. N - 1
        BY <1>2, <2>1, ZenonT(30)
      <4>2. MaxTasks <= Ahead(N, s, v)
        BY <2>3
      <4> HIDE DEF v
      <4>3. Ahead(N, s, u) < Ahead(N, s, v) \/ u = v
        BY <4>1, <4>2, TaskConstants DEF Ahead
      <4> QED
        BY <4>3 DEF v
    <3>2. CASE Ahead(N, s, u) < Ahead(N, s, w[MaxTasks])
      <4>1. PICK m \in 0 .. MaxTasks - 1 : w[m] = u
        BY <2>3, <3>2
      <4> QED
        BY <4>1, TaskConstants
    <3>3. CASE u = w[MaxTasks]
      BY <3>3, TaskConstants
    <3> QED
      BY <3>1, <3>2, <3>3
  <2> QED
    BY <1>1, <2>1, <2>2, <2>3 DEF Met
<1> QED
  BY <1>6, <1>7 DEF w

\* The members of a sorted list are what the walk from its head collects.
LEMMA RingIs ==
    ASSUME NEW R, NEW links, NEW N \in Nat, N <= MaxTasks + 1, Sorted(R, links, N)
    PROVE  {Walk(links, Boot)[n] : n \in 0 .. MaxTasks} = R
<1>1. Boot \in R
  BY DEF Sorted
<1> QED
  BY <1>1, WalkMeets

\* Every member of a sorted list follows one.
LEMMA Predecessor ==
    ASSUME NEW R, NEW links, NEW N \in Nat, N <= MaxTasks + 1, Sorted(R, links, N), NEW t \in R
    PROVE  \E p \in R : links[p] = t
<1>1. links[t] \in R
  BY Zenon DEF Sorted, Follows
<1> DEFINE w == Walk(links, links[t])
<1>2. /\ \A n \in 0 .. MaxTasks : w[n] \in R
      /\ \E n \in 0 .. MaxTasks : w[n] = t
  BY <1>1, WalkMeets
<1>3. w[0] = links[t] /\ \A n \in 1 .. MaxTasks : w[n] = links[w[n - 1]]
  BY WalkStep
<1> HIDE DEF w
<1>4. PICK n \in 0 .. MaxTasks : w[n] = t
  BY <1>2
<1>5. CASE n = 0
  BY <1>3, <1>4, <1>5
<1>6. CASE n # 0
  <2>1. n \in 1 .. MaxTasks /\ n - 1 \in 0 .. MaxTasks
    BY <1>6, TaskConstants
  <2> QED
    BY <1>2, <1>3, <1>4, <2>1
<1> QED
  BY <1>5, <1>6

\* Appending the next id after the last member keeps the list sorted.
LEMMA SortedAppend ==
    ASSUME NEW R, NEW links \in [Task -> Task], NEW N \in Nat, N <= MaxTasks, 0 < N,
           Sorted(R, links, N), NEW p \in R, links[p] = Boot
    PROVE  Sorted(R \cup {N}, [links EXCEPT ![p] = N, ![N] = Boot], N + 1)
<1> DEFINE l == [links EXCEPT ![p] = N, ![N] = Boot]
<1>1. R \subseteq 0 .. N - 1 /\ Boot \in R /\ N \in Task
  BY TaskConstants DEF Sorted, Task
<1>2. \A u \in R : u \in Task /\ u \in Nat /\ u < N
  BY <1>1, TaskConstants DEF Task
<1>3. l[N] = Boot /\ l[p] = N /\ \A u \in R : u # p => l[u] = links[u]
  BY <1>1, <1>2
<1>4. \A u \in R : u <= p
  <2>1. Follows(R, p, Boot)
    BY DEF Sorted
  <2>2. ~(p < Boot)
    BY <1>2 DEF Boot
  <2> QED
    BY <2>1, <2>2 DEF Follows
<1> HIDE DEF l
<1>5. ASSUME NEW u \in R \cup {N} PROVE Follows(R \cup {N}, u, l[u])
  <2>1. CASE u = N
    BY <1>1, <1>2, <1>3, <2>1 DEF Follows
  <2>2. CASE u = p
    BY <1>2, <1>3, <1>4, <2>2 DEF Follows
  <2>3. CASE u \in R /\ u # p
    <3>1. Follows(R, u, links[u]) /\ l[u] = links[u]
      BY <1>3, <2>3 DEF Sorted
    <3>2. p <= u => u = p
      BY <1>2, <1>4, <2>3
    <3> QED
      BY <1>2, <2>3, <3>1, <3>2 DEF Follows, Boot
  <2> QED
    BY <2>1, <2>2, <2>3
<1>6. R \cup {N} \subseteq 0 .. (N + 1) - 1
  BY <1>2
<1> QED
  BY <1>1, <1>5, <1>6, ZenonT(30) DEF Sorted, l

\* So does taking a member other than the boot task out.
LEMMA SortedRemove ==
    ASSUME NEW R, NEW links \in [Task -> Task], NEW N \in Nat, N <= MaxTasks + 1,
           Sorted(R, links, N), NEW t \in R, t # Boot, NEW p \in R, links[p] = t
    PROVE  /\ Sorted(R \ {t}, [links EXCEPT ![p] = links[t]], N)
           /\ links[t] \in R \ {t}
<1> DEFINE l == [links EXCEPT ![p] = links[t]]
<1>1. R \subseteq 0 .. N - 1 /\ Boot \in R
  BY DEF Sorted
<1>2. \A u \in R : u \in Task /\ u \in Nat /\ u < N
  BY <1>1, TaskConstants DEF Task
<1>3. l[p] = links[t] /\ \A u \in R : u # p => l[u] = links[u]
  BY <1>1, <1>2
<1>4. Follows(R, t, links[t]) /\ Follows(R, p, t) /\ \A u \in R : Follows(R, u, links[u])
  BY DEF Sorted
<1> HIDE DEF l
<1>5. links[t] \in R \ {t} /\ p < t
  BY <1>2, <1>4 DEF Follows, Boot
<1>6. ASSUME NEW u \in R \ {t} PROVE Follows(R \ {t}, u, l[u])
  <2>1. CASE u = p
    BY <1>2, <1>3, <1>4, <1>5, <2>1 DEF Follows, Boot
  <2>2. CASE u # p
    <3>1. Follows(R, u, links[u]) /\ l[u] = links[u]
      BY <1>3, <1>4, <2>2
    <3>2. links[u] # t
      <4> SUFFICES ASSUME links[u] = t PROVE FALSE
        OBVIOUS
      <4>1. u < t /\ (p <= u \/ t <= p) /\ (u <= p \/ t <= u)
        BY <1>2, <1>4, <3>1 DEF Follows, Boot
      <4> QED
        BY <1>2, <1>5, <2>2, <4>1
    <3> QED
      BY <3>1, <3>2 DEF Follows
  <2> QED
    BY <2>1, <2>2
<1> QED
  BY <1>1, <1>5, <1>6 DEF Sorted, l

\* Those ahead of a task are in the order they are ahead of the one that follows it.
LEMMA AheadFollows ==
    ASSUME NEW R, NEW N \in Nat, R \subseteq 0 .. N - 1, NEW c \in R, NEW s \in R,
           Follows(R, c, s), NEW x \in R, NEW u \in R, x # c, u # c,
           Ahead(N, s, x) <= Ahead(N, s, u)
    PROVE  Ahead(N, c, x) <= Ahead(N, c, u)
<1>1. /\ c \in Nat /\ s \in Nat /\ x \in Nat /\ u \in Nat
      /\ c < N /\ s < N /\ x < N /\ u < N
  OBVIOUS
<1>2. \/ s = 0 /\ x <= c /\ u <= c
      \/ c < s /\ (x <= c \/ s <= x) /\ (u <= c \/ s <= u)
  BY DEF Follows, Boot
<1> QED
  BY <1>1, <1>2 DEF Ahead

\* What the search of schedule() finds: a member of the list, READY where there
\* is a READY one, and then the first of them after current_task.
LEMMA NextReadyFirst ==
    ASSUME TypeOK, Listed, current_task \in Ring
    PROVE  /\ NextReady \in Ring
           /\ (\E u \in Ring : state[u] = "READY") => state[NextReady] = "READY"
           /\ NextReady # current_task /\ state[NextReady] = "READY" =>
                  \A u \in Ring : u # current_task /\ state[u] = "READY" =>
                      Ahead(next_id, current_task, NextReady) <= Ahead(next_id, current_task, u)
<1> DEFINE R == Ring  N == next_id  c == current_task  s == next[c]
           w == Walk(next, s)
           Ready(n) == state[w[n]] = "READY"
           First(n) == Ready(n) /\ \A m \in 0 .. n - 1 : ~Ready(m)
<1>1. N \in Nat /\ N <= MaxTasks + 1 /\ Sorted(R, next, N)
  BY TaskConstants DEF TypeOK, Listed
<1>2. s \in R /\ Follows(R, c, s) /\ R \subseteq 0 .. N - 1
  BY <1>1 DEF Sorted, Follows
<1>3. /\ \A n \in 0 .. MaxTasks : w[n] \in R /\ Met(R, w, N, n)
      /\ \A u \in R : \E n \in 0 .. MaxTasks : w[n] = u
  <2> HIDE DEF R, N, s
  <2> QED
    BY <1>1, <1>2, WalkMeets
<1>4. w[0] = s
  BY WalkStep
<1>5. NextReady = IF \E n \in 0 .. MaxTasks : Ready(n)
                  THEN w[CHOOSE n \in 0 .. MaxTasks : First(n)] ELSE s
  BY Zenon DEF NextReady
<1> HIDE DEF R, N, c, s, w
<1>6. CASE ~\E n \in 0 .. MaxTasks : Ready(n)
  <2>1. NextReady = s /\ \A u \in R : state[u] # "READY"
    BY <1>3, <1>5, <1>6
  <2> QED
    BY <1>2, <2>1 DEF R
<1>7. CASE \E n \in 0 .. MaxTasks : Ready(n)
  <2> DEFINE S == {n \in 0 .. MaxTasks : Ready(n)}
  <2>1. S \in SUBSET Nat /\ S # {}
    BY <1>7
  <2>2. PICK j \in S : \A m \in S : j <= m
    <3> HIDE DEF S
    <3> QED
      BY <2>1, Least
  <2>3. \E n \in 0 .. MaxTasks : First(n)
    <3>1. j \in 0 .. MaxTasks /\ Ready(j)
      BY <2>2
    <3>2. ASSUME NEW m \in 0 .. j - 1 PROVE ~Ready(m)
      <4>1. m \in 0 .. MaxTasks /\ ~(j <= m)
        BY <3>1, TaskConstants
      <4> QED
        BY <2>2, <4>1
    <3> QED
      BY <3>1, <3>2
  <2> DEFINE k == CHOOSE n \in 0 .. MaxTasks : First(n)
  <2>4. k \in 0 .. MaxTasks /\ First(k)
    <3> HIDE DEF First
    <3> QED
      BY <2>3, Zenon
  <2>5. NextReady = w[k]
    BY <1>5, <1>7
  <2> HIDE DEF k, S
  <2>6. w[k] \in R /\ Met(R, w, N, k) /\ state[w[k]] = "READY"
    BY <1>3, <2>4
  <2>7. ASSUME NEW u \in R, state[u] = "READY" PROVE ~\E m \in 0 .. k - 1 : w[m] = u
    BY <2>4, <2>7
  <2>8. \A u \in R : Ahead(N, s, u) < Ahead(N, s, w[k]) => \E m \in 0 .. k - 1 : w[m] = u
    BY <1>4, <2>6, <2>7 DEF Met
  <2>9. ASSUME NEW u \in R, u # c, state[u] = "READY", w[k] # c
        PROVE  Ahead(N, c, w[k]) <= Ahead(N, c, u)
    <3>1. ~(Ahead(N, s, u) < Ahead(N, s, w[k]))
      BY <2>7, <2>8, <2>9
    <3>2. Ahead(N, s, w[k]) <= Ahead(N, s, u)
      <4>1. s \in Int /\ u \in Int /\ w[k] \in Int /\ N \in Int
        <5>1. N \in Int /\ \A x \in R : x \in Int
          BY <1>1, <1>2
        <5> QED
          BY <1>2, <2>6, <5>1, ZenonT(30)
      <4>2. Ahead(N, s, u) \in Int /\ Ahead(N, s, w[k]) \in Int
        BY <4>1 DEF Ahead
      <4> QED
        BY <3>1, <4>2
    <3>3. c \in R
      BY DEF c, R
    <3> QED
      BY <1>1, <1>2, <2>6, <2>9, <3>2, <3>3, AheadFollows, ZenonT(30)
  <2> QED
    BY <2>5, <2>6, <2>9 DEF R, N, c
<1> QED
  BY <1>6, <1>7

(***************************************************************************)
(* The stacks.                                                             *)
(***************************************************************************)

\* Replacing the last element of a sequence keeps its length and the others.
LEMMA SetLast ==
    ASSUME NEW S, NEW q \in Seq(S), q # <<>>, NEW e \in S
    PROVE  /\ [q EXCEPT ![Len(q)] = e] \in Seq(S)
           /\ Len([q EXCEPT ![Len(q)] = e]) = Len(q)
           /\ Len(q) \in Nat \ {0}
           /\ [q EXCEPT ![Len(q)] = e] # <<>>
           /\ [q EXCEPT ![Len(q)] = e][Len(q)] = e
           /\ \A i \in 1 .. Len(q) - 1 : [q EXCEPT ![Len(q)] = e][i] = q[i]
OBVIOUS

\* Removing the last element keeps those before it.
LEMMA DropLast ==
    ASSUME NEW S, NEW q \in Seq(S), NEW k \in Nat, k = Len(q), k > 1
    PROVE  /\ SubSeq(q, 1, Len(q) - 1) \in Seq(S)
           /\ Len(SubSeq(q, 1, Len(q) - 1)) = k - 1
           /\ \A i \in 1 .. k - 1 : SubSeq(q, 1, Len(q) - 1)[i] = q[i]
OBVIOUS

\* A sequence whose length is not 0 is not empty.
LEMMA NotEmpty ==
    ASSUME NEW S, NEW q \in Seq(S), Len(q) # 0
    PROVE  q # <<>>
OBVIOUS

\* Of one activation there is none below the innermost.
LEMMA LenOne ==
    ASSUME NEW k, k = 1
    PROVE  ~(k > 1) /\ \A i : i \notin 2 .. k - 1
OBVIOUS

\* The recursion of the list is a function of the links and the head alone.
LEMMA RingSame ==
    ASSUME UNCHANGED <<task_list, next>>
    PROVE  Ring' = Ring
BY DEF Ring

\* Facts about the innermost activation and the constants that most steps need.
LEMMA TopFacts ==
    ASSUME IInv
    PROVE  /\ cpu \in Task /\ current_task \in Task /\ next_id \in Nat
           /\ stack[cpu] \in Seq(Frame) /\ stack[cpu] # <<>> /\ Top \in Frame
           /\ Len(stack[cpu]) \in Nat \ {0}
           /\ Top = stack[cpu][Len(stack[cpu])]
<1>1. cpu \in Task /\ stack \in [Task -> Seq(Frame)] /\ current_task \in Task /\ next_id \in Nat
  BY TaskConstants DEF IInv, TypeOK
<1>2. stack[cpu] # <<>>
  BY DEF IInv, Stacked
<1> QED
  BY <1>1, <1>2 DEF Top, Innermost

\* What replacing the innermost activation does to the stacks.
LEMMA NewStack ==
    ASSUME IInv, NEW f \in Frame, SetTop(f)
    PROVE  /\ stack' \in [Task -> Seq(Frame)]
           /\ stack'[cpu] = [stack[cpu] EXCEPT ![Len(stack[cpu])] = f]
           /\ \A t \in Task : t # cpu => stack'[t] = stack[t]
           /\ stack'[cpu] # <<>>
           /\ Len(stack'[cpu]) = Len(stack[cpu]) /\ stack'[cpu][Len(stack[cpu])] = f
           /\ \A i \in 1 .. Len(stack[cpu]) - 1 : stack'[cpu][i] = stack[cpu][i]
<1>1. stack \in [Task -> Seq(Frame)]
  BY DEF IInv, TypeOK
<1>2. stack' = [stack EXCEPT ![cpu] = [stack[cpu] EXCEPT ![Len(stack[cpu])] = f]]
  BY DEF SetTop
<1> DEFINE q == [stack[cpu] EXCEPT ![Len(stack[cpu])] = f]
<1>3. /\ q \in Seq(Frame) /\ Len(q) = Len(stack[cpu]) /\ q[Len(stack[cpu])] = f
      /\ q # <<>>
      /\ \A i \in 1 .. Len(stack[cpu]) - 1 : q[i] = stack[cpu][i]
  BY TopFacts, SetLast
<1>4. cpu \in Task /\ stack' = [stack EXCEPT ![cpu] = q]
  BY <1>2, TopFacts
<1> HIDE DEF q
<1>5. stack'[cpu] = q /\ stack' \in [Task -> Seq(Frame)] /\ \A t \in Task : t # cpu => stack'[t] = stack[t]
  BY <1>1, <1>3, <1>4
<1> QED
  BY <1>3, <1>5 DEF q

\* ... and to what executes next.
LEMMA NewTop ==
    ASSUME IInv, NEW f \in Frame, SetTop(f), cpu' = cpu
    PROVE  /\ stack' \in [Task -> Seq(Frame)]
           /\ stack'[cpu] = [stack[cpu] EXCEPT ![Len(stack[cpu])] = f]
           /\ \A t \in Task : t # cpu => stack'[t] = stack[t]
           /\ Top' = f
<1>1. Len(stack'[cpu]) = Len(stack[cpu]) /\ stack'[cpu][Len(stack[cpu])] = f
  BY NewStack, ZenonT(30)
<1>2. Top' = f
  BY <1>1 DEF Top, Innermost
<1> QED
  BY <1>2, NewStack

\* The activation of schedule() moves on, on the stack it is on, and where it
\* returns its task is not dead.  No task comes to life, and only the stacks of
\* dead tasks are touched.
LEMMA StackedStep ==
    ASSUME IInv, NEW f \in Frame, cpu' = cpu, ints' = ints,
           Top.pc \in InSchedule, f.pc \in InSchedule \cup {"ret"}, f.irq = Top.irq, Top' = f,
           f.pc = "ret" => state'[cpu] # "DEAD",
           stack'[cpu] = [stack[cpu] EXCEPT ![Len(stack[cpu])] = f],
           \A t \in Task : Alive(t)' => Alive(t),
           \A t \in Task : t # cpu /\ Alive(t)' => stack'[t] = stack[t],
           state'[cpu] = "DEAD" <=> state[cpu] = "DEAD"
    PROVE  Stacked'
<1> DEFINE q == stack[cpu]  k == Len(stack[cpu])
<1>1. /\ stack'[cpu] \in Seq(Frame) /\ Len(stack'[cpu]) = k /\ k \in Nat \ {0}
      /\ stack'[cpu][k] = f /\ \A i \in 1 .. k - 1 : stack'[cpu][i] = stack[cpu][i]
  BY TopFacts, SetLast
<1>2. ASSUME NEW t \in Task, Alive(t)' PROVE Sound(t)'
  <2>1. Sound(t)
    BY <1>2 DEF IInv, Stacked
  <2>2. CASE t = cpu
    <3>1. k > 1
      <4>1. k = 1 => Top.pc \in {"fresh", "run"}
        BY <2>1, <2>2, TopFacts DEF Sound
      <4>2. Top.pc \notin {"fresh", "run"}
        BY DEF InSchedule
      <4>3. k # 1
        BY <4>1, <4>2, Zenon
      <4>4. k \in Nat \ {0}
        BY <1>1, Zenon
      <4> HIDE DEF k
      <4> QED
        BY <4>3, <4>4
    <3>2. Top.irq
      BY <2>1, <2>2, <3>1 DEF Sound, Top
    <3>3. stack'[t] # <<>> /\ stack'[t][1] = stack[t][1] /\ Len(stack'[t]) = Len(stack[t])
      BY <1>1, <2>2, <3>1
    <3>4. Innermost(t)' = f
      BY <1>1, <2>2 DEF Innermost
    <3>5. \A i \in 2 .. Len(stack'[t]) - 1 : stack'[t][i].pc = "ret" /\ stack'[t][i].irq
      BY <1>1, <2>1, <2>2 DEF Sound
    <3> QED
      BY <2>1, <2>2, <3>2, <3>3, <3>4, <3>5, ZenonT(30) DEF Sound
  <2>3. CASE t # cpu
    BY <1>2, <2>1, <2>3 DEF Sound, Innermost
  <2> QED
    BY <2>2, <2>3
<1>3. stack'[cpu'] # <<>>
  BY <1>1
<1>4. state'[cpu'] = "DEAD" => Top'.pc \in InSchedule \cup {"exit"}
  OBVIOUS
<1>5. Top'.pc \in InSchedule /\ Top'.irq => ~ints'
  BY DEF IInv, Stacked
<1>6. Top'.pc \in InSchedule /\ ~Top'.irq => state'[cpu'] = "DEAD"
  BY DEF IInv, Stacked
<1> QED
  BY <1>2, <1>3, <1>4, <1>5, <1>6 DEF Stacked

\* A suspended task can be resumed, whoever executes now.
LEMMA SoundSame ==
    ASSUME IInv, NEW t \in Task, Alive(t), t # cpu, stack'[t] = stack[t]
    PROVE  Sound(t)'
<1>1. Sound(t)
  BY Zenon DEF IInv, Stacked
<1>2. Innermost(t)' = Innermost(t) /\ Len(stack'[t]) = Len(stack[t])
  BY Zenon DEF Innermost
<1> QED
  BY <1>1, <1>2, Zenon DEF Sound

\* The waiting times are kept where nobody is passed over or created.
LEMMA FairSame ==
    ASSUME IInv, UNCHANGED <<next_id, cpu, waited>>
    PROVE  Fair'
BY DEF IInv, Fair

\* The list is kept where neither the links nor what is alive changes.
LEMMA ListedSame ==
    ASSUME IInv, UNCHANGED <<tcbVars, state>>
    PROVE  Listed' /\ Ring' = Ring
<1>1. Ring' = Ring
  BY RingSame, Zenon DEF tcbVars
<1>2. \A t : Alive(t)' = Alive(t)
  BY DEF Alive
<1> QED
  BY <1>1, <1>2 DEF IInv, Listed, tcbVars

\* A step from one place of schedule() to another that only moves its locals.
LEMMA Moves ==
    ASSUME IInv, NEW f \in Frame, SetTop(f), f.irq = Top.irq,
           Top.pc \in InSchedule \ Choosing, f.pc \in InSchedule \ Choosing,
           UNCHANGED <<tcbVars, current_task, state, rsp, cpu, ints, tick_count, waited>>,
           Top' = f /\ Ring' = Ring => Locals'
    PROVE  IInv'
<1>1. /\ stack' \in [Task -> Seq(Frame)] /\ Top' = f
      /\ stack'[cpu] = [stack[cpu] EXCEPT ![Len(stack[cpu])] = f]
      /\ \A t \in Task : t # cpu => stack'[t] = stack[t]
  BY NewTop, Zenon
<1>2. TypeOK'
  BY <1>1, Zenon DEF IInv, TypeOK, tcbVars
<1>3. Listed' /\ Ring' = Ring
  BY ListedSame, Zenon
<1>4. Executing'
  BY <1>1, <1>3 DEF IInv, Executing, Leaving, Choosing
<1>5. Stacked'
  <2>1. \A t \in Task : Alive(t)' = Alive(t)
    BY DEF Alive
  <2>2. f.pc \in InSchedule /\ f.pc # "ret"
    BY DEF InSchedule
  <2> QED
    BY <1>1, <2>1, <2>2, StackedStep
<1>6. Fair'
  BY FairSame, Zenon DEF tcbVars
<1> QED
  BY <1>1, <1>2, <1>3, <1>4, <1>5, <1>6, Zenon DEF IInv

(***************************************************************************)
(* The steps of schedule().                                                *)
(***************************************************************************)

\* The entry of schedule(): the reap loop starts behind current_task.
LEMMA ScheduleStep == IInv /\ schedule => IInv'
<1> SUFFICES ASSUME IInv, schedule PROVE IInv'
  OBVIOUS
<1> DEFINE f == [Top EXCEPT !.pc = "reap", !.t = next[current_task]]
<1>1. /\ At("enter") /\ SetTop(f)
      /\ UNCHANGED <<tcbVars, current_task, state, rsp, cpu, ints, tick_count, waited>>
  BY DEF schedule, FirstPass
<1>2. Top.pc = "enter" /\ Top \in Frame
  BY <1>1, TopFacts DEF At
<1>3. next[current_task] \in Ring /\ next[current_task] \in Task
  BY TopFacts DEF IInv, TypeOK, Listed, Executing, Sorted, Follows
<1>4. f \in Frame /\ f.irq = Top.irq /\ f.pc = "reap" /\ f.t = next[current_task]
  BY <1>2, <1>3, ZenonT(30) DEF Frame, PCs
<1> HIDE DEF f
<1>5. Top' = f /\ Ring' = Ring => Locals'
  BY <1>3, <1>4 DEF Locals, Choosing
<1> QED
  BY <1>1, <1>2, <1>4, <1>5, Moves DEF InSchedule, Choosing

\* A turn of the reap loop looks at a member of the list, and never reaps the task
\* that executes.
LEMMA ReapStep == IInv /\ reap => IInv'
<1> SUFFICES ASSUME IInv, reap PROVE IInv'
  OBVIOUS
<1> DEFINE t == Top.t
           f == IF Reapable(t) THEN [Top EXCEPT !.pc = "unlink", !.save_next = next[t]]
                ELSE IF t = current_task THEN [Top EXCEPT !.pc = "find", !.t = Boot]
                ELSE [Top EXCEPT !.t = next[t]]
<1>1. /\ At("reap") /\ SetTop(f)
      /\ UNCHANGED <<tcbVars, current_task, state, rsp, cpu, ints, tick_count, waited>>
  BY Zenon DEF reap
<1>2. Top.pc = "reap" /\ Top \in Frame /\ t \in Ring
  BY <1>1, TopFacts DEF At, IInv, Locals
<1>3. next[t] \in Ring /\ next[t] \in Task /\ t \in Task /\ Boot \in Task
  <2>1. next[t] \in Ring
    BY <1>2, ZenonT(30) DEF IInv, Listed, Sorted, Follows
  <2>2. t \in Task /\ Boot \in Task
    BY <1>2, TaskConstants DEF Frame, Task, Boot
  <2> QED
    BY <2>1, <2>2 DEF IInv, TypeOK
<1>4. f \in Frame /\ f.irq = Top.irq /\ f.pc \in {"reap", "unlink", "find"}
  BY <1>2, <1>3, ZenonT(30) DEF Frame, PCs
<1>5. f.pc = "reap" => f.t \in Ring
  BY <1>2, <1>3 DEF Frame
<1>6. f.pc = "unlink" => Reapable(t) /\ f.t = t /\ f.save_next = next[t]
  BY <1>2 DEF Frame
<1> HIDE DEF f, t
<1>7. cpu = current_task
  BY <1>2 DEF IInv, Executing, Leaving
<1>8. Top' = f /\ Ring' = Ring => Locals'
  <2> SUFFICES ASSUME Top' = f, Ring' = Ring PROVE Locals'
    OBVIOUS
  <2>1. UNCHANGED <<next, state, cpu>>
    BY <1>1 DEF tcbVars
  <2>2. f.pc = "unlink" => /\ f.t \in Ring \ {cpu} /\ state[f.t] = "DEAD"
                           /\ f.save_next = next[f.t]
    BY <1>2, <1>6, <1>7 DEF Reapable
  <2> QED
    BY <1>4, <1>5, <2>1, <2>2 DEF Locals, Choosing
<1> QED
  BY <1>1, <1>2, <1>4, <1>8, Moves DEF InSchedule, Choosing

\* The list after task_destroy: the task is out, its successor still in.
LEMMA UnlinkList ==
    ASSUME IInv, task_destroy
    PROVE  /\ next' \in [Task -> Task] /\ task_list' = Boot
           /\ Sorted(Ring \ {Top.t}, next', next_id)
           /\ next[Top.t] \in Ring \ {Top.t}
           /\ Top.t \in Ring \ {cpu} /\ state[Top.t] = "DEAD" /\ Top.save_next = next[Top.t]
<1> DEFINE t == Top.t  p == CHOOSE p \in Ring : next[p] = t
<1>1. t \in Ring \ {cpu} /\ state[t] = "DEAD" /\ Top.save_next = next[t]
  BY DEF task_destroy, At, IInv, Locals
<1>2. next \in [Task -> Task] /\ next_id \in Nat /\ next_id <= MaxTasks + 1
  BY TaskConstants DEF IInv, TypeOK
<1>3. Sorted(Ring, next, next_id) /\ task_list = Boot /\ t # Boot
  BY <1>1 DEF IInv, Listed, Alive
<1>4. \E u \in Ring : next[u] = t
  BY <1>1, <1>2, <1>3, Predecessor
<1>5. p \in Ring /\ next[p] = t
  BY <1>4, Zenon
<1>6. next' = [next EXCEPT ![p] = next[t]] /\ task_list' = Boot
  BY <1>3 DEF task_destroy, Unlinked
<1> HIDE DEF p, t
<1>7. next[t] \in Ring \ {t} /\ Sorted(Ring \ {t}, next', next_id)
  BY <1>1, <1>2, <1>3, <1>5, <1>6, SortedRemove, ZenonT(30)
<1>8. next[t] \in Task
  BY <1>2, <1>3, <1>7, TaskConstants, SMTT(30) DEF Sorted, Task
<1>9. next' \in [Task -> Task]
  BY <1>2, <1>6, <1>8, ZenonT(30)
<1> QED
  BY <1>1, <1>6, <1>7, <1>9 DEF t

\* Unlinking a dead task leaves a sorted list with everyone else.
LEMMA DestroyStep == IInv /\ task_destroy => IInv'
<1> SUFFICES ASSUME IInv, task_destroy PROVE IInv'
  OBVIOUS
<1> DEFINE f == [Top EXCEPT !.pc = "free_stack"]
<1>1. /\ At("unlink") /\ SetTop(f)
      /\ UNCHANGED <<current_task, next_id, state, rsp, tcbs, stacks, cpu, ints, tick_count, waited>>
  BY DEF task_destroy, Goto
<1>2. Top.pc = "unlink" /\ Top \in Frame
  BY <1>1, TopFacts DEF At
<1>3. /\ f \in Frame /\ f.irq = Top.irq /\ f.pc = "free_stack" /\ f.t = Top.t
      /\ f.save_next = Top.save_next
  BY <1>2 DEF Frame, PCs
<1> HIDE DEF f
<1>4. /\ stack' \in [Task -> Seq(Frame)] /\ Top' = f
      /\ stack'[cpu] = [stack[cpu] EXCEPT ![Len(stack[cpu])] = f]
      /\ \A t \in Task : t # cpu => stack'[t] = stack[t]
  BY <1>1, <1>3, NewTop
<1>5. /\ next' \in [Task -> Task] /\ task_list' = Boot
      /\ Sorted(Ring \ {Top.t}, next', next_id)
      /\ next[Top.t] \in Ring \ {Top.t}
      /\ Top.t \in Ring \ {cpu} /\ state[Top.t] = "DEAD" /\ Top.save_next = next[Top.t]
  BY UnlinkList, Zenon
<1>6. Ring' = Ring \ {Top.t}
  <2>1. next_id \in Nat /\ next_id <= MaxTasks + 1
    BY TaskConstants DEF IInv, TypeOK
  <2>2. {Walk(next', Boot)[n] : n \in 0 .. MaxTasks} = Ring \ {Top.t}
    BY <1>5, <2>1, RingIs
  <2> QED
    BY <1>5, <2>2, Zenon DEF Ring
<1>7. \A t \in Task : Alive(t)' = Alive(t)
  BY <1>1 DEF Alive
<1>8. TypeOK'
  <2>1. task_list' \in Task
    BY <1>5, TaskConstants DEF Task, Boot
  <2> QED
    BY <1>1, <1>4, <1>5, <2>1, Zenon DEF IInv, TypeOK
<1>9. Boot \in Task
  BY TaskConstants DEF Task, Boot
<1>10. Listed'
  <2>1. \A t \in Task : Alive(t) => t # Top.t
    BY <1>5 DEF Alive
  <2> QED
    BY <1>1, <1>5, <1>6, <1>7, <1>9, <2>1 DEF IInv, Listed
<1>11. cpu = current_task
  BY <1>2, SMTT(30) DEF IInv, Executing, Leaving
<1>12. Executing'
  BY <1>1, <1>2, <1>3, <1>4, <1>5, <1>6, <1>11 DEF IInv, Executing, Leaving, Choosing
<1>13. Stacked'
  BY <1>1, <1>2, <1>3, <1>4, <1>7, StackedStep, SMTT(30) DEF InSchedule
<1>14. Locals'
  BY <1>1, <1>3, <1>4, <1>5, <1>6 DEF Locals, Choosing
<1>15. Fair'
  BY <1>1, FairSame
<1> QED
  BY <1>8, <1>10, <1>12, <1>13, <1>14, <1>15 DEF IInv

\* The stack freed belongs to a dead task that is no longer in the list.
LEMMA DestroyStackStep == IInv /\ task_destroy_stack => IInv'
<1> SUFFICES ASSUME IInv, task_destroy_stack PROVE IInv'
  OBVIOUS
<1> DEFINE f == [Top EXCEPT !.pc = "free_tcb"]
<1>1. /\ At("free_stack") /\ stacks' = stacks \ {Top.t}
      /\ stack' = [s \in Task |-> IF s = cpu THEN [stack[s] EXCEPT ![Len(stack[s])] = f]
                                  ELSE IF s = Top.t THEN <<>> ELSE stack[s]]
      /\ UNCHANGED <<task_list, current_task, next_id, state, next, rsp, tcbs, cpu, ints,
                     tick_count, waited>>
  BY Zenon DEF task_destroy_stack
<1>2. Top.pc = "free_stack" /\ Top \in Frame /\ cpu \in Task
  BY <1>1, TopFacts DEF At
<1>3. /\ f \in Frame /\ f.irq = Top.irq /\ f.pc = "free_tcb" /\ f.t = Top.t
      /\ f.save_next = Top.save_next
  BY <1>2 DEF Frame, PCs
<1> HIDE DEF f
<1>4. Top.t \notin Ring /\ state[Top.t] = "DEAD" /\ Top.save_next \in Ring
  BY <1>2 DEF IInv, Locals
<1>5. Top.t # cpu
  BY <1>4 DEF IInv, Executing
<1> DEFINE q == [stack[cpu] EXCEPT ![Len(stack[cpu])] = f]
<1>6. q \in Seq(Frame) /\ Len(q) = Len(stack[cpu]) /\ q[Len(stack[cpu])] = f
  BY <1>3, TopFacts, SetLast
<1>7. stack'[cpu] = q /\ \A t \in Task : t # cpu /\ t # Top.t => stack'[t] = stack[t]
  BY <1>1, <1>2, Zenon
<1>8. stack' \in [Task -> Seq(Frame)]
  <2> HIDE DEF q
  <2>1. stack' = [s \in Task |-> IF s = cpu THEN q ELSE IF s = Top.t THEN <<>> ELSE stack[s]]
    BY <1>1, Zenon DEF q
  <2>2. stack \in [Task -> Seq(Frame)]
    BY DEF IInv, TypeOK
  <2> QED
    BY <1>6, <2>1, <2>2
<1>9. Top' = f
  <2> HIDE DEF q
  <2> QED
    BY <1>1, <1>6, <1>7 DEF Top, Innermost
<1>10. Ring' = Ring
  BY <1>1, RingSame
<1>11. \A t \in Task : Alive(t)' = Alive(t)
  BY <1>1 DEF Alive
<1>12. TypeOK'
  BY <1>1, <1>8 DEF IInv, TypeOK
<1>13. Listed'
  BY <1>1, <1>4, <1>10, <1>11, TaskConstants DEF IInv, Listed, Task, Boot
<1>14. Executing'
  BY <1>1, <1>2, <1>3, <1>9, <1>10 DEF IInv, Executing, Leaving, Choosing
<1>15. Stacked'
  <2>1. \A t \in Task : Alive(t)' => t # Top.t
    BY <1>4, <1>11 DEF Alive
  <2>2. stack'[cpu] = [stack[cpu] EXCEPT ![Len(stack[cpu])] = f]
    BY <1>7, SMTT(30)
  <2> QED
    BY <1>1, <1>2, <1>3, <1>7, <1>9, <1>11, <2>1, <2>2, StackedStep DEF InSchedule
<1>16. Locals'
  BY <1>1, <1>3, <1>4, <1>9, <1>10 DEF Locals, Choosing
<1>17. Fair'
  BY <1>1, FairSame
<1> QED
  BY <1>12, <1>13, <1>14, <1>15, <1>16, <1>17 DEF IInv

\* So does the TCB; the saved next task is still in the list.
LEMMA DestroyTcbStep == IInv /\ task_destroy_tcb => IInv'
<1> SUFFICES ASSUME IInv, task_destroy_tcb PROVE IInv'
  OBVIOUS
<1> DEFINE f == [Top EXCEPT !.pc = "reap", !.t = Top.save_next, !.save_next = Boot]
<1>1. /\ At("free_tcb") /\ tcbs' = tcbs \ {Top.t}
      /\ state' = [state EXCEPT ![Top.t] = "NONE"] /\ SetTop(f)
      /\ UNCHANGED <<task_list, current_task, next_id, next, rsp, stacks, cpu, ints,
                     tick_count, waited>>
  BY Zenon DEF task_destroy_tcb
<1>2. Top.pc = "free_tcb" /\ Top \in Frame /\ cpu \in Task /\ Boot \in Task
  BY <1>1, TopFacts, TaskConstants DEF At, Task, Boot
<1>3. /\ f \in Frame /\ f.irq = Top.irq /\ f.pc = "reap" /\ f.t = Top.save_next
  BY <1>2, ZenonT(30) DEF Frame, PCs
<1> HIDE DEF f
<1>4. Top.t \notin Ring /\ state[Top.t] = "DEAD" /\ Top.save_next \in Ring /\ Top.t \in Task
  BY <1>2 DEF IInv, Locals, Frame
<1>5. Top.t # cpu
  BY <1>4 DEF IInv, Executing
<1>6. /\ stack' \in [Task -> Seq(Frame)] /\ Top' = f
      /\ stack'[cpu] = [stack[cpu] EXCEPT ![Len(stack[cpu])] = f]
      /\ \A t \in Task : t # cpu => stack'[t] = stack[t]
  BY <1>1, <1>3, NewTop
<1>7. Ring' = Ring
  BY <1>1, RingSame
<1>8. /\ state' \in [Task -> {"NONE", "READY", "RUNNING", "DEAD"}] /\ state'[Top.t] = "NONE"
      /\ \A t \in Task : t # Top.t => state'[t] = state[t]
  BY <1>1, <1>4 DEF IInv, TypeOK
<1>9. \A t \in Task : Alive(t)' = Alive(t)
  BY <1>4, <1>8 DEF Alive
<1>10. TypeOK'
  BY <1>1, <1>6, <1>8, SMTT(30) DEF IInv, TypeOK
<1>11. Listed'
  BY <1>1, <1>2, <1>4, <1>7, <1>8, <1>9 DEF IInv, Listed
<1>12. Executing'
  BY <1>1, <1>2, <1>3, <1>5, <1>6, <1>7, <1>8, SMTT(30) DEF IInv, Executing, Leaving, Choosing
<1>13. Stacked'
  BY <1>1, <1>2, <1>3, <1>5, <1>6, <1>8, <1>9, StackedStep, SMTT(30) DEF InSchedule
<1>14. Locals'
  BY <1>1, <1>3, <1>4, <1>6, <1>7 DEF Locals, Choosing
<1>15. Fair'
  BY <1>1, FairSame
<1> QED
  BY <1>10, <1>11, <1>12, <1>13, <1>14, <1>15 DEF IInv

\* A dead task always finds another to switch to: the boot task, at least.
LEMMA StaysAlive ==
    ASSUME IInv, At("find"), Stays(NextReady)
    PROVE  state[cpu] = "RUNNING"
<1>1. cpu = current_task /\ state[cpu] # "READY" /\ cpu \in Ring /\ cpu \in Task
  BY TopFacts DEF At, IInv, Executing, Leaving, Choosing
<1>2. state[cpu] \in {"RUNNING", "DEAD"}
  BY <1>1 DEF IInv, TypeOK, Listed
<1>3. ASSUME state[cpu] = "DEAD" PROVE FALSE
  <2>1. Boot \in Ring /\ Boot \in Task /\ Alive(Boot)
    BY TaskConstants DEF IInv, Listed, Sorted, Task, Boot
  <2>2. state[Boot] = "READY"
    <3>1. state[Boot] # "RUNNING"
      BY <1>1, <1>3, <2>1 DEF IInv, Executing
    <3> QED
      BY <2>1, <3>1 DEF Alive
  <2>3. state[NextReady] = "READY"
    <3>1. TypeOK /\ Listed /\ current_task \in Ring
      BY <1>1 DEF IInv
    <3> QED
      BY <2>1, <2>2, <3>1, NextReadyFirst
  <2> QED
    BY <1>1, <1>3, <2>3 DEF Stays
<1> QED
  BY <1>2, <1>3

\* The search finds the READY task that is first ahead, and always finds one when
\* the task that executes is dead.
LEMMA FindStep == IInv /\ schedule_find => IInv'
<1> SUFFICES ASSUME IInv, schedule_find PROVE IInv'
  OBVIOUS
<1>1. /\ At("find")
      /\ UNCHANGED <<tcbVars, current_task, rsp, cpu, ints, tick_count, waited>>
  BY Zenon DEF schedule_find
<1>2. Top.pc = "find" /\ Top \in Frame /\ cpu \in Task
  BY <1>1, TopFacts DEF At
<1>3. cpu = current_task /\ state[cpu] # "READY"
  BY <1>2 DEF IInv, Executing, Leaving, Choosing
<1>4. Ring' = Ring
  BY <1>1, RingSame DEF tcbVars
<1>5. Fair'
  BY <1>1, FairSame DEF tcbVars
<1>6. CASE Stays(NextReady)
  <2> DEFINE f == [Top EXCEPT !.pc = "ret"]
  <2>1. SetTop(f) /\ UNCHANGED state
    BY <1>6 DEF schedule_find, Goto
  <2>2. f \in Frame /\ f.irq = Top.irq /\ f.pc = "ret"
    BY <1>2 DEF Frame, PCs
  <2> HIDE DEF f
  <2>3. /\ stack' \in [Task -> Seq(Frame)] /\ Top' = f
        /\ stack'[cpu] = [stack[cpu] EXCEPT ![Len(stack[cpu])] = f]
        /\ \A t \in Task : t # cpu => stack'[t] = stack[t]
    BY <1>1, <2>1, <2>2, NewTop
  <2>4. state[cpu] = "RUNNING"
    BY <1>1, <1>6, StaysAlive
  <2>5. TypeOK'
    BY <1>1, <2>1, <2>3, Zenon DEF IInv, TypeOK, tcbVars
  <2>6. Listed'
    BY <1>1, <2>1, ListedSame
  <2>7. Executing'
    BY <1>1, <1>3, <1>4, <2>1, <2>2, <2>3 DEF IInv, Executing, Leaving, Choosing
  <2>8. Stacked'
    <3>1. \A t \in Task : Alive(t)' = Alive(t)
      BY <2>1 DEF Alive
    <3>2. Top.pc \in InSchedule
      BY <1>2 DEF InSchedule
    <3> QED
      BY <1>1, <2>1, <2>2, <2>3, <2>4, <3>1, <3>2, StackedStep
  <2>9. Locals'
    BY <2>2, <2>3 DEF Locals, Choosing
  <2> QED
    BY <1>5, <2>5, <2>6, <2>7, <2>8, <2>9 DEF IInv
<1>7. CASE ~Stays(NextReady)
  <2> DEFINE n == NextReady
             f == [Top EXCEPT !.pc = "set_current", !.next = n, !.prev = current_task]
  <2>1. /\ SetTop(f)
        /\ state' = [state EXCEPT ![current_task] = IF @ = "RUNNING" THEN "READY" ELSE @]
    BY <1>7, Zenon DEF schedule_find
  <2>2. n \in Ring /\ n # cpu /\ state[n] = "READY"
    <3>1. TypeOK /\ Listed /\ current_task \in Ring
      BY DEF IInv, Executing
    <3> QED
      BY <1>3, <1>7, <3>1, NextReadyFirst DEF Stays
  <2>3. \A u \in Ring : u # cpu /\ state[u] = "READY" =>
            Ahead(next_id, cpu, n) <= Ahead(next_id, cpu, u)
    <3>1. TypeOK /\ Listed /\ current_task \in Ring
      BY DEF IInv, Executing
    <3> QED
      BY <1>3, <2>2, <3>1, NextReadyFirst
  <2> HIDE DEF n
  <2>4. \A u \in Ring : u \in Task
    BY TaskConstants DEF IInv, TypeOK, Listed, Sorted, Task
  <2>5. /\ f \in Frame /\ f.irq = Top.irq /\ f.pc = "set_current" /\ f.next = n
        /\ f.prev = cpu
    BY <1>2, <1>3, <2>2, <2>4, ZenonT(30) DEF Frame, PCs
  <2> HIDE DEF f
  <2>6. /\ stack' \in [Task -> Seq(Frame)] /\ Top' = f
        /\ stack'[cpu] = [stack[cpu] EXCEPT ![Len(stack[cpu])] = f]
        /\ \A t \in Task : t # cpu => stack'[t] = stack[t]
    BY <1>1, <2>1, <2>5, NewTop
  <2>7. /\ state' \in [Task -> {"NONE", "READY", "RUNNING", "DEAD"}]
        /\ state'[cpu] = IF state[cpu] = "RUNNING" THEN "READY" ELSE state[cpu]
        /\ \A t \in Task : t # cpu => state'[t] = state[t]
    BY <1>2, <1>3, <2>1 DEF IInv, TypeOK
  <2>8. \A t \in Task : Alive(t)' = Alive(t)
    BY <2>7 DEF Alive
  <2>9. TypeOK'
    BY <1>1, <2>6, <2>7, Zenon DEF IInv, TypeOK, tcbVars
  <2>10. Listed'
    <3>1. Boot \in Task
      BY TaskConstants DEF Task, Boot
    <3>2. \A t \in Task : t \in Ring => state'[t] # "NONE"
      BY <2>7 DEF IInv, Listed
    <3> QED
      BY <1>1, <1>4, <2>8, <3>1, <3>2 DEF IInv, Listed, tcbVars
  <2>11. Executing'
    BY <1>1, <1>2, <1>3, <1>4, <2>5, <2>6, <2>7, ZenonT(30) DEF IInv, Executing, Leaving, Choosing
  <2>12. Stacked'
    <3>1. Top.pc \in InSchedule /\ f.pc \in InSchedule
      BY <1>2, <2>5 DEF InSchedule
    <3>2. state'[cpu] = "DEAD" <=> state[cpu] = "DEAD"
      BY <2>7
    <3> QED
      BY <1>1, <2>5, <2>6, <2>8, <3>1, <3>2, StackedStep
  <2>13. Locals'
    <3>1. \A u \in Ring : u # cpu => state'[u] = state[u]
      BY <2>4, <2>7
    <3> QED
      BY <1>1, <1>4, <2>2, <2>3, <2>5, <2>6, <3>1 DEF Locals, Choosing, tcbVars
  <2> QED
    BY <1>5, <2>9, <2>10, <2>11, <2>12, <2>13 DEF IInv
<1> QED
  BY <1>6, <1>7

\* current_task is ahead of the CPU from here to switch_to.
LEMMA CurrentStep == IInv /\ schedule_current => IInv'
<1> SUFFICES ASSUME IInv, schedule_current PROVE IInv'
  OBVIOUS
<1> DEFINE f == [Top EXCEPT !.pc = "set_running"]
<1>1. /\ At("set_current") /\ SetTop(f) /\ current_task' = Top.next
      /\ UNCHANGED <<tcbVars, state, rsp, cpu, ints, tick_count, waited>>
  BY DEF schedule_current, Goto
<1>2. Top.pc = "set_current" /\ Top \in Frame /\ cpu \in Task
  BY <1>1, TopFacts DEF At
<1>3. /\ f \in Frame /\ f.irq = Top.irq /\ f.pc = "set_running" /\ f.next = Top.next
      /\ f.prev = Top.prev /\ Top.next \in Task
  BY <1>2, SMTT(30) DEF Frame, PCs
<1> HIDE DEF f
<1>4. /\ stack' \in [Task -> Seq(Frame)] /\ Top' = f
      /\ stack'[cpu] = [stack[cpu] EXCEPT ![Len(stack[cpu])] = f]
      /\ \A t \in Task : t # cpu => stack'[t] = stack[t]
  BY <1>1, <1>3, NewTop
<1>5. TypeOK'
  BY <1>1, <1>3, <1>4, Zenon DEF IInv, TypeOK, tcbVars
<1>6. Listed' /\ Ring' = Ring
  BY <1>1, ListedSame, SMTT(30)
<1>7. /\ Top.prev = cpu /\ Top.next \in Ring \ {cpu} /\ state[Top.next] = "READY"
      /\ \A u \in Ring : u # cpu /\ state[u] = "READY" =>
             Ahead(next_id, cpu, Top.next) <= Ahead(next_id, cpu, u)
  BY <1>2 DEF IInv, Locals, Choosing
<1>8. cpu = current_task /\ state[cpu] # "RUNNING"
  BY <1>2 DEF IInv, Executing, Leaving, Choosing
<1>9. Executing'
  <2>1. \A t \in Task : state[t] # "RUNNING"
    BY <1>8 DEF IInv, Executing
  <2> QED
    BY <1>1, <1>3, <1>4, <1>6, <1>7, <1>8, <2>1 DEF IInv, Executing, Leaving, Choosing
<1>10. Stacked'
  <2>1. \A t \in Task : Alive(t)' = Alive(t)
    BY <1>1 DEF Alive
  <2>2. Top.pc \in InSchedule /\ f.pc \in InSchedule
    BY <1>2, <1>3, SMTT(30) DEF InSchedule
  <2> QED
    BY <1>1, <1>3, <1>4, <2>1, <2>2, StackedStep
<1>11. Locals'
  BY <1>1, <1>3, <1>4, <1>6, <1>7 DEF Locals, Choosing, tcbVars
<1>12. Fair'
  BY <1>1, FairSame DEF tcbVars
<1> QED
  BY <1>5, <1>6, <1>9, <1>10, <1>11, <1>12 DEF IInv

\* The task chosen becomes RUNNING; no other one is.
LEMMA RunningStep == IInv /\ schedule_running => IInv'
<1> SUFFICES ASSUME IInv, schedule_running PROVE IInv'
  OBVIOUS
<1> DEFINE f == [Top EXCEPT !.pc = "switch"]
<1>1. /\ At("set_running") /\ SetTop(f) /\ state' = [state EXCEPT ![Top.next] = "RUNNING"]
      /\ UNCHANGED <<tcbVars, current_task, rsp, cpu, ints, tick_count, waited>>
  BY DEF schedule_running, Goto
<1>2. Top.pc = "set_running" /\ Top \in Frame /\ cpu \in Task
  BY <1>1, TopFacts DEF At
<1>3. /\ f \in Frame /\ f.irq = Top.irq /\ f.pc = "switch" /\ f.next = Top.next
      /\ f.prev = Top.prev /\ Top.next \in Task
  BY <1>2 DEF Frame, PCs
<1> HIDE DEF f
<1>4. /\ stack' \in [Task -> Seq(Frame)] /\ Top' = f
      /\ stack'[cpu] = [stack[cpu] EXCEPT ![Len(stack[cpu])] = f]
      /\ \A t \in Task : t # cpu => stack'[t] = stack[t]
  BY <1>1, <1>3, NewTop
<1>5. /\ state' \in [Task -> {"NONE", "READY", "RUNNING", "DEAD"}]
      /\ state'[Top.next] = "RUNNING" /\ \A t \in Task : t # Top.next => state'[t] = state[t]
  BY <1>1, <1>3 DEF IInv, TypeOK
<1>6. Ring' = Ring
  BY <1>1, RingSame DEF tcbVars
<1>7. /\ Top.prev = cpu /\ Top.next \in Ring \ {cpu} /\ state[Top.next] = "READY"
      /\ \A u \in Ring : u # cpu /\ state[u] = "READY" =>
             Ahead(next_id, cpu, Top.next) <= Ahead(next_id, cpu, u)
  BY <1>2 DEF IInv, Locals, Choosing
<1>8. cpu = Top.prev /\ current_task = Top.next /\ state[cpu] # "RUNNING"
  BY <1>2 DEF IInv, Executing, Leaving, Choosing
<1>9. \A t \in Task : Alive(t)' = Alive(t)
  BY <1>5, <1>7 DEF Alive
<1>10. TypeOK'
  BY <1>1, <1>4, <1>5, Zenon DEF IInv, TypeOK, tcbVars
<1>11. Listed'
  <2>1. Boot \in Task
    BY TaskConstants DEF Task, Boot
  <2>2. \A t \in Task : t \in Ring => state'[t] # "NONE"
    BY <1>5, SMTT(30) DEF IInv, Listed
  <2> QED
    BY <1>1, <1>6, <1>9, <2>1, <2>2 DEF IInv, Listed, tcbVars
<1>12. Executing'
  <2>1. \A t \in Task : state'[t] = "RUNNING" => t = current_task
    BY <1>5, <1>8 DEF IInv, Executing
  <2>2. state'[cpu] = state[cpu]
    BY <1>2, <1>5, <1>7
  <2> QED
    BY <1>1, <1>3, <1>4, <1>6, <1>8, <2>1, <2>2, SMTT(30) DEF IInv, Executing, Leaving, Choosing
<1>13. Stacked'
  <2>1. Top.pc \in InSchedule /\ f.pc \in InSchedule
    BY <1>2, <1>3, SMTT(30) DEF InSchedule
  <2>2. state'[cpu] = state[cpu]
    BY <1>2, <1>5, <1>7
  <2> QED
    BY <1>1, <1>3, <1>4, <1>9, <2>1, <2>2, StackedStep
<1>14. Locals'
  <2>1. \A u \in Ring : state'[u] = "READY" => state[u] = "READY"
    <3>1. \A u \in Ring : u \in Task
      BY TaskConstants DEF IInv, TypeOK, Listed, Sorted, Task
    <3> QED
      BY <1>5, <3>1
  <2> QED
    BY <1>1, <1>3, <1>4, <1>5, <1>6, <1>7, <2>1 DEF Locals, Choosing, tcbVars
<1>15. Fair'
  BY <1>1, FairSame DEF tcbVars
<1> QED
  BY <1>10, <1>11, <1>12, <1>13, <1>14, <1>15 DEF IInv

\* From c to n without passing t, one gets further ahead of t.
LEMMA AheadOf ==
    ASSUME NEW N \in Nat, NEW t \in 0 .. N - 1, NEW c \in 0 .. N - 1, NEW n \in 0 .. N - 1,
           t # c, t # n, c # n, Ahead(N, c, n) <= Ahead(N, c, t)
    PROVE  Ahead(N, t, c) + 1 <= Ahead(N, t, n)
BY DEF Ahead

\* Another task is at least 1 and less than N ids ahead.
LEMMA AheadPositive ==
    ASSUME NEW N \in Nat, NEW a \in 0 .. N - 1, NEW b \in 0 .. N - 1, a # b
    PROVE  Ahead(N, a, b) \in 1 .. N - 1
BY DEF Ahead

\* The task switched to was suspended by switch_to or is fresh, and no READY task
\* was passed over more often than there are tasks between it and the new one.
LEMMA SwitchStep == IInv /\ switch_to => IInv'
<1> SUFFICES ASSUME IInv, switch_to PROVE IInv'
  OBVIOUS
<1> DEFINE f == Activation("ret", Top.irq)  n == Top.next
<1>1. /\ At("switch") /\ SetTop(f)
      /\ rsp' = [rsp EXCEPT ![Top.prev] = cpu] /\ cpu' = rsp[n]
      /\ waited' = [t \in Task |-> IF state[t] = "READY" /\ t # Top.prev
                                   THEN waited[t] + 1 ELSE 0]
      /\ UNCHANGED <<tcbVars, current_task, state, ints, tick_count>>
  BY Zenon DEF switch_to
<1>2. Top.pc = "switch" /\ Top \in Frame /\ cpu \in Task /\ Boot \in Task
  BY <1>1, TopFacts, TaskConstants DEF At, Task, Boot
<1>3. f \in Frame /\ f.irq = Top.irq /\ f.pc = "ret" /\ n \in Task
  BY <1>2, SMTT(30) DEF Frame, PCs, Activation
<1>4. /\ Top.prev = cpu /\ n \in Ring \ {cpu} /\ state[n] = "RUNNING"
      /\ \A u \in Ring : u # cpu /\ state[u] = "READY" =>
             Ahead(next_id, cpu, n) <= Ahead(next_id, cpu, u)
  BY <1>2 DEF IInv, Locals, Choosing
<1>5. current_task = n
  BY <1>2 DEF IInv, Executing, Leaving
<1> HIDE DEF f, n
<1>6. /\ stack' \in [Task -> Seq(Frame)]
      /\ \A t \in Task : t # cpu => stack'[t] = stack[t]
      /\ Len(stack'[cpu]) = Len(stack[cpu]) /\ stack'[cpu][Len(stack[cpu])] = f
      /\ \A i \in 1 .. Len(stack[cpu]) - 1 : stack'[cpu][i] = stack[cpu][i]
  BY <1>1, <1>3, NewStack, ZenonT(30)
<1>7. Listed' /\ Ring' = Ring
  BY <1>1, ListedSame
<1>8. cpu' = n /\ rsp' = rsp
  BY <1>1, <1>2, <1>3, <1>4, SMTT(30) DEF IInv, Executing, TypeOK
<1>9. \A t \in Task : Alive(t)' = Alive(t)
  BY <1>1 DEF Alive
<1>10. Alive(n) /\ Sound(n)
  BY <1>3, <1>4 DEF Alive, IInv, Stacked
<1>11. Top' = Innermost(n) /\ Top'.pc \in {"fresh", "ret"}
  <2>1. Top' = Innermost(n)
    BY <1>3, <1>4, <1>6, <1>8 DEF Top, Innermost
  <2>2. Innermost(n).pc \in {"fresh", "ret"}
    BY <1>4, <1>10, SMTT(30) DEF Sound
  <2> QED
    BY <2>1, <2>2
<1>12. TypeOK'
  <2>1. waited \in [Task -> Nat]
    BY Zenon DEF IInv, TypeOK
  <2>2. waited' \in [Task -> Nat]
    BY <1>1, <2>1
  <2> QED
    BY <1>1, <1>3, <1>6, <1>8, <2>2, ZenonT(30) DEF IInv, TypeOK, tcbVars
<1>13. Executing'
  BY <1>1, <1>4, <1>5, <1>7, <1>8, <1>11, SMTT(30) DEF IInv, Executing, Leaving, Choosing
<1>14. Stacked'
  <2>1. ASSUME NEW t \in Task, Alive(t) PROVE Sound(t)'
    <3>1. Sound(t)
      BY <2>1, SMTT(30) DEF IInv, Stacked
    <3>2. CASE t = cpu
      <4> DEFINE k == Len(stack[cpu])
      <4>1. Top.irq
        BY <1>2, <2>1, <3>2 DEF IInv, Stacked, InSchedule, Alive
      <4>2. k \in Nat /\ k > 1
        <5>1. k = 1 => Top.pc \in {"fresh", "run"}
          BY <3>1, <3>2, TopFacts DEF Sound
        <5>2. k # 1
          BY <1>2, <5>1
        <5>3. k \in Nat \ {0}
          BY TopFacts, Zenon
        <5> HIDE DEF k
        <5> QED
          BY <5>2, <5>3
      <4>3. stack'[t] # <<>> /\ stack'[t][1] = stack[t][1] /\ Len(stack'[t]) = Len(stack[t])
        BY <1>6, <3>2, <4>2
      <4>4. Innermost(t)' = f
        BY <1>6, <3>2 DEF Innermost
      <4>5. \A i \in 2 .. Len(stack'[t]) - 1 : stack'[t][i].pc = "ret" /\ stack'[t][i].irq
        BY <1>6, <3>1, <3>2 DEF Sound
      <4> QED
        BY <1>3, <3>1, <4>1, <4>3, <4>4, <4>5, ZenonT(30) DEF Sound
    <3>3. CASE t # cpu
      BY <1>6, <2>1, <3>3, SoundSame, SMTT(30)
    <3> QED
      BY <3>2, <3>3
  <2>2. stack'[cpu'] # <<>>
    BY <1>3, <1>4, <1>6, <1>8, <1>10, SMTT(30) DEF Sound
  <2>3. state'[cpu'] # "DEAD" /\ Top'.pc \notin InSchedule
    BY <1>1, <1>4, <1>8, <1>11, SMTT(30) DEF InSchedule
  <2> QED
    BY <1>9, <2>1, <2>2, <2>3 DEF Stacked
<1>15. Locals'
  BY <1>11 DEF Locals, Choosing
<1>16. Fair'
  <2>1. next_id \in Nat /\ next_id' = next_id /\ Ring \subseteq 0 .. next_id - 1 /\ cpu \in Ring
    BY <1>1, TopFacts DEF IInv, Listed, Sorted, Executing, tcbVars
  <2>2. cpu \in 0 .. next_id - 1 /\ n \in 0 .. next_id - 1
    BY <1>4, <2>1
  <2> SUFFICES ASSUME NEW t \in Task
               PROVE  IF t < next_id /\ t # n THEN waited'[t] + 1 <= Ahead(next_id, t, n)
                                              ELSE waited'[t] = 0
    BY <1>8, <2>1 DEF Fair
  <2>3. t \in Nat /\ waited[t] \in Nat
    BY SMTT(30) DEF IInv, TypeOK, Task
  <2>4. waited'[t] = IF state[t] = "READY" /\ t # cpu THEN waited[t] + 1 ELSE 0
    BY <1>1, <1>4
  <2>5. CASE state[t] = "READY" /\ t # cpu
    <3>1. t \in Ring /\ t # n
      BY <1>4, <2>5 DEF IInv, Listed, Alive
    <3>2. t \in 0 .. next_id - 1 /\ Ahead(next_id, cpu, n) <= Ahead(next_id, cpu, t)
      BY <1>4, <2>1, <2>5, <3>1
    <3>3. waited[t] + 1 <= Ahead(next_id, t, cpu)
      <4>1. t < next_id
        BY <2>1, <3>2
      <4>2. Fair
        BY DEF IInv
      <4> QED
        BY <2>5, <4>1, <4>2 DEF Fair
    <3>4. Ahead(next_id, t, cpu) + 1 <= Ahead(next_id, t, n)
      BY <1>4, <2>1, <2>2, <2>5, <3>1, <3>2, AheadOf
    <3>5. Ahead(next_id, t, cpu) \in Int /\ Ahead(next_id, t, n) \in Int
      BY <2>1, <2>2, <2>3 DEF Ahead
    <3>6. waited'[t] + 1 <= Ahead(next_id, t, n)
      BY <2>3, <2>4, <2>5, <3>3, <3>4, <3>5
    <3>7. t < next_id
      BY <3>2, <2>1
    <3> QED
      BY <3>1, <3>6, <3>7
  <2>6. CASE ~(state[t] = "READY" /\ t # cpu)
    <3>1. waited'[t] = 0
      BY <2>4, <2>6
    <3>2. t < next_id /\ t # n => Ahead(next_id, t, n) \in 1 .. next_id - 1
      BY <2>1, <2>2, <2>3, AheadPositive
    <3> QED
      BY <3>1, <3>2
  <2> QED
    BY <2>5, <2>6, SMTT(30)
<1> QED
  BY <1>7, <1>12, <1>13, <1>14, <1>15, <1>16 DEF IInv

\* schedule() returns only to a handler, over an activation that can go on.
LEMMA ReturnStep == IInv /\ schedule_return => IInv'
<1> SUFFICES ASSUME IInv, schedule_return PROVE IInv'
  OBVIOUS
<1> DEFINE k == Len(stack[cpu])
<1>1. /\ At("ret") /\ stack' = [stack EXCEPT ![cpu] = SubSeq(@, 1, Len(@) - 1)]
      /\ UNCHANGED <<tcbVars, current_task, state, rsp, cpu, tick_count, waited>>
      /\ ints' = (ints \/ Top.irq)
  BY Zenon DEF schedule_return
<1>2. Top.pc = "ret" /\ Top \in Frame /\ cpu \in Task /\ stack[cpu] \in Seq(Frame)
  BY <1>1, TopFacts DEF At
<1>3. cpu = current_task /\ state[cpu] # "READY" /\ cpu \in Ring
  BY <1>2 DEF IInv, Executing, Leaving, Choosing
<1>4. state[cpu] = "RUNNING" /\ Alive(cpu) /\ Sound(cpu)
  <2>1. state[cpu] # "DEAD"
    BY <1>2 DEF IInv, Stacked, InSchedule
  <2>2. state[cpu] = "RUNNING"
    BY <1>2, <1>3, <2>1 DEF IInv, TypeOK, Listed
  <2> QED
    BY <1>2, <2>2 DEF IInv, Stacked, Alive
<1>5. k \in Nat /\ k > 1
  <2>1. k = 1 => Top.pc \in {"fresh", "run"}
    BY <1>4, TopFacts DEF Sound
  <2>2. k # 1
    BY <1>2, <2>1
  <2>3. k \in Nat \ {0}
    BY TopFacts, Zenon
  <2> HIDE DEF k
  <2> QED
    BY <2>2, <2>3, SMTT(30)
<1> DEFINE q == SubSeq(stack[cpu], 1, Len(stack[cpu]) - 1)
<1>6. /\ q \in Seq(Frame) /\ Len(q) = k - 1 /\ q # <<>>
      /\ \A i \in 1 .. k - 1 : q[i] = stack[cpu][i]
  <2>1. k = Len(stack[cpu])
    OBVIOUS
  <2> HIDE DEF k
  <2>2. /\ q \in Seq(Frame) /\ Len(q) = k - 1
        /\ \A i \in 1 .. k - 1 : q[i] = stack[cpu][i]
    BY <1>2, <1>5, <2>1, DropLast
  <2>3. k - 1 # 0
    BY <1>5
  <2>4. q # <<>>
    <3> HIDE DEF q
    <3> QED
      BY <2>2, <2>3, NotEmpty, ZenonT(30)
  <2> QED
    BY <2>2, <2>4
<1>7. stack' = [stack EXCEPT ![cpu] = q]
  BY <1>1
<1> HIDE DEF q
<1>8. /\ stack' \in [Task -> Seq(Frame)] /\ stack'[cpu] = q
      /\ \A t \in Task : t # cpu => stack'[t] = stack[t]
  BY <1>2, <1>6, <1>7 DEF IInv, TypeOK
<1>9. Top' = stack[cpu][k - 1]
  BY <1>1, <1>5, <1>6, <1>8 DEF Top, Innermost
<1>10. IF k - 1 = 1 THEN Top'.pc \in {"fresh", "run"} ELSE Top'.pc = "ret" /\ Top'.irq
  <2>1. k - 1 = 1 => Top'.pc \in {"fresh", "run"}
    BY <1>4, <1>5, <1>9, ZenonT(30) DEF Sound
  <2>2. k - 1 # 1 => k - 1 \in 2 .. k - 1
    <3> HIDE DEF k
    <3> QED
      BY <1>5
  <2>3. \A i \in 2 .. k - 1 : stack[cpu][i].pc = "ret" /\ stack[cpu][i].irq
    BY <1>4 DEF Sound
  <2> QED
    BY <1>9, <2>1, <2>2, <2>3
<1>11. TypeOK'
  <2>1. ints' \in BOOLEAN
    BY <1>1, <1>2 DEF IInv, TypeOK, Frame
  <2> QED
    BY <1>1, <1>8, <2>1, Zenon DEF IInv, TypeOK, tcbVars
<1>12. Listed' /\ Ring' = Ring
  BY <1>1, ListedSame
<1>13. Top'.pc \in {"fresh", "run", "ret"}
  BY <1>10
<1>14. Executing'
  BY <1>1, <1>3, <1>12, <1>13, SMTT(30) DEF IInv, Executing, Leaving, Choosing
<1>15. Stacked'
  <2>1. ASSUME NEW t \in Task, Alive(t) PROVE Sound(t)'
    <3>1. CASE t = cpu
      <4>1. Len(stack'[t]) = k - 1 /\ stack'[t] # <<>> /\ stack'[t][1] = stack[t][1]
        BY <1>5, <1>6, <1>8, <3>1
      <4>2. \A i \in 2 .. Len(stack'[t]) - 1 : stack'[t][i].pc = "ret" /\ stack'[t][i].irq
        <5>1. \A i \in 2 .. k - 1 : stack[t][i].pc = "ret" /\ stack[t][i].irq
          BY <1>4, <3>1 DEF Sound
        <5> QED
          BY <1>5, <1>6, <1>8, <3>1, <4>1, <5>1
      <4>3. Innermost(t)' = Top'
        BY <1>1, <3>1 DEF Top
      <4>4. Len(stack'[t]) > 1 => Top'.pc = "ret" /\ Top'.irq
        <5>1. Len(stack'[t]) > 1 => k - 1 # 1
          BY <4>1, LenOne, Zenon
        <5> QED
          BY <1>10, <5>1, Zenon
      <4>5. stack[t][1].pc \in {"fresh", "run"}
        BY <1>4, <3>1 DEF Sound
      <4> QED
        BY <1>1, <3>1, <4>1, <4>2, <4>3, <4>4, <4>5 DEF Sound
    <3>2. CASE t # cpu
      BY <1>8, <2>1, <3>2, SoundSame
    <3> QED
      BY <3>1, <3>2
  <2>2. \A t \in Task : Alive(t)' = Alive(t)
    BY <1>1 DEF Alive
  <2>3. stack'[cpu'] # <<>> /\ state'[cpu'] # "DEAD"
    BY <1>1, <1>4, <1>6, <1>8, ZenonT(30)
  <2>4. Top'.pc \notin InSchedule
    BY <1>13 DEF InSchedule
  <2> QED
    BY <2>1, <2>2, <2>3, <2>4, SMTT(30) DEF Stacked
<1>16. Locals'
  BY <1>13 DEF Locals, Choosing
<1>17. Fair'
  BY <1>1, FairSame DEF tcbVars
<1> QED
  BY <1>11, <1>12, <1>14, <1>15, <1>16, <1>17 DEF IInv

(***************************************************************************)
(* The steps of the tasks and of the timer.                                *)
(***************************************************************************)

\* Outside schedule() the task that executes is on its first activation, or dead.
LEMMA OutsideSchedule ==
    ASSUME IInv, Top.pc \in {"fresh", "run", "exit"}
    PROVE  /\ cpu = current_task /\ cpu \in Ring /\ cpu \in Task
           /\ state[cpu] \in {"RUNNING", "DEAD"}
           /\ Top.pc = "exit" <=> state[cpu] = "DEAD"
           /\ state[cpu] = "RUNNING" => Len(stack[cpu]) = 1
<1>1. cpu = current_task /\ state[cpu] # "READY" /\ cpu \in Ring /\ cpu \in Task
  BY TopFacts DEF IInv, Executing, Leaving, Choosing
<1>2. state[cpu] \in {"RUNNING", "DEAD"}
  BY <1>1, SMTT(30) DEF IInv, TypeOK, Listed
<1>3. state[cpu] = "DEAD" => Top.pc = "exit"
  BY DEF IInv, Stacked, InSchedule
<1>4. ASSUME state[cpu] = "RUNNING" PROVE Len(stack[cpu]) = 1 /\ Top.pc # "exit"
  <2>1. Sound(cpu)
    BY <1>1, <1>4 DEF IInv, Stacked, Alive
  <2>2. Len(stack[cpu]) \in Nat \ {0} /\ ~(Len(stack[cpu]) > 1)
    BY <2>1, TopFacts DEF Sound, InSchedule, Top
  <2>3. Len(stack[cpu]) = 1
    <3> DEFINE k == Len(stack[cpu])
    <3>1. k \in Nat \ {0} /\ ~(k > 1)
      BY <2>2
    <3> HIDE DEF k
    <3>2. k = 1
      BY <3>1
    <3> QED
      BY <3>2 DEF k
  <2> QED
    BY <2>1, <2>3, TopFacts DEF Sound
<1> QED
  BY <1>1, <1>2, <1>3, <1>4

\* A new task enables interrupts outside schedule().
LEMMA TrampolineStep == IInv /\ task_trampoline => IInv'
<1> SUFFICES ASSUME IInv, task_trampoline PROVE IInv'
  OBVIOUS
<1> DEFINE f == [Top EXCEPT !.pc = "run"]
<1>1. /\ At("fresh") /\ SetTop(f) /\ ints' = TRUE
      /\ UNCHANGED <<tcbVars, current_task, state, rsp, cpu, tick_count, waited>>
  BY DEF task_trampoline, Goto, sti
<1>2. Top.pc = "fresh" /\ Top \in Frame
  BY <1>1, TopFacts DEF At
<1>3. cpu = current_task /\ cpu \in Task /\ state[cpu] = "RUNNING" /\ Len(stack[cpu]) = 1
  BY <1>2, OutsideSchedule
<1>4. f \in Frame /\ f.pc = "run"
  BY <1>2 DEF Frame, PCs
<1> HIDE DEF f
<1>5. /\ stack' \in [Task -> Seq(Frame)] /\ Top' = f
      /\ \A t \in Task : t # cpu => stack'[t] = stack[t]
      /\ Len(stack'[cpu]) = 1 /\ stack'[cpu][1] = f /\ stack'[cpu] # <<>>
  BY <1>1, <1>3, <1>4, NewTop, NewStack, ZenonT(30)
<1>6. TypeOK'
  BY <1>1, <1>5, Zenon DEF IInv, TypeOK, tcbVars
<1>7. Listed' /\ Ring' = Ring
  BY <1>1, ListedSame, SMTT(30)
<1>8. Executing'
  BY <1>1, <1>3, <1>4, <1>5, <1>7, SMTT(30) DEF IInv, Executing, Leaving, Choosing
<1>9. Stacked'
  <2>1. ASSUME NEW t \in Task, Alive(t) PROVE Sound(t)'
    <3>1. CASE t = cpu
      <4>1. stack'[t] # <<>> /\ Innermost(t)' = f
        BY <1>3, <1>5, <3>1, ZenonT(30) DEF Innermost
      <4>2. ~(Len(stack'[t]) > 1) /\ \A i : i \notin 2 .. Len(stack'[t]) - 1
        BY <1>5, <3>1, LenOne, Zenon
      <4> QED
        BY <1>1, <1>4, <1>5, <3>1, <4>1, <4>2 DEF Sound
    <3>2. CASE t # cpu
      BY <1>5, <2>1, <3>2, SoundSame
    <3> QED
      BY <3>1, <3>2
  <2>2. \A t \in Task : Alive(t)' = Alive(t)
    BY <1>1 DEF Alive
  <2>3. stack'[cpu'] # <<>> /\ state'[cpu'] # "DEAD"
    BY <1>1, <1>3, <1>5
  <2>4. Top'.pc \notin InSchedule
    BY <1>4, <1>5 DEF InSchedule
  <2> QED
    BY <2>1, <2>2, <2>3, <2>4 DEF Stacked
<1>10. Locals'
  BY <1>4, <1>5 DEF Locals, Choosing
<1>11. Fair'
  BY <1>1, FairSame DEF tcbVars
<1> QED
  BY <1>6, <1>7, <1>8, <1>9, <1>10, <1>11 DEF IInv

\* Only the task that executes dies, and never the boot task.
LEMMA ExitStep == IInv /\ task_exit => IInv'
<1> SUFFICES ASSUME IInv, task_exit PROVE IInv'
  OBVIOUS
<1> DEFINE f == [Top EXCEPT !.pc = "exit"]
<1>1. /\ At("run") /\ SetTop(f) /\ cpu # Boot /\ state' = [state EXCEPT ![current_task] = "DEAD"]
      /\ UNCHANGED <<tcbVars, current_task, rsp, cpu, ints, tick_count, waited>>
  BY DEF task_exit, Goto
<1>2. Top.pc = "run" /\ Top \in Frame
  BY <1>1, TopFacts DEF At
<1>3. /\ cpu = current_task /\ cpu \in Task /\ state[cpu] = "RUNNING" /\ Len(stack[cpu]) = 1
      /\ Boot \in Task
  BY <1>2, OutsideSchedule, TaskConstants DEF Task, Boot
<1>4. f \in Frame /\ f.pc = "exit"
  BY <1>2 DEF Frame, PCs
<1> HIDE DEF f
<1>5. /\ stack' \in [Task -> Seq(Frame)] /\ Top' = f
      /\ \A t \in Task : t # cpu => stack'[t] = stack[t]
      /\ stack'[cpu] # <<>>
  BY <1>1, <1>3, <1>4, NewTop, NewStack, ZenonT(30)
<1>6. /\ state' \in [Task -> {"NONE", "READY", "RUNNING", "DEAD"}] /\ state'[cpu] = "DEAD"
      /\ \A t \in Task : t # cpu => state'[t] = state[t]
  BY <1>1, <1>3 DEF IInv, TypeOK
<1>7. \A t \in Task : Alive(t)' <=> Alive(t) /\ t # cpu
  BY <1>6 DEF Alive
<1>8. TypeOK'
  BY <1>1, <1>5, <1>6, Zenon DEF IInv, TypeOK, tcbVars
<1>9. Ring' = Ring
  BY <1>1, RingSame DEF tcbVars
<1>10. Listed'
  <2>1. \A t \in Task : t \in Ring => state'[t] # "NONE"
    BY <1>6, SMTT(30) DEF IInv, Listed
  <2> QED
    BY <1>1, <1>3, <1>7, <1>9, <2>1 DEF IInv, Listed, tcbVars
<1>11. Executing'
  BY <1>1, <1>3, <1>4, <1>5, <1>6, <1>9, SMTT(30) DEF IInv, Executing, Leaving, Choosing
<1>12. Stacked'
  <2>1. ASSUME NEW t \in Task, Alive(t)' PROVE Sound(t)'
    BY <1>5, <1>7, <2>1, SoundSame
  <2>2. stack'[cpu'] # <<>> /\ Top'.pc \in InSchedule \cup {"exit"}
    BY <1>1, <1>3, <1>4, <1>5
  <2>3. Top'.pc \notin InSchedule
    BY <1>4, <1>5, SMTT(30) DEF InSchedule
  <2> QED
    BY <2>1, <2>2, <2>3, SMTT(30) DEF Stacked
<1>13. Locals'
  BY <1>4, <1>5 DEF Locals, Choosing
<1>14. Fair'
  BY <1>1, FairSame DEF tcbVars
<1> QED
  BY <1>8, <1>10, <1>11, <1>12, <1>13, <1>14 DEF IInv

\* The schedule() of a dead task runs on top of an activation that only halts.
LEMMA ExitScheduleStep == IInv /\ task_exit_schedule => IInv'
<1> SUFFICES ASSUME IInv, task_exit_schedule PROVE IInv'
  OBVIOUS
<1> DEFINE h == Activation("halt", FALSE)  e == Activation("enter", FALSE)
           q == [stack[cpu] EXCEPT ![Len(stack[cpu])] = h]
<1>1. /\ At("exit") /\ stack' = [stack EXCEPT ![cpu] = Append(q, e)]
      /\ UNCHANGED <<tcbVars, current_task, state, rsp, cpu, ints, tick_count, waited>>
  BY Zenon DEF task_exit_schedule
<1>2. Top.pc = "exit" /\ stack[cpu] \in Seq(Frame) /\ stack[cpu] # <<>>
  BY <1>1, TopFacts DEF At
<1>3. cpu = current_task /\ cpu \in Task /\ state[cpu] = "DEAD"
  BY <1>2, OutsideSchedule
<1>4. h \in Frame /\ e \in Frame /\ e.pc = "enter" /\ ~e.irq
  BY TaskConstants DEF Frame, PCs, Activation, Task, Boot
<1> HIDE DEF h, e
<1>5. q \in Seq(Frame)
  BY <1>2, <1>4, SetLast
<1> HIDE DEF q
<1>6. /\ stack' \in [Task -> Seq(Frame)] /\ stack'[cpu] = Append(q, e)
      /\ \A t \in Task : t # cpu => stack'[t] = stack[t]
  BY <1>1, <1>3, <1>4, <1>5 DEF IInv, TypeOK
<1>7. Top' = e /\ stack'[cpu] # <<>>
  BY <1>1, <1>4, <1>5, <1>6 DEF Top, Innermost
<1>8. TypeOK'
  BY <1>1, <1>6, Zenon DEF IInv, TypeOK, tcbVars
<1>9. Listed' /\ Ring' = Ring
  BY <1>1, ListedSame
<1>10. Executing'
  BY <1>1, <1>3, <1>4, <1>7, <1>9, SMTT(30) DEF IInv, Executing, Leaving, Choosing
<1>11. Stacked'
  <2>1. \A t \in Task : Alive(t)' <=> Alive(t)
    BY <1>1 DEF Alive
  <2>2. ~Alive(cpu)
    BY <1>3 DEF Alive
  <2>3. ASSUME NEW t \in Task, Alive(t)' PROVE Sound(t)'
    BY <1>6, <2>1, <2>2, <2>3, SoundSame
  <2>4. Top'.pc \in InSchedule /\ ~Top'.irq /\ state'[cpu'] = "DEAD" /\ stack'[cpu'] # <<>>
    BY <1>1, <1>3, <1>4, <1>7 DEF InSchedule
  <2> QED
    BY <2>3, <2>4 DEF Stacked
<1>12. Locals'
  BY <1>4, <1>7 DEF Locals, Choosing
<1>13. Fair'
  BY <1>1, FairSame DEF tcbVars
<1> QED
  BY <1>8, <1>9, <1>10, <1>11, <1>12, <1>13 DEF IInv

\* A tick that schedules: what it interrupts is a task's own code, the end of an
\* earlier handler, or the schedule() of a dead task.
LEMMA TickStep == IInv /\ ~WindowTicks /\ pit_irq_handler => IInv'
<1> SUFFICES ASSUME IInv, ~WindowTicks, pit_irq_handler PROVE IInv'
  OBVIOUS
<1>1. /\ ints /\ Top.pc \notin Leaving /\ tick_count' = NextTick
      /\ UNCHANGED <<tcbVars, current_task, state, rsp, cpu, waited>>
  BY Zenon DEF pit_irq_handler, Leaving
<1>2. tick_count' \in 0 .. SCHEDULE_INTERVAL - 1
  BY <1>1, TaskConstants DEF IInv, TypeOK, NextTick
<1>3. Listed' /\ Ring' = Ring
  BY <1>1, ListedSame
<1>4. Fair'
  BY <1>1, FairSame DEF tcbVars
<1>5. \A t \in Task : Alive(t)' <=> Alive(t)
  BY <1>1 DEF Alive
<1>6. CASE tick_count' # 0
  <2>1. UNCHANGED <<ints, stack>>
    BY <1>6 DEF pit_irq_handler
  <2>2. Top' = Top /\ \A t : Innermost(t)' = Innermost(t)
    BY <1>1, <2>1 DEF Top, Innermost
  <2>3. TypeOK'
    BY <1>1, <1>2, <2>1, Zenon DEF IInv, TypeOK, tcbVars
  <2>4. Executing'
    BY <1>1, <1>3, <2>2, SMTT(30) DEF IInv, Executing
  <2>5. Stacked'
    <3>1. \A t \in Task : Sound(t)' <=> Sound(t)
      BY <1>1, <2>1, <2>2, SMTT(30) DEF Sound
    <3> QED
      BY <1>1, <1>5, <2>1, <2>2, <3>1, SMTT(30) DEF IInv, Stacked
  <2>6. Locals'
    BY <1>1, <1>3, <2>2 DEF IInv, Locals, tcbVars
  <2> QED
    BY <1>3, <1>4, <2>3, <2>4, <2>5, <2>6 DEF IInv
<1>7. CASE tick_count' = 0
  <2> DEFINE e == Activation("enter", TRUE)  q == stack[cpu]  k == Len(stack[cpu])
  <2>1. ints' = FALSE /\ stack' = [stack EXCEPT ![cpu] = Append(q, e)]
    BY <1>7, Zenon DEF pit_irq_handler, Push
  <2>2. e \in Frame /\ e.pc = "enter" /\ e.irq
    BY TaskConstants DEF Frame, PCs, Activation, Task, Boot
  <2>3. cpu \in Task /\ q \in Seq(Frame) /\ k \in Nat \ {0} /\ Top = q[k]
    BY TopFacts, Zenon
  <2>4. k = Len(q)
    OBVIOUS
  <2> HIDE DEF e, q, k
  <2>5. /\ Append(q, e) \in Seq(Frame) /\ Len(Append(q, e)) = k + 1
        /\ Append(q, e)[k + 1] = e /\ Append(q, e) # <<>>
        /\ \A i \in 1 .. k : Append(q, e)[i] = q[i]
    BY <2>2, <2>3, <2>4, SMTT(30)
  <2>6. /\ stack' \in [Task -> Seq(Frame)] /\ stack'[cpu] = Append(q, e)
        /\ \A t \in Task : t # cpu => stack'[t] = stack[t]
    BY <2>1, <2>3, <2>5 DEF IInv, TypeOK
  <2>7. Top' = e
    BY <1>1, <2>5, <2>6 DEF Top, Innermost
  <2>8. TypeOK'
    <3>1. ints' \in BOOLEAN
      BY <2>1, ZenonT(30)
    <3> QED
      BY <1>1, <1>2, <2>6, <3>1, Zenon DEF IInv, TypeOK, tcbVars
  <2>9. Top.pc \in InSchedule => ~Top.irq /\ state[cpu] = "DEAD"
    BY <1>1 DEF IInv, Stacked
  <2>10. cpu = current_task /\ state[cpu] # "READY"
    <3>1. cpu = current_task
      BY <1>1 DEF IInv, Executing
    <3>2. Top.pc \in Choosing => Top.pc \in InSchedule
      BY DEF Choosing, InSchedule
    <3> QED
      BY <2>9, <3>1, <3>2 DEF IInv, Executing
  <2>11. Executing'
    BY <1>1, <1>3, <2>2, <2>7, <2>10, SMTT(30) DEF IInv, Executing, Leaving, Choosing
  <2>12. Stacked'
    <3>1. ASSUME NEW t \in Task, Alive(t) PROVE Sound(t)'
      <4>1. CASE t = cpu
        <5>1. Sound(t) /\ Len(stack[t]) = k /\ stack[t] = q
          BY <2>4, <3>1, <4>1 DEF IInv, Stacked, q
        <5>2. Top.pc \notin InSchedule
          BY <2>9, <3>1, <4>1 DEF Alive
        <5>3. k > 1 => q[k].pc = "ret" /\ q[k].irq
          BY <2>3, <4>1, <5>1, <5>2 DEF Sound, Top
        <5>4. \A i \in 2 .. k - 1 : q[i].pc = "ret" /\ q[i].irq
          BY <5>1 DEF Sound
        <5>5. \A i \in 2 .. k : q[i].pc = "ret" /\ q[i].irq
          BY <2>3, <5>3, <5>4
        <5>6. \A i \in 2 .. Len(stack'[t]) - 1 : stack'[t][i].pc = "ret" /\ stack'[t][i].irq
          BY <2>3, <2>5, <2>6, <4>1, <5>5, SMTT(30)
        <5>7. stack'[t] # <<>> /\ stack'[t][1].pc \in {"fresh", "run"}
          <6>1. q[1].pc \in {"fresh", "run"}
            BY <5>1 DEF Sound
          <6> QED
            BY <2>3, <2>5, <2>6, <4>1, <6>1
        <5>8. Innermost(t)' = e
          BY <1>1, <2>7, <4>1 DEF Top
        <5>9. e.pc \in InSchedule
          BY <2>2 DEF InSchedule
        <5> QED
          BY <1>1, <2>2, <4>1, <5>6, <5>7, <5>8, <5>9, SMTT(30) DEF Sound
      <4>2. CASE t # cpu
        BY <2>6, <3>1, <4>2, SoundSame
      <4> QED
        BY <4>1, <4>2, SMTT(30)
    <3>2. /\ Top'.pc \in InSchedule /\ Top'.irq /\ ~ints' /\ stack'[cpu'] # <<>>
      BY <1>1, <2>1, <2>2, <2>5, <2>6, <2>7, SMTT(30) DEF InSchedule
    <3> QED
      BY <1>5, <3>1, <3>2 DEF Stacked
  <2>13. Locals'
    BY <2>2, <2>7 DEF Locals, Choosing
  <2> QED
    BY <1>3, <1>4, <2>8, <2>11, <2>12, <2>13 DEF IInv
<1> QED
  BY <1>6, <1>7

\* A new task is READY at the end of the list, on a stack of its own.
LEMMA CreateStep == IInv /\ task_create => IInv'
<1> SUFFICES ASSUME IInv, task_create PROVE IInv'
  OBVIOUS
<1> DEFINE t == next_id  e == Activation("fresh", FALSE)
           p == CHOOSE p \in Ring : next[p] = task_list
<1>1. /\ At("fresh") /\ t <= MaxTasks /\ next_id' = t + 1
      /\ tcbs' = tcbs \cup {t} /\ stacks' = stacks \cup {t}
      /\ state' = [state EXCEPT ![t] = "READY"] /\ rsp' = [rsp EXCEPT ![t] = t]
      /\ stack' = [stack EXCEPT ![t] = <<e>>]
      /\ next' = [next EXCEPT ![p] = t, ![t] = task_list]
      /\ UNCHANGED <<task_list, current_task, cpu, ints, tick_count, waited>>
  BY Zenon DEF task_create
<1>2. t \in Nat /\ 0 < t /\ t \in Task /\ Boot \in Task /\ t # Boot
  BY <1>1, TaskConstants DEF IInv, TypeOK, Task, Boot
<1>3. Top.pc = "fresh" /\ cpu \in Task
  BY <1>1, TopFacts DEF At
<1>4. next \in [Task -> Task] /\ Sorted(Ring, next, t) /\ task_list = Boot /\ Boot \in Ring
  BY SMTT(30) DEF IInv, TypeOK, Listed, Sorted
<1>5. p \in Ring /\ next[p] = Boot
  <2>1. \E u \in Ring : next[u] = Boot
    <3>1. next_id \in Nat /\ next_id <= MaxTasks + 1 /\ Sorted(Ring, next, next_id)
      BY TaskConstants DEF IInv, TypeOK, Listed
    <3> QED
      BY <1>4, <3>1, Predecessor
  <2> QED
    BY <1>4, <2>1, Zenon
<1>6. e \in Frame /\ e.pc = "fresh"
  BY TaskConstants DEF Frame, PCs, Activation, Task, Boot
<1> HIDE DEF t, e, p
<1>7. Sorted(Ring \cup {t}, next', t + 1)
  BY <1>1, <1>2, <1>4, <1>5, SortedAppend, ZenonT(30)
<1>8. Ring' = Ring \cup {t}
  <2> DEFINE N == t + 1  R == Ring \cup {t}
  <2>1. N \in Nat /\ N <= MaxTasks + 1 /\ Sorted(R, next', N)
    <3>1. t + 1 \in Nat /\ t + 1 <= MaxTasks + 1
      BY <1>1, <1>2, TaskConstants DEF t
    <3> QED
      BY <1>7, <3>1, Zenon
  <2> HIDE DEF N, R
  <2>2. {Walk(next', Boot)[n] : n \in 0 .. MaxTasks} = R
    BY <2>1, RingIs
  <2> USE DEF R
  <2> QED
    BY <1>1, <1>4, <2>2, Zenon DEF Ring
<1>9. \A u \in Ring : u \in Task /\ u \in Nat /\ u < t
  BY <1>1, <1>2, <1>4, TaskConstants DEF Sorted, Task
<1>10. /\ state' \in [Task -> {"NONE", "READY", "RUNNING", "DEAD"}] /\ state'[t] = "READY"
       /\ \A u \in Task : u # t => state'[u] = state[u]
  BY <1>1, <1>2 DEF IInv, TypeOK
<1>11. /\ stack' \in [Task -> Seq(Frame)] /\ stack'[t] = <<e>>
       /\ \A u \in Task : u # t => stack'[u] = stack[u]
  BY <1>1, <1>2, <1>6 DEF IInv, TypeOK
<1>12. t \notin Ring /\ cpu # t /\ current_task # t /\ cpu \in Ring
  BY <1>2, <1>9 DEF IInv, Executing
<1>13. Top' = Top /\ \A u \in Task : u # t => Innermost(u)' = Innermost(u)
  BY <1>1, <1>3, <1>11, <1>12 DEF Top, Innermost
<1>14. \A u \in Task : Alive(u)' <=> Alive(u) \/ u = t
  BY <1>10 DEF Alive
<1>15. TypeOK'
  <2>1. next' \in [Task -> Task] /\ rsp' \in [Task -> Task] /\ next_id' \in 1 .. MaxTasks + 1
    <3>1. next' \in [Task -> Task]
      BY <1>1, <1>2, <1>4
    <3>2. rsp' \in [Task -> Task]
      BY <1>1, <1>2 DEF IInv, TypeOK
    <3>3. next_id' \in 1 .. MaxTasks + 1
      BY <1>1, <1>2, TaskConstants
    <3> QED
      BY <3>1, <3>2, <3>3
  <2>2. tcbs' \subseteq Task /\ stacks' \subseteq Task
    BY <1>1, <1>2, SMTT(30) DEF IInv, TypeOK
  <2> QED
    BY <1>1, <1>10, <1>11, <2>1, <2>2, Zenon DEF IInv, TypeOK
<1>16. Listed'
  <2>1. \A u \in Task : u \in Ring' => state'[u] # "NONE"
    BY <1>8, <1>10, <1>12 DEF IInv, Listed
  <2>2. \A u \in Task : Alive(u)' => u \in Ring'
    BY <1>8, <1>14 DEF IInv, Listed
  <2>3. Ring' \subseteq tcbs' /\ Ring' \subseteq stacks'
    BY <1>1, <1>8 DEF IInv, Listed
  <2>4. Alive(Boot)'
    BY <1>2, <1>14 DEF IInv, Listed
  <2>5. Sorted(Ring', next', next_id') /\ task_list' = Boot
    BY <1>1, <1>4, <1>7, <1>8, SMTT(30)
  <2> QED
    BY <2>1, <2>2, <2>3, <2>4, <2>5, Zenon DEF Listed
<1>17. Executing'
  <2>1. \A u \in Task : rsp'[u] = u
    BY <1>1, <1>2, SMTT(30) DEF IInv, TypeOK, Executing
  <2>2. \A u \in Task : state'[u] = "RUNNING" => u = current_task
    BY <1>10 DEF IInv, Executing
  <2>3. state'[cpu] = state[cpu]
    BY <1>3, <1>10, <1>12, SMTT(30)
  <2> QED
    BY <1>1, <1>3, <1>8, <1>13, <2>1, <2>2, <2>3, SMTT(30) DEF IInv, Executing, Leaving, Choosing
<1>18. Stacked'
  <2>1. ASSUME NEW u \in Task, Alive(u)' PROVE Sound(u)'
    <3>1. CASE u = t
      <4>1. stack'[u] = <<e>> /\ u # cpu'
        BY <1>1, <1>11, <1>12, <3>1
      <4>2. stack'[u] # <<>> /\ stack'[u][1] = e /\ Len(stack'[u]) = 1
        BY <4>1
      <4>3. ~(Len(stack'[u]) > 1) /\ \A i : i \notin 2 .. Len(stack'[u]) - 1
        BY <4>2, LenOne, Zenon
      <4>4. Innermost(u)' = e
        BY <4>2 DEF Innermost
      <4> QED
        BY <1>6, <4>2, <4>3, <4>4 DEF Sound
    <3>2. CASE u # t
      <4>1. Alive(u) /\ stack'[u] = stack[u] /\ Sound(u)
        BY <1>11, <1>14, <2>1, <3>2, SMTT(30) DEF IInv, Stacked
      <4> QED
        BY <1>1, <1>13, <3>2, <4>1, Zenon DEF Sound
    <3> QED
      BY <3>1, <3>2
  <2>2. stack'[cpu'] # <<>> /\ state'[cpu'] = state[cpu]
    BY <1>1, <1>3, <1>10, <1>11, <1>12, SMTT(30) DEF IInv, Stacked
  <2> QED
    BY <1>1, <1>13, <2>1, <2>2 DEF IInv, Stacked
<1>19. Locals'
  BY <1>3, <1>13, ZenonT(30) DEF Locals, Choosing
<1>20. Fair'
  <2> SUFFICES ASSUME NEW u \in Task
               PROVE  IF u < t + 1 /\ u # cpu THEN waited[u] + 1 <= Ahead(t + 1, u, cpu)
                                              ELSE waited[u] = 0
    BY <1>1 DEF Fair
  <2>1. IF u < t /\ u # cpu THEN waited[u] + 1 <= Ahead(t, u, cpu) ELSE waited[u] = 0
    BY DEF IInv, Fair, t
  <2>2. u \in Nat /\ cpu \in Nat /\ cpu < t /\ waited[u] \in Nat
    <3>1. u \in Nat
      BY TaskConstants DEF Task
    <3>2. waited[u] \in Nat
      BY DEF IInv, TypeOK
    <3> QED
      BY <1>9, <1>12, <3>1, <3>2
  <2> QED
    BY <1>2, <2>1, <2>2 DEF Ahead
<1> QED
  BY <1>15, <1>16, <1>17, <1>18, <1>19, <1>20 DEF IInv

(***************************************************************************)
(* The invariant and what follows from it.                                 *)
(***************************************************************************)

\* task_init leaves a list of one task, which executes.
LEMMA InitIInv == Init => IInv
<1> SUFFICES ASSUME Init PROVE IInv
  OBVIOUS
<1> DEFINE e == Activation("fresh", FALSE)
<1>1. /\ task_list = Boot /\ current_task = Boot /\ cpu = Boot /\ next_id = 1
      /\ state = [t \in Task |-> IF t = Boot THEN "RUNNING" ELSE "NONE"]
      /\ next = [t \in Task |-> t] /\ rsp = [t \in Task |-> t]
      /\ tcbs = {Boot} /\ stacks = {Boot} /\ ints = FALSE
      /\ stack = [t \in Task |-> IF t = Boot THEN <<e>> ELSE <<>>]
      /\ tick_count = 0 /\ waited = [t \in Task |-> 0]
  BY Zenon DEF Init
<1>2. Boot \in Task /\ Boot = 0
  BY TaskConstants DEF Task, Boot
<1>3. e \in Frame /\ e.pc = "fresh"
  BY <1>2 DEF Frame, PCs, Activation
<1> HIDE DEF e
<1>4. Sorted({Boot}, next, 1) /\ Ring = {Boot}
  <2> DEFINE N == 1  R == {Boot}
  <2>1. Sorted(R, next, N) /\ N \in Nat /\ N <= MaxTasks + 1
    BY <1>1, <1>2, TaskConstants, SMTT(30) DEF Sorted, Follows
  <2> HIDE DEF N, R
  <2>2. {Walk(next, Boot)[n] : n \in 0 .. MaxTasks} = R
    BY <2>1, RingIs
  <2> QED
    BY <1>1, <2>1, <2>2, Zenon DEF Ring, N, R
<1>5. TypeOK
  <2>1. /\ state \in [Task -> {"NONE", "READY", "RUNNING", "DEAD"}]
        /\ next \in [Task -> Task] /\ rsp \in [Task -> Task] /\ waited \in [Task -> Nat]
    BY <1>1
  <2>2. stack \in [Task -> Seq(Frame)]
    BY <1>1, <1>3
  <2>3. next_id \in 1 .. MaxTasks + 1 /\ tick_count \in 0 .. SCHEDULE_INTERVAL - 1
    BY <1>1, TaskConstants
  <2>4. task_list \in Task /\ current_task \in Task /\ cpu \in Task
    BY <1>1, <1>2, Zenon
  <2>5. tcbs \subseteq Task /\ stacks \subseteq Task /\ ints \in BOOLEAN
    BY <1>1, <1>2
  <2> QED
    BY <2>1, <2>2, <2>3, <2>4, <2>5, Zenon DEF TypeOK
<1>6. state[Boot] = "RUNNING" /\ \A t \in Task : t # Boot => state[t] = "NONE"
  BY <1>1, <1>2
<1>7. stack[Boot] = <<e>> /\ Top = e
  BY <1>1, <1>2 DEF Top, Innermost
<1>8. \A t \in Task : Alive(t) <=> t = Boot
  BY <1>6 DEF Alive
<1>9. Listed
  BY <1>1, <1>2, <1>4, <1>6, <1>8 DEF Listed
<1>10. Executing
  BY <1>1, <1>2, <1>3, <1>4, <1>6, <1>7 DEF Executing, Leaving, Choosing
<1>11. Stacked
  <2>1. stack[Boot] # <<>> /\ stack[Boot][1] = e /\ Len(stack[Boot]) = 1
    BY <1>7
  <2>2. ~(Len(stack[Boot]) > 1) /\ \A i : i \notin 2 .. Len(stack[Boot]) - 1
    BY <2>1, LenOne, Zenon
  <2>3. Sound(Boot)
    BY <1>1, <1>3, <2>1, <2>2 DEF Sound
  <2>4. e.pc \notin InSchedule
    BY <1>3, SMTT(30) DEF InSchedule
  <2> QED
    BY <1>1, <1>6, <1>7, <1>8, <2>1, <2>3, <2>4, SMTT(30) DEF Stacked
<1>12. Locals
  BY <1>3, <1>7, ZenonT(30) DEF Locals, Choosing
<1>13. Fair
  <2> SUFFICES ASSUME NEW t \in Task
               PROVE  IF t < next_id /\ t # cpu THEN waited[t] + 1 <= Ahead(next_id, t, cpu)
                                                ELSE waited[t] = 0
    BY DEF Fair
  <2>1. waited[t] = 0 /\ t \in Nat /\ ~(t < 1 /\ t # 0)
    BY <1>1 DEF Task
  <2> QED
    BY <1>1, <1>2, <2>1
<1> QED
  BY <1>5, <1>9, <1>10, <1>11, <1>12, <1>13 DEF IInv

\* A failed task_create, and a step of the environment, change nothing.
LEMMA StutterIInv == IInv /\ UNCHANGED vars => IInv'
<1> SUFFICES ASSUME IInv, UNCHANGED vars PROVE IInv'
  OBVIOUS
<1>1. UNCHANGED <<task_list, current_task, next_id, state, next, rsp, tcbs, stacks,
                  cpu, ints, stack, tick_count, waited>>
  BY DEF vars
<1>2. Listed' /\ Ring' = Ring
  BY <1>1, ListedSame DEF tcbVars
<1>3. Top' = Top /\ \A t : Innermost(t)' = Innermost(t) /\ (Alive(t)' <=> Alive(t))
  BY <1>1 DEF Top, Innermost, Alive
<1>4. TypeOK'
  BY <1>1, Zenon DEF IInv, TypeOK
<1>5. Executing'
  BY <1>1, <1>2, <1>3, SMTT(30) DEF IInv, Executing
<1>6. Stacked'
  <2>1. \A t \in Task : Sound(t)' <=> Sound(t)
    BY <1>1, <1>3, SMTT(30) DEF Sound
  <2> QED
    BY <1>1, <1>3, <2>1, SMTT(30) DEF IInv, Stacked
<1>7. Locals'
  BY <1>1, <1>2, <1>3 DEF IInv, Locals
<1>8. Fair'
  BY <1>1, FairSame
<1> QED
  BY <1>2, <1>4, <1>5, <1>6, <1>7, <1>8 DEF IInv

\* Every step preserves the invariant.
LEMMA NextIInv == ~WindowTicks /\ IInv /\ [Next]_vars => IInv'
<1> SUFFICES ASSUME ~WindowTicks, IInv, [Next]_vars PROVE IInv'
  OBVIOUS
<1>1. CASE task_create
  BY <1>1, CreateStep
<1>2. CASE task_create_fail
  BY <1>2, StutterIInv DEF task_create_fail
<1>3. CASE task_exit
  BY <1>3, ExitStep
<1>4. CASE pit_irq_handler
  BY <1>4, TickStep
<1>5. CASE KernelStep
  BY <1>5, TrampolineStep, ExitScheduleStep, ScheduleStep, ReapStep, DestroyStep,
     DestroyStackStep, DestroyTcbStep, FindStep, CurrentStep, RunningStep, SwitchStep,
     ReturnStep, Zenon DEF KernelStep
<1>6. CASE UNCHANGED vars
  BY <1>6, StutterIInv
<1> QED
  BY <1>1, <1>2, <1>3, <1>4, <1>5, <1>6, Zenon DEF Next

\* The invariant holds of every behaviour in which no tick hits the window between
\* task.c:191 and the load of RSP.
THEOREM TaskInvariant ==
    ASSUME ~WindowTicks
    PROVE  Spec => []IInv
<1>1. IInv /\ [Next]_vars => IInv'
  BY NextIInv
<1> QED
  BY <1>1, InitIInv, PTL DEF Spec

\* Every variable keeps its type.
THEOREM TaskTypeOK ==
    ASSUME ~WindowTicks
    PROVE  Spec => []TypeOK
<1>1. IInv => TypeOK
  BY DEF IInv
<1> QED
  BY <1>1, TaskInvariant, PTL

\* The list of task.c stays one cycle through the boot task and current_task over
\* TCBs that are not freed, for any number of tasks and wherever reaping is
\* interrupted.
THEOREM RingIntactAlways ==
    ASSUME ~WindowTicks
    PROVE  Spec => []RingIntact
<1>1. IInv => RingIntact
  <2> SUFFICES ASSUME IInv PROVE RingIntact
    OBVIOUS
  <2>1. /\ {Boot, task_list, current_task} \subseteq Ring /\ Ring \subseteq tcbs
        /\ \A t \in Ring : next[t] \in Ring
    BY SMTT(30) DEF IInv, Listed, Executing, Sorted, Follows
  <2>2. \A t \in Ring : \E p \in Ring : next[p] = t
    <3>1. next_id \in Nat /\ next_id <= MaxTasks + 1 /\ Sorted(Ring, next, next_id)
      BY TaskConstants, SMTT(30) DEF IInv, TypeOK, Listed
    <3> QED
      BY <3>1, Predecessor
  <2>3. {next[t] : t \in Ring} = Ring
    BY <2>1, <2>2, SMTT(30)
  <2> QED
    BY <2>1, <2>3 DEF RingIntact
<1> QED
  BY <1>1, TaskInvariant, PTL

\* A READY task that is not executing has its own allocated stack, and on it a
\* context that switch_to can load.
THEOREM ContextSavedAlways ==
    ASSUME ~WindowTicks
    PROVE  Spec => []ContextSaved
<1>1. IInv => ContextSaved
  <2> SUFFICES ASSUME IInv, NEW t \in Task \ {cpu}, state[t] = "READY"
               PROVE  /\ t \in tcbs /\ t \in stacks /\ rsp[t] = t
                      /\ Innermost(t).pc \in {"fresh", "ret"}
    BY DEF ContextSaved
  <2>1. Alive(t)
    BY DEF Alive
  <2>2. t \in tcbs /\ t \in stacks /\ rsp[t] = t
    BY <2>1 DEF IInv, Listed, Executing
  <2>3. Innermost(t).pc \in {"fresh", "ret"}
    BY <2>1 DEF IInv, Stacked, Sound
  <2> QED
    BY <2>2, <2>3
<1> QED
  BY <1>1, TaskInvariant, PTL

\* schedule() never frees the stack the CPU runs on, nor the TCB that switch_to
\* stores RSP in.
THEOREM StackAliveAlways ==
    ASSUME ~WindowTicks
    PROVE  Spec => []StackAlive
<1>1. IInv => StackAlive
  <2> SUFFICES ASSUME IInv PROVE StackAlive
    OBVIOUS
  <2>1. cpu \in stacks /\ cpu \in tcbs
    BY DEF IInv, Listed, Executing
  <2>2. At("switch") => Top.prev = cpu
    BY DEF At, IInv, Locals, Choosing
  <2> QED
    BY <2>1, <2>2, SMTT(30) DEF StackAlive
<1> QED
  BY <1>1, TaskInvariant, PTL

\* The schedule() that task_exit calls does not return.
THEOREM ExitNeverReturnsAlways ==
    ASSUME ~WindowTicks
    PROVE  Spec => []ExitNeverReturns
<1>1. IInv => ExitNeverReturns
  <2> SUFFICES ASSUME IInv, Top.pc = "halt" PROVE FALSE
    BY SMTT(30) DEF ExitNeverReturns, At
  <2>1. cpu \in Task /\ state[cpu] # "READY" /\ state[cpu] # "NONE" /\ state[cpu] # "DEAD"
    BY TopFacts, ZenonT(30) DEF IInv, Executing, Listed, Choosing, Stacked, InSchedule
  <2>2. Sound(cpu)
    BY <2>1 DEF IInv, TypeOK, Stacked, Alive
  <2>3. Len(stack[cpu]) > 1 => Top.pc \in InSchedule \cup {"ret"}
    BY <2>2 DEF Sound, Top
  <2>4. Len(stack[cpu]) = 1 => Top.pc \in {"fresh", "run"}
    BY <2>2, TopFacts DEF Sound
  <2>5. Len(stack[cpu]) > 1 \/ Len(stack[cpu]) = 1
    <3> DEFINE k == Len(stack[cpu])
    <3>1. k \in Nat \ {0}
      BY TopFacts, Zenon
    <3> HIDE DEF k
    <3>2. k > 1 \/ k = 1
      BY <3>1
    <3> QED
      BY <3>2 DEF k
  <2> QED
    BY <2>3, <2>4, <2>5 DEF InSchedule
<1> QED
  BY <1>1, TaskInvariant, PTL

\* The search of schedule() passes a READY task over at most once for each other
\* task there is.
THEOREM BoundedWaitAlways ==
    ASSUME ~WindowTicks
    PROVE  Spec => []BoundedWait
<1>1. IInv => BoundedWait
  <2> SUFFICES ASSUME IInv, NEW t \in Task
               PROVE  waited[t] = 0 \/ waited[t] + 1 < next_id
    BY DEF BoundedWait
  <2>1. /\ t \in Nat /\ waited[t] \in Nat /\ next_id \in Nat /\ cpu \in 0 .. next_id - 1
    <3>1. waited[t] \in Nat /\ next_id \in Nat
      BY TaskConstants DEF IInv, TypeOK
    <3>2. cpu \in 0 .. next_id - 1
      BY Zenon DEF IInv, Listed, Sorted, Executing
    <3> QED
      BY <3>1, <3>2 DEF Task
  <2>2. CASE t < next_id /\ t # cpu
    <3>1. waited[t] + 1 <= Ahead(next_id, t, cpu)
      BY <2>2 DEF IInv, Fair
    <3>2. Ahead(next_id, t, cpu) \in 1 .. next_id - 1
      BY <2>1, <2>2, AheadPositive
    <3> QED
      BY <2>1, <3>1, <3>2
  <2>3. CASE ~(t < next_id /\ t # cpu)
    BY <2>3 DEF IInv, Fair
  <2> QED
    BY <2>2, <2>3
<1> QED
  BY <1>1, TaskInvariant, PTL

(***************************************************************************)
(* What no step does.                                                      *)
(***************************************************************************)

\* The CPU passes from one stack to another only in switch_to, and then to the
\* task that comes first after the one left, in the order in which the tasks were
\* created, of all that are READY.
RoundRobin ==
    cpu' # cpu =>
        /\ cpu' \in Ring /\ state[cpu'] = "RUNNING" /\ current_task = cpu'
        /\ \A u \in Ring \ {cpu} :
               state[u] = "READY" => Ahead(next_id, cpu, cpu') < Ahead(next_id, cpu, u)

\* Two tasks are not equally far ahead.
LEMMA AheadInjective ==
    ASSUME NEW N \in Nat, NEW a \in 0 .. N - 1, NEW b \in 0 .. N - 1, NEW c \in 0 .. N - 1,
           Ahead(N, a, b) <= Ahead(N, a, c), b # c
    PROVE  Ahead(N, a, b) < Ahead(N, a, c)
BY DEF Ahead

\* No other step changes the stack the CPU runs on.
LEMMA OnlySwitchMoves == ASSUME [Next]_vars, cpu' # cpu PROVE switch_to
<1>1. ~UNCHANGED vars /\ ~UNCHANGED cpu
  BY DEF vars
<1>2. CASE task_create \/ task_create_fail \/ task_exit \/ pit_irq_handler
  BY <1>1, <1>2, Zenon DEF task_create, task_create_fail, task_exit, pit_irq_handler, vars
<1>3. CASE KernelStep
  BY <1>1, <1>3, Zenon DEF KernelStep, task_trampoline, task_exit_schedule, schedule, reap,
     task_destroy, task_destroy_stack, task_destroy_tcb, schedule_find, schedule_current,
     schedule_running, schedule_return
<1> QED
  BY <1>1, <1>2, <1>3, Zenon DEF Next

\* schedule() is a round robin: each switch goes to the READY task that was created
\* next after the one left.
THEOREM RoundRobinAlways ==
    ASSUME ~WindowTicks
    PROVE  Spec => [][RoundRobin]_vars
<1>1. IInv /\ [Next]_vars => [RoundRobin]_vars
  <2> SUFFICES ASSUME IInv, [Next]_vars, cpu' # cpu
               PROVE  /\ cpu' \in Ring /\ state[cpu'] = "RUNNING" /\ current_task = cpu'
                      /\ \A u \in Ring \ {cpu} : state[u] = "READY" =>
                             Ahead(next_id, cpu, cpu') < Ahead(next_id, cpu, u)
    BY DEF RoundRobin
  <2>1. Top.pc = "switch" /\ cpu' = rsp[Top.next]
    BY OnlySwitchMoves, SMTT(30) DEF switch_to, At
  <2>2. /\ Top.next \in Ring /\ state[Top.next] = "RUNNING"
        /\ \A u \in Ring : u # cpu /\ state[u] = "READY" =>
               Ahead(next_id, cpu, Top.next) <= Ahead(next_id, cpu, u)
    BY <2>1 DEF IInv, Locals, Choosing
  <2>3. next_id \in Nat /\ Ring \subseteq 0 .. next_id - 1 /\ cpu \in Ring
    <3>1. next_id \in Nat
      BY TaskConstants DEF IInv, TypeOK
    <3>2. Ring \subseteq 0 .. next_id - 1 /\ cpu \in Ring
      BY Zenon DEF IInv, Listed, Sorted, Executing
    <3> QED
      BY <3>1, <3>2
  <2>4. Ring \subseteq Task
    BY <2>3, TaskConstants, SMTT(30) DEF IInv, TypeOK, Task
  <2>5. cpu' = Top.next /\ current_task = Top.next
    BY <2>1, <2>2, <2>4 DEF IInv, Executing, Leaving
  <2>6. ASSUME NEW u \in Ring \ {cpu}, state[u] = "READY"
        PROVE  Ahead(next_id, cpu, Top.next) < Ahead(next_id, cpu, u)
    <3>1. u # Top.next
      BY <2>2, <2>6
    <3> QED
      BY <2>2, <2>3, <2>6, <3>1, AheadInjective, ZenonT(30)
  <2> QED
    BY <2>2, <2>5, <2>6
<1> QED
  BY <1>1, TaskInvariant, PTL DEF Spec

\* Only what nobody uses any more is freed: a stack or TCB that goes belongs to a
\* DEAD task outside the list, which neither executes nor is current_task.
FreesOnlyDead ==
    \A t \in (stacks \ stacks') \cup (tcbs \ tcbs') :
        state[t] = "DEAD" /\ t \notin Ring /\ t # cpu /\ t # current_task

\* No other step frees a stack or a TCB, and these free what Top.t names.
LEMMA OnlyDestroyFrees ==
    ASSUME [Next]_vars, NEW t, t \in (stacks \ stacks') \cup (tcbs \ tcbs')
    PROVE  Top.pc \in {"free_stack", "free_tcb"} /\ t = Top.t
<1>1. CASE UNCHANGED <<stacks, tcbs>>
  BY <1>1
<1>2. CASE task_create
  BY <1>2 DEF task_create
<1>3. CASE task_destroy_stack
  BY <1>3 DEF task_destroy_stack, At
<1>4. CASE task_destroy_tcb
  BY <1>4 DEF task_destroy_tcb, At
<1>5. CASE task_create_fail \/ task_exit \/ pit_irq_handler \/ UNCHANGED vars
  <2>1. UNCHANGED <<stacks, tcbs>>
    BY <1>5, Zenon DEF task_create_fail, task_exit, pit_irq_handler, vars, tcbVars
  <2> QED
    BY <1>1, <2>1
<1>6. CASE KernelStep /\ ~task_destroy_stack /\ ~task_destroy_tcb
  <2>1. UNCHANGED <<stacks, tcbs>>
    BY <1>6, Zenon DEF KernelStep, task_trampoline, task_exit_schedule, schedule, reap,
       task_destroy, schedule_find, schedule_current, schedule_running, switch_to,
       schedule_return, tcbVars
  <2> QED
    BY <1>1, <2>1
<1> QED
  BY <1>2, <1>3, <1>4, <1>5, <1>6, Zenon DEF Next

\* task_destroy, wherever it is preempted and whoever resumes it, frees nothing
\* that a task still uses.
THEOREM FreesOnlyDeadAlways ==
    ASSUME ~WindowTicks
    PROVE  Spec => [][FreesOnlyDead]_vars
<1>1. IInv /\ [Next]_vars => [FreesOnlyDead]_vars
  <2> SUFFICES ASSUME IInv, [Next]_vars, NEW t \in (stacks \ stacks') \cup (tcbs \ tcbs')
               PROVE  state[t] = "DEAD" /\ t \notin Ring /\ t # cpu /\ t # current_task
    BY DEF FreesOnlyDead
  <2>1. Top.pc \in {"free_stack", "free_tcb"} /\ t = Top.t
    BY OnlyDestroyFrees
  <2>2. t \notin Ring /\ state[t] = "DEAD"
    BY <2>1 DEF IInv, Locals
  <2>3. cpu \in Ring /\ current_task \in Ring
    BY DEF IInv, Executing
  <2> QED
    BY <2>2, <2>3
<1> QED
  BY <1>1, TaskInvariant, PTL DEF Spec

=============================================================================
