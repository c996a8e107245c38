----------------------------- MODULE OsScheduler -----------------------------
(***************************************************************************)
(* The cooperative scheduler of the O3StorageOS kernel (os/src/scheduler.rs)*)
(* as start_o3storage_service (os/src/main.rs) drives it: tasks are added   *)
(* with add_task, then Scheduler::run loops for ever.                       *)
(*                                                                         *)
(* A task is its TaskState; the closure it runs is opaque, and the one     *)
(* thing about it that matters to the scheduler is whether the call        *)
(* (task.function)() returns: the three closures of main.rs are infinite   *)
(* loops and never do.  No code but run itself changes a TaskState, and    *)
(* nothing preempts a task, so a step of this module is one statement of   *)
(* run.  current_task is 0-based as in the code; task k is tasks[k + 1].   *)
(***************************************************************************)
EXTENDS Naturals, Sequences, TLAPS

CONSTANTS
    MaxTasks,   \* bound: tasks add_task may add before run
    Returns     \* the 0-based positions whose function returns

VARIABLES
    tasks,      \* the TaskState of each task in the tasks Vec
    current,    \* current_task
    i,          \* the counter of `for _ in 0..self.tasks.len()`
    pc          \* where the kernel is

svars == <<tasks, current, i, pc>>

TaskStates == {"Ready", "Running", "Blocked", "Terminated"}

TypeOK ==
    /\ tasks \in Seq(TaskStates)
    /\ current \in Nat
    /\ i \in Nat
    /\ pc \in {"add", "loop", "scan", "call", "halted"}

\* Scheduler::new: no tasks, current_task 0.
Init ==
    /\ tasks = << >>
    /\ current = 0
    /\ i = 0
    /\ pc = "add"

\* Task::new (state Ready) and add_task (push).
AddTask ==
    /\ pc = "add"
    /\ Len(tasks) < MaxTasks
    /\ tasks' = Append(tasks, "Ready")
    /\ UNCHANGED <<current, i, pc>>

\* start_o3storage_service calls run.
StartRun ==
    /\ pc = "add"
    /\ pc' = "loop"
    /\ UNCHANGED <<tasks, current, i>>

\* Top of run's loop: with no task, halt() for ever; otherwise begin the
\* scan for a ready task (found_task = false).
Loop ==
    /\ pc = "loop"
    /\ pc' = IF tasks = << >> THEN "halted" ELSE "scan"
    /\ i' = 0
    /\ UNCHANGED <<tasks, current>>

\* One iteration of the scan: wrap current_task to 0 past the end; a Ready
\* task is set Running and called, which breaks the loop; otherwise
\* current_task moves on.
Scan ==
    /\ pc = "scan"
    /\ i < Len(tasks)
    /\ LET c == IF current >= Len(tasks) THEN 0 ELSE current
       IN  IF tasks[c + 1] = "Ready"
             THEN /\ tasks' = [tasks EXCEPT ![c + 1] = "Running"]
                  /\ current' = c
                  /\ pc' = "call"
                  /\ UNCHANGED i
             ELSE /\ current' = c + 1
                  /\ i' = i + 1
                  /\ UNCHANGED <<tasks, pc>>

\* The task's function returns: its state goes back to Ready and, the
\* task having been found, run's loop starts again without yield_cpu.
CallReturn ==
    /\ pc = "call"
    /\ current \in Returns
    /\ tasks' = [tasks EXCEPT ![current + 1] = "Ready"]
    /\ pc' = "loop"
    /\ UNCHANGED <<current, i>>

\* The scan found no Ready task: yield_cpu (hlt until an interrupt), then
\* the loop starts again.
NoReady ==
    /\ pc = "scan"
    /\ i >= Len(tasks)
    /\ pc' = "loop"
    /\ UNCHANGED <<tasks, current, i>>

Next == AddTask \/ StartRun \/ Loop \/ Scan \/ CallReturn \/ NoReady

Spec == Init /\ [][Next]_svars

-----------------------------------------------------------------------------
(* Properties *)

\* Only the first task added ever runs: run breaks out of its scan after a
\* task's call without advancing current_task, so every later scan starts
\* at the same Ready task, and tasks 2.. (network and consensus in main.rs)
\* are never Running, whether or not the first one's function returns.
OnlyFirstTaskRuns ==
    \A k \in 2..Len(tasks) : tasks[k] # "Running"

\* The strengthening that makes OnlyFirstTaskRuns inductive: current_task
\* never leaves 0, the scan never gets past its first iteration, and the
\* only task ever Running is the first, during its call.
SchedInv ==
    /\ TypeOK
    /\ current = 0
    /\ i = 0
    /\ pc \in {"scan", "call"} => tasks # << >>
    /\ \A k \in 1..Len(tasks) : tasks[k] \in {"Ready", "Running"}
    /\ \A k \in 1..Len(tasks) : tasks[k] = "Running" => (k = 1 /\ pc = "call")
    /\ pc = "call" => tasks[1] = "Running"

-----------------------------------------------------------------------------
(* Proofs *)

\* The strengthened invariant holds initially.
LEMMA SchedInvInit == Init => SchedInv
BY DEF Init, SchedInv, TypeOK

\* Every step of the kernel preserves the strengthened invariant.
LEMMA SchedInvStep == SchedInv /\ [Next]_svars => SchedInv'
<1> SUFFICES ASSUME SchedInv, [Next]_svars PROVE SchedInv'
  OBVIOUS
<1>1. CASE AddTask
  \* The new task is Ready and the old ones keep their states.
  <2>1. /\ tasks' \in Seq(TaskStates)
        /\ Len(tasks') = Len(tasks) + 1
        /\ \A k \in 1..Len(tasks) : tasks'[k] = tasks[k]
        /\ tasks'[Len(tasks) + 1] = "Ready"
    BY <1>1 DEF SchedInv, TypeOK, TaskStates, AddTask
  <2>2. pc' = "add" /\ current' = current /\ i' = i
    BY <1>1 DEF AddTask
  <2>3. \A k \in 1..Len(tasks') : tasks'[k] \in {"Ready", "Running"} /\ tasks'[k] # "Running"
    BY <1>1, <2>1 DEF SchedInv, TypeOK, AddTask
  <2>. QED
    BY <2>1, <2>2, <2>3 DEF SchedInv, TypeOK
<1>2. CASE StartRun
  BY <1>2 DEF SchedInv, TypeOK, StartRun
<1>3. CASE Loop
  BY <1>3 DEF SchedInv, TypeOK, Loop
<1>4. CASE Scan
  \* current is 0 and task 1 is Ready outside a call: the scan always
  \* takes its first branch, on task 1.
  <2>1. tasks # << >> /\ 0 < Len(tasks)
    BY <1>4 DEF SchedInv, TypeOK, Scan
  <2>2. tasks[1] = "Ready"
    BY <1>4, <2>1 DEF SchedInv, TypeOK, Scan
  <2>3. /\ tasks' = [tasks EXCEPT ![1] = "Running"]
        /\ current' = 0 /\ pc' = "call" /\ i' = i
    BY <1>4, <2>1, <2>2 DEF SchedInv, TypeOK, Scan
  <2>4. /\ tasks' \in Seq(TaskStates) /\ Len(tasks') = Len(tasks)
        /\ tasks'[1] = "Running"
        /\ \A k \in 2..Len(tasks) : tasks'[k] = tasks[k]
    BY <2>1, <2>3 DEF SchedInv, TypeOK, TaskStates
  <2>. QED
    BY <2>1, <2>3, <2>4 DEF SchedInv, TypeOK
<1>5. CASE CallReturn
  \* The call was of task 1, which goes back to Ready.
  <2>1. current = 0 /\ 0 < Len(tasks)
    BY <1>5 DEF SchedInv, TypeOK, CallReturn
  <2>2. /\ tasks' = [tasks EXCEPT ![1] = "Ready"]
        /\ pc' = "loop" /\ current' = 0 /\ i' = i
    BY <1>5, <2>1 DEF CallReturn
  <2>3. /\ tasks' \in Seq(TaskStates) /\ Len(tasks') = Len(tasks)
        /\ tasks'[1] = "Ready"
        /\ \A k \in 2..Len(tasks) : tasks'[k] = tasks[k]
    BY <2>1, <2>2 DEF SchedInv, TypeOK, TaskStates
  <2>. QED
    BY <2>1, <2>2, <2>3 DEF SchedInv, TypeOK
<1>6. CASE NoReady
  BY <1>6 DEF SchedInv, TypeOK, NoReady
<1>7. CASE UNCHANGED svars
  BY <1>7 DEF SchedInv, TypeOK, svars
<1>. QED
  BY <1>1, <1>2, <1>3, <1>4, <1>5, <1>6, <1>7 DEF Next

\* The strengthened invariant implies the property.
LEMMA SchedInvOnlyFirst == SchedInv => OnlyFirstTaskRuns
BY DEF SchedInv, OnlyFirstTaskRuns

\* For any number of tasks and whichever functions return, run never
\* calls a task other than the first (scheduler.rs run, the missing
\* advance of current_task after a call).
THEOREM SchedulerStarvesLaterTasks == Spec => []OnlyFirstTaskRuns
<1>1. Spec => []SchedInv
  BY SchedInvInit, SchedInvStep, PTL DEF Spec
<1>. QED
  BY <1>1, SchedInvOnlyFirst, PTL
=============================================================================
