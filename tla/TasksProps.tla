------------------------------ MODULE TasksProps ------------------------------
(***************************************************************************)
(* The properties of the scheduler of module Tasks, and the mapping under  *)
(* which it implements CpuHandover.                                        *)
(***************************************************************************)
EXTENDS Tasks

\* t is a task that the running task 0 has added and not yet made ready or
\* yielded to: the window between task_add and what its caller does next.
BeingSetUp(t) ==
  /\ task_current = Kernel
  /\ \/ pc[Kernel] = "check_b" /\ t = local["a"]
     \/ pc[Kernel] = "check_set" /\ t \in {local["a"], local["b"]}
     \/ pc[Kernel] \in {"first_ps_to", "exec_to", "fork_set"} /\ t = local["child"]

\* A task that has ended, by task_exit, task_end_from_wrapper or task_check.
Ended(t) == t \in used /\ status[t] \in {"INVALID", "MODHACK"}

\* No task is stranded and no two are ACTIVE: apart from the task the CPU is in,
\* a live task is INACTIVE, so the scan of switch_next_task (task.c:205-222)
\* finds it, except while its creator is still setting it up. task_add hands out
\* WAIT or, when the caller's uninitialised id happens to be 0, ACTIVE.
NoTaskStranded ==
  \A t \in used \ {task_current} :
    status[t] \in {"WAIT", "ACTIVE"} => BeingSetUp(t)

\* The code that runs belongs to an ACTIVE task, or to one on its way through
\* the last yield of task_exit; that one is never task 0.
RunningTaskIsActive ==
  machine = "up" =>
    \/ status[task_current] = "ACTIVE"
    \/ task_current # Kernel /\ pc[task_current] = "exiting" /\ Ended(task_current)

\* "we should never hit this, so die if we do" (task.c:226): whoever yields or
\* exits, some task is INACTIVE, because kernel_main never ends.
SchedulerNeverDies == machine # "died"

\* task_check reports "Passed.": one yield of task 0 gives both test tasks a turn
\* before it comes back (task.c:483-495).
TaskCheckPasses == check # "failed"

\* A task that ended keeps its final status and never gets the CPU back, although
\* its slot keeps its id; statuses are all that switch_next_task looks at.
EndedStaysEnded ==
  [][\A t \in used : Ended(t) => status'[t] = status[t]
                                  /\ (task_current' = t => task_current = t)]_vars

\* Task 0 gets the CPU back whatever the other tasks do, until the machine stops.
KernelComesBack == []<>(task_current = Kernel \/ machine # "up")

\* Every task that waits its turn gets it, unless task_check ends it first. The
\* shell can hand the CPU over by sched_yield_to ahead of every waiting task.
EveryTaskGetsItsTurn ==
  \A t \in Slots :
    status[t] = "INACTIVE" ~> task_current = t \/ Ended(t) \/ machine # "up"

\* How far the scan is from t: 1 for the slot it looks at first, TaskMax for the last.
Ahead(t) ==
  IF t > task_current THEN t - task_current ELSE t + TaskMax - task_current

\* No task is overtaken twice: a waiting task comes nearer in the scan with every change of
\* the CPU's task (task.c:205-222), so it waits for at most TaskMax - 1 of them; only kexec
\* and the loader, which task 0 runs, go past it.
TurnsComeNearer ==
  [][\A t \in Slots : status[t] = "INACTIVE" /\ status'[t] = "INACTIVE" =>
       \/ task_current' = task_current
       \/ Ahead(t)' < Ahead(t)
       \/ task_current = Kernel /\ pc[Kernel] \in {"first_ps_to", "exec_to"}]_vars

-----------------------------------------------------------------------------
\* The inductive invariant from which the safety properties are proved.

TestPC == {"task_check_a", "task_check_b"}

\* Added, and neither made ready nor yielded to.
Fresh(t) == t \in used \ {Kernel} /\ status[t] \in {"WAIT", "ACTIVE"}

\* One of task_check's tasks, made ready and not yet retired.
Looping(t) ==
  t \in used \ {Kernel} /\ pc[t] \in TestPC /\ status[t] \in {"INACTIVE", "ACTIVE"}

SlotsInv ==
  /\ Kernel \in used /\ task_current \in used
  /\ \A t \in Slots \ used : status[t] = "INVALID"

PointsInv ==
  /\ pc[Kernel] \in KernelPC
  /\ \A t \in Slots \ {Kernel} : pc[t] \in TaskPC
  /\ task_current # Kernel => pc[Kernel] \in {"check_end", "get_line", "loop_yield"}

LocalsInv ==
  /\ pc[Kernel] = "check_b" => Fresh(local["a"]) /\ pc[local["a"]] \in TestPC
  /\ pc[Kernel] = "check_set" =>
       \A x \in {"a", "b"} : Fresh(local[x]) /\ pc[local[x]] \in TestPC
  /\ pc[Kernel] \in {"check_yield", "check_end"} =>
       \A x \in {"a", "b"} : Looping(local[x])
  /\ pc[Kernel] \in {"first_ps_to", "exec_to", "fork_set"} => Fresh(local["child"])

ActiveInv ==
  /\ status[Kernel] \in {"ACTIVE", "INACTIVE"}
  /\ \/ status[task_current] = "ACTIVE"
     \/ task_current # Kernel /\ pc[task_current] = "exiting" /\ Ended(task_current)

IInv ==
  /\ TypeOK /\ SlotsInv /\ PointsInv /\ LocalsInv /\ ActiveInv
  /\ NoTaskStranded /\ SchedulerNeverDies

\* How task_check comes to pass: its tasks sit in the two slots after task 0, so
\* the turns go from task 0 to them in order and back.
CheckInv ==
  /\ pc[Kernel] = "check_a" => used = {0}
  /\ pc[Kernel] = "check_b" =>
       used = {0, 1} /\ local["a"] = 1 /\ pc[1] = "task_check_a"
  /\ pc[Kernel] \in {"check_set", "check_yield", "check_end"} =>
       /\ used = {0, 1, 2} /\ local["a"] = 1 /\ local["b"] = 2
       /\ pc[1] = "task_check_a" /\ pc[2] = "task_check_b"
  /\ pc[Kernel] = "check_end" /\ task_current = 0 => check_ints = {"a", "b"}
  /\ pc[Kernel] = "check_end" /\ task_current = 2 => "a" \in check_ints
  /\ TaskCheckPasses

-----------------------------------------------------------------------------
\* The refinement mapping to CpuHandover.

PhaseOf(t) ==
  IF t \notin used THEN "free"
  ELSE IF Ended(t) THEN "ended"
  ELSE IF status[t] = "INACTIVE" THEN "ready"
  ELSE IF t = task_current THEN "running" ELSE "new"

Handover == INSTANCE CpuHandover
  WITH Tasks <- Slots, phase <- [t \in Slots |-> PhaseOf(t)]

\* The task table and its callers implement the abstract life of tasks.
ImplementsHandover == Handover!Spec

=============================================================================
