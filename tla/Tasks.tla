-------------------------------- MODULE Tasks --------------------------------
(***************************************************************************)
(* The cooperative scheduler of VVOS: the task table of arch/x86/task.c,   *)
(* the two yield entries of interrupts_asm.s, and the code that runs on    *)
(* the tasks as far as it creates, yields to, ends or retires tasks:       *)
(* task_check, kexec, the loader, kfork, the kernel shell and programs.    *)
(*                                                                         *)
(* No interrupt switches tasks, so control moves only where code yields.   *)
(* One action is one call made by the running task; pc[t] is the call task *)
(* t makes next.                                                           *)
(***************************************************************************)
EXTENDS Integers

CONSTANT TaskMax                       \* TASK_MAX: the length of tasks[]

ASSUME TaskMaxAssumption == TaskMax \in Nat \ {0}

Slots == 0 .. TaskMax - 1
Kernel == 0                            \* TASK_ID_KERNEL

Status == {"INVALID", "INACTIVE", "ACTIVE", "WAIT", "MODHACK"}

\* Calls of kernel_main's task, in program order, then those of the others.
KernelPC == {"check_a", "check_b", "check_set", "check_yield", "check_end",
             "first_ps", "first_ps_to", "get_line", "ps", "testapp",
             "exec_to", "fork", "fork_set", "loop_yield"}
TaskPC == {"task_check_a", "task_check_b", "kshell_ps", "app",
           "fork_child", "exiting", "none"}

VARIABLES
  used,          \* slots whose tasks[i].id is not TASK_ID_INVALID
  status,        \* tasks[i].status
  task_current,
  pc,
  local,         \* locals of task 0: the ids task_add returned to it
  check_ints,    \* which of task_a_check_int, task_b_check_int were set
  check,         \* what task_check logged
  fork_ret,      \* value kfork returned to its caller, -1 before it did
  machine        \* "up", or how the machine stopped

vars == <<used, status, task_current, pc, local, check_ints, check,
          fork_ret, machine>>

TypeOK ==
  /\ used \in SUBSET Slots
  /\ status \in [Slots -> Status]
  /\ task_current \in Slots
  /\ pc \in [Slots -> KernelPC \cup TaskPC]
  /\ local \in [{"a", "b", "child"} -> Slots]
  /\ check_ints \in SUBSET {"a", "b"}
  /\ check \in {"none", "passed", "failed"}
  /\ fork_ret \in Slots \cup {-1}
  /\ machine \in {"up", "off", "died", "overrun", "fault"}

\* task_initalize, seen where kernel_main calls task_check.
Init ==
  /\ used = {Kernel}
  /\ status = [i \in Slots |-> IF i = Kernel THEN "ACTIVE" ELSE "INVALID"]
  /\ task_current = Kernel
  /\ pc = [i \in Slots |-> IF i = Kernel THEN "check_a" ELSE "none"]
  /\ local = [x \in {"a", "b", "child"} |-> Kernel]
  /\ check_ints = {}
  /\ check = "none"
  /\ fork_ret = -1
  /\ machine = "up"

Runs(point) == machine = "up" /\ pc[task_current] = point

-----------------------------------------------------------------------------
\* The four ways the task table changes.

\* The first slot whose id is INVALID, as the loop of task_add finds it.
FirstFree(i) == i \in Slots \ used /\ \A j \in 0 .. i - 1 : j \in used

\* What task_add makes of t->id == TASK_ID_KERNEL. kexec, the loader and
\* task_check never set t->id, so what they compare is whatever the memory held.
AddedStatus == {"ACTIVE", "WAIT"}

\* task_add on behalf of task 0, which keeps the id in its local x and goes on
\* at `next`. With every id taken, i is TASK_MAX and the writes leave tasks[].
TaskAdd(x, entry, next, added) ==
  /\ \/ \E i \in 0 .. TaskMax :
          /\ FirstFree(i)
          /\ used' = used \cup {i}
          /\ \E s \in added : status' = [status EXCEPT ![i] = s]
          /\ pc' = [pc EXCEPT ![i] = entry, ![Kernel] = next]
          /\ local' = [local EXCEPT ![x] = i]
          /\ UNCHANGED machine
     \/ /\ Slots \subseteq used
        /\ machine' = "overrun"
        /\ UNCHANGED <<used, status, pc, local>>
  /\ UNCHANGED <<task_current, check_ints, check, fork_ret>>

\* Variant: does not park the outgoing task.
Parked_Never == status

\* The outgoing task's status, in both switch functions: only an ACTIVE task
\* becomes INACTIVE, so one that just ended keeps the status it ended with.
Parked ==
  IF status[task_current] = "ACTIVE"
    THEN [status EXCEPT ![task_current] = "INACTIVE"]
    ELSE status

\* Variant: the wrapped scan begins at slot 1 and comes to task 0 last.
Turn_WrapsToOne(i) ==
  IF i > task_current THEN i ELSE IF i = Kernel THEN 2 * TaskMax ELSE i + TaskMax
\* Variant: scans from slot 0 every time.
Turn_FromZero(i) == i

\* Place of slot i in the scan of switch_next_task: the slots above the current
\* one, then those from 0 up to and including it.
Turn(i) == IF i > task_current THEN i ELSE i + TaskMax

NextInTurn(i) ==
  /\ Parked[i] = "INACTIVE"
  /\ \A j \in Slots : Parked[j] = "INACTIVE" => Turn(i) <= Turn(j)

\* sched_yield: INT 0x99 with eax 4, switch_next_task.
SchedYield ==
  \/ \E i \in Slots :
       /\ NextInTurn(i)
       /\ task_current' = i
       /\ status' = [Parked EXCEPT ![i] = "ACTIVE"]
       /\ UNCHANGED machine
  \/ /\ \A i \in Slots : Parked[i] # "INACTIVE"
     /\ machine' = "died"
     /\ status' = Parked
     /\ UNCHANGED task_current

\* Variant: the outgoing task stays ACTIVE.
SchedYieldTo_NotParked(i) ==
  /\ task_current' = i
  /\ status' = [status EXCEPT ![i] = "ACTIVE"]
  /\ UNCHANGED machine

\* sched_yield_to: INT 0x99 with eax 0xA, switch_task_to.
SchedYieldTo(i) ==
  /\ task_current' = i
  /\ status' = [Parked EXCEPT ![i] = "ACTIVE"]
  /\ UNCHANGED machine

\* A yield changes nothing else of the task than where it will go on.
YieldAt(point, next) ==
  /\ Runs(point)
  /\ SchedYield
  /\ pc' = [pc EXCEPT ![task_current] = next]
  /\ UNCHANGED <<used, local, check_ints, check, fork_ret>>

\* Task 0 goes on from one point to another and nothing else happens.
KernelGoes(point, next) ==
  /\ Runs(point)
  /\ pc' = [pc EXCEPT ![Kernel] = next]
  /\ UNCHANGED <<used, status, task_current, local, check_ints, check,
                 fork_ret, machine>>

-----------------------------------------------------------------------------
\* task_check, run by kernel_main before the shell starts.

CheckAddA == Runs("check_a") /\ TaskAdd("a", "task_check_a", "check_b", AddedStatus)
CheckAddB == Runs("check_b") /\ TaskAdd("b", "task_check_b", "check_set", AddedStatus)

CheckSetInactive ==
  /\ Runs("check_set")
  /\ status' = [status EXCEPT ![local["a"]] = "INACTIVE", ![local["b"]] = "INACTIVE"]
  /\ pc' = [pc EXCEPT ![Kernel] = "check_yield"]
  /\ UNCHANGED <<used, task_current, local, check_ints, check, fork_ret, machine>>

CheckYield == YieldAt("check_yield", "check_end")

CheckEnd ==
  /\ Runs("check_end")
  /\ status' = [status EXCEPT ![local["a"]] = "INVALID", ![local["b"]] = "INVALID"]
  /\ check' = IF check_ints = {"a", "b"} THEN "passed" ELSE "failed"
  /\ pc' = [pc EXCEPT ![Kernel] = "first_ps"]
  /\ UNCHANGED <<used, task_current, local, check_ints, fork_ret, machine>>

\* One turn of the loops in task_check_a and task_check_b.
CheckTask(x, point) ==
  /\ Runs(point)
  /\ check_ints' = check_ints \cup {x}
  /\ SchedYield
  /\ UNCHANGED <<used, pc, local, check, fork_ret>>

-----------------------------------------------------------------------------
\* The kernel shell. kshell_run starts one "ps" of its own and enters its loop.

FirstPs   == Runs("first_ps") /\ TaskAdd("child", "kshell_ps", "first_ps_to", AddedStatus)
ShellPs   == Runs("ps") /\ TaskAdd("child", "kshell_ps", "exec_to", AddedStatus)
ShellApp  == Runs("testapp") /\ TaskAdd("child", "app", "exec_to", AddedStatus)

\* The sched_yield_to that ends kexec and loader_load_and_run.
ExecTo(point, next) ==
  /\ Runs(point)
  /\ SchedYieldTo(local["child"])
  /\ pc' = [pc EXCEPT ![Kernel] = next]
  /\ UNCHANGED <<used, local, check_ints, check, fork_ret>>

FirstPsTo == ExecTo("first_ps_to", "get_line")
ShellExecTo == ExecTo("exec_to", "loop_yield")

\* kapps_console_getchar yields for as long as no character is there ...
LineBlocks == YieldAt("get_line", "get_line")
\* ... and a complete line is dispatched; a command that neither creates a task
\* nor stops the machine goes straight to the yield that ends the loop.
LineCommand ==
  \E next \in {"ps", "testapp", "fork", "loop_yield"} : KernelGoes("get_line", next)

\* "q": kshell_shutdown.
LineQuit ==
  /\ Runs("get_line")
  /\ machine' = "off"
  /\ UNCHANGED <<used, status, task_current, pc, local, check_ints, check, fork_ret>>

LoopYield == YieldAt("loop_yield", "get_line")

\* kfork, called by kshell_test_fork. t is the caller's own table entry, so
\* t->id is known: the child of task 0 starts ACTIVE.
ForkAdd == Runs("fork") /\ TaskAdd("child", "fork_child", "fork_set", {"ACTIVE"})

\* Variant: leaves the child in the status task_add gave it.
ForkReturn_NotReady ==
  /\ Runs("fork_set")
  /\ fork_ret' = task_current
  /\ pc' = [pc EXCEPT ![Kernel] = "loop_yield"]
  /\ UNCHANGED <<used, status, task_current, local, check_ints, check, machine>>

ForkReturn ==
  /\ Runs("fork_set")
  /\ status' = [status EXCEPT ![local["child"]] = "INACTIVE"]
  /\ fork_ret' = task_current
  /\ pc' = [pc EXCEPT ![Kernel] = "loop_yield"]
  /\ UNCHANGED <<used, task_current, local, check_ints, check, machine>>

\* The child's entry is tasks[0].entry, which nothing sets: it jumps to 0.
ForkChildRuns ==
  /\ Runs("fork_child")
  /\ machine' = "fault"
  /\ UNCHANGED <<used, status, task_current, pc, local, check_ints, check, fork_ret>>

-----------------------------------------------------------------------------
\* Programs: kshell_ps and the applications the loader starts.

\* task_exit and task_end_from_wrapper up to their call of sched_yield.
Ends(point, final) ==
  /\ Runs(point)
  /\ status' = [status EXCEPT ![task_current] = final]
  /\ pc' = [pc EXCEPT ![task_current] = "exiting"]
  /\ UNCHANGED <<used, task_current, local, check_ints, check, fork_ret, machine>>

PsExits  == Ends("kshell_ps", "INVALID")
AppExits == Ends("app", "INVALID")      \* SYSCALL_EXIT
AppEnds  == Ends("app", "MODHACK")      \* SYSCALL_END
AppYields == YieldAt("app", "app")      \* SYSCALL_SCHED_YIELD, or a blocked read

ExitYields == YieldAt("exiting", "exiting")

Stopped == machine # "up" /\ UNCHANGED vars

-----------------------------------------------------------------------------
KernelStep ==
  \/ CheckAddA \/ CheckAddB \/ CheckSetInactive \/ CheckYield \/ CheckEnd
  \/ FirstPs \/ FirstPsTo \/ ShellPs \/ ShellApp \/ ShellExecTo
  \/ LineBlocks \/ LineCommand \/ LineQuit \/ LoopYield
  \/ ForkAdd \/ ForkReturn

TaskStep ==
  \/ CheckTask("a", "task_check_a") \/ CheckTask("b", "task_check_b")
  \/ PsExits \/ AppExits \/ AppEnds \/ AppYields \/ ExitYields
  \/ ForkChildRuns

Next == KernelStep \/ TaskStep \/ Stopped

Spec == Init /\ [][Next]_vars

\* The CPU never idles: the running task always takes its next step, whichever
\* the input makes it. Nothing is assumed of what the user types.
FairSpec == Spec /\ WF_vars(KernelStep \/ TaskStep)

=============================================================================
