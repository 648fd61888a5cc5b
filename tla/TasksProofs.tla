----------------------------- MODULE TasksProofs -----------------------------
(***************************************************************************)
(* Proofs about the scheduler for a task table of any length: the          *)
(* inductive invariant of TasksProps and the safety properties it implies. *)
(***************************************************************************)
EXTENDS TasksProps, TLAPS

\* The table has a slot for task 0.
LEMMA KernelIsASlot == Kernel \in Slots
BY TaskMaxAssumption DEF Kernel, Slots

\* The first call of kernel_main's task is made in a table that holds task 0 only.
LEMMA InitIInv == Init => IInv
<1> SUFFICES ASSUME Init PROVE IInv OBVIOUS
<1> USE KernelIsASlot DEF Init
<1>1. TypeOK BY DEF TypeOK, Status, KernelPC, TaskPC
<1>2. SlotsInv BY DEF SlotsInv
<1>3. PointsInv BY DEF PointsInv, KernelPC, TaskPC
<1>4. LocalsInv BY DEF LocalsInv
<1>5. ActiveInv BY DEF ActiveInv
<1>6. NoTaskStranded /\ SchedulerNeverDies BY DEF NoTaskStranded, SchedulerNeverDies
<1>7. QED BY <1>1, <1>2, <1>3, <1>4, <1>5, <1>6 DEF IInv

\* Whenever a task yields, task 0 is either the task that yields or waiting for
\* its turn, so the scan of switch_next_task finds a task: the branch that shuts
\* the machine down is never taken, and what is found was INACTIVE.
LEMMA YieldFindsATask ==
  ASSUME IInv, SchedYield
  PROVE  \E i \in used :
           /\ Parked[i] = "INACTIVE"
           /\ task_current' = i
           /\ status' = [Parked EXCEPT ![i] = "ACTIVE"]
           /\ machine' = machine
<1> USE KernelIsASlot DEF IInv, TypeOK
<1>1. status[Kernel] = "ACTIVE" => Kernel = task_current
  <2>1. ~BeingSetUp(Kernel) BY DEF LocalsInv, BeingSetUp, Fresh
  <2>2. QED BY <2>1 DEF NoTaskStranded, SlotsInv
<1>2. Parked[Kernel] = "INACTIVE"
  BY <1>1 DEF Parked, ActiveInv, Ended
<1>3. PICK i \in Slots : /\ NextInTurn(i)
                         /\ task_current' = i
                         /\ status' = [Parked EXCEPT ![i] = "ACTIVE"]
                         /\ machine' = machine
  BY <1>2 DEF SchedYield
<1>4. i \in used BY <1>3 DEF NextInTurn, Parked, SlotsInv
<1>5. QED BY <1>3, <1>4 DEF NextInTurn

\* Where a task goes on after it yields: a task other than task 0 at the same
\* call, task 0 at the call its program text has after the yield.
GoesOn(next) ==
  \/ task_current # Kernel /\ next = pc[task_current]
  \/ task_current = Kernel /\ pc[Kernel] \in {"get_line", "loop_yield"} /\ next = "get_line"
  \/ task_current = Kernel /\ pc[Kernel] = "check_yield" /\ next = "check_end"

\* A yield of any task keeps the invariant.
LEMMA YieldKeepsIInv ==
  ASSUME IInv, SchedYield, NEW next, GoesOn(next),
         pc' = [pc EXCEPT ![task_current] = next],
         check_ints' \in SUBSET {"a", "b"},
         UNCHANGED <<used, local, check, fork_ret>>
  PROVE  IInv'
<1> USE KernelIsASlot
<1>1. PICK i \in used : /\ Parked[i] = "INACTIVE"
                        /\ task_current' = i
                        /\ status' = [Parked EXCEPT ![i] = "ACTIVE"]
                        /\ machine' = machine
  BY YieldFindsATask
<1> USE DEF IInv, TypeOK
<1>2. next \in KernelPC \cup TaskPC BY DEF GoesOn, KernelPC
<1>3. Parked \in [Slots -> Status] BY DEF Parked, Status
<1>4. TypeOK' BY <1>1, <1>2, <1>3 DEF Status
<1>5. SlotsInv' BY <1>1, <1>3 DEF SlotsInv, Parked
<1>6. PointsInv' BY <1>1 DEF PointsInv, GoesOn, KernelPC
<1>7. \A t \in Slots : Looping(t) => Looping(t)'
  BY <1>1, <1>3 DEF Looping, Parked, GoesOn
<1>8. pc'[Kernel] \in {"check_end", "get_line", "loop_yield"}
  BY DEF PointsInv, GoesOn
<1>9. LocalsInv'
  <2>1. ASSUME pc'[Kernel] = "check_end" PROVE pc[Kernel] \in {"check_yield", "check_end"}
    BY <2>1 DEF GoesOn
  <2>2. QED BY <2>1, <1>7, <1>8 DEF LocalsInv
<1>10. \A t \in used : status'[t] \in {"ACTIVE", "WAIT"} => t = task_current'
  <2>1. \A t \in used : ~BeingSetUp(t)
    BY DEF BeingSetUp, GoesOn
  <2>2. \A t \in used : Parked[t] \notin {"ACTIVE", "WAIT"}
    BY <2>1 DEF NoTaskStranded, Parked, ActiveInv, Ended
  <2>3. QED BY <1>1, <1>3, <2>2
<1>11. NoTaskStranded' BY <1>10 DEF NoTaskStranded
<1>12. ActiveInv'
  BY <1>1, <1>3 DEF ActiveInv, Parked, SlotsInv, Ended
<1>13. SchedulerNeverDies' BY <1>1 DEF SchedulerNeverDies
<1>14. QED BY <1>4, <1>5, <1>6, <1>9, <1>11, <1>12, <1>13

\* Task 0 is the running task at each of its calls.
LEMMA PointOfKernel ==
  ASSUME IInv, NEW point \in KernelPC, Runs(point)
  PROVE  task_current = Kernel /\ pc[Kernel] = point /\ status[Kernel] = "ACTIVE"
BY DEF IInv, TypeOK, Runs, PointsInv, ActiveInv, KernelPC, TaskPC

\* A free slot now holds a new task, and task 0 goes on at next with its id in x.
AddedAt(i, x, entry, next) ==
  /\ used' = used \cup {i}
  /\ status'[i] \in {"WAIT", "ACTIVE"}
  /\ \A t \in Slots \ {i} :
       status'[t] = status[t] /\ (t # Kernel => pc'[t] = pc[t])
  /\ local' = [local EXCEPT ![x] = i]
  /\ pc'[i] = entry /\ pc'[Kernel] = next
  /\ task_current' = Kernel

OnlyStops ==
  UNCHANGED <<used, status, task_current, pc, local, check_ints, check, fork_ret>>

\* task_add called by task 0 either leaves everything but the machine as it was
\* or fills one free slot, and disturbs only the locals and who is being set up.
LEMMA TaskAddKeeps ==
  ASSUME IInv, task_current = Kernel, status[Kernel] = "ACTIVE",
         NEW x \in {"a", "b", "child"}, NEW entry \in TaskPC,
         NEW next \in KernelPC, NEW added \in SUBSET {"WAIT", "ACTIVE"},
         TaskAdd(x, entry, next, added)
  PROVE  \/ machine' = "overrun" /\ OnlyStops
         \/ /\ \E i \in Slots \ used : AddedAt(i, x, entry, next)
            /\ TypeOK' /\ SlotsInv' /\ PointsInv' /\ ActiveInv' /\ SchedulerNeverDies'
<1> USE KernelIsASlot DEF IInv, TypeOK
<1>1. CASE \E i \in Slots : /\ FirstFree(i)
                            /\ used' = used \cup {i}
                            /\ \E s \in added : status' = [status EXCEPT ![i] = s]
                            /\ pc' = [pc EXCEPT ![i] = entry, ![Kernel] = next]
                            /\ local' = [local EXCEPT ![x] = i]
                            /\ UNCHANGED machine
  <2>0. UNCHANGED <<task_current, check_ints, check, fork_ret>> BY DEF TaskAdd
  <2>1. PICK i \in Slots \ used, s \in added :
               /\ used' = used \cup {i}
               /\ status' = [status EXCEPT ![i] = s]
               /\ pc' = [pc EXCEPT ![i] = entry, ![Kernel] = next]
               /\ local' = [local EXCEPT ![x] = i]
               /\ UNCHANGED machine
    BY <1>1 DEF FirstFree
  <2>2. i # Kernel /\ s \in {"WAIT", "ACTIVE"} BY <2>1 DEF SlotsInv
  <2>3. TypeOK' BY <2>0, <2>1, <2>2 DEF Status
  <2>4. SlotsInv' BY <2>0, <2>1, <2>2 DEF SlotsInv
  <2>5. PointsInv' BY <2>0, <2>1, <2>2 DEF PointsInv
  <2>6. ActiveInv' BY <2>0, <2>1, <2>2 DEF ActiveInv
  <2>7. SchedulerNeverDies' BY <2>1 DEF SchedulerNeverDies
  <2>8. AddedAt(i, x, entry, next) BY <2>0, <2>1, <2>2 DEF AddedAt
  <2>9. QED BY <2>3, <2>4, <2>5, <2>6, <2>7, <2>8
<1>2. CASE machine' = "overrun" /\ UNCHANGED <<used, status, pc, local>>
  BY <1>2 DEF TaskAdd, OnlyStops
<1>3. QED BY <1>1, <1>2 DEF TaskAdd, FirstFree

\* A step that only stops the machine, otherwise than by a scheduler that found
\* no task, keeps the invariant.
LEMMA StoppingKeepsIInv ==
  ASSUME IInv, machine' \in {"off", "overrun", "fault"}, OnlyStops
  PROVE  IInv'
BY DEF OnlyStops, IInv, TypeOK, SlotsInv, PointsInv, LocalsInv, ActiveInv, NoTaskStranded,
       SchedulerNeverDies, BeingSetUp, Fresh, Looping, Ended

\* Outside the window between task_add and what its caller does next, every
\* task but task 0 is ready or ended while task 0 runs.
LEMMA NobodyFresh ==
  ASSUME IInv, NEW point \in KernelPC, Runs(point),
         point \notin {"check_b", "check_set", "first_ps_to", "exec_to", "fork_set"}
  PROVE  \A t \in used \ {Kernel} : status[t] \notin {"WAIT", "ACTIVE"}
<1>1. task_current = Kernel /\ pc[Kernel] = point BY PointOfKernel
<1>2. \A t : ~BeingSetUp(t) BY <1>1 DEF BeingSetUp
<1>3. QED BY <1>1, <1>2 DEF IInv, NoTaskStranded

\* The calls of task_add: what is left to show is that the task it adds is the
\* only one, beside those task_check is still setting up, that nobody made ready.
LEMMA AddingKeepsIInv ==
  ASSUME IInv, CheckAddA \/ CheckAddB \/ FirstPs \/ ShellPs \/ ShellApp \/ ForkAdd
  PROVE  IInv'
<1> USE KernelIsASlot DEF AddedStatus
<1>1. ASSUME NEW x \in {"a", "b", "child"}, NEW entry \in TaskPC, NEW next \in KernelPC,
             NEW point \in KernelPC, Runs(point),
             NEW added \in SUBSET {"WAIT", "ACTIVE"}, TaskAdd(x, entry, next, added),
             \A i \in Slots \ used : AddedAt(i, x, entry, next)
                                     => LocalsInv' /\ NoTaskStranded'
      PROVE  IInv'
  <2>1. task_current = Kernel /\ status[Kernel] = "ACTIVE" BY <1>1, PointOfKernel
  <2>2. CASE machine' = "overrun" /\ OnlyStops BY <2>2, StoppingKeepsIInv
  <2>3. CASE /\ \E i \in Slots \ used : AddedAt(i, x, entry, next)
             /\ TypeOK' /\ SlotsInv' /\ PointsInv' /\ ActiveInv' /\ SchedulerNeverDies'
    BY <1>1, <2>3 DEF IInv
  <2>4. QED BY <1>1, <2>1, <2>2, <2>3, TaskAddKeeps
<1>2. CASE CheckAddA
  <2>1. Runs("check_a") /\ TaskAdd("a", "task_check_a", "check_b", AddedStatus)
    BY <1>2 DEF CheckAddA
  <2>2. ASSUME NEW i \in Slots \ used, AddedAt(i, "a", "task_check_a", "check_b")
        PROVE  LocalsInv' /\ NoTaskStranded'
    <3>1. i # Kernel /\ local' = [local EXCEPT !["a"] = i] /\ i \in used'
      BY <2>2 DEF AddedAt, IInv, SlotsInv
    <3>2. LocalsInv'
      BY <2>2, <3>1 DEF LocalsInv, AddedAt, Fresh, TestPC, IInv, TypeOK
    <3>3. \A t \in used \ {Kernel} : status[t] \notin {"WAIT", "ACTIVE"}
      BY <2>1, NobodyFresh DEF KernelPC
    <3>4. NoTaskStranded'
      BY <2>2, <3>1, <3>3 DEF NoTaskStranded, BeingSetUp, AddedAt, IInv, TypeOK
    <3>5. QED BY <3>2, <3>4
  <2>3. QED BY <1>1, <2>1, <2>2 DEF KernelPC, TaskPC
<1>3. CASE CheckAddB
  <2>1. Runs("check_b") /\ TaskAdd("b", "task_check_b", "check_set", AddedStatus)
    BY <1>3 DEF CheckAddB
  <2>2. task_current = Kernel /\ pc[Kernel] = "check_b"
    BY <2>1, PointOfKernel DEF KernelPC
  <2>3. Fresh(local["a"]) /\ pc[local["a"]] \in TestPC BY <2>2 DEF IInv, LocalsInv
  <2>4. ASSUME NEW i \in Slots \ used, AddedAt(i, "b", "task_check_b", "check_set")
        PROVE  LocalsInv' /\ NoTaskStranded'
    <3>1. i # Kernel /\ local'["b"] = i /\ local'["a"] = local["a"] /\ i \in used'
      BY <2>4 DEF AddedAt, IInv, SlotsInv, TypeOK
    <3>2. Fresh(local["a"])' /\ pc'[local'["a"]] \in TestPC
      BY <2>3, <2>4, <3>1 DEF Fresh, AddedAt, IInv, TypeOK
    <3>3. Fresh(local["b"])' /\ pc'[local'["b"]] \in TestPC
      BY <2>4, <3>1 DEF Fresh, AddedAt, TestPC
    <3>4. LocalsInv' BY <2>4, <3>2, <3>3 DEF LocalsInv, AddedAt
    <3>5. NoTaskStranded'
      BY <2>2, <2>4, <3>1 DEF NoTaskStranded, BeingSetUp, AddedAt, IInv, TypeOK
    <3>6. QED BY <3>4, <3>5
  <2>5. QED BY <1>1, <2>1, <2>4 DEF KernelPC, TaskPC
<1>4. ASSUME NEW point \in {"first_ps", "ps", "testapp", "fork"}, Runs(point),
             NEW entry \in TaskPC, NEW next \in {"first_ps_to", "exec_to", "fork_set"},
             NEW added \in SUBSET {"WAIT", "ACTIVE"}, TaskAdd("child", entry, next, added)
      PROVE  IInv'
  <2>1. point \in KernelPC /\ next \in KernelPC BY DEF KernelPC
  <2>2. ASSUME NEW i \in Slots \ used, AddedAt(i, "child", entry, next)
        PROVE  LocalsInv' /\ NoTaskStranded'
    <3>1. i # Kernel /\ local'["child"] = i /\ i \in used'
      BY <2>2 DEF AddedAt, IInv, SlotsInv, TypeOK
    <3>2. LocalsInv' BY <2>2, <3>1 DEF LocalsInv, AddedAt, Fresh
    <3>3. \A t \in used \ {Kernel} : status[t] \notin {"WAIT", "ACTIVE"}
      BY <1>4, <2>1, NobodyFresh
    <3>4. NoTaskStranded'
      BY <2>2, <3>1, <3>3 DEF NoTaskStranded, BeingSetUp, AddedAt, IInv, TypeOK
    <3>5. QED BY <3>2, <3>4
  <2>3. QED BY <1>1, <1>4, <2>1, <2>2
<1>5. QED BY <1>2, <1>3, <1>4 DEF FirstPs, ShellPs, ShellApp, ForkAdd, TaskPC

\* A yield to a fresh task hands it the CPU and leaves no other task stranded.
LEMMA ExecToKeepsIInv ==
  ASSUME IInv, FirstPsTo \/ ShellExecTo
  PROVE  IInv'
<1> USE KernelIsASlot DEF IInv, TypeOK
<1>1. PICK point \in {"first_ps_to", "exec_to"}, next \in {"get_line", "loop_yield"} :
        ExecTo(point, next)
  BY DEF FirstPsTo, ShellExecTo
<1>2. task_current = Kernel /\ status[Kernel] = "ACTIVE" /\ pc[Kernel] = point
  BY <1>1, PointOfKernel DEF ExecTo, KernelPC
<1> DEFINE c == local["child"]
<1>3. Fresh(c) BY <1>1, <1>2 DEF LocalsInv
<1>4. /\ task_current' = c
      /\ status' = [status EXCEPT ![Kernel] = "INACTIVE", ![c] = "ACTIVE"]
      /\ pc' = [pc EXCEPT ![Kernel] = next]
      /\ UNCHANGED <<used, local, check_ints, check, fork_ret, machine>>
  BY <1>1, <1>2, <1>3 DEF ExecTo, SchedYieldTo, Parked, Fresh
<1>5. TypeOK' BY <1>3, <1>4 DEF Status, KernelPC
<1>6. SlotsInv' /\ PointsInv' /\ LocalsInv' /\ ActiveInv' /\ SchedulerNeverDies'
  BY <1>3, <1>4
  DEF Fresh, SlotsInv, PointsInv, LocalsInv, ActiveInv, SchedulerNeverDies, KernelPC
<1>7. NoTaskStranded' BY <1>2, <1>3, <1>4 DEF NoTaskStranded, BeingSetUp, Fresh
<1>8. QED BY <1>5, <1>6, <1>7

\* task_check and kfork make ready exactly the tasks they set up.
LEMMA PublishingKeepsIInv ==
  ASSUME IInv, CheckSetInactive \/ ForkReturn
  PROVE  IInv'
<1> USE KernelIsASlot DEF IInv, TypeOK
<1>1. CASE CheckSetInactive
  <2>1. task_current = Kernel /\ status[Kernel] = "ACTIVE" /\ pc[Kernel] = "check_set"
    BY <1>1, PointOfKernel DEF CheckSetInactive, KernelPC
  <2>2. \A x \in {"a", "b"} : Fresh(local[x]) /\ pc[local[x]] \in TestPC
    BY <2>1 DEF LocalsInv
  <2>3. TypeOK' BY <1>1, <2>2 DEF CheckSetInactive, Status, KernelPC
  <2>4. SlotsInv' BY <1>1, <2>2 DEF CheckSetInactive, SlotsInv, Fresh
  <2>5. PointsInv' BY <1>1, <2>1 DEF CheckSetInactive, PointsInv, KernelPC
  <2>6. \A x \in {"a", "b"} : Looping(local[x])'
    BY <1>1, <2>2 DEF CheckSetInactive, Looping, Fresh
  <2>7. pc'[Kernel] = "check_yield" BY <1>1 DEF CheckSetInactive
  <2>8. LocalsInv' BY <2>6, <2>7 DEF LocalsInv
  <2>9. ActiveInv' /\ SchedulerNeverDies'
    BY <1>1, <2>1, <2>2 DEF CheckSetInactive, ActiveInv, Fresh, SchedulerNeverDies
  <2>10. NoTaskStranded'
    BY <1>1, <2>1, <2>2 DEF CheckSetInactive, NoTaskStranded, BeingSetUp, Fresh
  <2>11. QED BY <2>3, <2>4, <2>5, <2>8, <2>9, <2>10
<1>2. CASE ForkReturn
  <2>1. task_current = Kernel /\ status[Kernel] = "ACTIVE" /\ pc[Kernel] = "fork_set"
    BY <1>2, PointOfKernel DEF ForkReturn, KernelPC
  <2>2. Fresh(local["child"]) BY <2>1 DEF LocalsInv
  <2>3. TypeOK' BY <1>2, <2>2 DEF ForkReturn, Status, KernelPC
  <2>4. SlotsInv' /\ PointsInv' /\ LocalsInv'
    BY <1>2, <2>1, <2>2 DEF ForkReturn, SlotsInv, PointsInv, LocalsInv, Fresh, KernelPC
  <2>5. ActiveInv' /\ SchedulerNeverDies'
    BY <1>2, <2>1, <2>2 DEF ForkReturn, ActiveInv, Fresh, SchedulerNeverDies
  <2>6. NoTaskStranded'
    BY <1>2, <2>1, <2>2 DEF ForkReturn, NoTaskStranded, BeingSetUp, Fresh
  <2>7. QED BY <2>3, <2>4, <2>5, <2>6
<1>3. QED BY <1>1, <1>2

\* task_check retires two tasks that are not task 0 and do not hold the CPU.
LEMMA CheckEndKeepsIInv ==
  ASSUME IInv, CheckEnd
  PROVE  IInv'
<1> USE KernelIsASlot DEF IInv, TypeOK
<1>1. task_current = Kernel /\ status[Kernel] = "ACTIVE" /\ pc[Kernel] = "check_end"
  BY PointOfKernel DEF CheckEnd, KernelPC
<1>2. \A x \in {"a", "b"} : Looping(local[x]) BY <1>1 DEF LocalsInv
<1>3. TypeOK' BY <1>2 DEF CheckEnd, Status, KernelPC
<1>4. SlotsInv' /\ PointsInv' /\ LocalsInv'
  BY <1>1, <1>2 DEF CheckEnd, SlotsInv, PointsInv, LocalsInv, Looping, KernelPC
<1>5. ActiveInv' /\ SchedulerNeverDies'
  BY <1>1, <1>2 DEF CheckEnd, ActiveInv, Looping, SchedulerNeverDies
<1>6. NoTaskStranded'
  BY <1>1, <1>2 DEF CheckEnd, NoTaskStranded, BeingSetUp, Looping
<1>7. QED BY <1>3, <1>4, <1>5, <1>6

\* The shell moves between calls only where no task is being set up.
LEMMA LineCommandKeepsIInv ==
  ASSUME IInv, LineCommand
  PROVE  IInv'
<1> USE KernelIsASlot DEF IInv, TypeOK
<1>1. task_current = Kernel /\ status[Kernel] = "ACTIVE" /\ pc[Kernel] = "get_line"
  BY PointOfKernel DEF LineCommand, KernelGoes, KernelPC
<1>2. PICK next \in {"ps", "testapp", "fork", "loop_yield"} : KernelGoes("get_line", next)
  BY DEF LineCommand
<1>3. TypeOK' BY <1>2 DEF KernelGoes, KernelPC
<1>4. SlotsInv' /\ PointsInv' /\ LocalsInv' /\ ActiveInv' /\ SchedulerNeverDies'
  BY <1>1, <1>2
  DEF KernelGoes, SlotsInv, PointsInv, LocalsInv, ActiveInv, SchedulerNeverDies, KernelPC
<1>5. NoTaskStranded' BY <1>1, <1>2 DEF KernelGoes, NoTaskStranded, BeingSetUp
<1>6. QED BY <1>3, <1>4, <1>5

\* Only a task other than task 0 ends, and it keeps the CPU until it yields.
LEMMA EndingKeepsIInv ==
  ASSUME IInv, PsExits \/ AppExits \/ AppEnds
  PROVE  IInv'
<1> USE KernelIsASlot DEF IInv, TypeOK
<1>1. PICK point \in {"kshell_ps", "app"}, final \in {"INVALID", "MODHACK"} : Ends(point, final)
  BY DEF PsExits, AppExits, AppEnds
<1>2. task_current # Kernel /\ pc[task_current] = point /\ point \notin TestPC
  BY <1>1 DEF Ends, Runs, PointsInv, KernelPC, TestPC
<1>3. pc[Kernel] \in {"check_end", "get_line", "loop_yield"} BY <1>2 DEF PointsInv
<1>4. TypeOK' BY <1>1 DEF Ends, Status, TaskPC
<1>5. SlotsInv' /\ PointsInv'
  BY <1>1, <1>2 DEF Ends, SlotsInv, PointsInv, TaskPC
<1>6. LocalsInv'
  <2>1. \A t \in Slots : Looping(t) => Looping(t)' BY <1>1, <1>2 DEF Ends, Looping
  <2>2. QED BY <1>1, <1>2, <1>3, <2>1 DEF Ends, LocalsInv
<1>7. ActiveInv' /\ SchedulerNeverDies'
  BY <1>1, <1>2 DEF Ends, ActiveInv, Ended, SlotsInv, SchedulerNeverDies
<1>8. NoTaskStranded' BY <1>1, <1>2 DEF Ends, NoTaskStranded, BeingSetUp
<1>9. QED BY <1>4, <1>5, <1>6, <1>7, <1>8

\* Every step of the system keeps the invariant.
LEMMA NextKeepsIInv == IInv /\ [Next]_vars => IInv'
<1> SUFFICES ASSUME IInv, [Next]_vars PROVE IInv' OBVIOUS
<1>1. CASE CheckAddA \/ CheckAddB \/ FirstPs \/ ShellPs \/ ShellApp \/ ForkAdd
  BY <1>1, AddingKeepsIInv
<1>2. CASE FirstPsTo \/ ShellExecTo BY <1>2, ExecToKeepsIInv
<1>3. CASE CheckSetInactive \/ ForkReturn BY <1>3, PublishingKeepsIInv
<1>4. CASE CheckEnd BY <1>4, CheckEndKeepsIInv
<1>5. CASE LineCommand BY <1>5, LineCommandKeepsIInv
<1>6. CASE PsExits \/ AppExits \/ AppEnds BY <1>6, EndingKeepsIInv
<1>7. CASE LineQuit \/ ForkChildRuns
  BY <1>7, StoppingKeepsIInv DEF LineQuit, ForkChildRuns, OnlyStops
<1>8. ASSUME NEW point \in KernelPC \cup TaskPC, NEW next, YieldAt(point, next), GoesOn(next)
      PROVE  IInv'
  BY <1>8, YieldKeepsIInv DEF YieldAt, IInv, TypeOK
<1>9. CASE CheckYield \/ LineBlocks \/ LoopYield
  BY <1>8, <1>9, PointOfKernel DEF CheckYield, LineBlocks, LoopYield, YieldAt, GoesOn, KernelPC
<1>10. CASE AppYields \/ ExitYields
  BY <1>8, <1>10
  DEF AppYields, ExitYields, YieldAt, GoesOn, Runs, IInv, PointsInv, KernelPC, TaskPC
<1>11. CASE CheckTask("a", "task_check_a") \/ CheckTask("b", "task_check_b")
  <2>1. PICK x \in {"a", "b"}, point \in TestPC : CheckTask(x, point)
    BY <1>11 DEF TestPC
  <2>2. GoesOn(pc[task_current]) /\ pc' = [pc EXCEPT ![task_current] = pc[task_current]]
    BY <2>1 DEF CheckTask, GoesOn, Runs, IInv, TypeOK, PointsInv, KernelPC, TestPC
  <2>3. check_ints' \in SUBSET {"a", "b"} BY <2>1 DEF CheckTask, IInv, TypeOK
  <2>4. QED BY <2>1, <2>2, <2>3, YieldKeepsIInv DEF CheckTask
<1>12. CASE Stopped \/ UNCHANGED vars
  BY <1>12
  DEF Stopped, vars, IInv, TypeOK, SlotsInv, PointsInv, LocalsInv, ActiveInv, NoTaskStranded,
      SchedulerNeverDies, BeingSetUp, Fresh, Looping, Ended
<1>13. QED
  BY <1>1, <1>2, <1>3, <1>4, <1>5, <1>6, <1>7, <1>9, <1>10, <1>11, <1>12
  DEF Next, KernelStep, TaskStep

-----------------------------------------------------------------------------

\* The invariant holds in every reachable state.
THEOREM InductiveInvariant == Spec => []IInv
<1>1. QED BY InitIInv, NextKeepsIInv, PTL DEF Spec

\* The table and the tasks' points of execution always have their types.
THEOREM TypeCorrect == Spec => []TypeOK
<1>1. IInv => TypeOK BY DEF IInv
<1>2. QED BY <1>1, InductiveInvariant, PTL

\* However long the table and whatever the uninitialised ids hold, no live task
\* is left in a status the scheduler does not look for (task.c:205-222).
THEOREM NoTaskIsStranded == Spec => []NoTaskStranded
<1>1. IInv => NoTaskStranded BY DEF IInv
<1>2. QED BY <1>1, InductiveInvariant, PTL

\* The code that runs always belongs to the table's ACTIVE task or to a task on
\* its way out (task.c:272-286).
THEOREM TheRunningTaskIsActive == Spec => []RunningTaskIsActive
<1>1. IInv => RunningTaskIsActive BY DEF IInv, ActiveInv, RunningTaskIsActive
<1>2. QED BY <1>1, InductiveInvariant, PTL

\* The branch commented "we should never hit this" (task.c:226) is dead.
THEOREM TheSchedulerNeverDies == Spec => []SchedulerNeverDies
<1>1. IInv => SchedulerNeverDies BY DEF IInv
<1>2. QED BY <1>1, InductiveInvariant, PTL

\* One step never revives a task that has ended, nor gives it the CPU.
LEMMA StepKeepsEnded ==
  ASSUME IInv, [Next]_vars, NEW t \in used, Ended(t)
  PROVE  status'[t] = status[t] /\ (task_current' = t => task_current = t)
<1> USE KernelIsASlot DEF IInv, TypeOK, Ended
<1>1. CASE CheckAddA \/ CheckAddB \/ FirstPs \/ ShellPs \/ ShellApp \/ ForkAdd
  <2>1. PICK x \in {"a", "b", "child"}, entry \in TaskPC, next \in KernelPC,
              added \in SUBSET {"WAIT", "ACTIVE"} : TaskAdd(x, entry, next, added)
    BY <1>1 DEF CheckAddA, CheckAddB, FirstPs, ShellPs, ShellApp, ForkAdd, AddedStatus,
                TaskPC, KernelPC
  <2>2. QED BY <2>1 DEF TaskAdd, FirstFree
<1>2. CASE FirstPsTo \/ ShellExecTo
  <2>1. task_current = Kernel /\ Fresh(local["child"])
    BY <1>2, PointOfKernel DEF FirstPsTo, ShellExecTo, ExecTo, KernelPC, LocalsInv
  <2>2. SchedYieldTo(local["child"])
    BY <1>2 DEF FirstPsTo, ShellExecTo, ExecTo
  <2>3. QED BY <2>1, <2>2 DEF SchedYieldTo, Parked, Fresh
<1>3. CASE CheckSetInactive
  <2>1. \A x \in {"a", "b"} : Fresh(local[x])
    BY <1>3, PointOfKernel DEF CheckSetInactive, KernelPC, LocalsInv
  <2>2. QED BY <1>3, <2>1 DEF CheckSetInactive, Fresh
<1>4. CASE ForkReturn
  <2>1. Fresh(local["child"])
    BY <1>4, PointOfKernel DEF ForkReturn, KernelPC, LocalsInv
  <2>2. QED BY <1>4, <2>1 DEF ForkReturn, Fresh
<1>5. CASE CheckEnd
  <2>1. \A x \in {"a", "b"} : Looping(local[x])
    BY <1>5, PointOfKernel DEF CheckEnd, KernelPC, LocalsInv
  <2>2. QED BY <1>5, <2>1 DEF CheckEnd, Looping
<1>6. CASE PsExits \/ AppExits \/ AppEnds
  BY <1>6
  DEF PsExits, AppExits, AppEnds, Ends, Runs, ActiveInv, PointsInv, KernelPC
<1>7. ASSUME SchedYield PROVE status'[t] = status[t] /\ (task_current' = t => task_current = t)
  BY <1>7, YieldFindsATask DEF Parked
<1>8. CASE \/ CheckYield \/ LineBlocks \/ LoopYield \/ AppYields \/ ExitYields
           \/ CheckTask("a", "task_check_a") \/ CheckTask("b", "task_check_b")
  BY <1>7, <1>8 DEF CheckYield, LineBlocks, LoopYield, AppYields, ExitYields, YieldAt, CheckTask
<1>9. CASE LineCommand \/ LineQuit \/ ForkChildRuns \/ Stopped \/ UNCHANGED vars
  BY <1>9 DEF LineCommand, KernelGoes, LineQuit, ForkChildRuns, Stopped, vars
<1>10. QED
  BY <1>1, <1>2, <1>3, <1>4, <1>5, <1>6, <1>8, <1>9 DEF Next, KernelStep, TaskStep

\* A task that has ended stays ended, although its slot keeps its id and its stack
\* and its code are never released (task.c:272-286).
THEOREM EndedTasksStayEnded == Spec => EndedStaysEnded
<1>1. IInv /\ [Next]_vars =>
        [\A t \in used : Ended(t) => status'[t] = status[t]
                                       /\ (task_current' = t => task_current = t)]_vars
  BY StepKeepsEnded
<1>2. QED BY <1>1, InductiveInvariant, PTL DEF Spec, EndedStaysEnded

\* One yield brings every task that goes on waiting nearer to its turn.
LEMMA YieldBringsNearer ==
  ASSUME IInv, SchedYield, NEW t \in Slots, status[t] = "INACTIVE", status'[t] = "INACTIVE",
         task_current' # task_current
  PROVE  Ahead(t)' < Ahead(t)
<1> DEFINE cur == task_current
<1>1. PICK i \in Slots : NextInTurn(i) /\ task_current' = i /\ status'[i] = "ACTIVE"
  <2>1. ~ \A i \in Slots : Parked[i] # "INACTIVE"
    BY YieldFindsATask DEF IInv, TypeOK
  <2>2. Parked \in [Slots -> Status]
    BY DEF IInv, TypeOK, Parked, Status
  <2> QED BY <2>1, <2>2, YieldFindsATask DEF SchedYield, IInv, TypeOK
<1>2. /\ TaskMax \in Nat /\ cur \in 0 .. TaskMax - 1 /\ i \in 0 .. TaskMax - 1
      /\ t \in 0 .. TaskMax - 1 /\ i # cur /\ i # t
  BY <1>1, TaskMaxAssumption DEF IInv, TypeOK, Slots
<1>3. Parked[t] = "INACTIVE"
  BY DEF Parked, IInv, TypeOK
<1>4. Turn(i) <= Turn(t)
  BY <1>1, <1>3 DEF NextInTurn
<1>5. /\ Ahead(t) = (IF t > cur THEN t ELSE t + TaskMax) - cur
      /\ Ahead(t)' = (IF t > i THEN t ELSE t + TaskMax) - i
  BY <1>1, <1>2 DEF Ahead
<1>6. (IF i > cur THEN i ELSE i + TaskMax) <= (IF t > cur THEN t ELSE t + TaskMax)
  BY <1>4 DEF Turn
<1> HIDE DEF cur
<1> QED BY <1>2, <1>5, <1>6

\* A task that waits is overtaken by no task twice, but for those that task 0 starts
\* itself (task.c:205-222, sched_yield_to.c): the length of the table bounds the wait.
THEOREM TheWaitIsBounded == Spec => TurnsComeNearer
<1> DEFINE Nearer ==
      \A t \in Slots : status[t] = "INACTIVE" /\ status'[t] = "INACTIVE" =>
        \/ task_current' = task_current
        \/ Ahead(t)' < Ahead(t)
        \/ task_current = Kernel /\ pc[Kernel] \in {"first_ps_to", "exec_to"}
<1>1. ASSUME IInv, Next PROVE Nearer
  <2>1. CASE SchedYield
    BY <1>1, <2>1, YieldBringsNearer
  <2>2. CASE FirstPsTo \/ ShellExecTo
    <3>1. task_current = Kernel /\ pc[Kernel] \in {"first_ps_to", "exec_to"}
      BY <1>1, <2>2, PointOfKernel DEF FirstPsTo, ShellExecTo, ExecTo, KernelPC
    <3> QED BY <3>1
  <2>3. CASE UNCHANGED task_current
    BY <2>3
  <2> QED
    BY <1>1, <2>1, <2>2, <2>3
    DEF Next, KernelStep, TaskStep, CheckAddA, CheckAddB, CheckSetInactive, CheckYield, CheckEnd,
        FirstPs, ShellPs, ShellApp, ForkAdd, TaskAdd, LineBlocks, LineCommand, LineQuit,
        KernelGoes, LoopYield, ForkReturn, CheckTask, PsExits, AppExits, AppEnds, Ends,
        AppYields, ExitYields, ForkChildRuns, YieldAt, Stopped, vars
<1>2. ASSUME IInv, [Next]_vars PROVE [Nearer]_vars
  BY <1>1, <1>2
<1> QED BY <1>2, InductiveInvariant, PTL DEF Spec, TurnsComeNearer

-----------------------------------------------------------------------------
\* The scheduler implements CpuHandover.

phaseMap == [t \in Slots |-> PhaseOf(t)]

\* A task that is neither current nor being set up is ready, ended or not there.
LEMMA PhaseOfOthers ==
  ASSUME IInv, NEW t \in Slots
  PROVE  /\ PhaseOf(t) \in {"free", "new", "ready", "running", "ended"}
         /\ (PhaseOf(t) = "running" <=> t = task_current /\ status[t] = "ACTIVE")
         /\ (PhaseOf(t) = "ready" <=> status[t] = "INACTIVE")
         /\ (Fresh(t) /\ t # task_current => PhaseOf(t) = "new")
BY DEF PhaseOf, Ended, Fresh, IInv, TypeOK, Status, SlotsInv, NoTaskStranded, BeingSetUp,
       ActiveInv

\* A yield hands the CPU to a ready task, or back to the task that yields.
LEMMA YieldIsHandover ==
  ASSUME IInv, IInv', SchedYield, used' = used
  PROVE  phaseMap' = phaseMap \/ Handover!Next
<1> USE KernelIsASlot
<1>1. PICK i \in used : /\ Parked[i] = "INACTIVE"
                        /\ task_current' = i
                        /\ status' = [Parked EXCEPT ![i] = "ACTIVE"]
  BY YieldFindsATask
<1>t. /\ i \in Slots /\ task_current \in Slots /\ status \in [Slots -> Status]
      /\ task_current \in used /\ used \in SUBSET Slots
  BY DEF IInv, TypeOK, SlotsInv
<1>2. CASE status[task_current] = "ACTIVE" /\ i = task_current
  <2>1. status' = status BY <1>1, <1>2, <1>t DEF Parked
  <2>2. QED BY <1>1, <1>2, <2>1 DEF phaseMap, PhaseOf, Ended
<1>3. CASE status[task_current] = "ACTIVE" /\ i # task_current
  <2>1. status[i] = "INACTIVE" BY <1>1, <1>3, <1>t DEF Parked
  <2>2. status' = [status EXCEPT ![task_current] = "INACTIVE", ![i] = "ACTIVE"]
    BY <1>1, <1>3, <1>t DEF Parked
  <2>3. phaseMap' = [phaseMap EXCEPT ![task_current] = "ready", ![i] = "running"]
    <3>1. \A t \in Slots \ {i, task_current} : PhaseOf(t)' = PhaseOf(t)
      BY <1>1, <1>t, <2>2 DEF PhaseOf, Ended
    <3>2. PhaseOf(task_current) = "running" /\ PhaseOf(i)' = "running"
      BY <1>1, <1>3, <1>t, <2>2 DEF PhaseOf, Ended
    <3>3. [t \in Slots |-> PhaseOf(t)']
            = [phaseMap EXCEPT ![task_current] = "ready", ![i] = "running"]
      BY <1>1, <1>3, <1>t, <2>2, <3>1, <3>2 DEF phaseMap, PhaseOf, Ended
    <3>4. QED BY <3>3 DEF phaseMap
  <2>4. phaseMap[task_current] = "running" /\ phaseMap[i] = "ready"
    BY <1>3, <1>t, <2>1, PhaseOfOthers DEF phaseMap
  <2>5. Handover!Handover(task_current, i)
    BY <2>3, <2>4 DEF Handover!Handover, phaseMap
  <2>6. QED BY <1>t, <2>5 DEF Handover!Next
<1>4. CASE status[task_current] # "ACTIVE"
  <2>1. Ended(task_current) /\ status[i] = "INACTIVE" /\ i # task_current
    BY <1>1, <1>4, <1>t DEF Parked, IInv, ActiveInv, Ended
  <2>2. status' = [status EXCEPT ![i] = "ACTIVE"] BY <1>1, <1>4 DEF Parked
  <2>3. \A t \in Slots : phaseMap[t] # "running"
    BY <1>4, PhaseOfOthers DEF phaseMap
  <2>4. phaseMap' = [phaseMap EXCEPT ![i] = "running"]
    <3>1. [t \in Slots |-> PhaseOf(t)'] = [phaseMap EXCEPT ![i] = "running"]
      <4>1. \A t \in Slots \ {i} : PhaseOf(t)' = PhaseOf(t)
        BY <1>1, <1>t, <2>1, <2>2 DEF PhaseOf, Ended
      <4>2. PhaseOf(i)' = "running" BY <1>1, <1>t, <2>2 DEF PhaseOf, Ended
      <4>3. QED BY <1>t, <4>1, <4>2 DEF phaseMap
    <3>2. QED BY <3>1 DEF phaseMap
  <2>5. phaseMap[i] = "ready" BY <1>t, <2>1, PhaseOfOthers DEF phaseMap
  <2>6. Handover!Resume(i)
    BY <2>3, <2>4, <2>5 DEF Handover!Resume, Handover!Moves, phaseMap
  <2>7. QED BY <1>t, <2>6 DEF Handover!Next
<1>5. QED BY <1>2, <1>3, <1>4

\* Every other step is one step of the abstract life of tasks, or none.
LEMMA StepIsAbstractStep ==
  ASSUME IInv, IInv', [Next]_vars
  PROVE  phaseMap' = phaseMap \/ Handover!Next
<1> USE KernelIsASlot
<1>t. /\ task_current \in Slots /\ status \in [Slots -> Status]
      /\ task_current \in used /\ used \in SUBSET Slots
      /\ \A t \in Slots \ used : status[t] = "INVALID"
  BY DEF IInv, TypeOK, SlotsInv
<1>1. CASE CheckAddA \/ CheckAddB \/ FirstPs \/ ShellPs \/ ShellApp \/ ForkAdd
  <2>1. PICK x \in {"a", "b", "child"}, entry \in TaskPC, next \in KernelPC,
              added \in SUBSET {"WAIT", "ACTIVE"} : TaskAdd(x, entry, next, added)
    BY <1>1 DEF CheckAddA, CheckAddB, FirstPs, ShellPs, ShellApp, ForkAdd, AddedStatus,
                TaskPC, KernelPC
  <2>2. CASE \E i \in Slots : /\ FirstFree(i) /\ used' = used \cup {i}
                              /\ \E s \in added : status' = [status EXCEPT ![i] = s]
    <3>1. PICK i \in Slots \ used : /\ used' = used \cup {i}
                                   /\ \E s \in added : status' = [status EXCEPT ![i] = s]
      BY <2>2 DEF FirstFree
    <3>2. task_current' = task_current /\ i # task_current BY <1>t, <2>1 DEF TaskAdd
    <3>3. PhaseOf(i) = "free" /\ PhaseOf(i)' = "new"
      BY <1>t, <3>1, <3>2 DEF PhaseOf, Ended
    <3>4. \A t \in Slots \ {i} : PhaseOf(t)' = PhaseOf(t)
      BY <1>t, <3>1, <3>2 DEF PhaseOf, Ended
    <3>5. Handover!Create(i)
      BY <3>3, <3>4 DEF Handover!Create, Handover!Moves, phaseMap
    <3>6. QED BY <3>5 DEF Handover!Next
  <2>3. CASE UNCHANGED <<used, status>>
    BY <2>1, <2>3 DEF TaskAdd, phaseMap, PhaseOf, Ended
  <2>4. QED BY <2>1, <2>2, <2>3 DEF TaskAdd, FirstFree
<1>2. CASE FirstPsTo \/ ShellExecTo
  <2> DEFINE c == local["child"]
  <2>1. /\ task_current = Kernel /\ status[Kernel] = "ACTIVE" /\ Fresh(c)
        /\ SchedYieldTo(c) /\ used' = used /\ c' = c
    BY <1>2, PointOfKernel
    DEF FirstPsTo, ShellExecTo, ExecTo, KernelPC, IInv, LocalsInv
  <2>2. /\ c \in used /\ c # Kernel /\ task_current' = c
        /\ status' = [status EXCEPT ![Kernel] = "INACTIVE", ![c] = "ACTIVE"]
    BY <2>1 DEF SchedYieldTo, Parked, Fresh
  <2>3. PhaseOf(Kernel) = "running" /\ PhaseOf(c) = "new"
    BY <1>t, <2>1, <2>2, PhaseOfOthers
  <2>a. /\ status'[Kernel] = "INACTIVE" /\ status'[c] = "ACTIVE"
        /\ Kernel \in used' /\ c \in used'
    BY <1>t, <2>1, <2>2
  <2>4. PhaseOf(Kernel)' = "ready" /\ PhaseOf(c)' = "running"
    BY <2>1, <2>2, <2>a DEF PhaseOf, Ended
  <2>5. \A t \in Slots \ {Kernel, c} : PhaseOf(t)' = PhaseOf(t)
    BY <1>t, <2>1, <2>2 DEF PhaseOf, Ended
  <2>b. c \in Slots BY <1>t, <2>2
  <2>c. [t \in Slots |-> PhaseOf(t)'] = [phaseMap EXCEPT ![Kernel] = "ready", ![c] = "running"]
    BY <2>b, <2>1, <2>2, <2>4, <2>5 DEF phaseMap
  <2>d. phaseMap[Kernel] = "running" /\ phaseMap[c] = "new"
    BY <2>b, <2>3 DEF phaseMap
  <2>6. Handover!Handover(Kernel, c)
    BY <2>c, <2>d DEF Handover!Handover, phaseMap
  <2>7. QED BY <1>t, <2>2, <2>6 DEF Handover!Next
<1>3. CASE CheckSetInactive
  <2> DEFINE S == {local["a"], local["b"]}
  <2>1. task_current = Kernel /\ \A t \in S : Fresh(t)
    BY <1>3, PointOfKernel DEF CheckSetInactive, KernelPC, IInv, LocalsInv
  <2>2. S \in SUBSET Slots /\ Kernel \notin S BY <1>t, <2>1 DEF Fresh
  <2>3. \A t \in S : PhaseOf(t) = "new" BY <2>1, <2>2, PhaseOfOthers
  <2>4. \A t \in Slots : PhaseOf(t)' = IF t \in S THEN "ready" ELSE PhaseOf(t)
    BY <1>3, <1>t, <2>1, <2>2 DEF CheckSetInactive, PhaseOf, Ended, Fresh
  <2>5. Handover!Publish(S) BY <2>2, <2>3, <2>4 DEF Handover!Publish, phaseMap
  <2>6. QED BY <2>2, <2>5 DEF Handover!Next
<1>4. CASE ForkReturn
  <2> DEFINE S == {local["child"]}
  <2>1. task_current = Kernel /\ Fresh(local["child"])
    BY <1>4, PointOfKernel DEF ForkReturn, KernelPC, IInv, LocalsInv
  <2>2. S \in SUBSET Slots /\ Kernel \notin S BY <1>t, <2>1 DEF Fresh
  <2>3. \A t \in S : PhaseOf(t) = "new" BY <2>1, <2>2, PhaseOfOthers
  <2>4. \A t \in Slots : PhaseOf(t)' = IF t \in S THEN "ready" ELSE PhaseOf(t)
    BY <1>4, <1>t, <2>1, <2>2 DEF ForkReturn, PhaseOf, Ended, Fresh
  <2>5. Handover!Publish(S) BY <2>2, <2>3, <2>4 DEF Handover!Publish, phaseMap
  <2>6. QED BY <2>2, <2>5 DEF Handover!Next
<1>5. CASE CheckEnd
  <2> DEFINE S == {local["a"], local["b"]}
  <2>1. /\ task_current = Kernel /\ pc[Kernel] = "check_end"
        /\ \A t \in S : Looping(t)
    BY <1>5, PointOfKernel DEF CheckEnd, KernelPC, IInv, LocalsInv
  <2>2. S \in SUBSET Slots /\ Kernel \notin S BY <1>t, <2>1 DEF Looping
  <2>3. \A t \in S : PhaseOf(t) = "ready"
    <3>1. \A t \in S : status[t] = "INACTIVE"
      BY <2>1 DEF Looping, IInv, NoTaskStranded, BeingSetUp
    <3>2. QED BY <2>2, <3>1, PhaseOfOthers
  <2>4. \A t \in Slots : PhaseOf(t)' = IF t \in S THEN "ended" ELSE PhaseOf(t)
    BY <1>5, <1>t, <2>1, <2>2 DEF CheckEnd, PhaseOf, Ended, Looping
  <2>5. Handover!Retire(S) BY <2>2, <2>3, <2>4 DEF Handover!Retire, phaseMap
  <2>6. QED BY <2>2, <2>5 DEF Handover!Next
<1>6. CASE PsExits \/ AppExits \/ AppEnds
  <2>1. PICK point \in {"kshell_ps", "app"}, final \in {"INVALID", "MODHACK"} :
          Ends(point, final)
    BY <1>6 DEF PsExits, AppExits, AppEnds
  <2>2. status[task_current] = "ACTIVE" BY <2>1 DEF Ends, Runs, IInv, ActiveInv
  <2>3. PhaseOf(task_current) = "running" /\ PhaseOf(task_current)' = "ended"
    BY <1>t, <2>1, <2>2 DEF Ends, PhaseOf, Ended
  <2>4. \A t \in Slots \ {task_current} : PhaseOf(t)' = PhaseOf(t)
    BY <1>t, <2>1 DEF Ends, PhaseOf, Ended
  <2>a. [t \in Slots |-> PhaseOf(t)'] = [phaseMap EXCEPT ![task_current] = "ended"]
    <3>1. task_current' = task_current BY <2>1 DEF Ends
    <3>2. QED BY <1>t, <2>3, <2>4, <3>1 DEF phaseMap
  <2>b. phaseMap[task_current] = "running" BY <1>t, <2>3 DEF phaseMap
  <2>5. Handover!End(task_current)
    BY <2>a, <2>b DEF Handover!End, Handover!Moves, phaseMap
  <2>6. QED BY <1>t, <2>5 DEF Handover!Next
<1>7. CASE \/ CheckYield \/ LineBlocks \/ LoopYield \/ AppYields \/ ExitYields
           \/ CheckTask("a", "task_check_a") \/ CheckTask("b", "task_check_b")
  BY <1>7, YieldIsHandover
  DEF CheckYield, LineBlocks, LoopYield, AppYields, ExitYields, YieldAt, CheckTask
<1>8. CASE LineCommand \/ LineQuit \/ ForkChildRuns \/ Stopped \/ UNCHANGED vars
  BY <1>8
  DEF LineCommand, KernelGoes, LineQuit, ForkChildRuns, Stopped, vars, phaseMap, PhaseOf, Ended
<1>9. QED
  BY <1>1, <1>2, <1>3, <1>4, <1>5, <1>6, <1>7, <1>8 DEF Next, KernelStep, TaskStep

\* The table, its two switch functions and all their callers implement the
\* abstract specification of how tasks are created, take turns and end.
THEOREM SchedulerImplementsHandover == Spec => ImplementsHandover
<1>1. Init => Handover!Init
  <2> SUFFICES ASSUME Init PROVE Handover!Init OBVIOUS
  <2>1. phaseMap = [t \in Slots |-> IF t = Kernel THEN "running" ELSE "free"]
    BY KernelIsASlot DEF Init, phaseMap, PhaseOf, Ended
  <2>2. QED BY <2>1, KernelIsASlot DEF Handover!Init, Handover!InitWith, phaseMap
<1>2. IInv /\ IInv' /\ [Next]_vars => [Handover!Next]_phaseMap
  BY StepIsAbstractStep
<1>3. QED
  BY <1>1, <1>2, InductiveInvariant, PTL DEF Spec, ImplementsHandover, Handover!Spec, phaseMap

-----------------------------------------------------------------------------
\* task_check.

\* The yields of task_check visit slot 1, slot 2 and task 0 in this order.
LEMMA CheckTurns ==
  ASSUME IInv, CheckInv, SchedYield, pc[Kernel] \in {"check_yield", "check_end"}
  PROVE  task_current' = CASE task_current = 0 -> 1 [] task_current = 1 -> 2
                           [] task_current = 2 -> 0
<1>1. /\ used = {0, 1, 2} /\ task_current \in used /\ TaskMax \in Nat
      /\ used \subseteq Slots /\ status \in [Slots -> Status]
  BY TaskMaxAssumption DEF CheckInv, IInv, TypeOK, SlotsInv
<1>2. TaskMax >= 3 BY <1>1 DEF Slots
<1>3. \A t \in {1, 2} : Looping(t) BY DEF CheckInv, IInv, LocalsInv
<1>4. Parked[0] = "INACTIVE" /\ Parked[1] = "INACTIVE" /\ Parked[2] = "INACTIVE"
  <2>1. \A t : ~BeingSetUp(t) BY DEF BeingSetUp
  <2>2. QED
    BY <1>1, <1>3, <2>1 DEF Parked, Looping, IInv, NoTaskStranded, ActiveInv, Kernel
<1>5. PICK i \in {0, 1, 2} : NextInTurn(i) /\ task_current' = i
  <2>1. PICK i \in Slots : NextInTurn(i) /\ task_current' = i
    BY <1>1, <1>4 DEF SchedYield
  <2>2. i \in used
    BY <1>1, <2>1 DEF NextInTurn, Parked, IInv, SlotsInv
  <2>3. QED BY <1>1, <2>1, <2>2
<1>6. \A j \in {0, 1, 2} : Turn(i) <= Turn(j) BY <1>1, <1>4, <1>5 DEF NextInTurn
<1>7. QED BY <1>1, <1>2, <1>5, <1>6 DEF Turn

\* Every step of the system keeps the invariant of task_check.
LEMMA NextKeepsCheckInv == IInv /\ CheckInv /\ [Next]_vars => CheckInv'
<1> SUFFICES ASSUME IInv, CheckInv, [Next]_vars PROVE CheckInv' OBVIOUS
<1> USE DEF Kernel
<1>t. /\ 0 \in Slots /\ used \subseteq Slots /\ pc \in [Slots -> KernelPC \cup TaskPC]
      /\ local \in [{"a", "b", "child"} -> Slots] /\ check_ints \in SUBSET {"a", "b"}
      /\ task_current \in used /\ TaskMax \in Nat
  BY KernelIsASlot, TaskMaxAssumption DEF IInv, TypeOK, SlotsInv
<1>1. CASE CheckAddA
  <2>1. pc[0] = "check_a" /\ used = {0} /\ task_current = 0
    BY <1>1, PointOfKernel DEF CheckAddA, KernelPC, CheckInv
  <2>2. ASSUME NEW i \in Nat, FirstFree(i) PROVE i = 1
    BY <2>1, <2>2 DEF FirstFree, Slots
  <2>3. QED
    BY <1>1, <1>t, <2>1, <2>2 DEF FirstFree, Slots, CheckAddA, TaskAdd, CheckInv, TaskCheckPasses
<1>2. CASE CheckAddB
  <2>1. /\ pc[0] = "check_b" /\ used = {0, 1} /\ task_current = 0
        /\ local["a"] = 1 /\ pc[1] = "task_check_a"
    BY <1>2, PointOfKernel DEF CheckAddB, KernelPC, CheckInv
  <2>2. ASSUME NEW i \in Nat, FirstFree(i) PROVE i = 2
    BY <2>1, <2>2 DEF FirstFree, Slots
  <2>3. QED
    BY <1>2, <1>t, <2>1, <2>2 DEF FirstFree, Slots, CheckAddB, TaskAdd, CheckInv, TaskCheckPasses
<1>3. CASE CheckYield
  <2>1. pc[0] = "check_yield" /\ task_current = 0
    BY <1>3, PointOfKernel DEF CheckYield, YieldAt, KernelPC
  <2>2. task_current' = 1
    BY <1>3, <2>1, CheckTurns DEF CheckYield, YieldAt
  <2>3. QED BY <1>3, <1>t, <2>1, <2>2 DEF CheckYield, YieldAt, CheckInv, TaskCheckPasses
<1>4. CASE CheckTask("a", "task_check_a") \/ CheckTask("b", "task_check_b")
  <2>1. PICK x \in {"a", "b"}, point \in TestPC :
          CheckTask(x, point) /\ (x = "a" <=> point = "task_check_a")
    BY <1>4 DEF TestPC
  <2>2. task_current # 0 /\ pc[task_current] = point
    BY <2>1 DEF CheckTask, Runs, IInv, PointsInv, KernelPC, TestPC
  <2>3. CASE pc[0] = "check_end"
    <3>1. /\ used = {0, 1, 2} /\ pc[1] = "task_check_a" /\ pc[2] = "task_check_b"
      BY <2>3 DEF CheckInv
    <3>2. task_current' = CASE task_current = 0 -> 1 [] task_current = 1 -> 2
                            [] task_current = 2 -> 0
      BY <2>1, <2>3, CheckTurns DEF CheckTask
    <3>3. CASE task_current = 1
      BY <1>t, <2>1, <2>2, <2>3, <3>1, <3>2, <3>3 DEF CheckTask, CheckInv, TaskCheckPasses
    <3>4. CASE task_current = 2
      BY <1>t, <2>1, <2>2, <2>3, <3>1, <3>2, <3>4 DEF CheckTask, CheckInv, TaskCheckPasses
    <3>5. QED BY <1>t, <2>2, <3>1, <3>3, <3>4
  <2>4. CASE pc[0] # "check_end"
    <3>1. pc[0] \in {"get_line", "loop_yield"} BY <2>2, <2>4 DEF IInv, PointsInv
    <3>2. QED BY <2>1, <3>1 DEF CheckTask, CheckInv, TaskCheckPasses
  <2>5. QED BY <2>3, <2>4
<1>5. CASE CheckEnd
  <2>1. pc[0] = "check_end" /\ task_current = 0
    BY <1>5, PointOfKernel DEF CheckEnd, KernelPC
  <2>2. QED BY <1>5, <1>t, <2>1 DEF CheckEnd, CheckInv, TaskCheckPasses
<1>6. CASE CheckSetInactive
  <2>1. pc[0] = "check_set" /\ task_current = 0
    BY <1>6, PointOfKernel DEF CheckSetInactive, KernelPC
  <2>2. QED BY <1>6, <1>t, <2>1 DEF CheckSetInactive, CheckInv, TaskCheckPasses
<1>7. ASSUME pc'[0] \notin {"check_a", "check_b", "check_set", "check_yield", "check_end"},
             check' = check
      PROVE  CheckInv'
  BY <1>7 DEF CheckInv, TaskCheckPasses
<1>8. ASSUME UNCHANGED <<used, pc, local, check_ints, check, task_current>>
      PROVE  CheckInv'
  BY <1>8 DEF CheckInv, TaskCheckPasses
<1>9. CASE FirstPs \/ ShellPs \/ ShellApp \/ ForkAdd
  <2>1. PICK entry \in TaskPC, next \in {"first_ps_to", "exec_to", "fork_set"},
             added \in SUBSET {"WAIT", "ACTIVE"} : TaskAdd("child", entry, next, added)
    BY <1>9 DEF FirstPs, ShellPs, ShellApp, ForkAdd, AddedStatus, TaskPC
  <2>2. CASE UNCHANGED <<used, pc, local>> BY <1>8, <2>1, <2>2 DEF TaskAdd
  <2>3. CASE \E i \in Slots : FirstFree(i) /\ pc' = [pc EXCEPT ![i] = entry, ![0] = next]
    BY <1>7, <1>t, <2>1, <2>3 DEF TaskAdd
  <2>4. QED BY <2>1, <2>2, <2>3 DEF TaskAdd, FirstFree
<1>10. CASE FirstPsTo \/ ShellExecTo \/ LineCommand \/ ForkReturn
  BY <1>7, <1>10, <1>t DEF FirstPsTo, ShellExecTo, ExecTo, LineCommand, KernelGoes, ForkReturn
<1>11. CASE LineBlocks \/ LoopYield
  BY <1>7, <1>11, <1>t, PointOfKernel DEF LineBlocks, LoopYield, YieldAt, KernelPC
<1>12. CASE PsExits \/ AppExits \/ AppEnds \/ AppYields \/ ExitYields
  <2>1. /\ pc[task_current] \in {"kshell_ps", "app", "exiting"} /\ task_current # 0
        /\ pc'[0] = pc[0] /\ check' = check
    BY <1>12, <1>t
    DEF PsExits, AppExits, AppEnds, AppYields, ExitYields, Ends, YieldAt, Runs, IInv,
        PointsInv, KernelPC
  <2>2. pc[0] # "check_end" BY <1>t, <2>1 DEF CheckInv
  <2>3. QED BY <1>7, <2>1, <2>2 DEF IInv, PointsInv
<1>13. CASE LineQuit \/ ForkChildRuns \/ Stopped \/ UNCHANGED vars
  BY <1>8, <1>13 DEF LineQuit, ForkChildRuns, Stopped, vars
<1>14. QED
  BY <1>1, <1>2, <1>3, <1>4, <1>5, <1>6, <1>9, <1>10, <1>11, <1>12, <1>13
  DEF Next, KernelStep, TaskStep

\* In a table of any length task_check logs "Passed." (task.c:460-502).
THEOREM TaskCheckAlwaysPasses == Spec => []TaskCheckPasses
<1>1. Init => CheckInv
  BY KernelIsASlot DEF Init, CheckInv, TaskCheckPasses, Kernel
<1>2. CheckInv => TaskCheckPasses BY DEF CheckInv
<1>3. QED BY <1>1, <1>2, NextKeepsCheckInv, InductiveInvariant, PTL DEF Spec

=============================================================================
