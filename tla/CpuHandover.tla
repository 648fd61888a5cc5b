----------------------------- MODULE CpuHandover -----------------------------
(***************************************************************************)
(* What the scheduler of VVOS promises, without table slots, statuses or   *)
(* an order of turns: tasks are created, made ready once, handed the CPU   *)
(* one at a time by the task that holds it, and end for good.              *)
(***************************************************************************)
CONSTANT Tasks

VARIABLE phase                        \* the stage of each task's life

Phases == {"free", "new", "ready", "running", "ended"}

\* At most one task holds the CPU.
AtMostOneRuns ==
  \A t, u \in Tasks : phase[t] = "running" /\ phase[u] = "running" => t = u

InitWith(first) == phase = [t \in Tasks |-> IF t = first THEN "running" ELSE "free"]

Init == \E first \in Tasks : InitWith(first)

Moves(t, from, to) == phase[t] = from /\ phase' = [phase EXCEPT ![t] = to]

Create(t)  == Moves(t, "free", "new")
End(t)     == Moves(t, "running", "ended")

\* The running task t hands the CPU to u, which is ready or newly created.
Handover(t, u) ==
  /\ phase[t] = "running"
  /\ phase[u] \in {"ready", "new"}
  /\ phase' = [phase EXCEPT ![t] = "ready", ![u] = "running"]

\* A task that ended gives the CPU to a ready one.
Resume(u) ==
  /\ \A t \in Tasks : phase[t] # "running"
  /\ Moves(u, "ready", "running")

\* The running task makes a set of new tasks ready, or ends a set of ready ones.
Publish(S) ==
  /\ S # {} /\ \A t \in S : phase[t] = "new"
  /\ phase' = [t \in Tasks |-> IF t \in S THEN "ready" ELSE phase[t]]
Retire(S) ==
  /\ S # {} /\ \A t \in S : phase[t] = "ready"
  /\ phase' = [t \in Tasks |-> IF t \in S THEN "ended" ELSE phase[t]]

Next ==
  \/ \E t \in Tasks : Create(t) \/ End(t) \/ Resume(t)
  \/ \E t, u \in Tasks : Handover(t, u)
  \/ \E S \in SUBSET Tasks : Publish(S) \/ Retire(S)

Spec == Init /\ [][Next]_phase

=============================================================================
