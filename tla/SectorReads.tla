---------------------------- MODULE SectorReads -----------------------------
(***************************************************************************)
(* What the file system relies on when it reads the drive: a read that     *)
(* succeeds returns the sectors it was asked for, all of them and in       *)
(* order; one that fails says so. One read at a time. Files.tla reads      *)
(* through this interface.                                                 *)
(***************************************************************************)
EXTENDS Integers

CONSTANT Calls       \* what may be asked: the first sector and how many

VARIABLES asked,     \* the call under way, or NoCall
          answer     \* what the last one returned

vars == <<asked, answer>>

NoCall == [sector |-> 0, count |-> 0]
NoAnswer == [ok |-> FALSE, data |-> <<>>]

Sectors(call) == [k \in 0 .. call.count - 1 |-> call.sector + k]

Init == asked = NoCall /\ answer = NoAnswer

Ask(call) == asked = NoCall /\ asked' = call /\ answer' = NoAnswer

Succeed ==
  /\ asked # NoCall /\ asked' = NoCall
  /\ answer' = [ok |-> TRUE, data |-> Sectors(asked)]

Fail == asked # NoCall /\ asked' = NoCall /\ answer' = NoAnswer

Next == (\E call \in Calls : Ask(call)) \/ Succeed \/ Fail

Spec == Init /\ [][Next]_vars

=============================================================================
