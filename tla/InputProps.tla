----------------------------- MODULE InputProps -----------------------------
(***************************************************************************)
(* What makes the way from the key to the shell correct.                   *)
(***************************************************************************)
EXTENDS Input

\* The cell i places behind the next one to take.
Cell(i) ==
  IF First + i - 1 > ConsoleSize THEN First + i - 1 - (ConsoleSize + 1) ELSE First + i - 1

Ring == [i \in 1 .. Unread |-> console_in_buffer[Cell(i)]]

\* What was typed and is not in a line the shell has: the line so far, the
\* character in kapps_console_getchar's hand, the ring.
LineSoFar == IF pc = "process" THEN <<>> ELSE line
Hand == IF pc \in {"wrap", "line"} THEN <<c>> ELSE <<>>
Waiting == LineSoFar \o Hand \o Ring

Source == INSTANCE LineSource WITH
  Capacity <- ConsoleSize, LineMax <- LineMax, Chars <- Chars, Newline <- "newline",
  waiting <- Waiting, busy <- pc = "process",
  line <- IF pc = "process" THEN line ELSE <<>>, lost <- lost

\* Keys reach the shell in the order of typing, once each, in complete lines of at
\* most LineMax characters, wherever the interrupts fall among the steps of the
\* reader and wherever the indices wrap (kapps_console.c:86-117, kshell.c:68-93).
ImplementsLineSource == Source!Spec

\* A complete line that waits is processed, unless too many keys waited before:
\* no interleaving leaves the reader yielding beside keys it does not see.
LinesAreProcessed ==
  (~lost /\ \E n \in DOMAIN Waiting : Waiting[n] = "newline") ~> (pc = "process" \/ lost)

\* How much the reader has to do: a weight for each unread key, and one for where it is in
\* its round, so that taking a key weighs more than the rest of its round.
StepsLeft == [yield |-> 6, test |-> 5, take |-> 4, increment |-> 3, wrap |-> 9, line |-> 8, process |-> 0]
Toil == 7 * Unread + StepsLeft[pc]

\* No step of the reader is wasted while a key waits: it yields and tests again for want of
\* a key only, and each round takes one key, so a line is complete after a bounded number
\* of its own steps (kapps_console.c:100-117).
EachStepCounts ==
  [][(~lost /\ pc # "process" /\ pc' \notin {pc, "process"} /\ (pc = "test" => Unread > 0))
       => Toil' \in 0 .. Toil - 1]_vars

\* While the ring keeps up, the cell the reader is about to take, or has taken and
\* not yet passed, is never written: the character in hand is the oldest key.
HandIsOldest ==
  ~lost => /\ pc \in {"take", "increment"} => Unread > 0
           /\ pc = "increment" => c = console_in_buffer[console_in_buffer_current]

\* A line being typed holds no newline and has room for one more character, so the
\* write to line[line_pos] never leaves the array (kshell.c:86-91).
LineHasRoom ==
  pc # "process" => /\ Len(line) < LineMax
                    /\ \A i \in DOMAIN line : line[i] # "newline"

\* Between the increment and the wrap alone the reader's index is past the cell
\* behind the array.
IndexInv == console_in_buffer_current > ConsoleSize => pc = "wrap"

IInv == TypeOK /\ HandIsOldest /\ LineHasRoom /\ IndexInv

=============================================================================
