----------------------------- MODULE LineSource -----------------------------
(***************************************************************************)
(* What the keyboard, the console's ring and kshell_get_line promise       *)
(* together: the shell gets every character typed, once, in the order of   *)
(* typing, cut into lines, as long as no more than Capacity characters     *)
(* wait. Beyond that nothing is promised.                                  *)
(***************************************************************************)
EXTENDS Integers, Sequences

CONSTANTS Capacity,   \* characters that may wait
          LineMax,    \* longest line
          Chars, Newline

VARIABLES waiting,    \* typed and not yet part of a line given to the shell
          busy, line, \* the shell works on a line, and which
          lost        \* more than Capacity characters waited

vars == <<waiting, busy, line, lost>>

Init == waiting = <<>> /\ busy = FALSE /\ line = <<>> /\ lost = FALSE

\* The first n waiting characters make up a line.
LineEnds(n) ==
  /\ waiting[n] = Newline \/ n = LineMax
  /\ \A i \in 1 .. n - 1 : waiting[i] # Newline /\ i # LineMax

Type(char) ==
  /\ waiting' = Append(waiting, char)
  /\ UNCHANGED <<busy, line, lost>>

Deliver(n) ==
  /\ ~busy /\ busy' = TRUE
  /\ LineEnds(n)
  /\ line' = SubSeq(waiting, 1, IF waiting[n] = Newline THEN n - 1 ELSE n)
  /\ waiting' = SubSeq(waiting, n + 1, Len(waiting))
  /\ UNCHANGED lost

Finish ==
  /\ busy /\ busy' = FALSE
  /\ line' = <<>>
  /\ UNCHANGED <<waiting, lost>>

Overflow == Len(waiting) >= Capacity /\ lost' = TRUE

Next ==
  \/ lost /\ lost'
  \/ /\ ~lost
     /\ \/ \E char \in Chars : Type(char)
        \/ \E n \in DOMAIN waiting : Deliver(n)
        \/ Finish
        \/ Overflow

Spec == Init /\ [][Next]_vars

=============================================================================
