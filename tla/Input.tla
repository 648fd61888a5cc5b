------------------------------- MODULE Input -------------------------------
(***************************************************************************)
(* From the key to the line the shell works on. A key interrupt notifies   *)
(* the two observers of "keyboard": the keyboard's own buffer, which       *)
(* nobody reads once the console has taken standard input over, and the    *)
(* active window, whose handler appends to the console's ring. Task 0      *)
(* takes characters out of that ring in steps an interrupt may separate    *)
(* (kapps_console_getchar) and builds lines of them (kshell_get_line).     *)
(*                                                                         *)
(* The state starts where vui_console_main has made the console's window   *)
(* active and no key was pressed before: both buffers are empty. An        *)
(* interrupt handler runs with interrupts off and is one step.             *)
(***************************************************************************)
EXTENDS Integers, Sequences

CONSTANTS
  ConsoleSize,   \* CONSOLE_BUFFER_SIZE
  KeyboardSize,  \* the size of character_buffer
  LineMax,       \* the size of kshell's line
  MaxKeys        \* bound on the keyboard interrupts of a run

ASSUME InputAssumption ==
  /\ ConsoleSize \in Nat \ {0} /\ KeyboardSize \in Nat \ {0}
  /\ LineMax \in Nat \ {0} /\ MaxKeys \in Nat

\* Scancodes by what they do: "release" stands for every other key let go. Shift
\* is a key like any other, and one without a character sends the character 0.
keyboard_map       == [key |-> "a", enter |-> "newline", shift |-> "nul"]
keyboard_map_shift == [key |-> "A", enter |-> "newline", shift |-> "nul"]

Pressed == {"key", "enter", "shift"}                 \* scancode > 0
Scancodes == Pressed \cup {"unshift", "release"}
Chars == {"a", "A", "newline", "nul"}

VARIABLES
  is_shift,
  character_buffer, character_buffer_end,
  console_in_buffer, console_in_buffer_current, console_in_buffer_end,
  pc,            \* where task 0 is
  c,             \* the character kapps_console_getchar returns
  line,          \* kshell's line up to line_pos
  typed,         \* keyboard interrupts so far
  lost           \* history: a key came while ConsoleSize were unread

keyboard == <<character_buffer, character_buffer_end>>
console == <<console_in_buffer, console_in_buffer_end>>
reader == <<console_in_buffer_current, pc, c, line>>
vars == <<is_shift, keyboard, console, reader, typed, lost>>

\* An index may stand on the cell behind its array: the wrap comes one late.
TypeOK ==
  /\ is_shift \in BOOLEAN
  /\ character_buffer \in [0 .. KeyboardSize -> Chars]
  /\ character_buffer_end \in 0 .. KeyboardSize
  /\ console_in_buffer \in [0 .. ConsoleSize -> Chars]
  /\ console_in_buffer_current \in 0 .. ConsoleSize + 1
  /\ console_in_buffer_end \in 0 .. ConsoleSize
  /\ pc \in {"test", "yield", "take", "increment", "wrap", "line", "process"}
  /\ c \in Chars
  /\ line \in Seq(Chars) /\ Len(line) <= LineMax
  /\ typed \in 0 .. MaxKeys
  /\ lost \in BOOLEAN

Init ==
  /\ is_shift = FALSE
  /\ character_buffer = [i \in 0 .. KeyboardSize |-> "nul"]
  /\ character_buffer_end = 0
  /\ console_in_buffer = [i \in 0 .. ConsoleSize |-> "nul"]
  /\ console_in_buffer_current = 0 /\ console_in_buffer_end = 0
  /\ pc = "test" /\ c = "nul" /\ line = <<>>
  /\ typed = 0 /\ lost = FALSE

-----------------------------------------------------------------------------
\* The ring as its reader sees it: the next cell to take, how many cells wait.

First == IF console_in_buffer_current > ConsoleSize THEN 0 ELSE console_in_buffer_current

Unread ==
  IF console_in_buffer_end >= First THEN console_in_buffer_end - First
                                    ELSE console_in_buffer_end - First + ConsoleSize + 1

-----------------------------------------------------------------------------
\* The keyboard interrupt.

\* Variant: the index wraps when it reaches the size of the array.
Advance_AtSize(i, size) == IF i + 1 >= size THEN 0 ELSE i + 1

Advance(i, size) == IF i + 1 > size THEN 0 ELSE i + 1

keyboard_event_handler(char) ==
  /\ character_buffer' = [character_buffer EXCEPT ![character_buffer_end] = char]
  /\ character_buffer_end' = Advance(character_buffer_end, KeyboardSize)

\* vui_keypress hands the key to the console; nobody looks at the reader's index.
kapps_console_handle_events(char) ==
  /\ console_in_buffer' = [console_in_buffer EXCEPT ![console_in_buffer_end] = char]
  /\ console_in_buffer_end' = Advance(console_in_buffer_end, ConsoleSize)
  /\ lost' = (lost \/ Unread = ConsoleSize)

observer_notify(char) == keyboard_event_handler(char) /\ kapps_console_handle_events(char)

keyboard_interrupt_handler(scancode) ==
  /\ typed < MaxKeys /\ typed' = typed + 1
  /\ is_shift' = (scancode = "shift" \/ (is_shift /\ scancode # "unshift"))
  /\ \/ /\ scancode \in Pressed
        /\ observer_notify(IF is_shift' THEN keyboard_map_shift[scancode]
                                        ELSE keyboard_map[scancode])
     \/ scancode \notin Pressed /\ UNCHANGED <<keyboard, console, lost>>
  /\ UNCHANGED reader

-----------------------------------------------------------------------------
\* Task 0: kapps_console_getchar.

Goes(from, to) ==
  /\ pc = from /\ pc' = to
  /\ UNCHANGED <<is_shift, keyboard, console, typed, lost>>

\* Variant: takes an index behind the writer's for an empty ring.
HasKey_Below == console_in_buffer_current < console_in_buffer_end

\* Variant: takes equal indices for a full ring.
HasKey_Equal == console_in_buffer_current <= console_in_buffer_end

HasKey == console_in_buffer_current # console_in_buffer_end

GetcharTest ==
  /\ Goes("test", IF HasKey THEN "take" ELSE "yield")
  /\ UNCHANGED <<console_in_buffer_current, c, line>>

\* sched_yield: the other tasks run, then task 0 has its turn again.
GetcharYield ==
  /\ Goes("yield", "test")
  /\ UNCHANGED <<console_in_buffer_current, c, line>>

GetcharTake ==
  /\ Goes("take", "increment")
  /\ c' = console_in_buffer[console_in_buffer_current]
  /\ UNCHANGED <<console_in_buffer_current, line>>

GetcharIncrement ==
  /\ Goes("increment", "wrap")
  /\ console_in_buffer_current' = console_in_buffer_current + 1
  /\ UNCHANGED <<c, line>>

GetcharWrap ==
  /\ Goes("wrap", "line")
  /\ console_in_buffer_current' = First
  /\ UNCHANGED <<c, line>>

-----------------------------------------------------------------------------
\* Task 0: the rest of kshell_get_line, and the shell's loop.

\* Variant: stops one character later than the line is long.
LineFull_Late == Len(line) = LineMax

\* This character fills the line.
LineFull == Len(line) + 1 = LineMax

LineAccept ==
  \/ /\ c = "newline"
     /\ Goes("line", "process")
     /\ UNCHANGED <<console_in_buffer_current, c, line>>
  \/ /\ c # "newline"
     /\ Goes("line", IF LineFull THEN "process" ELSE "test")
     /\ line' = Append(line, c)
     /\ UNCHANGED <<console_in_buffer_current, c>>

\* kshell_process_line returns, the shell yields and begins a new line.
LineProcessed ==
  /\ Goes("process", "test")
  /\ line' = <<>>
  /\ UNCHANGED <<console_in_buffer_current, c>>

ReaderStep ==
  \/ GetcharTest \/ GetcharYield \/ GetcharTake \/ GetcharIncrement \/ GetcharWrap
  \/ LineAccept \/ LineProcessed

Next ==
  \/ \E scancode \in Scancodes : keyboard_interrupt_handler(scancode)
  \/ ReaderStep

Spec == Init /\ [][Next]_vars

\* Task 0 always gets the CPU back (module Tasks), interrupts end, keys need not come.
FairSpec == Spec /\ WF_vars(ReaderStep)

=============================================================================
