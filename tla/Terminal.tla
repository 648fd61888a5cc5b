------------------------------ MODULE Terminal ------------------------------
(***************************************************************************)
(* Where printed characters go (device/character/terminal.c). printf and   *)
(* the debug macros share one path, term_put_char, which asks the global   *)
(* is_debug_output for every character: debugf and klog set it, print and  *)
(* clear it (include/debug.h:98-104). The handlers of the keyboard and the *)
(* mouse print debug text too, between any two steps of what they          *)
(* interrupt; the timer's would, but its line stays masked (Interrupts).   *)
(* An exception ends the machine and is left out.                          *)
(* A handler runs with interrupts off and is one step; the tasks do not    *)
(* preempt one another, so one text is being printed at a time. A program  *)
(* prints by system call, with interrupts off; the texts here are the      *)
(* kernel's own, printed with interrupts on.                               *)
(*                                                                         *)
(* GRAPHICS_ACTIVE is true from kernel_main on. The state starts when      *)
(* ps2_initalize has enabled the interrupts.                               *)
(***************************************************************************)
EXTENDS Integers, Sequences

CONSTANT TextMax    \* bound on the characters of a text

ASSUME TextAssumption == TextMax \in Nat \ {0}

VARIABLES
  is_debug_output,
  stage,        \* "boot"; "vui" once vui_keypress is attached to the keyboard;
                \* "console" once redirect_putc is set
  pc,           \* the printing of a text: "idle", "on", "print", "off"
  kind,         \* the text: "printf" or "debugf"
  left,         \* its characters still to be printed
  sent,         \* history: where its characters went, in order; emptied when the
                \* console begins
  disturbed     \* history: a handler printed during this text

printing == <<pc, kind, left, sent>>
terminal_vars == <<is_debug_output, stage, printing, disturbed>>

Serial == {"com2", "com4"}
Sinks == {{}, {"console"}, Serial}

TerminalInit ==
  /\ is_debug_output = FALSE /\ stage = "boot"
  /\ pc = "idle" /\ kind = "printf" /\ left = 0 /\ sent = <<>> /\ disturbed = FALSE

\* As if the redirection were asked before the flag.
term_put_char_RedirectFirst ==
  IF stage = "console" THEN {"console"}
  ELSE IF is_debug_output THEN Serial ELSE {}

\* Text that is not for debugging goes nowhere before the console takes it over.
term_put_char ==
  IF is_debug_output THEN Serial
  ELSE IF stage = "console" THEN {"console"} ELSE {}

-----------------------------------------------------------------------------
(* A text of the kernel or of a task. *)

Starts ==
  /\ pc = "idle"
  /\ left' \in 1 .. TextMax
  /\ \/ kind' = "printf" /\ pc' = "print"
     \/ kind' = "debugf" /\ pc' = "on"
  /\ sent' = <<>> /\ disturbed' = FALSE
  /\ UNCHANGED <<is_debug_output, stage>>

debug_out_on ==
  /\ pc = "on"
  /\ is_debug_output' = TRUE
  /\ pc' = "print"
  /\ UNCHANGED <<stage, kind, left, sent, disturbed>>

\* As if printf itself ended the debug output.
AfterLast_Printf == "idle"

AfterLast == IF kind = "debugf" THEN "off" ELSE "idle"

Puts ==
  /\ pc = "print"
  /\ sent' = Append(sent, term_put_char)
  /\ left' = left - 1
  /\ pc' = IF left = 1 THEN AfterLast ELSE pc
  /\ UNCHANGED <<is_debug_output, stage, kind, disturbed>>

debug_out_off ==
  /\ pc = "off"
  /\ is_debug_output' = FALSE
  /\ pc' = "idle"
  /\ UNCHANGED <<stage, kind, left, sent, disturbed>>

vui_initalize ==
  /\ stage = "boot" /\ pc = "idle"
  /\ stage' = "vui"
  /\ UNCHANGED <<is_debug_output, printing, disturbed>>

vui_console_main ==
  /\ stage = "vui" /\ pc = "idle"
  /\ stage' = "console" /\ sent' = <<>>
  /\ UNCHANGED <<is_debug_output, pc, kind, left, disturbed>>

-----------------------------------------------------------------------------
(* The handlers. Their own text goes out whole between setting and clearing the flag. *)

HandlerPrints == is_debug_output' = FALSE /\ disturbed' = TRUE

\* Before vUI listens, a key prints nothing and only fills the keyboard's buffer.
KeyInterrupt ==
  /\ stage # "boot"
  /\ HandlerPrints
  /\ UNCHANGED <<stage, printing>>

\* A byte of the mouse prints when a packet should begin and the byte begins none.
MouseInterrupt ==
  /\ HandlerPrints
  /\ UNCHANGED <<stage, printing>>

TerminalNext ==
  \/ Starts \/ debug_out_on \/ Puts \/ debug_out_off
  \/ vui_initalize \/ vui_console_main
  \/ KeyInterrupt \/ MouseInterrupt

TerminalSpec == TerminalInit /\ [][TerminalNext]_terminal_vars

-----------------------------------------------------------------------------
TerminalTypeOK ==
  /\ is_debug_output \in BOOLEAN /\ disturbed \in BOOLEAN
  /\ stage \in {"boot", "vui", "console"}
  /\ pc \in {"idle", "on", "print", "off"} /\ kind \in {"printf", "debugf"}
  /\ left \in 0 .. TextMax
  /\ sent \in Seq(Sinks) /\ Len(sent) + left <= TextMax

\* What is printed for the user reaches the console and nothing else once the
\* console is there, whatever prints for debugging before it and during it
\* (terminal.c:129-139).
PrintfReachesTheConsole ==
  kind = "printf" /\ stage = "console" =>
    \A i \in DOMAIN sent : sent[i] = {"console"}

\* A debug text goes to the serial ports whole unless a handler printed during it,
\* and even then only its end goes astray: what was sent to the ports comes first.
OnlyHandlersDivertDebugText ==
  kind = "debugf" =>
    /\ \A i \in DOMAIN sent : sent[i] # Serial => disturbed
    /\ \A i, j \in DOMAIN sent : i < j /\ sent[i] # Serial => sent[j] # Serial

=============================================================================
