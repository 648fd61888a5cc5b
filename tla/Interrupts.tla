----------------------------- MODULE Interrupts -----------------------------
(***************************************************************************)
(* The two interrupt controllers, the gates and the order in which         *)
(* kernel_main sets them up: device/chipset/interrupts.c and ps2.c. An     *)
(* interrupt line stands for its vector, 0x20 + line. Handlers run with    *)
(* interrupts off, so one is served whole, acknowledgement included.       *)
(* What the controllers do with requests is external.                      *)
(***************************************************************************)
EXTENDS Integers

CONSTANT Lines          \* the lines devices raise; 2 joins the controllers

ASSUME LinesAssumption == Lines \subseteq (0 .. 15) \ {2}

VARIABLES
  running,              \* the machine has not been switched off
  boot,                 \* how far kernel_main has come
  enabled,              \* the processor takes interrupts
  gates,                \* lines whose vector has a gate
  pic1_irq_mask,        \* lines the first controller holds back
  irr, isr              \* lines requested, lines in service

controllers == <<gates, pic1_irq_mask, irr, isr>>
machine == <<running, boot, enabled, controllers>>

Masters == 0 .. 7
Slaves == 8 .. 15
Cascade == 2

MachineOK ==
  /\ running \in BOOLEAN /\ enabled \in BOOLEAN
  /\ gates \subseteq Masters \cup Slaves /\ pic1_irq_mask \subseteq Masters
  /\ irr \subseteq Lines /\ isr \subseteq Lines \cup {Cascade}

MachineInit ==
  /\ running = TRUE /\ boot = "start" /\ enabled = FALSE
  /\ gates = {} /\ pic1_irq_mask = {}
  /\ irr = {} /\ isr = {}

-----------------------------------------------------------------------------
\* The controllers.

Least(S) == {l \in S : \A k \in S : l <= k}

\* The lower line goes first, and waits while that or a lower one is in service.
Asks(S) == Least({l \in irr \cap S : \A s \in isr \cap S : l < s})

MasterAsks ==
  LET asks == (irr \cap Masters) \cup (IF Asks(Slaves) = {} THEN {} ELSE {Cascade})
  IN Least({l \in asks \ pic1_irq_mask : \A s \in isr \cap Masters : l < s})

\* The line the processor is given next, if any.
NextLine == IF MasterAsks = {Cascade} THEN Asks(Slaves) ELSE MasterAsks

\* An edge-triggered request stays until it is served.
Raised(l) == irr' = irr \cup {l}

\* Variant: the second controller is acknowledged for vectors above 0x2C.
Acknowledged_AboveMouse(served, l) ==
  (served \ Least(served \cap Masters))
    \ (IF l > 12 THEN Least(served \cap Slaves) ELSE {})

\* The end of interrupt_default_handler. Line 8, vector 0x28, is acknowledged at the
\* first controller only.
Acknowledged(served, l) ==
  (served \ Least(served \cap Masters))
    \ (IF l > 8 THEN Least(served \cap Slaves) ELSE {})

\* Line l is accepted, its handler runs and acknowledges it.
Takes(l) ==
  /\ running /\ enabled /\ l \in NextLine /\ l \in gates
  /\ irr' = irr \ {l}
  /\ isr' = Acknowledged(isr \cup {l} \cup (IF l \in Slaves THEN {Cascade} ELSE {}), l)
  /\ UNCHANGED <<boot, enabled, gates, pic1_irq_mask>>

\* A vector without a gate is an exception, whose handler switches the machine off.
NoGate(l) ==
  /\ running /\ enabled /\ l \in NextLine /\ l \notin gates
  /\ running' = FALSE
  /\ UNCHANGED <<boot, enabled, controllers>>

\* syscall_handler acknowledges at both controllers, though no line was raised: what is
\* in service, such as line 8, is taken for served. The two yields do not come so far.
SystemCall ==
  /\ running /\ enabled
  /\ isr' = (isr \ Least(isr \cap Masters)) \ Least(isr \cap Slaves)
  /\ UNCHANGED <<running, boot, enabled, gates, pic1_irq_mask, irr>>

-----------------------------------------------------------------------------
\* kernel_main.

Boots(from, to) == running /\ boot = from /\ boot' = to /\ UNCHANGED running

\* irq & (1 << irq): not the line, but a bit that is 0 in every vector of the kernel.
LineOf(irq) == LET n == irq % 32 IN IF (irq \div 2^n) % 2 = 1 THEN 2^n ELSE 0

Toggled(S, l) == (S \ {l}) \cup ({l} \ S)

interrupt_unmask_irq(mask, irq) ==
  IF LineOf(irq) < 8 THEN Toggled(mask, LineOf(irq)) ELSE mask

\* Both masks are cleared, then the timer's and the serial ports' lines are "unmasked".
\* The controllers forget what was requested before.
interrupts_initalize ==
  /\ Boots("start", "interrupts")
  /\ gates' = (Masters \cup Slaves) \ {1, 12}
  /\ pic1_irq_mask' = interrupt_unmask_irq(interrupt_unmask_irq(interrupt_unmask_irq({},
                        32), 35), 36)
  /\ irr' = {} /\ isr' = {} /\ enabled' = TRUE

\* Variant: the mouse's gate is left out.
ps2_gates_NoMouse ==
  /\ gates' = gates \cup {1}
  /\ pic1_irq_mask' = interrupt_unmask_irq(interrupt_unmask_irq(pic1_irq_mask, 33), 44)
  /\ enabled' = TRUE

\* The end of ps2_initalize, which began with interrupts off.
ps2_gates ==
  /\ gates' = gates \cup {1, 12}
  /\ pic1_irq_mask' = interrupt_unmask_irq(interrupt_unmask_irq(pic1_irq_mask, 33), 44)
  /\ enabled' = TRUE

ps2_initalize ==
  /\ Boots("interrupts", "ps2")
  /\ ps2_gates
  /\ UNCHANGED <<irr, isr>>

-----------------------------------------------------------------------------
\* The controllers alone, with devices that raise their lines at any time.

Raise(l) == running /\ Raised(l) /\ UNCHANGED <<running, boot, enabled, gates, pic1_irq_mask, isr>>

Serve(l) == Takes(l) /\ UNCHANGED running

Spec ==
  /\ MachineInit
  /\ [][\/ interrupts_initalize \/ ps2_initalize
        \/ \E l \in Lines : Raise(l) \/ Serve(l) \/ NoGate(l)
        \/ SystemCall]_machine

\* The timer's interrupt comes through once interrupts_initalize is done
\* (interrupts.c:87, "unmask the timer").
TimerIsUnmasked == boot # "start" => 0 \notin pic1_irq_mask

=============================================================================
