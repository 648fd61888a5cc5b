------------------------------ MODULE Desktop -------------------------------
(***************************************************************************)
(* Keyboard, mouse and windows: device/character/keyboard.c and mouse.c,   *)
(* util/observer.c, ui/vui.c and the start of kapps/kapps_console.c and    *)
(* kapps_memviewer.c. Both devices share one output buffer, and their      *)
(* handlers may interrupt kernel_main at any of its steps from the first   *)
(* sti on.                                                                 *)
(*                                                                         *)
(* The devices and their controller are external. A key is a press; the    *)
(* keyboard's own ring and the translation of codes are in module Input.   *)
(***************************************************************************)
EXTENDS Interrupts, Sequences

CONSTANTS
  Keys,
  MaxKeys,              \* bound on the keys pressed once the console listens
  MaxHandles            \* VUI_MAX_HANDLES, 256

ASSUME DesktopAssumption ==
  /\ MaxKeys \in Nat /\ MaxHandles \in Nat /\ MaxHandles >= 3
  /\ {1, 12} \subseteq Lines

VARIABLES
  port,                 \* the output buffer both devices share
  owed,                 \* answers the mouse gives after mouse_initalize stopped waiting
  sent,                 \* bytes of its packet the mouse has sent
  leftover,             \* requests ps2_initalize left without a byte
  mouse_cycle,
  heard, plain,         \* the last byte of a packet mouse_handler read; no bit 3 since
  slipped,              \* a handler read what was not its byte
  astray,               \* the mouse and mouse_handler may be at different bytes
  handles, vui_handle_top,
  active_window, event_handler,   \* the window keys go to; the window that has a handler
  made, win,            \* the object made last; the window of kapps_memviewer_main
  pressed, delivered    \* keys since the console listens, and those it was given

mouse == <<owed, sent, mouse_cycle, heard, plain, astray>>
objects == <<handles, vui_handle_top, active_window, event_handler, made, win>>
keyboard == <<pressed, delivered>>
vars == <<machine, port, leftover, mouse, slipped, objects, keyboard>>

Empty == [from |-> "none"]
Key(k) == [from |-> "key", key |-> k]
Answer == [from |-> "answer", bit3 |-> TRUE]          \* 0xFA
Byte(n, b) == [from |-> "mouse", place |-> n, bit3 |-> b]
FromMouse == {"answer", "mouse"}
Ports == {Empty, Answer} \cup {Key(k) : k \in Keys} \cup {Byte(n, b) : n \in 1 .. 3, b \in BOOLEAN}

Types == {"desktop", "window", "console", "label", "none"}
NULL == 0                                   \* made of nothing: the desktop is made once
Unlisted == MaxHandles                      \* a parent that is no object
NoObject == [type |-> "none", parent |-> Unlisted]
Objects == [type : Types, parent : 0 .. MaxHandles]

Silent == {"start", "interrupts"}           \* the mouse is not enabled yet
BeforeKeys == Silent \cup {"mouse", "keyboard", "ps2", "desktop"}
ConsoleMain == {"attached", "window", "windowset", "console", "consoleset", "handled"}
Listening == {"up", "viewer", "viewerset", "label"}
Steps == BeforeKeys \cup ConsoleMain \cup Listening

TypeOK ==
  /\ MachineOK /\ boot \in Steps
  /\ port \in Ports /\ leftover \subseteq {1, 12}
  /\ owed \in 0 .. 2 /\ sent \in 0 .. 2 /\ mouse_cycle \in 0 .. 2 /\ heard \in 0 .. 3
  /\ plain \in BOOLEAN /\ slipped \in BOOLEAN /\ astray \in BOOLEAN
  /\ handles \in [0 .. MaxHandles - 1 -> Objects] /\ vui_handle_top \in 0 .. MaxHandles
  /\ active_window \in 0 .. MaxHandles - 1 /\ event_handler \in 0 .. MaxHandles - 1
  /\ made \in 0 .. MaxHandles - 1 /\ win \in 0 .. MaxHandles - 1
  /\ pressed \in Seq(Keys) /\ delivered \in Seq(Keys)

Init ==
  /\ MachineInit
  /\ port = Empty /\ leftover = {}
  /\ owed = 0 /\ sent = 0 /\ mouse_cycle = 0 /\ heard = 0 /\ plain = FALSE
  /\ slipped = FALSE /\ astray = FALSE
  /\ handles = [h \in 0 .. MaxHandles - 1 |-> NoObject] /\ vui_handle_top = 0
  /\ active_window = 0 /\ event_handler = NULL /\ made = NULL /\ win = NULL
  /\ pressed = <<>> /\ delivered = <<>>

-----------------------------------------------------------------------------
\* The devices. Each waits until the buffer is free, fills it and raises its line.

KeyPress(k) ==
  /\ running /\ port = Empty /\ Len(pressed) < MaxKeys
  /\ port' = Key(k) /\ Raised(1)
  /\ pressed' = IF boot \in Listening THEN Append(pressed, k) ELSE pressed
  /\ UNCHANGED <<running, boot, enabled, gates, pic1_irq_mask, isr, leftover, mouse, slipped,
                 objects, delivered>>

MouseAnswers ==
  /\ running /\ port = Empty /\ owed > 0
  /\ port' = Answer /\ Raised(12)
  /\ owed' = owed - 1
  /\ UNCHANGED <<running, boot, enabled, gates, pic1_irq_mask, isr, leftover, sent,
                 mouse_cycle, heard, plain, astray, slipped, objects, keyboard>>

\* The mouse reports from the command that enables it on, long before its gate is set.
\* Only the first byte of a packet has bit 3 set for certain.
MouseSends(bit3) ==
  /\ running /\ port = Empty /\ boot \notin Silent /\ owed = 0
  /\ sent = 0 => bit3
  /\ port' = Byte(sent + 1, bit3) /\ Raised(12)
  /\ sent' = (sent + 1) % 3
  /\ UNCHANGED <<running, boot, enabled, gates, pic1_irq_mask, isr, leftover, owed,
                 mouse_cycle, heard, plain, astray, slipped, objects, keyboard>>

OtherDevice(l) ==
  /\ running /\ l \notin {1, 12} /\ Raised(l)
  /\ UNCHANGED <<running, boot, enabled, gates, pic1_irq_mask, isr, port, leftover, mouse,
                 slipped, objects, keyboard>>

-----------------------------------------------------------------------------
\* Interrupts.

\* Variant: observer_notify returns after the first observer.
observer_notify_First(k) == UNCHANGED <<running, delivered>>

\* observer_notify of key k: the keyboard's own ring, then vui_keypress once it is
\* attached. The active object is taken for a window: the desktop has no event_handler,
\* and what lies there instead may be called.
observer_notify(k) ==
  IF boot \in BeforeKeys THEN UNCHANGED <<running, delivered>>
  ELSE IF handles[active_window].type # "window" THEN
    running' \in BOOLEAN /\ UNCHANGED delivered
  ELSE IF event_handler = active_window THEN
    UNCHANGED running /\ delivered' = Append(delivered, k)
  ELSE running' \in BOOLEAN /\ UNCHANGED delivered

\* The status is checked first; a byte of the mouse is taken for some key, or a release,
\* and an answer for a release.
keyboard_interrupt_handler ==
  /\ port' = Empty
  /\ slipped' = (slipped \/ port.from \in FromMouse)
  /\ astray' = (astray \/ port.from = "mouse")
  /\ \/ port.from # "key" /\ UNCHANGED <<running, delivered>>
     \/ port.from = "key" /\ observer_notify(port.key)
     \/ port.from = "mouse" /\ \E k \in Keys : observer_notify(k)

\* Variant: the first byte is accepted whether or not bit 3 is set.
Cycled_AnyFirst(bit3) == (mouse_cycle + 1) % 3

\* A packet's first byte needs bit 3; with the third the packet is acted upon.
Cycled(bit3) == IF mouse_cycle = 0 /\ ~bit3 THEN 0 ELSE (mouse_cycle + 1) % 3

\* The status is not checked: an empty buffer yields the byte it held last. Whatever is
\* read counts as a byte of a packet, until one with bit 3 clear in its last two bytes
\* has made up for it.
mouse_handler ==
  /\ port' = Empty
  /\ \E bit3 \in IF port.from \in FromMouse THEN {port.bit3} ELSE BOOLEAN :
       mouse_cycle' = Cycled(bit3)
  /\ IF port.from = "mouse"
       THEN /\ heard' = port.place
            /\ plain' = (port.place = 1 \/ (plain /\ ~port.bit3))
            /\ astray' = (astray /\ ~(plain' /\ port.place = 3))
            /\ UNCHANGED slipped
       ELSE /\ slipped' = (slipped \/ port.from # "answer")
            /\ plain' = FALSE /\ astray' = TRUE
            /\ UNCHANGED heard

\* Variant: the dispatch takes the keyboard's vector for the mouse's.
KeyboardInterrupt_Mouse ==
  /\ Takes(1)
  /\ mouse_handler
  /\ leftover' = leftover \ {1}
  /\ UNCHANGED <<running, owed, sent, objects, keyboard>>

KeyboardInterrupt ==
  /\ Takes(1)
  /\ keyboard_interrupt_handler
  /\ leftover' = leftover \ {1}
  /\ UNCHANGED <<owed, sent, mouse_cycle, heard, plain, objects, pressed>>

MouseInterrupt ==
  /\ Takes(12)
  /\ mouse_handler
  /\ leftover' = leftover \ {12}
  /\ UNCHANGED <<running, owed, sent, objects, keyboard>>

OtherInterrupt(l) ==
  /\ l \notin {1, 12} /\ Takes(l)
  /\ UNCHANGED <<running, port, leftover, mouse, slipped, objects, keyboard>>

MissingGate(l) ==
  /\ NoGate(l)
  /\ UNCHANGED <<port, leftover, mouse, slipped, objects, keyboard>>

-----------------------------------------------------------------------------
\* kernel_main.

InterruptsInitalize ==
  /\ interrupts_initalize
  /\ UNCHANGED <<port, leftover, mouse, slipped, objects, keyboard>>

\* From here to Ps2Gates interrupts are off. mouse_initalize polls for the answers to its
\* commands, each of which may leave a request behind; it reads whatever comes, so the
\* answers to the last two may come later.
MouseInitalize ==
  /\ Boots("interrupts", "mouse")
  /\ enabled' = FALSE
  /\ \E latched \in SUBSET {1, 12} : irr' = irr \cup latched
  /\ leftover' = irr' \cap {1, 12}
  /\ port' = Empty /\ owed' \in 0 .. 2
  /\ UNCHANGED <<gates, pic1_irq_mask, isr, sent, mouse_cycle, heard, plain, astray, slipped,
                 objects, keyboard>>

\* keyboard_initalize reads until it finds the buffer empty. What it reads is lost, and
\* the request it came with stays; the mouse, which is enabled, may be within a packet.
Flush ==
  /\ running /\ boot = "mouse" /\ port # Empty
  /\ port' = Empty
  /\ leftover' = irr \cap {1, 12}
  /\ UNCHANGED <<machine, mouse, slipped, objects, keyboard>>

KeyboardInitalize ==
  /\ Boots("mouse", "keyboard")
  /\ port = Empty
  /\ astray' = (sent # 0)
  /\ UNCHANGED <<enabled, controllers, port, leftover, owed, sent, mouse_cycle, heard, plain,
                 slipped, objects, keyboard>>

Ps2Gates ==
  /\ Boots("keyboard", "ps2")
  /\ ps2_gates
  /\ UNCHANGED <<irr, isr, port, leftover, mouse, slipped, objects, keyboard>>

Works == UNCHANGED <<enabled, controllers, port, leftover, mouse, slipped, delivered>>
SamePressed == UNCHANGED pressed

\* The parent of a new object is what its memory held; object 0's is never read. An
\* interrupt sees the object only when vui_handle_top, raised last, covers it. A full
\* table makes nothing.
vui_add_handle(type) ==
  IF vui_handle_top = MaxHandles
    THEN made' = NULL /\ UNCHANGED <<handles, vui_handle_top>>
    ELSE /\ \E garbage \in IF vui_handle_top = 0 THEN {Unlisted} ELSE 0 .. MaxHandles :
              handles' = [handles EXCEPT ![vui_handle_top] = [type |-> type, parent |-> garbage]]
         /\ made' = vui_handle_top /\ vui_handle_top' = vui_handle_top + 1

\* Variant: the arguments are exchanged.
vui_set_parent_Swapped(child, parent) ==
  handles' = [handles EXCEPT ![parent].parent = child]

\* Through NULL the parent goes into page 0, which is no object.
vui_set_parent(child, parent) ==
  handles' = IF child = NULL THEN handles ELSE [handles EXCEPT ![child].parent = parent]

\* A step of kernel_main that makes an object, and one that gives it its parent.
Makes(from, to, type) ==
  /\ Boots(from, to) /\ Works /\ SamePressed
  /\ vui_add_handle(type)
  /\ UNCHANGED <<active_window, event_handler, win>>

GoesInto(from, to, parent) ==
  /\ Boots(from, to) /\ Works /\ SamePressed
  /\ vui_set_parent(made, parent)
  /\ UNCHANGED <<vui_handle_top, active_window, event_handler, made, win>>

DesktopNew == Makes("ps2", "desktop", "desktop")

AttachKeypress == Boots("desktop", "attached") /\ Works /\ SamePressed /\ UNCHANGED objects

ConsoleWindow == Makes("attached", "window", "window")
ConsoleWindowParent == GoesInto("window", "windowset", 0)
ConsoleNew == Makes("windowset", "console", "console")
ConsoleParent == GoesInto("console", "consoleset", 1)

SetEventHandler ==
  /\ Boots("consoleset", "handled") /\ Works /\ SamePressed
  /\ event_handler' = 1
  /\ UNCHANGED <<handles, vui_handle_top, active_window, made, win>>

\* A key that is in the buffer now is the console's.
SetActiveWindow ==
  /\ Boots("handled", "up") /\ Works
  /\ active_window' = 1
  /\ pressed' = IF port.from = "key" THEN <<port.key>> ELSE <<>>
  /\ UNCHANGED <<handles, vui_handle_top, event_handler, made, win>>

\* kapps_memviewer_main, at the shell's start and for each "memviewer".
ViewerWindow == Makes("up", "viewer", "window")

ViewerWindowParent ==
  /\ Boots("viewer", "viewerset") /\ Works /\ SamePressed
  /\ vui_set_parent(made, 0) /\ win' = made
  /\ UNCHANGED <<vui_handle_top, active_window, event_handler, made>>

ViewerLabel == Makes("viewerset", "label", "label")
ViewerLabelParent == GoesInto("label", "up", win)

\* A program the shell runs makes a system call, or ends.
ProgramCalls ==
  /\ SystemCall /\ boot \in Listening
  /\ UNCHANGED <<port, leftover, mouse, slipped, objects, keyboard>>

KernelMain ==
  \/ InterruptsInitalize \/ MouseInitalize \/ Flush \/ KeyboardInitalize \/ Ps2Gates
  \/ DesktopNew \/ AttachKeypress
  \/ ConsoleWindow \/ ConsoleWindowParent \/ ConsoleNew \/ ConsoleParent
  \/ SetEventHandler \/ SetActiveWindow
  \/ ViewerWindow \/ ViewerWindowParent \/ ViewerLabel \/ ViewerLabelParent
  \/ ProgramCalls

Interrupt ==
  \/ KeyboardInterrupt \/ MouseInterrupt
  \/ \E l \in Lines : OtherInterrupt(l) \/ MissingGate(l)

Device ==
  \/ \E k \in Keys : KeyPress(k)
  \/ MouseAnswers \/ \E bit3 \in BOOLEAN : MouseSends(bit3)
  \/ \E l \in Lines : OtherDevice(l)

Next == KernelMain \/ Interrupt \/ Device

\* The processor takes interrupts when it may.
DesktopSpec == Init /\ [][Next]_vars /\ WF_vars(Interrupt)

=============================================================================
