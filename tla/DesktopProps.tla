---------------------------- MODULE DesktopProps ----------------------------
(***************************************************************************)
(* What keyboard, mouse and windows owe to one another.                    *)
(***************************************************************************)
EXTENDS Desktop

\* The machine is switched off only by a key that comes while its gate is missing and
\* interrupts are on, between interrupts.c:96 and ps2.c:6, or by a key that comes while
\* vui_keypress is attached and the desktop is still active (vui.c:74, vui.c:717,
\* kapps_console.c:50): never once the console listens.
DownForAReason == ~running => boot \in {"interrupts"} \cup ConsoleMain

\* Keyboard and mouse share a buffer and neither handler asks whose byte it is
\* (keyboard.c:130, mouse.c:97); still, each reads its own, unless ps2_initalize left a
\* request behind that has no byte. Once the mouse was heard none of these is left: then
\* no handler slips any more, and the bytes of a packet that are counted right are
\* counted right for ever.
SlipsComeFromBoot ==
  [][/\ ~slipped /\ slipped' => leftover # {}
     /\ heard # 0 => slipped' = slipped /\ (astray' => astray)]_vars

\* The handler is at the byte the mouse is at, unless the boot took some bytes of a packet
\* away (keyboard.c:99-102 after mouse.c:81), a late answer to mouse_initalize was
\* counted for one, or a handler slipped; and after any of these from the first packet
\* on whose last two bytes have bit 3 clear, wherever it found the count (mouse.c:99-119).
PacketsInStep == ~astray => mouse_cycle = heard % 3

\* Once the console listens, it is given every key once and in order, whatever the mouse
\* does and however many windows are made (keyboard.c:120-172, observer.c:152-190,
\* vui.c:709-723).
KeysReachTheConsole ==
  boot \in Listening /\ ~slipped =>
    delivered \o (IF port.from = "key" THEN <<port.key>> ELSE <<>>) = pressed

\* The search for the object under a click ends, also when the click comes between the
\* making of an object and the setting of its parent: the active window's parents lead to
\* the desktop, which the search takes for no one's child (vui.c:910-947).
ClickEnds ==
  \A S \in SUBSET (1 .. vui_handle_top - 1) :
    active_window \in S => \E h \in S : handles[h].parent \notin S

\* A byte in the shared buffer is read, and the other device gets its turn: unless line 8
\* has come, which its own interrupt does not acknowledge at the second controller
\* (interrupts.c:332): it holds the mouse back until a system call does, if one is made.
EveryByteIsRead ==
  port # Empty /\ 12 \in gates ~> port = Empty \/ 8 \in isr \/ ~running

=============================================================================
