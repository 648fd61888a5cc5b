---------------------------- MODULE DesktopProofs ---------------------------
(***************************************************************************)
(* Proofs about Desktop, for every set of lines with the keyboard's and    *)
(* the mouse's, any number of keys and any size of the table of objects.   *)
(***************************************************************************)
EXTENDS DesktopProps, SequenceTheorems, TLAPS

\* The mouse's handler cannot have run.
Unheard == {"start", "interrupts", "mouse", "keyboard"}

\* The controllers and the gates at each stage of the boot. Nothing but line 8 stays in
\* service, and at most the timer's line is masked.
ControlInv ==
  /\ isr \subseteq {8} /\ pic1_irq_mask \subseteq {0}
  /\ boot \in {"start", "mouse", "keyboard"} => ~enabled
  /\ boot \in {"interrupts", "mouse", "keyboard"} => gates = (Masters \cup Slaves) \ {1, 12}
  /\ boot \notin Unheard => gates = Masters \cup Slaves

\* Who a request belongs to. Without a slip each has its byte or was left by the boot;
\* and once the mouse was heard, which a key's request precedes, each has its byte.
RequestInv ==
  /\ ~slipped => /\ 1 \in irr \ leftover => port.from = "key"
                 /\ 12 \in irr \ leftover => port.from \in FromMouse
  /\ heard # 0 => /\ 1 \in irr => port.from = "key"
                  /\ 12 \in irr => port.from = "mouse"

\* What was heard tells what was sent: from the first byte heard on, and before it
\* unless bytes were lost.
Counted == (boot # "mouse" /\ ~astray) \/ heard # 0

\* The mouse counts on, and what was heard is behind by the byte in the buffer at most.
\* Its answers come before its packets.
ByteInv ==
  /\ port.from = "mouse" =>
       /\ sent = port.place % 3 /\ boot \notin Silent /\ owed = 0
       /\ port.place = 1 => port.bit3
       /\ Counted => port.place = (heard % 3) + 1
  /\ port.from # "mouse" /\ Counted => sent = heard % 3
  /\ owed # 0 \/ port.from = "answer" => sent = 0 /\ heard = 0
  /\ boot \in Silent => sent = 0 /\ owed = 0
  /\ boot \in Unheard => heard = 0 /\ mouse_cycle = 0
  /\ ~astray => mouse_cycle = heard % 3
  /\ plain => heard # 0
  /\ plain /\ heard = 2 => mouse_cycle # 1
  /\ plain /\ heard = 3 => mouse_cycle = 0

\* The objects at each stage: the desktop is 0, the console's window 1, and nothing that
\* is made later is given their places.
ObjectInv ==
  /\ boot \in Unheard \cup {"ps2"} => vui_handle_top = 0
  /\ boot \in {"desktop", "attached"} => vui_handle_top = 1
  /\ boot \in {"window", "windowset"} => vui_handle_top = 2 /\ made = 1
  /\ boot \in {"console", "consoleset", "handled"} => vui_handle_top = 3 /\ made = 2
  /\ vui_handle_top >= 1 => handles[0].type = "desktop"
  /\ vui_handle_top >= 2 => handles[1].type = "window"
  /\ boot \in {"windowset", "console", "consoleset", "handled"} \cup Listening =>
       handles[1].parent = 0
  /\ boot \in {"handled"} \cup Listening => event_handler = 1
  /\ boot \in Listening =>
       /\ vui_handle_top >= 3 /\ active_window = 1
       /\ made # 1 /\ win # 1
  /\ boot \notin Listening => active_window = 0 /\ win = 0

\* Before the console listens nothing is delivered; then what is pressed is delivered or
\* in the buffer.
KeyInv ==
  /\ boot \notin Listening => delivered = <<>> /\ pressed = <<>>
  /\ KeysReachTheConsole

BytesOK ==
  /\ port \in Ports /\ leftover \subseteq {1, 12}
  /\ owed \in 0 .. 2 /\ sent \in 0 .. 2 /\ mouse_cycle \in 0 .. 2 /\ heard \in 0 .. 3
  /\ plain \in BOOLEAN /\ slipped \in BOOLEAN /\ astray \in BOOLEAN

ObjectsOK ==
  /\ handles \in [0 .. MaxHandles - 1 -> Objects] /\ vui_handle_top \in 0 .. MaxHandles
  /\ active_window \in 0 .. MaxHandles - 1 /\ event_handler \in 0 .. MaxHandles - 1
  /\ made \in 0 .. MaxHandles - 1 /\ win \in 0 .. MaxHandles - 1

KeysOK == pressed \in Seq(Keys) /\ delivered \in Seq(Keys)

\* The invariant in parts that speak of few variables each.
MachinePart == MachineOK /\ boot \in Steps /\ ControlInv
BytesPart == BytesOK /\ RequestInv /\ ByteInv
ObjectsPart == ObjectsOK /\ ObjectInv
KeysPart == KeysOK /\ KeyInv
IInv == MachinePart /\ BytesPart /\ ObjectsPart /\ KeysPart /\ DownForAReason

LEMMA Parts == (MachinePart /\ BytesPart /\ ObjectsPart /\ KeysPart) => TypeOK
  BY DEF MachinePart, BytesPart, ObjectsPart, KeysPart, TypeOK, BytesOK, ObjectsOK, KeysOK

-----------------------------------------------------------------------------
\* Facts about the buffer and the controllers.

LEMMA Kinds ==
  /\ Empty \in Ports /\ Empty.from = "none"
  /\ Answer \in Ports /\ Answer.from = "answer"
  /\ \A k \in Keys : Key(k) \in Ports /\ Key(k).from = "key" /\ Key(k).key = k
  /\ \A n \in 1 .. 3, b \in BOOLEAN :
       /\ Byte(n, b) \in Ports /\ Byte(n, b).from = "mouse"
       /\ Byte(n, b).place = n /\ Byte(n, b).bit3 = b
<1>1. Empty \in Ports /\ Empty.from = "none"
  BY DEF Ports, Empty
<1>7. Answer \in Ports /\ Answer.from = "answer"
  BY DEF Ports, Answer
<1>2. \A k \in Keys : Key(k) \in Ports
  BY DEF Ports
<1>3. \A k \in Keys : Key(k).from = "key" /\ Key(k).key = k
  BY DEF Key
<1>4. \A n \in 1 .. 3, b \in BOOLEAN : Byte(n, b) \in Ports
  <2> SUFFICES ASSUME NEW n \in 1 .. 3, NEW b \in BOOLEAN PROVE Byte(n, b) \in Ports
    OBVIOUS
  <2>1. Byte(n, b) \in {Byte(m, c) : m \in 1 .. 3, c \in BOOLEAN}
    OBVIOUS
  <2> QED BY <2>1 DEF Ports
<1>5. \A n \in 1 .. 3, b \in BOOLEAN : Byte(n, b).from = "mouse" /\ Byte(n, b).place = n
  BY DEF Byte
<1>6. \A n \in 1 .. 3, b \in BOOLEAN : Byte(n, b).bit3 = b
  BY Zenon DEF Byte
<1> QED BY <1>1, <1>2, <1>3, <1>4, <1>5, <1>6, <1>7

LEMMA PortIs ==
  ASSUME NEW p \in Ports
  PROVE  /\ p.from \in {"none", "key", "answer", "mouse"}
         /\ p.from = "none" => p = Empty
         /\ p.from = "key" => p.key \in Keys
         /\ p.from = "answer" => p.bit3 = TRUE
         /\ p.from = "mouse" => p.place \in 1 .. 3 /\ p.bit3 \in BOOLEAN
  BY DEF Ports, Empty, Answer, Key, Byte

LEMMA StepsNamed ==
  /\ {"start", "interrupts", "mouse", "keyboard", "ps2", "desktop", "attached", "window", "windowset", "console",
      "consoleset", "handled", "up", "viewer", "viewerset", "label"} \subseteq Steps
  /\ \A s \in BeforeKeys \cup ConsoleMain : s \notin Listening
  /\ {"up", "viewer", "viewerset", "label"} = Listening
  BY DEF Steps, BeforeKeys, Silent, ConsoleMain, Listening

\* Nothing but line 8 stays in service, and the keyboard goes before the mouse.
LEMMA Serves ==
  ASSUME MachineOK, ControlInv, NEW l \in Lines, Takes(l)
  PROVE  /\ running /\ l \in irr /\ l \in gates /\ boot # "start"
         /\ l \in {1, 12} => boot \notin Unheard
         /\ isr' \subseteq {8} \cap Lines
         /\ l = 12 => 1 \notin irr
<1>1. /\ running /\ l \in NextLine /\ l \in gates /\ boot # "start"
      /\ isr' = Acknowledged(isr \cup {l} \cup (IF l \in Slaves THEN {Cascade} ELSE {}), l)
  BY DEF Takes, ControlInv
<1>7. l \in {1, 12} => boot \notin Unheard
  <2>1. enabled
    BY DEF Takes
  <2> QED BY <1>1, <2>1 DEF ControlInv, Unheard
<1>2. l \in irr /\ (l \in Slaves => l \in Asks(Slaves))
  <2>1. Cascade \notin Lines
    BY LinesAssumption DEF Cascade
  <2>2. Asks(Slaves) \subseteq irr \cap Slaves
    BY DEF Asks, Least
  <2>3. MasterAsks \subseteq (irr \cap Masters) \cup {Cascade}
    BY DEF MasterAsks, Least
  <2>4. Masters \cap Slaves = {}
    BY DEF Masters, Slaves
  <2> QED BY <1>1, <2>1, <2>2, <2>3, <2>4 DEF NextLine, Cascade
<1>3. l \in 0 .. 15 /\ l # 2 /\ irr \subseteq 0 .. 15
  BY LinesAssumption, MachineOK DEF MachineOK
<1>4. isr \subseteq {8} /\ isr \subseteq Lines \cup {Cascade}
  BY DEF ControlInv, MachineOK
<1>5. l = 12 => 1 \notin irr
  <2>1. SUFFICES ASSUME l = 12, 1 \in irr PROVE FALSE
    OBVIOUS
  <2> DEFINE asks == (irr \cap Masters) \cup (IF Asks(Slaves) = {} THEN {} ELSE {Cascade})
             free == {k \in asks \ pic1_irq_mask : \A s \in isr \cap Masters : k < s}
  <2>2. MasterAsks = Least(free)
    BY DEF MasterAsks
  <2>3. 1 \in free
    BY <2>1, <1>4 DEF ControlInv, Masters
  <2>4. Cascade \notin Least(free)
    BY <2>3 DEF Least, Cascade
  <2>5. free \subseteq 0 .. 7
    BY DEF Masters, Cascade
  <2>6. 12 \notin Least(free)
    BY <2>5 DEF Least
  <2> QED BY <1>1, <2>1, <2>2, <2>4, <2>6 DEF NextLine
<1>6. isr' \subseteq {8} \cap Lines
  <2>1. CASE l \in Masters
    <3> DEFINE served == isr \cup {l}
    <3>1. l \notin Slaves /\ ~(l > 8) /\ served \cap Masters = {l}
      BY <2>1, <1>4 DEF Masters, Slaves
    <3>2. Least(served \cap Masters) = {l}
      BY <3>1, <1>3 DEF Least
    <3>3. isr' = served \ {l}
      BY <1>1, <3>1, <3>2 DEF Acknowledged
    <3> QED BY <3>3, <1>4 DEF Cascade
  <2>2. CASE l \in Slaves
    <3> DEFINE served == isr \cup {l, Cascade}
    <3>1. l >= 8 /\ served \cap Masters = {Cascade}
      BY <2>2, <1>4 DEF Masters, Slaves, Cascade
    <3>2. Least(served \cap Masters) = {Cascade}
      BY <3>1 DEF Least, Cascade
    <3>3. isr = {}
      <4>1. \A s \in isr \cap Slaves : l < s
        BY <1>2, <2>2 DEF Asks, Least
      <4> QED BY <4>1, <1>4, <3>1, <1>3 DEF Slaves
    <3>4. served \cap Slaves = {l} /\ served \ {Cascade} = {l}
      <4>1. served = {l, Cascade} /\ Cascade \notin Slaves /\ l # Cascade
        BY <3>3, <3>1 DEF Slaves, Cascade
      <4> HIDE DEF served
      <4> QED BY <4>1, <2>2
    <3>5. Least(served \cap Slaves) = {l}
      BY <3>4, <1>3 DEF Least
    <3>6. isr' = {l} \ (IF l > 8 THEN {l} ELSE {})
      <4>1. isr' = Acknowledged(served, l)
        BY <1>1, <2>2
      <4> QED BY <4>1, <3>2, <3>4, <3>5 DEF Acknowledged
    <3> QED BY <3>6, <3>1, <1>3
  <2> QED BY <2>1, <2>2, <1>3 DEF Masters, Slaves
<1> QED BY <1>1, <1>2, <1>5, <1>6, <1>7

-----------------------------------------------------------------------------
\* Parts that a step leaves alone.

LEMMA MachineSame ==
  ASSUME MachinePart, UNCHANGED <<boot, enabled, controllers>>, running' \in BOOLEAN
  PROVE  MachinePart'
  BY DEF MachinePart, MachineOK, ControlInv, controllers

LEMMA BytesSame ==
  ASSUME BytesPart, UNCHANGED <<port, leftover, mouse, slipped>>,
         irr' \cap {1, 12} \subseteq irr \cap {1, 12},
         boot' \in Silent <=> boot \in Silent, boot' \in Unheard => boot \in Unheard,
         boot = "mouse" => boot' = "mouse"
  PROVE  BytesPart'
<1>1. /\ port' = port /\ leftover' = leftover /\ owed' = owed /\ sent' = sent
      /\ mouse_cycle' = mouse_cycle /\ heard' = heard /\ plain' = plain /\ slipped' = slipped
      /\ astray' = astray
  BY DEF mouse
<1>2. BytesOK'
  BY <1>1 DEF BytesPart, BytesOK
<1>3. RequestInv'
  BY <1>1 DEF BytesPart, RequestInv
<1>4. ByteInv'
  BY <1>1 DEF BytesPart, ByteInv, Counted
<1> QED BY <1>2, <1>3, <1>4 DEF BytesPart

LEMMA ObjectsSame ==
  ASSUME ObjectsPart, UNCHANGED <<boot, objects>>
  PROVE  ObjectsPart'
  BY DEF ObjectsPart, ObjectsOK, ObjectInv, objects

LEMMA KeysSame ==
  ASSUME KeysPart, UNCHANGED <<boot, keyboard, port>>, slipped => slipped'
  PROVE  KeysPart'
  BY DEF KeysPart, KeysOK, KeyInv, KeysReachTheConsole, keyboard

-----------------------------------------------------------------------------
\* The devices.

LEMMA KeyPressStep ==
  ASSUME IInv, NEW k \in Keys, KeyPress(k)
  PROVE  IInv'
<1> USE DEF IInv
<1>1. /\ running' = running /\ boot' = boot /\ port = Empty /\ port' = Key(k)
      /\ UNCHANGED <<enabled, gates, pic1_irq_mask, isr, leftover, mouse, slipped, objects,
                     delivered>>
      /\ irr' = irr \cup {1}
  BY DEF KeyPress, Raised
<1>2. /\ port.from = "none" /\ port'.from = "key" /\ port'.key = k /\ port' \in Ports
  BY <1>1, Kinds
<1>3. MachinePart'
  BY <1>1, DesktopAssumption DEF MachinePart, MachineOK, ControlInv
<1>4. BytesPart'
  <2>1. BytesOK'
    BY <1>1, <1>2 DEF BytesPart, BytesOK, mouse
  <2>2. RequestInv'
    BY <1>1, <1>2 DEF BytesPart, RequestInv, FromMouse, mouse
  <2>3. ByteInv'
    BY <1>1, <1>2 DEF BytesPart, ByteInv, Counted, mouse
  <2> QED BY <2>1, <2>2, <2>3 DEF BytesPart
<1>5. ObjectsPart'
  BY <1>1, ObjectsSame
<1>6. KeysPart'
  <2>1. pressed \in Seq(Keys) /\ delivered \in Seq(Keys) /\ delivered' = delivered
    BY <1>1 DEF KeysPart, KeysOK
  <2>2. pressed' = (IF boot \in Listening THEN Append(pressed, k) ELSE pressed)
    BY DEF KeyPress
  <2>3. KeysOK'
    BY <2>1, <2>2 DEF KeysOK
  <2>4. KeysReachTheConsole'
    <3>1. SUFFICES ASSUME boot \in Listening, ~slipped PROVE delivered \o <<k>> = pressed'
      BY <1>1, <1>2, <2>1 DEF KeysReachTheConsole
    <3>2. delivered \o <<>> = pressed
      BY <3>1, <1>2 DEF KeysPart, KeyInv, KeysReachTheConsole
    <3>3. delivered \o <<>> = delivered
      BY <2>1, ConcatEmptySeq
    <3>4. Append(delivered, k) = delivered \o <<k>>
      BY <2>1, AppendIsConcat
    <3> QED BY <3>1, <3>2, <3>3, <3>4, <2>2
  <2>5. boot' \notin Listening => delivered' = <<>> /\ pressed' = <<>>
    BY <1>1, <2>2 DEF KeysPart, KeyInv
  <2> QED BY <2>3, <2>4, <2>5 DEF KeysPart, KeyInv
<1>7. DownForAReason'
  BY <1>1 DEF DownForAReason
<1> QED BY <1>3, <1>4, <1>5, <1>6, <1>7

LEMMA MouseSendsStep ==
  ASSUME IInv, NEW b \in BOOLEAN, MouseSends(b)
  PROVE  IInv'
<1> USE DEF IInv
<1>1. /\ running' = running /\ boot' = boot /\ port = Empty /\ port' = Byte(sent + 1, b)
      /\ UNCHANGED <<enabled, gates, pic1_irq_mask, isr, leftover, slipped, objects, keyboard>>
      /\ mouse_cycle' = mouse_cycle /\ heard' = heard /\ plain' = plain /\ astray' = astray
      /\ irr' = irr \cup {12} /\ sent' = (sent + 1) % 3 /\ boot \notin Silent
      /\ owed = 0 /\ owed' = 0
      /\ sent = 0 => b
  BY DEF MouseSends, Raised
<1>2. sent \in 0 .. 2 /\ sent + 1 \in 1 .. 3 /\ heard \in 0 .. 3
  BY DEF BytesPart, BytesOK
<1>3. /\ port.from = "none" /\ port' \in Ports /\ port'.from = "mouse"
      /\ port'.place = sent + 1
  BY <1>1, <1>2, Kinds
<1>4. sent = 0 => port'.bit3
  BY <1>1, <1>2, Kinds
<1>5. MachinePart'
  BY <1>1, DesktopAssumption DEF MachinePart, MachineOK, ControlInv
<1>6. BytesPart'
  <2>1. BytesOK'
    <3>1. sent' \in 0 .. 2
      BY <1>1, <1>2
    <3> QED BY <1>1, <1>3, <3>1 DEF BytesPart, BytesOK
  <2>2. RequestInv'
    BY <1>1, <1>3 DEF BytesPart, RequestInv, FromMouse
  <2>3. ByteInv'
    <3>1. sent' = port'.place % 3 /\ boot' \notin Silent /\ owed' = 0
      BY <1>1, <1>3
    <3>2. port'.place = 1 => port'.bit3
      BY <1>2, <1>3, <1>4
    <3>3. Counted' => port'.place = (heard' % 3) + 1
      BY <1>1, <1>3 DEF BytesPart, ByteInv, Counted
    <3> QED BY <1>1, <1>3, <3>1, <3>2, <3>3 DEF BytesPart, ByteInv
  <2> QED BY <2>1, <2>2, <2>3 DEF BytesPart
<1>7. ObjectsPart'
  BY <1>1, ObjectsSame
<1>8. KeysPart'
  BY <1>1, <1>3 DEF KeysPart, KeysOK, KeyInv, KeysReachTheConsole, keyboard
<1>9. DownForAReason'
  BY <1>1 DEF DownForAReason
<1> QED BY <1>5, <1>6, <1>7, <1>8, <1>9

LEMMA MouseAnswersStep ==
  ASSUME IInv, MouseAnswers
  PROVE  IInv'
<1> USE DEF IInv
<1>1. /\ running' = running /\ boot' = boot /\ port = Empty /\ port' = Answer
      /\ UNCHANGED <<enabled, gates, pic1_irq_mask, isr, leftover, slipped, objects, keyboard>>
      /\ sent' = sent /\ mouse_cycle' = mouse_cycle /\ heard' = heard /\ plain' = plain
      /\ astray' = astray /\ irr' = irr \cup {12} /\ owed > 0 /\ owed' = owed - 1
  BY DEF MouseAnswers, Raised
<1>2. /\ port.from = "none" /\ port' \in Ports /\ port'.from = "answer"
  BY <1>1, Kinds
<1>3. owed \in 0 .. 2 /\ owed' \in 0 .. 2
  BY <1>1 DEF BytesPart, BytesOK
<1>4. MachinePart'
  BY <1>1, DesktopAssumption DEF MachinePart, MachineOK, ControlInv
<1>5. BytesPart'
  <2>1. BytesOK'
    BY <1>1, <1>2, <1>3 DEF BytesPart, BytesOK
  <2>2. sent = 0 /\ heard = 0 /\ boot \notin Silent
    BY <1>1, <1>3 DEF BytesPart, ByteInv
  <2>3. RequestInv'
    BY <1>1, <1>2, <2>2 DEF BytesPart, RequestInv, FromMouse
  <2>4. ByteInv'
    BY <1>1, <1>2, <2>2 DEF BytesPart, ByteInv, Counted
  <2> QED BY <2>1, <2>3, <2>4 DEF BytesPart
<1>6. ObjectsPart'
  BY <1>1, ObjectsSame
<1>7. KeysPart'
  BY <1>1, <1>2 DEF KeysPart, KeysOK, KeyInv, KeysReachTheConsole, keyboard
<1>8. DownForAReason'
  BY <1>1 DEF DownForAReason
<1> QED BY <1>4, <1>5, <1>6, <1>7, <1>8

LEMMA OtherDeviceStep ==
  ASSUME IInv, NEW l \in Lines, OtherDevice(l)
  PROVE  IInv'
<1> USE DEF IInv
<1>1. /\ running' = running /\ boot' = boot /\ irr' = irr \cup {l} /\ l \notin {1, 12}
      /\ UNCHANGED <<enabled, gates, pic1_irq_mask, isr, port, leftover, mouse, slipped,
                     objects, keyboard>>
  BY DEF OtherDevice, Raised
<1>2. MachinePart'
  BY <1>1 DEF MachinePart, MachineOK, ControlInv
<1>3. BytesPart'
  BY <1>1, BytesSame
<1>4. ObjectsPart' /\ KeysPart'
  BY <1>1, ObjectsSame, KeysSame
<1>5. DownForAReason'
  BY <1>1 DEF DownForAReason
<1> QED BY <1>2, <1>3, <1>4, <1>5

-----------------------------------------------------------------------------
\* Interrupts.

\* A key brings the machine down only while vui_keypress has no window to give it to,
\* and reaches the console from then on.
LEMMA Notified ==
  ASSUME boot \in Steps, ObjectsPart, running, NEW k \in Keys, observer_notify(k)
  PROVE  /\ running' \in BOOLEAN /\ (running' \/ boot \in ConsoleMain)
         /\ boot \in Listening => delivered' = Append(delivered, k)
         /\ boot \notin Listening => delivered' = delivered
<1>1. CASE boot \in BeforeKeys
  BY <1>1, StepsNamed DEF observer_notify
<1>2. CASE boot \in ConsoleMain
  <2>1. boot \notin BeforeKeys /\ boot \notin Listening /\ vui_handle_top >= 1
    BY <1>2, StepsNamed DEF ConsoleMain, BeforeKeys, Silent, ObjectsPart, ObjectInv
  <2>2. handles[active_window].type # "window"
    BY <2>1 DEF ObjectsPart, ObjectInv
  <2> QED BY <1>2, <2>1, <2>2 DEF observer_notify
<1>3. CASE boot \in Listening
  <2>1. boot \notin BeforeKeys
    BY <1>3 DEF Listening, BeforeKeys, Silent
  <2>2. handles[active_window].type = "window" /\ event_handler = active_window
    BY <1>3 DEF ObjectsPart, ObjectInv, ObjectsOK
  <2> QED BY <1>3, <2>1, <2>2 DEF observer_notify
<1> QED BY <1>1, <1>2, <1>3 DEF Steps

\* What an interrupt of line l does to the controllers.
LEMMA TakenMachine ==
  ASSUME MachinePart, NEW l \in Lines, Takes(l), running' \in BOOLEAN
  PROVE  MachinePart'
<1>1. isr' \subseteq {8} \cap Lines
  BY Serves DEF MachinePart
<1> QED BY <1>1 DEF MachinePart, MachineOK, ControlInv, Takes

LEMMA KeyboardInterruptStep ==
  ASSUME IInv, KeyboardInterrupt
  PROVE  IInv'
<1> USE DEF IInv
<1>1. /\ Takes(1) /\ 1 \in Lines /\ keyboard_interrupt_handler
      /\ leftover' = leftover \ {1}
      /\ UNCHANGED <<owed, sent, mouse_cycle, heard, plain, objects, pressed>>
  BY DesktopAssumption DEF KeyboardInterrupt
<1>2. /\ running /\ 1 \in irr /\ irr' = irr \ {1} /\ boot' = boot /\ gates' = gates
      /\ boot \notin Unheard
  BY <1>1, Serves DEF MachinePart, Takes
<1>3. /\ port' = Empty /\ port'.from = "none" /\ port' \in Ports
      /\ slipped' = (slipped \/ port.from \in FromMouse)
      /\ astray' = (astray \/ port.from = "mouse")
  BY <1>1, Kinds DEF keyboard_interrupt_handler
<1>4. port.from = "key" => port.key \in Keys /\ observer_notify(port.key)
  BY <1>1, PortIs DEF keyboard_interrupt_handler, BytesPart, BytesOK
<1>5. \/ port.from # "key" /\ UNCHANGED <<running, delivered>>
      \/ \E k \in Keys : observer_notify(k)
  BY <1>1, <1>4 DEF keyboard_interrupt_handler
<1>6. /\ running' \in BOOLEAN /\ (running' \/ boot \in ConsoleMain)
      /\ boot \notin Listening => delivered' = delivered
      /\ delivered' \in Seq(Keys)
  <2>1. delivered \in Seq(Keys) /\ boot \in Steps
    BY DEF KeysPart, KeysOK, MachinePart
  <2>2. CASE UNCHANGED <<running, delivered>>
    BY <2>1, <2>2, <1>2
  <2>3. CASE \E k \in Keys : observer_notify(k)
    <3>1. PICK k \in Keys : observer_notify(k)
      BY <2>3
    <3>2. Append(delivered, k) \in Seq(Keys)
      BY <2>1
    <3> QED BY <3>1, <3>2, <2>1, <1>2, Notified
  <2> QED BY <1>5, <2>2, <2>3
<1>7. MachinePart'
  BY <1>1, <1>6, TakenMachine
<1>8. BytesPart'
  <2>1. BytesOK'
    BY <1>1, <1>3 DEF BytesPart, BytesOK
  <2>3. sent' = sent /\ mouse_cycle' = mouse_cycle /\ heard' = heard /\ plain' = plain
        /\ owed' = owed
    BY <1>1
  <2>2. RequestInv'
    <3>1. heard # 0 => port.from = "key" /\ 12 \notin irr
      BY <1>2 DEF BytesPart, RequestInv
    <3>2. ~slipped' => ~slipped /\ port.from \notin FromMouse
      BY <1>3, Zenon
    <3>3. ~slipped' => 12 \notin irr' \ leftover'
      BY <1>1, <1>2, <3>2 DEF BytesPart, RequestInv
    <3> QED BY <1>2, <2>3, <3>1, <3>3 DEF RequestInv
  <2>4. Counted' => sent' = heard' % 3
    <3>1. heard # 0 => port.from = "key"
      BY <1>2 DEF BytesPart, RequestInv
    <3>2. ~astray' => ~astray /\ port.from # "mouse"
      BY <1>3, Zenon
    <3>3. CASE heard # 0
      BY <2>3, <3>1, <3>3 DEF BytesPart, ByteInv, Counted
    <3>4. CASE heard = 0
      BY <1>2, <2>3, <3>2, <3>4 DEF BytesPart, ByteInv, Counted
    <3> QED BY <3>3, <3>4
  <2>5. ByteInv'
    <3>1. ~astray' => mouse_cycle' = heard' % 3
      BY <1>3, <2>3 DEF BytesPart, BytesOK, ByteInv
    <3> QED BY <1>2, <1>3, <2>3, <2>4, <3>1 DEF BytesPart, ByteInv
  <2> QED BY <2>1, <2>2, <2>5 DEF BytesPart
<1>9. ObjectsPart'
  BY <1>1, <1>2, ObjectsSame
<1>10. KeysPart'
  <2>1. KeysOK' /\ (boot' \notin Listening => delivered' = <<>> /\ pressed' = <<>>)
    BY <1>1, <1>2, <1>6 DEF KeysPart, KeysOK, KeyInv
  <2>2. KeysReachTheConsole'
    <3>1. SUFFICES ASSUME boot \in Listening, ~slipped'
                   PROVE  delivered' \o <<>> = pressed
      BY <1>1, <1>2, <1>3 DEF KeysReachTheConsole
    <3>2. ~slipped /\ port.from \in {"none", "key"}
      BY <3>1, <1>3, PortIs DEF BytesPart, BytesOK, FromMouse
    <3>3. delivered \in Seq(Keys) /\ boot \in Steps
      BY DEF KeysPart, KeysOK, MachinePart
    <3>4. delivered' \o <<>> = delivered'
      BY <1>6, ConcatEmptySeq
    <3>5. CASE port.from = "key"
      <4>1. delivered \o <<port.key>> = pressed
        BY <3>1, <3>2, <3>5 DEF KeysPart, KeyInv, KeysReachTheConsole
      <4>2. delivered' = Append(delivered, port.key)
        BY <1>2, <1>4, <3>1, <3>3, <3>5, Notified
      <4>3. Append(delivered, port.key) = delivered \o <<port.key>>
        BY <1>4, <3>3, <3>5, AppendIsConcat
      <4> QED BY <3>4, <4>1, <4>2, <4>3
    <3>6. CASE port.from = "none"
      <4>1. delivered \o <<>> = pressed
        BY <3>1, <3>2, <3>6 DEF KeysPart, KeyInv, KeysReachTheConsole
      <4>2. delivered' = delivered
        BY <1>1, <3>6 DEF keyboard_interrupt_handler
      <4> QED BY <4>1, <4>2
    <3> QED BY <3>2, <3>5, <3>6
  <2> QED BY <2>1, <2>2 DEF KeysPart, KeyInv
<1>11. DownForAReason'
  BY <1>2, <1>6 DEF DownForAReason
<1> QED BY <1>7, <1>8, <1>9, <1>10, <1>11

\* How a byte moves mouse_cycle on, place by place.
LEMMA Counts ==
  ASSUME mouse_cycle \in 0 .. 2, NEW b \in BOOLEAN
  PROVE  /\ Cycled(b) \in 0 .. 2
         /\ mouse_cycle = 0 => Cycled(b) = (IF b THEN 1 ELSE 0)
         /\ mouse_cycle = 1 => Cycled(b) = 2
         /\ mouse_cycle = 2 => Cycled(b) = 0
  BY DEF Cycled

LEMMA MouseInterruptStep ==
  ASSUME IInv, MouseInterrupt
  PROVE  IInv'
<1> USE DEF IInv
<1>1. /\ Takes(12) /\ 12 \in Lines /\ mouse_handler
      /\ leftover' = leftover \ {12} /\ UNCHANGED <<running, owed, sent, objects, keyboard>>
  BY DesktopAssumption DEF MouseInterrupt
<1>2. /\ running /\ 12 \in irr /\ 1 \notin irr /\ irr' = irr \ {12}
      /\ boot' = boot /\ gates' = gates /\ boot \notin Unheard
  BY <1>1, Serves DEF MachinePart, Takes
<1>3. port' = Empty /\ port'.from = "none" /\ port' \in Ports
  BY <1>1, Kinds DEF mouse_handler
<1>4. PICK b \in BOOLEAN : mouse_cycle' = Cycled(b) /\ (port.from = "mouse" => b = port.bit3)
  <2>1. port \in Ports
    BY DEF BytesPart, BytesOK
  <2>2. CASE port.from = "mouse"
    BY <1>1, <2>1, <2>2, PortIs DEF mouse_handler, FromMouse
  <2>3. CASE port.from = "answer"
    BY <1>1, <2>1, <2>3, PortIs DEF mouse_handler, FromMouse
  <2>4. CASE port.from \notin FromMouse
    BY <1>1, <2>4 DEF mouse_handler, FromMouse
  <2> QED BY <2>2, <2>3, <2>4 DEF FromMouse
<1>5. /\ mouse_cycle \in 0 .. 2 /\ heard \in 0 .. 3 /\ sent \in 0 .. 2
      /\ plain \in BOOLEAN /\ slipped \in BOOLEAN /\ astray \in BOOLEAN
  BY DEF BytesPart, BytesOK
<1>6. ASSUME port.from = "mouse"
      PROVE  /\ heard' = port.place /\ port.place \in 1 .. 3 /\ slipped' = slipped
             /\ plain' = (port.place = 1 \/ (plain /\ ~b))
             /\ astray' = (astray /\ ~(plain' /\ port.place = 3))
             /\ sent = port.place % 3 /\ (port.place = 1 => b) /\ owed = 0
             /\ Counted => port.place = (heard % 3) + 1
  <2>1. port.place \in 1 .. 3
    BY <1>6, PortIs DEF BytesPart, BytesOK
  <2>2. /\ heard' = port.place /\ slipped' = slipped
        /\ plain' = (port.place = 1 \/ (plain /\ ~port.bit3))
        /\ astray' = (astray /\ ~(plain' /\ port.place = 3))
    BY <1>1, <1>6 DEF mouse_handler
  <2>3. plain' = (port.place = 1 \/ (plain /\ ~b))
    BY <2>2, <1>4, <1>6
  <2> QED BY <2>1, <2>2, <2>3, <1>4, <1>6 DEF BytesPart, ByteInv
<1>7. ASSUME port.from # "mouse"
      PROVE  /\ plain' = FALSE /\ heard' = heard /\ astray' = TRUE
             /\ slipped' = (slipped \/ port.from # "answer")
  BY <1>1, <1>7 DEF mouse_handler
<1>8. MachinePart'
  <2>1. running' \in BOOLEAN
    BY <1>1 DEF MachinePart, MachineOK
  <2> QED BY <1>1, <2>1, TakenMachine
<1>9. BytesPart'
  <2>1. BytesOK'
    <3>1. plain' \in BOOLEAN
      BY <1>6, <1>7, Zenon
    <3>2. slipped' \in BOOLEAN /\ astray' \in BOOLEAN
      BY <1>5, <1>6, <1>7, Zenon
    <3>3. heard' \in 0 .. 3
      <4>1. CASE port.from = "mouse"
        BY <4>1, <1>6
      <4>2. CASE port.from # "mouse"
        BY <4>2, <1>5, <1>7
      <4> QED BY <4>1, <4>2
    <3> QED BY <1>1, <1>3, <1>4, <1>5, <3>1, <3>2, <3>3, Counts DEF BytesPart, BytesOK
  <2>2. RequestInv'
    BY <1>2 DEF RequestInv
  <2>3. Counted' => sent' = heard' % 3
    <3>1. sent' = sent
      BY <1>1
    <3>2. CASE port.from = "mouse"
      BY <3>1, <3>2, <1>6
    <3>3. CASE port.from # "mouse"
      BY <3>1, <3>3, <1>7 DEF BytesPart, ByteInv, Counted
    <3> QED BY <3>2, <3>3
  <2>5. ASSUME plain' PROVE port.from = "mouse" /\ heard' = port.place /\ heard' \in 1 .. 3
    BY <2>5, <1>6, <1>7
  <2>6. ASSUME plain', heard' # 1
        PROVE  plain /\ ~b /\ heard # 0 /\ heard' = (heard % 3) + 1
    <3>1. plain /\ ~b
      BY <2>5, <2>6, <1>6
    <3>2. heard # 0
      BY <3>1 DEF BytesPart, ByteInv
    <3>3. Counted
      BY <3>2 DEF Counted
    <3> QED BY <3>1, <3>2, <3>3, <2>5, <2>6, <1>6
  <2>7. plain' /\ heard' = 2 => mouse_cycle' # 1
    BY <2>6, <1>4, <1>5, Counts
  <2>8. plain' /\ heard' = 3 => mouse_cycle' = 0
    <3>1. SUFFICES ASSUME plain', heard' = 3 PROVE mouse_cycle' = 0
      OBVIOUS
    <3>2. plain /\ ~b /\ heard = 2
      BY <3>1, <2>6, <1>5
    <3>3. mouse_cycle # 1
      BY <3>2 DEF BytesPart, ByteInv
    <3> QED BY <3>2, <3>3, <1>4, <1>5, Counts
  <2>4. ASSUME port.from = "mouse", ~astray PROVE mouse_cycle' = heard' % 3
    <3>1. mouse_cycle = heard % 3 /\ port.place = (heard % 3) + 1
      <4>1. Counted
        BY <2>4, <1>2 DEF Counted, Unheard
      <4> QED BY <2>4, <4>1, <1>6 DEF BytesPart, ByteInv
    <3>2. CASE port.place = 1
      <4>1. b /\ heard' = 1 /\ mouse_cycle = 0
        BY <2>4, <3>1, <3>2, <1>5, <1>6
      <4>2. Cycled(b) = 1
        BY <4>1, <1>5, Counts
      <4> QED BY <4>1, <4>2, <1>4
    <3>3. CASE port.place = 2
      BY <2>4, <3>1, <3>3, <1>4, <1>5, <1>6, Counts
    <3>4. CASE port.place = 3
      BY <2>4, <3>1, <3>4, <1>4, <1>5, <1>6, Counts
    <3> QED BY <2>4, <3>2, <3>3, <3>4, <1>6
  <2>9. ~astray' => mouse_cycle' = heard' % 3
    <3>1. SUFFICES ASSUME ~astray' PROVE mouse_cycle' = heard' % 3
      OBVIOUS
    <3>2. port.from = "mouse"
      BY <3>1, <1>7, Zenon
    <3>3. ~astray \/ (plain' /\ port.place = 3)
      BY <3>1, <3>2, <1>6, Zenon
    <3>4. CASE plain' /\ port.place = 3
      BY <2>8, <3>2, <3>4, <1>6
    <3> QED BY <2>4, <3>2, <3>3, <3>4
  <2>10. plain' => heard' # 0
    BY <2>5
  <2>12. owed' # 0 => sent' = 0 /\ heard' = 0
    <3>1. owed' = owed /\ sent' = sent
      BY <1>1
    <3>2. owed # 0 => heard' = heard
      BY <1>6, <1>7
    <3> QED BY <3>1, <3>2 DEF BytesPart, ByteInv
  <2>11. ByteInv'
    <3>1. boot' \notin Unheard /\ boot' \notin Silent
      BY <1>2 DEF Unheard, Silent
    <3> QED BY <1>3, <2>3, <2>7, <2>8, <2>9, <2>10, <2>12, <3>1 DEF ByteInv
  <2> QED BY <2>1, <2>2, <2>11 DEF BytesPart
<1>10. ObjectsPart'
  BY <1>1, <1>2, ObjectsSame
<1>11. KeysPart'
  <2>1. ~slipped' => ~slipped /\ port.from \in FromMouse
    BY <1>6, <1>7 DEF FromMouse
  <2>2. ~slipped' => port.from # "key" /\ ~slipped
    BY <2>1 DEF FromMouse
  <2> QED BY <1>1, <1>2, <1>3, <2>2
          DEF KeysPart, KeysOK, KeyInv, KeysReachTheConsole, keyboard
<1>12. DownForAReason'
  BY <1>1, <1>2 DEF DownForAReason
<1> QED BY <1>8, <1>9, <1>10, <1>11, <1>12

LEMMA OtherInterruptStep ==
  ASSUME IInv, NEW l \in Lines, OtherInterrupt(l) \/ MissingGate(l)
  PROVE  IInv'
<1> USE DEF IInv
<1>1. CASE OtherInterrupt(l)
  <2>1. /\ Takes(l) /\ running' = running
        /\ UNCHANGED <<port, leftover, mouse, slipped, objects, keyboard>>
    BY <1>1 DEF OtherInterrupt
  <2>2. boot' = boot /\ gates' = gates /\ irr' \subseteq irr
    BY <2>1 DEF Takes
  <2>3. MachinePart'
    BY <2>1, TakenMachine DEF MachinePart, MachineOK
  <2>4. BytesPart'
    BY <2>1, <2>2, BytesSame
  <2>5. ObjectsPart' /\ KeysPart'
    BY <2>1, <2>2, ObjectsSame, KeysSame
  <2> QED BY <2>1, <2>2, <2>3, <2>4, <2>5 DEF DownForAReason
<1>2. CASE MissingGate(l)
  <2>1. /\ running' = FALSE /\ UNCHANGED <<boot, enabled, controllers>>
        /\ UNCHANGED <<port, leftover, mouse, slipped, objects, keyboard>>
    BY <1>2 DEF MissingGate, NoGate
  <2>2. gates' = gates /\ irr' = irr
    BY <2>1 DEF controllers
  <2>3. MachinePart'
    BY <2>1, MachineSame
  <2>4. BytesPart'
    BY <2>1, <2>2, BytesSame
  <2>5. ObjectsPart' /\ KeysPart'
    BY <2>1, ObjectsSame, KeysSame
  <2>6. boot = "interrupts"
    <3>1. enabled /\ l \notin gates /\ l \in Masters \cup Slaves
      BY <1>2, LinesAssumption DEF MissingGate, NoGate, Masters, Slaves
    <3> QED BY <3>1 DEF MachinePart, ControlInv, Unheard
  <2> QED BY <2>1, <2>3, <2>4, <2>5, <2>6 DEF DownForAReason
<1> QED BY <1>1, <1>2

-----------------------------------------------------------------------------
\* kernel_main.

LEMMA LineZero ==
  ASSUME NEW irq \in {32, 33, 35, 36, 44}, NEW mask, mask \subseteq {0}
  PROVE  interrupt_unmask_irq(mask, irq) \subseteq {0}
<1>1. LineOf(irq) = 0
  <2>1. CASE irq = 32
    BY <2>1, 2^0 = 1 DEF LineOf
  <2>2. CASE irq = 33
    BY <2>2, 2^1 = 2 DEF LineOf
  <2>3. CASE irq = 35
    BY <2>3, 2^3 = 8 DEF LineOf
  <2>4. CASE irq = 36
    BY <2>4, 2^4 = 16 DEF LineOf
  <2>5. CASE irq = 44
    BY <2>5, 2^12 = 4096 DEF LineOf
  <2> QED BY <2>1, <2>2, <2>3, <2>4, <2>5
<1> QED BY <1>1 DEF interrupt_unmask_irq, Toggled

LEMMA InterruptsInitalizeStep ==
  ASSUME IInv, InterruptsInitalize
  PROVE  IInv'
<1> USE DEF IInv
<1>1. /\ boot = "start" /\ boot' = "interrupts" /\ running /\ running' = running
      /\ gates' = (Masters \cup Slaves) \ {1, 12} /\ irr' = {} /\ isr' = {} /\ enabled' = TRUE
      /\ UNCHANGED <<port, leftover, mouse, slipped, objects, keyboard>>
  BY DEF InterruptsInitalize, interrupts_initalize, Boots
<1>2. pic1_irq_mask' \subseteq {0}
  <2>1. interrupt_unmask_irq({}, 32) \subseteq {0}
    BY LineZero
  <2>2. interrupt_unmask_irq(interrupt_unmask_irq({}, 32), 35) \subseteq {0}
    BY <2>1, LineZero
  <2>3. interrupt_unmask_irq(interrupt_unmask_irq(interrupt_unmask_irq({}, 32), 35), 36)
          \subseteq {0}
    BY <2>2, LineZero
  <2> QED BY <2>3 DEF InterruptsInitalize, interrupts_initalize
<1>3. MachinePart'
  <2>1. running' \in BOOLEAN
    BY <1>1 DEF MachinePart, MachineOK
  <2> QED BY <1>1, <1>2, <2>1, StepsNamed
          DEF MachinePart, MachineOK, ControlInv, Masters, Slaves, Unheard
<1>4. BytesPart'
  BY <1>1, BytesSame DEF Silent, Unheard
<1>5. ObjectsPart'
  BY <1>1 DEF ObjectsPart, ObjectsOK, ObjectInv, objects, Listening, Unheard
<1>6. KeysPart'
  BY <1>1 DEF KeysPart, KeysOK, KeyInv, KeysReachTheConsole, keyboard, Listening
<1> QED BY <1>1, <1>3, <1>4, <1>5, <1>6 DEF DownForAReason

\* The steps of ps2_initalize make no object and deliver no key.
LEMMA Ps2Keeps ==
  ASSUME ObjectsPart, KeysPart, UNCHANGED <<objects, keyboard>>,
         boot \in Unheard, boot' \in Unheard \cup {"ps2"}
  PROVE  ObjectsPart' /\ KeysPart'
<1>1. ObjectsPart'
  BY DEF ObjectsPart, ObjectsOK, ObjectInv, objects, Listening, Unheard
<1>2. KeysPart'
  BY DEF KeysPart, KeysOK, KeyInv, KeysReachTheConsole, keyboard, Listening, Unheard
<1> QED BY <1>1, <1>2

LEMMA MouseInitalizeStep ==
  ASSUME IInv, MouseInitalize
  PROVE  IInv'
<1> USE DEF IInv
<1>1. PICK latched \in SUBSET {1, 12} : irr' = irr \cup latched
  BY DEF MouseInitalize
<1>2. /\ boot = "interrupts" /\ boot' = "mouse" /\ running /\ running' = running
      /\ enabled' = FALSE /\ leftover' = irr' \cap {1, 12} /\ port' = Empty /\ owed' \in 0 .. 2
      /\ UNCHANGED <<gates, pic1_irq_mask, isr, sent, mouse_cycle, heard, plain, astray,
                     slipped, objects, keyboard>>
  BY DEF MouseInitalize, Boots
<1>3. MachinePart'
  <2>1. irr' \subseteq Lines
    BY <1>1, DesktopAssumption DEF MachinePart, MachineOK
  <2> QED BY <1>2, <2>1, StepsNamed DEF MachinePart, MachineOK, ControlInv, Unheard
<1>4. BytesPart'
  <2>1. port'.from = "none" /\ port' \in Ports
    BY <1>2, Kinds
  <2>2. sent' = 0 /\ heard' = 0 /\ mouse_cycle' = 0
    BY <1>2 DEF BytesPart, ByteInv, Silent, Unheard
  <2>3. BytesOK'
    BY <1>2, <2>1 DEF BytesPart, BytesOK
  <2>4. RequestInv'
    BY <1>2, <2>2 DEF RequestInv
  <2>5. ByteInv'
    BY <1>2, <2>1, <2>2 DEF BytesPart, ByteInv, Counted, Silent, Unheard
  <2> QED BY <2>3, <2>4, <2>5 DEF BytesPart
<1>5. ObjectsPart' /\ KeysPart'
  BY <1>2, Ps2Keeps DEF Unheard
<1> QED BY <1>2, <1>3, <1>4, <1>5 DEF DownForAReason

LEMMA FlushStep ==
  ASSUME IInv, Flush
  PROVE  IInv'
<1> USE DEF IInv
<1>1. /\ boot = "mouse" /\ running /\ port' = Empty /\ leftover' = irr \cap {1, 12}
      /\ UNCHANGED <<running, boot, enabled, controllers, slipped, objects, keyboard>>
      /\ UNCHANGED <<owed, sent, mouse_cycle, heard, plain, astray>>
  BY DEF Flush, machine, mouse
<1>2. irr' = irr
  BY <1>1 DEF controllers
<1>3. MachinePart'
  BY <1>1, MachineSame DEF MachinePart, MachineOK
<1>4. BytesPart'
  <2>1. port'.from = "none" /\ port' \in Ports
    BY <1>1, Kinds
  <2>2. heard = 0 /\ mouse_cycle = 0
    BY <1>1 DEF BytesPart, ByteInv, Unheard
  <2>3. BytesOK'
    BY <1>1, <2>1 DEF BytesPart, BytesOK
  <2>4. RequestInv'
    BY <1>1, <1>2, <2>2 DEF RequestInv
  <2>5. ByteInv'
    BY <1>1, <2>1, <2>2 DEF BytesPart, ByteInv, Counted, Silent
  <2> QED BY <2>3, <2>4, <2>5 DEF BytesPart
<1>5. ObjectsPart' /\ KeysPart'
  BY <1>1, Ps2Keeps DEF Unheard
<1> QED BY <1>1, <1>3, <1>4, <1>5 DEF DownForAReason

\* The buffer is empty: what the mouse sent of its packet is lost.
LEMMA KeyboardInitalizeStep ==
  ASSUME IInv, KeyboardInitalize
  PROVE  IInv'
<1> USE DEF IInv
<1>1. /\ boot = "mouse" /\ boot' = "keyboard" /\ running /\ running' = running
      /\ port = Empty /\ port' = Empty /\ astray' = (sent # 0) /\ leftover' = leftover
      /\ UNCHANGED <<enabled, gates, pic1_irq_mask, irr, isr, slipped, objects, keyboard>>
      /\ UNCHANGED <<owed, sent, mouse_cycle, heard, plain>>
  BY DEF KeyboardInitalize, Boots, controllers
<1>2. MachinePart'
  BY <1>1, StepsNamed DEF MachinePart, MachineOK, ControlInv, Unheard
<1>3. BytesPart'
  <2>1. port.from = "none" /\ port' = port
    BY <1>1, Kinds
  <2>2. heard = 0 /\ mouse_cycle = 0
    BY <1>1 DEF BytesPart, ByteInv, Unheard
  <2>3. BytesOK'
    BY <1>1, <2>1 DEF BytesPart, BytesOK
  <2>4. RequestInv'
    BY <1>1, <2>1 DEF BytesPart, RequestInv
  <2>5. ByteInv'
    <3>1. Counted' => sent' = heard' % 3
      <4>1. heard' = 0 /\ sent' = sent /\ 0 % 3 = 0
        BY <1>1, <2>2
      <4>2. ~astray' => sent = 0
        BY <1>1, Zenon
      <4>3. Counted' => ~astray'
        BY <4>1, Zenon DEF Counted
      <4> QED BY <4>1, <4>2, <4>3
    <3>2. port'.from = "none" /\ ~plain
      BY <1>1, <2>1, <2>2 DEF BytesPart, ByteInv
    <3> QED BY <1>1, <2>1, <2>2, <3>1, <3>2 DEF BytesPart, ByteInv, Silent, Unheard
  <2> QED BY <2>3, <2>4, <2>5 DEF BytesPart
<1>4. ObjectsPart' /\ KeysPart'
  BY <1>1, Ps2Keeps DEF Unheard
<1> QED BY <1>1, <1>2, <1>3, <1>4 DEF DownForAReason

LEMMA Ps2GatesStep ==
  ASSUME IInv, Ps2Gates
  PROVE  IInv'
<1> USE DEF IInv
<1>1. /\ boot = "keyboard" /\ boot' = "ps2" /\ running /\ running' = running
      /\ gates' = gates \cup {1, 12} /\ enabled' = TRUE
      /\ UNCHANGED <<irr, isr, port, leftover, mouse, slipped, objects, keyboard>>
  BY DEF Ps2Gates, ps2_gates, Boots
<1>2. pic1_irq_mask' \subseteq {0}
  <2>1. interrupt_unmask_irq(pic1_irq_mask, 33) \subseteq {0}
    BY LineZero DEF MachinePart, ControlInv
  <2>2. interrupt_unmask_irq(interrupt_unmask_irq(pic1_irq_mask, 33), 44) \subseteq {0}
    BY <2>1, LineZero
  <2> QED BY <2>2 DEF Ps2Gates, ps2_gates
<1>3. gates' = Masters \cup Slaves
  BY <1>1 DEF MachinePart, ControlInv, Masters, Slaves
<1>4. MachinePart'
  BY <1>1, <1>2, <1>3, StepsNamed DEF MachinePart, MachineOK, ControlInv, Masters
<1>5. BytesPart'
  BY <1>1, BytesSame DEF Silent, Unheard
<1>6. ObjectsPart' /\ KeysPart'
  BY <1>1, Ps2Keeps DEF Unheard
<1> QED BY <1>1, <1>4, <1>5, <1>6 DEF DownForAReason

\* A system call may end the service of line 8 and changes nothing else.
LEMMA ProgramCallsStep ==
  ASSUME IInv, ProgramCalls
  PROVE  IInv'
<1> USE DEF IInv
<1>1. /\ UNCHANGED <<running, boot, enabled, gates, pic1_irq_mask, irr>> /\ isr' \subseteq isr
      /\ UNCHANGED <<port, leftover, mouse, slipped, objects, keyboard>>
  BY DEF ProgramCalls, SystemCall
<1>2. MachinePart'
  BY <1>1 DEF MachinePart, MachineOK, ControlInv
<1>3. BytesPart'
  BY <1>1, BytesSame
<1>4. ObjectsPart' /\ KeysPart'
  BY <1>1, ObjectsSame, KeysSame
<1> QED BY <1>1, <1>2, <1>3, <1>4 DEF DownForAReason

\* The steps after ps2_initalize leave the controllers and the bytes alone.
LEMMA WorksKeeps ==
  ASSUME IInv, Works, running, running' = running,
         boot \notin Unheard, boot' \notin Unheard, boot' \in Steps
  PROVE  MachinePart' /\ BytesPart' /\ DownForAReason'
<1> USE DEF IInv
<1>1. /\ UNCHANGED <<enabled, gates, pic1_irq_mask, irr, isr>>
      /\ UNCHANGED <<port, leftover, mouse, slipped, delivered>>
  BY DEF Works, controllers
<1>2. MachinePart'
  BY <1>1 DEF MachinePart, MachineOK, ControlInv, Unheard
<1>3. BytesPart'
  BY <1>1, BytesSame DEF Silent, Unheard
<1> QED BY <1>2, <1>3 DEF DownForAReason, Unheard

LEMMA WorksKeepsKeys ==
  ASSUME KeysPart, Works, SamePressed, boot' \in Listening => boot \in Listening,
         boot' \notin Listening => boot \notin Listening
  PROVE  KeysPart'
  BY DEF KeysPart, KeysOK, KeyInv, KeysReachTheConsole, Works, SamePressed

LEMMA Added ==
  ASSUME ObjectsOK, NEW type \in Types, vui_add_handle(type)
  PROVE  /\ handles' \in [0 .. MaxHandles - 1 -> Objects] /\ vui_handle_top' \in 0 .. MaxHandles
         /\ made' \in 0 .. MaxHandles - 1
         /\ \A h \in 0 .. vui_handle_top - 1 : handles'[h] = handles[h]
         /\ \/ /\ vui_handle_top < MaxHandles /\ made' = vui_handle_top
               /\ vui_handle_top' = vui_handle_top + 1
               /\ handles'[vui_handle_top].type = type
            \/ /\ vui_handle_top = MaxHandles /\ vui_handle_top' = MaxHandles
               /\ made' = 0 /\ handles' = handles
<1>1. MaxHandles \in Nat /\ MaxHandles >= 3
  BY DesktopAssumption
<1>2. /\ handles \in [0 .. MaxHandles - 1 -> Objects] /\ vui_handle_top \in 0 .. MaxHandles
  BY DEF ObjectsOK
<1>3. CASE vui_handle_top = MaxHandles
  BY <1>1, <1>2, <1>3 DEF vui_add_handle, NULL
<1>4. CASE vui_handle_top # MaxHandles
  <2>1. vui_handle_top \in 0 .. MaxHandles - 1
    BY <1>1, <1>2, <1>4
  <2>2. PICK garbage \in 0 .. MaxHandles :
          handles' = [handles EXCEPT ![vui_handle_top] = [type |-> type, parent |-> garbage]]
    BY <1>1, <1>4 DEF vui_add_handle, Unlisted
  <2>3. [type |-> type, parent |-> garbage] \in Objects
    BY DEF Objects
  <2>4. made' = vui_handle_top /\ vui_handle_top' = vui_handle_top + 1
    BY <1>4 DEF vui_add_handle
  <2> QED BY <1>1, <1>2, <2>1, <2>2, <2>3, <2>4
<1> QED BY <1>3, <1>4

LEMMA Parented ==
  ASSUME ObjectsOK, NEW child \in 0 .. MaxHandles - 1, NEW parent \in 0 .. MaxHandles,
         vui_set_parent(child, parent)
  PROVE  /\ handles' \in [0 .. MaxHandles - 1 -> Objects]
         /\ \A h \in 0 .. MaxHandles - 1 : handles'[h].type = handles[h].type
         /\ \A h \in 0 .. MaxHandles - 1 : h # child => handles'[h] = handles[h]
         /\ child # 0 => handles'[child].parent = parent
<1>1. handles \in [0 .. MaxHandles - 1 -> Objects]
  BY DEF ObjectsOK
<1>2. CASE child = 0
  BY <1>1, <1>2 DEF vui_set_parent, NULL
<1>3. CASE child # 0
  <2>1. handles' = [handles EXCEPT ![child].parent = parent]
    BY <1>3 DEF vui_set_parent, NULL
  <2> QED BY <1>1, <2>1 DEF Objects
<1> QED BY <1>2, <1>3

\* An object is made for the desktop's boot or for a window of the viewer.
LEMMA MakesStep ==
  ASSUME IInv, DesktopNew \/ ConsoleWindow \/ ConsoleNew \/ ViewerWindow \/ ViewerLabel
  PROVE  IInv'
<1> USE DEF IInv
<1>1. PICK from \in Steps, to \in Steps, type \in {"desktop", "window", "console", "label"} :
        /\ Makes(from, to, type)
        /\ <<from, to, type>> \in {<<"ps2", "desktop", "desktop">>,
             <<"attached", "window", "window">>, <<"windowset", "console", "console">>,
             <<"up", "viewer", "window">>, <<"viewerset", "label", "label">>}
  <2>1. \/ Makes("ps2", "desktop", "desktop") \/ Makes("attached", "window", "window")
        \/ Makes("windowset", "console", "console") \/ Makes("up", "viewer", "window")
        \/ Makes("viewerset", "label", "label")
    BY DEF DesktopNew, ConsoleWindow, ConsoleNew, ViewerWindow, ViewerLabel
  <2> QED BY <2>1, StepsNamed
<1>2. /\ boot = from /\ boot' = to /\ running /\ running' = running /\ Works /\ SamePressed
      /\ vui_add_handle(type) /\ UNCHANGED <<active_window, event_handler, win>>
  BY <1>1 DEF Makes, Boots
<1>3. MachinePart' /\ BytesPart' /\ DownForAReason'
  BY <1>1, <1>2, WorksKeeps DEF Unheard
<1>4. KeysPart'
  BY <1>1, <1>2, WorksKeepsKeys DEF Listening
<1>5. /\ handles' \in [0 .. MaxHandles - 1 -> Objects] /\ vui_handle_top' \in 0 .. MaxHandles
      /\ made' \in 0 .. MaxHandles - 1
      /\ \A h \in 0 .. vui_handle_top - 1 : handles'[h] = handles[h]
      /\ \/ /\ vui_handle_top < MaxHandles /\ made' = vui_handle_top
            /\ vui_handle_top' = vui_handle_top + 1
            /\ handles'[vui_handle_top].type = type
         \/ /\ vui_handle_top = MaxHandles /\ vui_handle_top' = MaxHandles
            /\ made' = 0 /\ handles' = handles
  <2>1. type \in Types
    BY <1>1 DEF Types
  <2> QED BY <1>2, <2>1, Added DEF ObjectsPart
<1>6. ObjectsOK'
  BY <1>2, <1>5 DEF ObjectsPart, ObjectsOK
<1>7. vui_handle_top \in 0 .. MaxHandles /\ MaxHandles \in Nat /\ MaxHandles >= 3
  BY DesktopAssumption DEF ObjectsPart, ObjectsOK
<1>8. ObjectInv'
  <2>1. CASE from = "ps2"
    BY <1>1, <1>2, <1>5, <1>7, <2>1 DEF ObjectsPart, ObjectInv, Listening, Unheard
  <2>2. CASE from = "attached"
    BY <1>1, <1>2, <1>5, <1>7, <2>2 DEF ObjectsPart, ObjectInv, Listening, Unheard
  <2>3. CASE from = "windowset"
    BY <1>1, <1>2, <1>5, <1>7, <2>3 DEF ObjectsPart, ObjectInv, Listening, Unheard
  <2>4. CASE from = "up" \/ from = "viewerset"
    BY <1>1, <1>2, <1>5, <1>7, <2>4 DEF ObjectsPart, ObjectInv, Listening, Unheard
  <2> QED BY <1>1, <2>1, <2>2, <2>3, <2>4
<1> QED BY <1>3, <1>4, <1>6, <1>8 DEF ObjectsPart

\* An object is given its parent.
LEMMA GoesIntoStep ==
  ASSUME IInv, \/ ConsoleWindowParent \/ ConsoleParent
               \/ ViewerWindowParent \/ ViewerLabelParent
  PROVE  IInv'
<1> USE DEF IInv
<1>1. PICK from \in Steps, to \in Steps, parent \in 0 .. MaxHandles :
        /\ Boots(from, to) /\ Works /\ SamePressed /\ vui_set_parent(made, parent)
        /\ UNCHANGED <<vui_handle_top, active_window, event_handler, made>>
        /\ win' \in {win, made}
        /\ <<from, to>> \in {<<"window", "windowset">>, <<"console", "consoleset">>,
                             <<"viewer", "viewerset">>, <<"label", "up">>}
        /\ from = "window" => parent = 0
        /\ from \in {"window", "console"} => win' = win
  <2>1. win \in 0 .. MaxHandles /\ 0 \in 0 .. MaxHandles /\ 1 \in 0 .. MaxHandles
    BY DesktopAssumption DEF ObjectsPart, ObjectsOK
  <2>2. CASE ConsoleWindowParent
    BY <2>1, <2>2, StepsNamed DEF ConsoleWindowParent, GoesInto
  <2>3. CASE ConsoleParent
    BY <2>1, <2>3, StepsNamed DEF ConsoleParent, GoesInto
  <2>4. CASE ViewerWindowParent
    BY <2>1, <2>4, StepsNamed DEF ViewerWindowParent
  <2>5. CASE ViewerLabelParent
    BY <2>1, <2>5, StepsNamed DEF ViewerLabelParent, GoesInto
  <2> QED BY <2>2, <2>3, <2>4, <2>5
<1>2. /\ boot = from /\ boot' = to /\ running /\ running' = running
  BY <1>1 DEF Boots
<1>3. MachinePart' /\ BytesPart' /\ DownForAReason'
  BY <1>1, <1>2, WorksKeeps DEF Unheard
<1>4. KeysPart'
  BY <1>1, <1>2, WorksKeepsKeys DEF Listening
<1>5. made \in 0 .. MaxHandles - 1 /\ MaxHandles \in Nat /\ MaxHandles >= 3
  BY DesktopAssumption DEF ObjectsPart, ObjectsOK
<1>6. /\ handles' \in [0 .. MaxHandles - 1 -> Objects]
      /\ \A h \in 0 .. MaxHandles - 1 : handles'[h].type = handles[h].type
      /\ \A h \in 0 .. MaxHandles - 1 : h # made => handles'[h] = handles[h]
      /\ made # 0 => handles'[made].parent = parent
  BY <1>1, <1>5, Parented DEF ObjectsPart
<1>7. ObjectsOK'
  BY <1>1, <1>6 DEF ObjectsPart, ObjectsOK
<1>8. ObjectInv'
  <2>1. CASE from = "window"
    BY <1>1, <1>2, <1>5, <1>6, <2>1 DEF ObjectsPart, ObjectInv, Listening, Unheard
  <2>2. CASE from = "console"
    BY <1>1, <1>2, <1>5, <1>6, <2>2 DEF ObjectsPart, ObjectInv, Listening, Unheard
  <2>3. CASE from = "viewer" \/ from = "label"
    BY <1>1, <1>2, <1>5, <1>6, <2>3 DEF ObjectsPart, ObjectInv, Listening, Unheard
  <2> QED BY <1>1, <2>1, <2>2, <2>3
<1> QED BY <1>3, <1>4, <1>7, <1>8 DEF ObjectsPart

LEMMA AttachStep ==
  ASSUME IInv, AttachKeypress \/ SetEventHandler
  PROVE  IInv'
<1> USE DEF IInv
<1>1. /\ running /\ running' = running /\ Works /\ SamePressed
      /\ UNCHANGED <<handles, vui_handle_top, active_window, made, win>>
      /\ \/ boot = "desktop" /\ boot' = "attached" /\ event_handler' = event_handler
         \/ boot = "consoleset" /\ boot' = "handled" /\ event_handler' = 1
  BY DEF AttachKeypress, SetEventHandler, Boots, objects
<1>2. MachinePart' /\ BytesPart' /\ DownForAReason'
  BY <1>1, WorksKeeps, StepsNamed DEF Unheard
<1>3. KeysPart'
  BY <1>1, WorksKeepsKeys DEF Listening
<1>4. ObjectsPart'
  BY <1>1, DesktopAssumption DEF ObjectsPart, ObjectsOK, ObjectInv, Listening, Unheard
<1> QED BY <1>2, <1>3, <1>4

\* The console begins to listen: the key in the buffer is its first.
LEMMA SetActiveWindowStep ==
  ASSUME IInv, SetActiveWindow
  PROVE  IInv'
<1> USE DEF IInv
<1>1. /\ running /\ running' = running /\ Works /\ boot = "handled" /\ boot' = "up"
      /\ active_window' = 1
      /\ UNCHANGED <<handles, vui_handle_top, event_handler, made, win>>
      /\ pressed' = (IF port.from = "key" THEN <<port.key>> ELSE <<>>)
  BY DEF SetActiveWindow, Boots
<1>2. MachinePart' /\ BytesPart' /\ DownForAReason'
  BY <1>1, WorksKeeps, StepsNamed DEF Unheard
<1>3. ObjectsPart'
  <2>1. vui_handle_top = 3 /\ made = 2 /\ win # 1
    <3>1. boot \notin Listening
      BY <1>1 DEF Listening
    <3> QED BY <1>1, <3>1 DEF ObjectsPart, ObjectInv
  <2> QED BY <1>1, <2>1, DesktopAssumption DEF ObjectsPart, ObjectsOK, ObjectInv, Listening, Unheard
<1>4. KeysPart'
  <2>1. delivered = <<>> /\ delivered' = <<>> /\ port' = port
    BY <1>1 DEF KeysPart, KeyInv, Works, Listening
  <2>2. port.from = "key" => port.key \in Keys
    BY PortIs DEF BytesPart, BytesOK
  <2>3. pressed' \in Seq(Keys)
    <3>1. CASE port.from = "key"
      BY <1>1, <2>2, <3>1
    <3>2. CASE port.from # "key"
      BY <1>1, <3>2
    <3> QED BY <3>1, <3>2
  <2>4. <<>> \o pressed' = pressed'
    BY <2>3, ConcatEmptySeq
  <2>5. KeysReachTheConsole'
    BY <1>1, <2>1, <2>4 DEF KeysReachTheConsole
  <2>6. delivered' \in Seq(Keys)
    BY <2>1
  <2>7. boot' \in Listening
    BY <1>1 DEF Listening
  <2> QED BY <2>3, <2>5, <2>6, <2>7 DEF KeysPart, KeysOK, KeyInv
<1> QED BY <1>2, <1>3, <1>4

-----------------------------------------------------------------------------
LEMMA InitInv == Init => IInv
<1> SUFFICES ASSUME Init PROVE IInv
  OBVIOUS
<1>1. MachinePart
  BY StepsNamed DEF Init, MachineInit, MachinePart, MachineOK, ControlInv, Unheard
<1>2. BytesPart
  <2>1. port \in Ports /\ port.from = "none"
    BY Kinds DEF Init
  <2>2. /\ owed = 0 /\ sent = 0 /\ mouse_cycle = 0 /\ heard = 0 /\ plain = FALSE
        /\ slipped = FALSE /\ astray = FALSE /\ leftover = {} /\ irr = {} /\ 0 % 3 = 0
    BY DEF Init, MachineInit
  <2>3. BytesOK
    <3>1. owed \in 0 .. 2 /\ sent \in 0 .. 2 /\ mouse_cycle \in 0 .. 2 /\ heard \in 0 .. 3
      BY <2>2
    <3>2. /\ plain \in BOOLEAN /\ slipped \in BOOLEAN /\ astray \in BOOLEAN
          /\ leftover \subseteq {1, 12}
      BY <2>2, Zenon
    <3> QED BY <2>1, <3>1, <3>2, Zenon DEF BytesOK
  <2>4. RequestInv
    BY <2>2 DEF RequestInv
  <2>5. ByteInv
    BY <2>1, <2>2 DEF ByteInv, Counted
  <2> QED BY <2>3, <2>4, <2>5 DEF BytesPart
<1>3. ObjectsPart
  <2>1. NoObject \in Objects
    BY DesktopAssumption DEF NoObject, Objects, Types, Unlisted
  <2> QED BY <2>1, DesktopAssumption
          DEF Init, MachineInit, ObjectsPart, ObjectsOK, ObjectInv, NULL, Listening, Unheard
<1>4. KeysPart
  BY DEF Init, MachineInit, KeysPart, KeysOK, KeyInv, KeysReachTheConsole, Listening
<1> QED BY <1>1, <1>2, <1>3, <1>4 DEF IInv, DownForAReason, Init, MachineInit

LEMMA StutterStep == IInv /\ UNCHANGED vars => IInv'
<1> SUFFICES ASSUME IInv, UNCHANGED vars PROVE IInv'
  OBVIOUS
<1>1. /\ UNCHANGED <<running, boot, enabled, controllers, port, leftover, mouse, slipped>>
      /\ UNCHANGED <<objects, keyboard>>
  BY DEF vars, machine
<1>2. gates' = gates /\ irr' = irr
  BY <1>1 DEF controllers
<1>3. MachinePart'
  BY <1>1, MachineSame DEF IInv, MachinePart, MachineOK
<1>4. BytesPart'
  BY <1>1, <1>2, BytesSame DEF IInv
<1>5. ObjectsPart' /\ KeysPart'
  BY <1>1, ObjectsSame, KeysSame DEF IInv
<1> QED BY <1>1, <1>3, <1>4, <1>5 DEF IInv, DownForAReason

\* The strengthening of the properties below is inductive.
THEOREM Invariance == DesktopSpec => []IInv
<1>1. IInv /\ [Next]_vars => IInv'
  BY KeyPressStep, MouseAnswersStep, MouseSendsStep, OtherDeviceStep, KeyboardInterruptStep,
     MouseInterruptStep, OtherInterruptStep, InterruptsInitalizeStep, MouseInitalizeStep,
     FlushStep, KeyboardInitalizeStep, Ps2GatesStep, MakesStep, GoesIntoStep, AttachStep,
     SetActiveWindowStep, ProgramCallsStep, StutterStep
     DEF Next, KernelMain, Interrupt, Device
<1> QED BY InitInv, <1>1, PTL DEF DesktopSpec

\* Controllers, bytes and objects keep their types, the table's end included
\* (vui.c:171-174).
THEOREM TypeCorrect == DesktopSpec => []TypeOK
<1>1. IInv => TypeOK
  BY Parts DEF IInv
<1> QED BY Invariance, <1>1, PTL

\* The machine goes down only in the two windows of the boot (interrupts.c:96 to
\* ps2.c:6, vui.c:74 to kapps_console.c:50), whatever devices interrupt it.
THEOREM DownOnlyInTheBoot == DesktopSpec => []DownForAReason
<1>1. IInv => DownForAReason
  BY DEF IInv
<1> QED BY Invariance, <1>1, PTL

\* Packets are counted as the mouse sends them, and where the boot lost bytes of one, an
\* answer was counted for one or a handler slipped, a packet with bit 3 clear in its last
\* two bytes is enough to bring mouse_handler back (mouse.c:94-119, keyboard.c:99-102).
THEOREM PacketsFallIntoStep == DesktopSpec => []PacketsInStep
<1>1. IInv => PacketsInStep
  BY DEF IInv, BytesPart, ByteInv, PacketsInStep
<1> QED BY Invariance, <1>1, PTL

\* The console is given every key once and in order (observer.c:152-194, vui.c:709-723).
THEOREM EveryKeyReachesTheConsole == DesktopSpec => []KeysReachTheConsole
<1>1. IInv => KeysReachTheConsole
  BY DEF IInv, KeysPart, KeyInv
<1> QED BY Invariance, <1>1, PTL

\* The search for the object under a click ends at any time (vui.c:900-956).
THEOREM EveryClickEnds == DesktopSpec => []ClickEnds
<1>1. IInv => ClickEnds
  <2>1. SUFFICES ASSUME IInv, NEW S \in SUBSET (1 .. vui_handle_top - 1), active_window \in S
                 PROVE  \E h \in S : handles[h].parent \notin S
    BY DEF ClickEnds
  <2>2. 0 \notin S
    OBVIOUS
  <2>3. boot \in Listening
    BY <2>1, <2>2 DEF IInv, ObjectsPart, ObjectInv
  <2>4. active_window = 1 /\ handles[1].parent = 0
    BY <2>1, <2>3 DEF IInv, ObjectsPart, ObjectInv
  <2> QED BY <2>1, <2>2, <2>4
<1> QED BY Invariance, <1>1, PTL

\* A handler reads what was not its byte only while the boot's requests are left, and
\* neither that nor a wrong count begins once the mouse was heard (keyboard.c:130,
\* mouse.c:97).
THEOREM SlipsOnlyFromTheBoot == DesktopSpec => SlipsComeFromBoot
<1> DEFINE Kept == /\ ~slipped /\ slipped' => leftover # {}
                   /\ heard # 0 => slipped' = slipped /\ (astray' => astray)
<1>1. ASSUME IInv, KeyboardInterrupt PROVE Kept
  <2>1. 1 \in irr
    BY <1>1, Serves, DesktopAssumption DEF KeyboardInterrupt, IInv, MachinePart
  <2>2. /\ slipped' = (slipped \/ port.from \in FromMouse)
        /\ astray' = (astray \/ port.from = "mouse")
    BY <1>1 DEF KeyboardInterrupt, keyboard_interrupt_handler
  <2>3. ASSUME ~slipped, slipped' PROVE leftover # {}
    <3>1. port.from \in FromMouse
      BY <2>2, <2>3
    <3> QED BY <1>1, <2>1, <2>3, <3>1 DEF IInv, BytesPart, RequestInv, FromMouse
  <2>4. ASSUME heard # 0 PROVE slipped' = slipped /\ (astray' => astray)
    <3>1. port.from = "key" /\ slipped \in BOOLEAN
      BY <1>1, <2>1, <2>4 DEF IInv, BytesPart, BytesOK, RequestInv
    <3>2. port.from \notin FromMouse /\ port.from # "mouse"
      BY <3>1 DEF FromMouse
    <3> QED BY <2>2, <3>1, <3>2
  <2> QED BY <2>3, <2>4
<1>2. ASSUME IInv, MouseInterrupt PROVE Kept
  <2>1. 12 \in irr
    BY <1>2, Serves, DesktopAssumption DEF MouseInterrupt, IInv, MachinePart
  <2>2. CASE port.from = "mouse"
    BY <1>2, <2>2 DEF MouseInterrupt, mouse_handler
  <2>3. CASE port.from # "mouse"
    <3>1. slipped' = (slipped \/ port.from # "answer")
      BY <1>2, <2>3 DEF MouseInterrupt, mouse_handler
    <3>2. heard = 0
      BY <1>2, <2>1, <2>3 DEF IInv, BytesPart, RequestInv
    <3>3. ASSUME ~slipped, slipped' PROVE leftover # {}
      <4>1. port.from \notin FromMouse
        BY <2>3, <3>1, <3>3 DEF FromMouse
      <4> QED BY <1>2, <2>1, <3>3, <4>1 DEF IInv, BytesPart, RequestInv
    <3> QED BY <3>2, <3>3
  <2> QED BY <2>2, <2>3
<1>3. ASSUME IInv, KeyboardInitalize PROVE Kept
  <2>1. heard = 0 /\ slipped' = slipped
    BY <1>3 DEF KeyboardInitalize, Boots, IInv, BytesPart, ByteInv, Unheard
  <2> QED BY <2>1
<1>4. ASSUME UNCHANGED <<slipped, astray>> PROVE Kept
  BY <1>4
<1>5. ASSUME IInv, Next PROVE Kept
  <2>1. CASE Device
    <3>1. UNCHANGED <<slipped, astray>>
      BY <2>1 DEF Device, KeyPress, MouseAnswers, MouseSends, OtherDevice, mouse
    <3> QED BY <3>1, <1>4
  <2>2. CASE KernelMain
    <3>1. KeyboardInitalize \/ UNCHANGED <<slipped, astray>>
      BY <2>2 DEF KernelMain, InterruptsInitalize, MouseInitalize, Flush, Ps2Gates, DesktopNew,
        AttachKeypress, ConsoleWindow, ConsoleWindowParent, ConsoleNew, ConsoleParent,
        SetEventHandler, SetActiveWindow, ViewerWindow, ViewerWindowParent, ViewerLabel,
        ViewerLabelParent, ProgramCalls, Makes, GoesInto, Works, mouse
    <3> QED BY <3>1, <1>3, <1>4, <1>5
  <2>3. CASE Interrupt
    <3>1. CASE \E l \in Lines : OtherInterrupt(l) \/ MissingGate(l)
      <4>1. UNCHANGED <<slipped, astray>>
        BY <3>1 DEF OtherInterrupt, MissingGate, mouse
      <4> QED BY <4>1, <1>4
    <3> QED BY <2>3, <3>1, <1>1, <1>2, <1>5 DEF Interrupt
  <2> QED BY <1>5, <2>1, <2>2, <2>3 DEF Next
<1>6. ASSUME UNCHANGED vars PROVE Kept
  BY <1>4, <1>6 DEF vars, mouse
<1>7. IInv /\ [Next]_vars => [Kept]_vars
  BY <1>5, <1>6
<1> QED BY Invariance, <1>7, PTL DEF DesktopSpec, SlipsComeFromBoot

=============================================================================
