------------------------------- MODULE Drive --------------------------------
(***************************************************************************)
(* Reading sectors, device/block/ahci.c: the kernel builds a command in a  *)
(* slot of the list, hands it to the drive by a bit of ci, and polls; the  *)
(* drive fetches commands, moves sectors into the buffer one by one and    *)
(* reports. The two run side by side; every access to a register is a step *)
(* of its own.                                                             *)
(*                                                                         *)
(* A sector's content is its number. The drive is external: it does what   *)
(* the AHCI interface lets it do, and may fail in any command.             *)
(***************************************************************************)
EXTENDS Integers

CONSTANTS
  Caps,          \* cap.NCS of the drives there may be: slots, less one
  MaxCap,        \* the largest a drive can have, 31
  FieldSize,     \* values the mask 0x0f00 leaves of the field, 16
  Calls,         \* reads the file system makes
  PrdtSectors,   \* sectors of one entry of the command table, 16
  MaxSpin,       \* polls before "Port is hung", 1000000
  BufferSectors

ASSUME DriveAssumption ==
  /\ MaxCap \in Nat /\ Caps \subseteq 0 .. MaxCap /\ FieldSize \in Nat \ {0}
  /\ PrdtSectors \in Nat \ {0} /\ MaxSpin \in Nat /\ BufferSectors \in Nat
  /\ Calls \subseteq [sector : Nat, count : 1 .. BufferSectors, single : BOOLEAN]
  /\ \A c \in Calls : c.single => c.count <= PrdtSectors

Slots == 0 .. MaxCap
None == -1
Stale == -1                       \* a sector of the buffer nothing was read into
Command == [lba : Nat, count : Nat, at : Nat]
NoCommand == [lba |-> 0, count |-> 0, at |-> 0]
NoCall == [sector |-> 0, count |-> 0, single |-> TRUE]
NoAnswer == [ok |-> FALSE, why |-> "none", data |-> <<>>]

VARIABLES
  cap, ci,               \* registers: the slots, the commands issued,
  tfes, busy,            \* ... an error was reported, BSY or DRQ of tfd,
  st, fre, cr, fr,       \* ... the engines, switched and running
  clb,                   \* whose list of commands the port uses
  header,                \* the commands in the kernel's list
  buffer,                \* sectors of global_buffer
  executing, moved,      \* the drive's: a command under way, its sectors moved
  halted,                \* ... an error stopped it
  pc, spin, slot,        \* the kernel's: where it is, read_ahci's variables
  call, i,               \* ... what it reads, and how many commands are done
  fault, answer          \* the drive failed in this read; what the last returned

registers == <<cap, ci, tfes, busy, st, fre, cr, fr, clb>>
inside == <<executing, moved, halted>>
kernel == <<pc, spin, slot, call, i, answer>>
vars == <<registers, header, buffer, inside, kernel, fault>>

Steps == {"stop", "stopping", "starting", "idle", "clear", "slot", "build", "busy",
          "issue", "wait", "look", "check"}

FlagsOK ==
  /\ tfes \in BOOLEAN /\ busy \in BOOLEAN /\ halted \in BOOLEAN /\ fault \in BOOLEAN
  /\ st \in BOOLEAN /\ fre \in BOOLEAN /\ cr \in BOOLEAN /\ fr \in BOOLEAN

RegistersOK ==
  /\ cap \in Caps /\ ci \subseteq 0 .. cap
  /\ clb \in {"firmware", "kernel"}
  /\ executing \in ci \cup {None} /\ moved \in Nat

MemoryOK ==
  /\ header \in [Slots -> Command]
  /\ buffer \in [0 .. BufferSectors - 1 -> Nat \cup {Stale}]

KernelOK ==
  /\ pc \in Steps /\ spin \in 0 .. MaxSpin /\ slot \in Slots
  /\ call \in Calls \cup {NoCall} /\ i \in Nat
  /\ answer.ok \in BOOLEAN

TypeOK == FlagsOK /\ RegistersOK /\ MemoryOK /\ KernelOK

\* The firmware may have left the port running with a list of its own.
Init ==
  /\ cap \in Caps /\ ci = {} /\ tfes \in BOOLEAN /\ busy \in BOOLEAN
  /\ \E running \in BOOLEAN : st = running /\ fre = running /\ cr = running /\ fr = running
  /\ clb = "firmware"
  /\ header = [s \in Slots |-> NoCommand]
  /\ buffer = [k \in 0 .. BufferSectors - 1 |-> Stale]
  /\ executing = None /\ moved = 0 /\ halted = FALSE
  /\ pc = "stop" /\ spin = 0 /\ slot = 0
  /\ call = NoCall /\ i = 0 /\ fault = FALSE /\ answer = NoAnswer

Goes(from, to) == pc = from /\ pc' = to

-----------------------------------------------------------------------------
\* port_rebase.

stop_cmd ==
  /\ Goes("stop", "stopping")
  /\ st' = FALSE /\ fre' = FALSE
  /\ UNCHANGED <<cap, ci, tfes, busy, cr, fr, clb, header, buffer, inside,
                 spin, slot, call, i, answer, fault>>

\* Variant: stop_cmd waits for one of the two engines only.
port_rebase_OneEngine ==
  /\ Goes("stopping", "starting")
  /\ ~fr
  /\ clb' = "kernel" /\ header' = [s \in Slots |-> NoCommand]
  /\ UNCHANGED <<cap, ci, tfes, busy, st, fre, cr, fr, buffer, inside,
                 spin, slot, call, i, answer, fault>>

port_rebase ==
  /\ Goes("stopping", "starting")
  /\ ~fr /\ ~cr
  /\ clb' = "kernel" /\ header' = [s \in Slots |-> NoCommand]
  /\ UNCHANGED <<cap, ci, tfes, busy, st, fre, cr, fr, buffer, inside,
                 spin, slot, call, i, answer, fault>>

\* Variant: start_cmd switches the answers on but not the commands.
start_cmd_NoCommands ==
  /\ Goes("starting", "idle")
  /\ ~cr /\ fre' = TRUE
  /\ UNCHANGED <<cap, ci, tfes, busy, st, cr, fr, clb, header, buffer, inside,
                 spin, slot, call, i, answer, fault>>

start_cmd ==
  /\ Goes("starting", "idle")
  /\ ~cr /\ fre' = TRUE /\ st' = TRUE
  /\ UNCHANGED <<cap, ci, tfes, busy, cr, fr, clb, header, buffer, inside,
                 spin, slot, call, i, answer, fault>>

-----------------------------------------------------------------------------
\* read_ahci, for a whole call (ahci_read_at_byte_offset) or for one sector of it at a
\* time (the 512_chunks).

Reads(c) ==
  /\ Goes("idle", "clear")
  /\ call' = c /\ i' = 0 /\ answer' = NoAnswer /\ fault' = FALSE
  /\ UNCHANGED <<registers, header, buffer, inside, spin, slot>>

\* Variant: an error of an earlier read stays reported.
ClearsErrors_Not ==
  /\ Goes("clear", "slot")
  /\ spin' = 0
  /\ UNCHANGED <<registers, header, buffer, inside, slot, call, i, answer, fault>>

ClearsErrors ==
  /\ Goes("clear", "slot")
  /\ tfes' = FALSE /\ spin' = 0
  /\ UNCHANGED <<cap, ci, busy, st, fre, cr, fr, clb, header, buffer, inside,
                 slot, call, i, answer, fault>>

\* Four of the five bits of the field, which counts from 0: a drive with sixteen slots
\* is used for fifteen, one with a single slot for none.
cmdslots == cap % FieldSize

Free == {s \in 0 .. cmdslots - 1 : s \notin ci}

Returns(ok, why) ==
  /\ pc' = "idle"
  /\ answer' = [ok |-> ok, why |-> why,
                data |-> IF ok THEN [k \in 0 .. call.count - 1 |-> buffer[k]] ELSE <<>>]
  /\ UNCHANGED <<registers, header, buffer, inside, spin, slot, call, i, fault>>

\* Variant: the first slot, whether or not a command stands in it.
find_cmdslot_First ==
  /\ Goes("slot", "build")
  /\ cmdslots > 0 /\ slot' = 0
  /\ UNCHANGED <<registers, header, buffer, inside, spin, call, i, answer, fault>>

find_cmdslot ==
  /\ Goes("slot", "build")
  /\ slot' \in Free /\ \A s \in Free : slot' <= s
  /\ UNCHANGED <<registers, header, buffer, inside, spin, call, i, answer, fault>>

NoSlot == pc = "slot" /\ Free = {} /\ Returns(FALSE, "slots")

\* The command for the whole call, or for its sector n.
Wanted(c, n) ==
  IF c.single THEN [lba |-> c.sector, count |-> c.count, at |-> 0]
  ELSE [lba |-> c.sector + n, count |-> 1, at |-> n]

\* The count the drive is given is what was left for the last entry of the table.
LastEntry(count) == count - PrdtSectors * ((count - 1) \div PrdtSectors)

Builds ==
  /\ Goes("build", "busy")
  /\ header' = [header EXCEPT ![slot] =
                  [Wanted(call, i) EXCEPT !.count = LastEntry(Wanted(call, i).count)]]
  /\ UNCHANGED <<registers, buffer, inside, spin, slot, call, i, answer, fault>>

Spins ==
  /\ pc = "busy" /\ busy /\ spin < MaxSpin
  /\ spin' = spin + 1
  /\ UNCHANGED <<registers, header, buffer, inside, pc, slot, call, i, answer, fault>>

SpinEnds == pc = "busy" /\ (~busy \/ spin = MaxSpin)

Hung == SpinEnds /\ spin = MaxSpin /\ Returns(FALSE, "hung")

Ready ==
  /\ SpinEnds /\ spin # MaxSpin /\ pc' = "issue"
  /\ UNCHANGED <<registers, header, buffer, inside, spin, slot, call, i, answer, fault>>

Issues ==
  /\ Goes("issue", "wait")
  /\ ci' = ci \cup {slot}
  /\ UNCHANGED <<cap, tfes, busy, st, fre, cr, fr, clb, header, buffer, inside,
                 spin, slot, call, i, answer, fault>>

Waits ==
  /\ pc = "wait"
  /\ pc' = IF slot \in ci THEN "look" ELSE "check"
  /\ UNCHANGED <<registers, header, buffer, inside, spin, slot, call, i, answer, fault>>

LooksAgain ==
  /\ Goes("look", "wait")
  /\ ~tfes
  /\ UNCHANGED <<registers, header, buffer, inside, spin, slot, call, i, answer, fault>>

ReadError == pc \in {"look", "check"} /\ tfes /\ Returns(FALSE, "error")

\* Variant: the loop over the chunks ends one early.
Last_Early == call.single \/ i + 2 >= call.count

\* One command for the call, or the last of its sectors.
Last == call.single \/ i + 1 = call.count

NextChunk ==
  /\ Goes("check", "clear")
  /\ ~tfes /\ ~Last
  /\ i' = i + 1
  /\ UNCHANGED <<registers, header, buffer, inside, spin, slot, call, answer, fault>>

ReadDone == pc = "check" /\ ~tfes /\ Last /\ Returns(TRUE, "none")

-----------------------------------------------------------------------------
\* The drive.

EnginesFollow ==
  \/ /\ cr # st /\ executing = None /\ ~halted /\ cr' = st
     /\ UNCHANGED <<cap, ci, tfes, busy, st, fre, fr, clb, header, buffer, inside, kernel, fault>>
  \/ /\ fr # fre /\ fr' = fre
     /\ UNCHANGED <<cap, ci, tfes, busy, st, fre, cr, clb, header, buffer, inside, kernel, fault>>

BecomesReady ==
  /\ busy /\ executing = None /\ ~halted
  /\ busy' = FALSE
  /\ UNCHANGED <<cap, ci, tfes, st, fre, cr, fr, clb, header, buffer, inside, kernel, fault>>

Fetches(s) ==
  /\ cr /\ clb = "kernel" /\ ~halted /\ executing = None
  /\ s \in ci
  /\ executing' = s /\ moved' = 0 /\ busy' = TRUE
  /\ UNCHANGED <<cap, ci, tfes, st, fre, cr, fr, clb, header, buffer, halted, kernel, fault>>

Moves ==
  /\ executing # None /\ moved < header[executing].count
  /\ buffer' = [buffer EXCEPT ![header[executing].at + moved] = header[executing].lba + moved]
  /\ moved' = moved + 1
  /\ UNCHANGED <<registers, header, executing, halted, kernel, fault>>

Completes ==
  /\ executing # None /\ moved = header[executing].count
  /\ ci' = ci \ {executing} /\ executing' = None /\ busy' = FALSE
  /\ UNCHANGED <<cap, tfes, st, fre, cr, fr, clb, header, buffer, moved, halted, kernel, fault>>

\* An error is reported; the drive drops the command and goes on, or it stops with the
\* command in its slot, until the engine is started again, which read_ahci never does.
Fails ==
  /\ executing # None
  /\ tfes' = TRUE /\ fault' = TRUE /\ executing' = None
  /\ \/ ci' = ci \ {executing} /\ busy' = FALSE /\ UNCHANGED halted
     \/ halted' = TRUE /\ busy' \in BOOLEAN /\ UNCHANGED ci
  /\ UNCHANGED <<cap, st, fre, cr, fr, clb, header, buffer, moved, kernel>>

-----------------------------------------------------------------------------
Kernel ==
  \/ stop_cmd \/ port_rebase \/ start_cmd
  \/ ClearsErrors \/ find_cmdslot \/ NoSlot \/ Builds
  \/ Spins \/ Hung \/ Ready \/ Issues
  \/ Waits \/ LooksAgain \/ ReadError \/ NextChunk \/ ReadDone

Works ==
  \/ EnginesFollow \/ BecomesReady
  \/ \E s \in Slots : Fetches(s)
  \/ Moves \/ Completes

Next == Kernel \/ (\E c \in Calls : Reads(c)) \/ Works \/ Fails

\* The kernel polls on, and the drive gets on with its work; it need not fail.
Spec == Init /\ [][Next]_vars /\ WF_vars(Kernel) /\ WF_vars(Works)

=============================================================================
