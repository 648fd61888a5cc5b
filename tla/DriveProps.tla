----------------------------- MODULE DriveProps -----------------------------
(***************************************************************************)
(* What the file system relies on from module Drive.                       *)
(***************************************************************************)
EXTENDS Drive

\* A read that reports success returns the sectors it was asked for and nothing that an
\* earlier read or a command that failed left in the buffer (ahci.c:617-641, 364-373).
SuccessIsTheSectors ==
  answer.ok => answer.data = [k \in 0 .. call.count - 1 |-> call.sector + k]

\* A read fails only because of the drive: an error reported while this read ran, not
\* one left over; a port busy through the whole spin; or every slot the mask lets the
\* kernel see holding a command that was never finished (ahci.c:538-542, 607-638, 645-656).
ReadFailsForAReason ==
  pc = "idle" =>
    /\ answer.why = "error" => fault
    /\ answer.why = "slots" => 0 .. cmdslots - 1 \subseteq ci
    /\ answer.why = "hung" => spin = MaxSpin

\* The kernel never writes over a command the drive was handed and has not given back,
\* although those of failed reads stay in the list for ever (ahci.c:550-602, 645-656).
HandedCommandsStay == [][\A s \in ci : header'[s] = header[s]]_vars

\* The list of commands is exchanged only while neither engine runs: the firmware may
\* have left both running (ahci.c:470-500, 515-533).
ListChangesAtRest == [][clb' # clb => ~cr /\ ~fr /\ executing = None]_vars

\* Every read ends unless the drive stops after an error: then the command it stopped in
\* is reported, and a later read may poll for ever (ahci.c:620-632).
EveryReadEnds == pc = "clear" ~> pc = "idle" \/ halted

\* read_ahci polls without a limit (ahci.c:619-632). Whenever it waits for a command, and no
\* error stopped the drive, the drive has a step to take: its engine is on, it looks at the
\* kernel's list, and works on nothing else.
PollIsServed ==
  (pc \in {"wait", "look"} /\ slot \in ci /\ ~halted) =>
    /\ st /\ clb = "kernel" /\ header[slot].count > 0
    /\ executing \in {None, slot}

One(b) == IF b THEN 1 ELSE 0

\* The drive's steps until the command in slot ends.
WorkLeft ==
  (IF executing = slot THEN header[slot].count - moved ELSE header[slot].count + 1)
    + One(cr # st) + One(fr # fre) + One(busy /\ executing = None)

\* ... and every step it takes brings the end of that command nearer, however often the
\* kernel polls in between.
PollEnds ==
  [][(pc \in {"wait", "look"} /\ pc' \in {"wait", "look"} /\ slot \in ci /\ slot \in ci' /\ ~halted')
       => UNCHANGED <<registers, inside, buffer>> \/ WorkLeft' \in 0 .. WorkLeft - 1]_vars

\* Seen from the file system, the polling is one answer to one question.
Abstract == INSTANCE SectorReads WITH
  Calls <- {[sector |-> c.sector, count |-> c.count] : c \in Calls},
  asked <- IF pc \in {"stop", "stopping", "starting", "idle"} THEN [sector |-> 0, count |-> 0]
           ELSE [sector |-> call.sector, count |-> call.count],
  answer <- [ok |-> answer.ok, data |-> answer.data]

\* The commands, slots and polls implement the reads that Files.tla is built on.
ImplementsSectorReads == Abstract!Spec

-----------------------------------------------------------------------------
\* What the kernel and the drive know of each other, in the form their steps need.

Early == {"stop", "stopping", "starting"}
Polling == {"wait", "look"}
Building == {"build", "busy", "issue"}

\* The buffer holds what the command under way, the n-th of the call, asks for.
Holds(n) ==
  LET c == Wanted(call, n)
  IN \A k \in 0 .. c.count - 1 : buffer[c.at + k] = c.lba + k

\* A command stands in its slot from the issue to its end, and only a drive that stopped
\* keeps one of an earlier read.
SlotsInv ==
  /\ pc \in Early => ci = {} /\ ~halted /\ executing = None
  /\ halted => executing = None
  /\ ~halted => ci \subseteq (IF pc \in Polling THEN {slot} ELSE {})
  /\ pc \in Building \cup {"check"} => slot \notin ci
  /\ pc \in Building \cup Polling \cup {"check"} => slot <= cap
  /\ pc \in {"busy", "issue", "check"} \cup Polling => header[slot] = Wanted(call, i)

\* The drive only works on the command the kernel waits for.
DriveInv ==
  executing # None =>
    /\ pc \in Polling /\ executing = slot /\ ~tfes
    /\ moved <= Wanted(call, i).count
    /\ \A k \in 0 .. moved - 1 : buffer[Wanted(call, i).at + k] = Wanted(call, i).lba + k

\* Without a report of an error a command that left its slot has filled its part of the
\* buffer; the chunks before it stay.
ReadInv ==
  /\ pc \notin Early \cup {"idle"} =>
       /\ call \in Calls /\ i < call.count /\ (call.single => i = 0)
       /\ \A k \in 0 .. i - 1 : buffer[k] = call.sector + k
  /\ pc \notin Early \cup {"idle", "clear"} => (tfes => fault)
  /\ pc \in Building \cup {"slot"} => ~tfes
  /\ pc \in Polling /\ slot \in ci /\ ~halted => ~tfes
  /\ pc \in Polling \cup {"check"} /\ slot \notin ci /\ ~tfes => Holds(i)
  /\ answer.ok => pc = "idle"
  /\ pc \in Early => answer = NoAnswer

\* From the end of port_rebase on the engines are on and use the kernel's list.
PortInv ==
  /\ pc = "starting" => clb = "kernel"
  /\ pc \notin Early => st /\ clb = "kernel"

IInv ==
  TypeOK /\ SlotsInv /\ DriveInv /\ ReadInv /\ SuccessIsTheSectors /\ ReadFailsForAReason

=============================================================================
