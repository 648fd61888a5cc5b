---------------------------- MODULE DriveProofs -----------------------------
(***************************************************************************)
(* Proofs about reading sectors: for every number of slots, every read the *)
(* file system makes, every number of polls and every order in which the   *)
(* kernel and the drive take their steps.                                  *)
(***************************************************************************)
EXTENDS DriveProps, TLAPS

USE DEF Steps, Early, Polling, Building, Goes, None, Slots

LEMMA RemainderIsLess ==
  ASSUME NEW a \in Nat, NEW b \in Nat \ {0}
  PROVE  a % b \in Nat /\ a % b <= a
  <1>1. CASE a < b
    <2>1. a % b = a
      BY <1>1
    <2>. QED
      BY <2>1
  <1>2. CASE a >= b
    BY <1>2
  <1>. QED
    BY <1>1, <1>2

\* The slots the kernel sees are slots the drive has.
LEMMA FreeSlots ==
  ASSUME cap \in Caps, NEW s \in Free
  PROVE  s \in 0 .. MaxCap /\ s <= cap /\ s \notin ci
  <1>1. cap \in Nat /\ cap <= MaxCap /\ FieldSize \in Nat \ {0} /\ MaxCap \in Nat
    BY DriveAssumption
  <1>2. cmdslots \in Nat /\ cmdslots <= cap
    BY <1>1, RemainderIsLess DEF cmdslots
  <1>. QED
    BY <1>1, <1>2 DEF Free

\* A command asks for sectors that fit into the buffer.
LEMMA WantedFits ==
  ASSUME NEW c \in Calls, NEW n \in Nat, n < c.count, c.single => n = 0
  PROVE  /\ Wanted(c, n) \in Command
         /\ Wanted(c, n).count \in 1 .. PrdtSectors
         /\ Wanted(c, n).at + Wanted(c, n).count <= BufferSectors
  <1>1. /\ c.sector \in Nat /\ c.count \in 1 .. BufferSectors
        /\ c.single => c.count <= PrdtSectors
        /\ BufferSectors \in Nat /\ PrdtSectors \in Nat \ {0}
    BY DriveAssumption
  <1>2. CASE c.single
    BY <1>1, <1>2 DEF Wanted, Command
  <1>3. CASE ~c.single
    BY <1>1, <1>3 DEF Wanted, Command
  <1>. QED
    BY <1>2, <1>3

\* What one entry of the table can hold is what the drive is asked for.
LEMMA OneEntry ==
  ASSUME NEW count \in 1 .. PrdtSectors
  PROVE  LastEntry(count) = count
  <1>1. PrdtSectors \in Nat \ {0} /\ count - 1 \in Nat /\ count - 1 < PrdtSectors
    BY DriveAssumption
  <1>2. (count - 1) \div PrdtSectors = 0
    BY <1>1
  <1>. QED
    BY <1>1, <1>2 DEF LastEntry

\* The command of the kernel's step, while it reads.
LEMMA CommandNow ==
  ASSUME IInv, pc \notin Early \cup {"idle"}
  PROVE  /\ call \in Calls /\ i \in Nat
         /\ Wanted(call, i) \in Command
         /\ Wanted(call, i).count \in 1 .. PrdtSectors
         /\ Wanted(call, i).at + Wanted(call, i).count <= BufferSectors
  <1>1. call \in Calls /\ i \in Nat /\ i < call.count /\ (call.single => i = 0)
    BY DEF IInv, TypeOK, KernelOK, ReadInv
  <1>. QED
    BY <1>1, WantedFits

LEMMA Step_stop_cmd ==
  ASSUME IInv, stop_cmd
  PROVE  IInv'
  <1>. USE DEF stop_cmd, registers, inside, kernel
  <1>1. FlagsOK'
    BY DEF IInv, TypeOK, FlagsOK
  <1>2. RegistersOK'
    BY DEF IInv, TypeOK, RegistersOK
  <1>3. MemoryOK'
    BY DriveAssumption DEF IInv, TypeOK, MemoryOK
  <1>4. KernelOK'
    BY DriveAssumption DEF IInv, TypeOK, KernelOK
  <1>5. SlotsInv'
    BY DriveAssumption DEF IInv, TypeOK, RegistersOK, KernelOK, SlotsInv, DriveInv
  <1>6. DriveInv'
    BY DriveAssumption DEF IInv, TypeOK, RegistersOK, KernelOK, SlotsInv, DriveInv
  <1>7. ReadInv'
    BY DriveAssumption DEF IInv, TypeOK, RegistersOK, KernelOK, SlotsInv, DriveInv, ReadInv, Holds
  <1>8. SuccessIsTheSectors'
    BY DEF IInv, ReadInv, SuccessIsTheSectors
  <1>9. ReadFailsForAReason'
    BY DEF IInv, SlotsInv, DriveInv, ReadInv, ReadFailsForAReason, Free, cmdslots
  <1>. QED
    BY <1>1, <1>2, <1>3, <1>4, <1>5, <1>6, <1>7, <1>8, <1>9 DEF IInv, TypeOK

LEMMA Step_port_rebase ==
  ASSUME IInv, port_rebase
  PROVE  IInv'
  <1>. USE DEF port_rebase, registers, inside, kernel
  <1>1. FlagsOK'
    BY DEF IInv, TypeOK, FlagsOK
  <1>2. RegistersOK'
    BY DEF IInv, TypeOK, RegistersOK
  <1>3. MemoryOK'
    BY DEF IInv, TypeOK, MemoryOK, NoCommand, Command
  <1>4. KernelOK'
    BY DriveAssumption DEF IInv, TypeOK, KernelOK
  <1>5. SlotsInv'
    BY DriveAssumption DEF IInv, TypeOK, RegistersOK, KernelOK, SlotsInv, DriveInv
  <1>6. DriveInv'
    BY DriveAssumption DEF IInv, TypeOK, RegistersOK, KernelOK, SlotsInv, DriveInv
  <1>7. ReadInv'
    BY DriveAssumption DEF IInv, TypeOK, RegistersOK, KernelOK, SlotsInv, DriveInv, ReadInv, Holds
  <1>8. SuccessIsTheSectors'
    BY DEF IInv, ReadInv, SuccessIsTheSectors
  <1>9. ReadFailsForAReason'
    BY DEF IInv, SlotsInv, DriveInv, ReadInv, ReadFailsForAReason, Free, cmdslots
  <1>. QED
    BY <1>1, <1>2, <1>3, <1>4, <1>5, <1>6, <1>7, <1>8, <1>9 DEF IInv, TypeOK

LEMMA Step_start_cmd ==
  ASSUME IInv, start_cmd
  PROVE  IInv'
  <1>. USE DEF start_cmd, registers, inside, kernel
  <1>1. FlagsOK'
    BY DEF IInv, TypeOK, FlagsOK
  <1>2. RegistersOK'
    BY DEF IInv, TypeOK, RegistersOK
  <1>3. MemoryOK'
    BY DriveAssumption DEF IInv, TypeOK, MemoryOK
  <1>4. KernelOK'
    BY DriveAssumption DEF IInv, TypeOK, KernelOK
  <1>5. SlotsInv'
    BY DriveAssumption DEF IInv, TypeOK, RegistersOK, KernelOK, SlotsInv, DriveInv
  <1>6. DriveInv'
    BY DriveAssumption DEF IInv, TypeOK, RegistersOK, KernelOK, SlotsInv, DriveInv
  <1>7. ReadInv'
    BY DriveAssumption DEF IInv, TypeOK, RegistersOK, KernelOK, SlotsInv, DriveInv, ReadInv, Holds
  <1>8. SuccessIsTheSectors'
    BY DEF IInv, ReadInv, SuccessIsTheSectors
  <1>9. ReadFailsForAReason'
    BY DEF IInv, ReadInv, ReadFailsForAReason, NoAnswer
  <1>. QED
    BY <1>1, <1>2, <1>3, <1>4, <1>5, <1>6, <1>7, <1>8, <1>9 DEF IInv, TypeOK

LEMMA Step_Reads ==
  ASSUME IInv, NEW c \in Calls, Reads(c)
  PROVE  IInv'
  <1>. USE DEF Reads, registers, inside, kernel, NoAnswer
  <1>0. c.count >= 1
    BY DriveAssumption
  <1>1. FlagsOK'
    BY DEF IInv, TypeOK, FlagsOK
  <1>2. RegistersOK'
    BY DEF IInv, TypeOK, RegistersOK
  <1>3. MemoryOK'
    BY DriveAssumption DEF IInv, TypeOK, MemoryOK
  <1>4. KernelOK'
    BY DriveAssumption DEF IInv, TypeOK, KernelOK
  <1>5. SlotsInv'
    BY DriveAssumption DEF IInv, TypeOK, RegistersOK, KernelOK, SlotsInv, DriveInv
  <1>6. DriveInv'
    BY DriveAssumption DEF IInv, TypeOK, RegistersOK, KernelOK, SlotsInv, DriveInv
  <1>7. ReadInv'
    BY <1>0, DriveAssumption DEF IInv, TypeOK, KernelOK, SlotsInv, ReadInv
  <1>8. SuccessIsTheSectors'
    BY DEF IInv, ReadInv, SuccessIsTheSectors
  <1>9. ReadFailsForAReason'
    BY DEF IInv, SlotsInv, DriveInv, ReadInv, ReadFailsForAReason, Free, cmdslots
  <1>. QED
    BY <1>1, <1>2, <1>3, <1>4, <1>5, <1>6, <1>7, <1>8, <1>9 DEF IInv, TypeOK

LEMMA Step_ClearsErrors ==
  ASSUME IInv, ClearsErrors
  PROVE  IInv'
  <1>. USE DEF ClearsErrors, registers, inside, kernel
  <1>1. FlagsOK'
    BY DEF IInv, TypeOK, FlagsOK
  <1>2. RegistersOK'
    BY DEF IInv, TypeOK, RegistersOK
  <1>3. MemoryOK'
    BY DriveAssumption DEF IInv, TypeOK, MemoryOK
  <1>4. KernelOK'
    BY DriveAssumption DEF IInv, TypeOK, KernelOK
  <1>5. SlotsInv'
    BY DriveAssumption DEF IInv, TypeOK, RegistersOK, KernelOK, SlotsInv, DriveInv
  <1>6. DriveInv'
    BY DriveAssumption DEF IInv, TypeOK, RegistersOK, KernelOK, SlotsInv, DriveInv
  <1>7. ReadInv'
    BY DriveAssumption DEF IInv, TypeOK, RegistersOK, KernelOK, SlotsInv, DriveInv, ReadInv, Holds
  <1>8. SuccessIsTheSectors'
    BY DEF IInv, ReadInv, SuccessIsTheSectors
  <1>9. ReadFailsForAReason'
    BY DEF IInv, SlotsInv, DriveInv, ReadInv, ReadFailsForAReason, Free, cmdslots
  <1>. QED
    BY <1>1, <1>2, <1>3, <1>4, <1>5, <1>6, <1>7, <1>8, <1>9 DEF IInv, TypeOK

LEMMA Step_find_cmdslot ==
  ASSUME IInv, find_cmdslot
  PROVE  IInv'
  <1>. USE DEF find_cmdslot, registers, inside, kernel
  <1>0. slot' \in 0 .. MaxCap /\ slot' <= cap /\ slot' \notin ci
    BY FreeSlots DEF IInv, TypeOK, RegistersOK
  <1>1. FlagsOK'
    BY DEF IInv, TypeOK, FlagsOK
  <1>2. RegistersOK'
    BY DEF IInv, TypeOK, RegistersOK
  <1>3. MemoryOK'
    BY DriveAssumption DEF IInv, TypeOK, MemoryOK
  <1>4. KernelOK'
    BY <1>0 DEF IInv, TypeOK, KernelOK
  <1>5. SlotsInv'
    BY <1>0 DEF IInv, SlotsInv, DriveInv
  <1>6. DriveInv'
    BY DriveAssumption DEF IInv, TypeOK, RegistersOK, KernelOK, SlotsInv, DriveInv
  <1>7. ReadInv'
    BY DriveAssumption DEF IInv, TypeOK, RegistersOK, KernelOK, SlotsInv, DriveInv, ReadInv, Holds
  <1>8. SuccessIsTheSectors'
    BY DEF IInv, ReadInv, SuccessIsTheSectors
  <1>9. ReadFailsForAReason'
    BY DEF IInv, SlotsInv, DriveInv, ReadInv, ReadFailsForAReason, Free, cmdslots
  <1>. QED
    BY <1>1, <1>2, <1>3, <1>4, <1>5, <1>6, <1>7, <1>8, <1>9 DEF IInv, TypeOK

LEMMA Step_NoSlot ==
  ASSUME IInv, NoSlot
  PROVE  IInv'
  <1>. USE DEF NoSlot, registers, inside, kernel, Returns
  <1>1. FlagsOK'
    BY DEF IInv, TypeOK, FlagsOK
  <1>2. RegistersOK'
    BY DEF IInv, TypeOK, RegistersOK
  <1>3. MemoryOK'
    BY DriveAssumption DEF IInv, TypeOK, MemoryOK
  <1>4. KernelOK'
    BY DriveAssumption DEF IInv, TypeOK, KernelOK
  <1>5. SlotsInv'
    BY DriveAssumption DEF IInv, TypeOK, RegistersOK, KernelOK, SlotsInv, DriveInv
  <1>6. DriveInv'
    BY DriveAssumption DEF IInv, TypeOK, RegistersOK, KernelOK, SlotsInv, DriveInv
  <1>7. ReadInv'
    BY DriveAssumption DEF IInv, TypeOK, RegistersOK, KernelOK, SlotsInv, DriveInv, ReadInv, Holds
  <1>8. SuccessIsTheSectors'
    BY DEF IInv, ReadInv, SuccessIsTheSectors
  <1>9. ReadFailsForAReason'
    BY DEF IInv, SlotsInv, DriveInv, ReadInv, ReadFailsForAReason, Free, cmdslots
  <1>. QED
    BY <1>1, <1>2, <1>3, <1>4, <1>5, <1>6, <1>7, <1>8, <1>9 DEF IInv, TypeOK

LEMMA Step_Builds ==
  ASSUME IInv, Builds
  PROVE  IInv'
  <1>. USE DEF Builds, registers, inside, kernel
  <1>. DEFINE w == Wanted(call, i)
  <1>01. w \in Command /\ w.count \in 1 .. PrdtSectors
    BY CommandNow
  <1>02. [w EXCEPT !.count = LastEntry(w.count)] = w
    BY <1>01, OneEntry DEF Command
  <1>03. header' = [header EXCEPT ![slot] = w] /\ header \in [Slots -> Command] /\ slot \in Slots
    BY <1>02 DEF IInv, TypeOK, MemoryOK, KernelOK
  <1>0. header' \in [Slots -> Command] /\ header'[slot] = w
    BY <1>01, <1>03
  <1>1. FlagsOK'
    BY DEF IInv, TypeOK, FlagsOK
  <1>2. RegistersOK'
    BY DEF IInv, TypeOK, RegistersOK
  <1>3. MemoryOK'
    BY <1>0 DEF IInv, TypeOK, MemoryOK
  <1>4. KernelOK'
    BY DriveAssumption DEF IInv, TypeOK, KernelOK
  <1>5. SlotsInv'
    BY <1>0 DEF IInv, SlotsInv, DriveInv, Wanted
  <1>6. DriveInv'
    BY DriveAssumption DEF IInv, TypeOK, RegistersOK, KernelOK, SlotsInv, DriveInv
  <1>7. ReadInv'
    BY DriveAssumption DEF IInv, TypeOK, RegistersOK, KernelOK, SlotsInv, DriveInv, ReadInv, Holds
  <1>8. SuccessIsTheSectors'
    BY DEF IInv, ReadInv, SuccessIsTheSectors
  <1>9. ReadFailsForAReason'
    BY DEF IInv, SlotsInv, DriveInv, ReadInv, ReadFailsForAReason, Free, cmdslots
  <1>. QED
    BY <1>1, <1>2, <1>3, <1>4, <1>5, <1>6, <1>7, <1>8, <1>9 DEF IInv, TypeOK

LEMMA Step_Spins ==
  ASSUME IInv, Spins
  PROVE  IInv'
  <1>. USE DEF Spins, registers, inside, kernel
  <1>1. FlagsOK'
    BY DEF IInv, TypeOK, FlagsOK
  <1>2. RegistersOK'
    BY DEF IInv, TypeOK, RegistersOK
  <1>3. MemoryOK'
    BY DriveAssumption DEF IInv, TypeOK, MemoryOK
  <1>4. KernelOK'
    BY DriveAssumption DEF IInv, TypeOK, KernelOK
  <1>5. SlotsInv'
    BY DriveAssumption DEF IInv, TypeOK, RegistersOK, KernelOK, SlotsInv, DriveInv
  <1>6. DriveInv'
    BY DriveAssumption DEF IInv, TypeOK, RegistersOK, KernelOK, SlotsInv, DriveInv
  <1>7. ReadInv'
    BY DriveAssumption DEF IInv, TypeOK, RegistersOK, KernelOK, SlotsInv, DriveInv, ReadInv, Holds
  <1>8. SuccessIsTheSectors'
    BY DEF IInv, ReadInv, SuccessIsTheSectors
  <1>9. ReadFailsForAReason'
    BY DEF IInv, SlotsInv, DriveInv, ReadInv, ReadFailsForAReason, Free, cmdslots
  <1>. QED
    BY <1>1, <1>2, <1>3, <1>4, <1>5, <1>6, <1>7, <1>8, <1>9 DEF IInv, TypeOK

LEMMA Step_Hung ==
  ASSUME IInv, Hung
  PROVE  IInv'
  <1>. USE DEF Hung, registers, inside, kernel, Returns, SpinEnds
  <1>1. FlagsOK'
    BY DEF IInv, TypeOK, FlagsOK
  <1>2. RegistersOK'
    BY DEF IInv, TypeOK, RegistersOK
  <1>3. MemoryOK'
    BY DriveAssumption DEF IInv, TypeOK, MemoryOK
  <1>4. KernelOK'
    BY DriveAssumption DEF IInv, TypeOK, KernelOK
  <1>5. SlotsInv'
    BY DriveAssumption DEF IInv, TypeOK, RegistersOK, KernelOK, SlotsInv, DriveInv
  <1>6. DriveInv'
    BY DriveAssumption DEF IInv, TypeOK, RegistersOK, KernelOK, SlotsInv, DriveInv
  <1>7. ReadInv'
    BY DriveAssumption DEF IInv, TypeOK, RegistersOK, KernelOK, SlotsInv, DriveInv, ReadInv, Holds
  <1>8. SuccessIsTheSectors'
    BY DEF IInv, ReadInv, SuccessIsTheSectors
  <1>9. ReadFailsForAReason'
    BY DEF IInv, SlotsInv, DriveInv, ReadInv, ReadFailsForAReason, Free, cmdslots
  <1>. QED
    BY <1>1, <1>2, <1>3, <1>4, <1>5, <1>6, <1>7, <1>8, <1>9 DEF IInv, TypeOK

LEMMA Step_Ready ==
  ASSUME IInv, Ready
  PROVE  IInv'
  <1>. USE DEF Ready, registers, inside, kernel, SpinEnds
  <1>1. FlagsOK'
    BY DEF IInv, TypeOK, FlagsOK
  <1>2. RegistersOK'
    BY DEF IInv, TypeOK, RegistersOK
  <1>3. MemoryOK'
    BY DriveAssumption DEF IInv, TypeOK, MemoryOK
  <1>4. KernelOK'
    BY DriveAssumption DEF IInv, TypeOK, KernelOK
  <1>5. SlotsInv'
    BY DriveAssumption DEF IInv, TypeOK, RegistersOK, KernelOK, SlotsInv, DriveInv
  <1>6. DriveInv'
    BY DriveAssumption DEF IInv, TypeOK, RegistersOK, KernelOK, SlotsInv, DriveInv
  <1>7. ReadInv'
    BY DriveAssumption DEF IInv, TypeOK, RegistersOK, KernelOK, SlotsInv, DriveInv, ReadInv, Holds
  <1>8. SuccessIsTheSectors'
    BY DEF IInv, ReadInv, SuccessIsTheSectors
  <1>9. ReadFailsForAReason'
    BY DEF IInv, SlotsInv, DriveInv, ReadInv, ReadFailsForAReason, Free, cmdslots
  <1>. QED
    BY <1>1, <1>2, <1>3, <1>4, <1>5, <1>6, <1>7, <1>8, <1>9 DEF IInv, TypeOK

LEMMA Step_Issues ==
  ASSUME IInv, Issues
  PROVE  IInv'
  <1>. USE DEF Issues, registers, inside, kernel
  <1>1. FlagsOK'
    BY DEF IInv, TypeOK, FlagsOK
  <1>2. RegistersOK'
    <2>1. slot \in 0 .. cap
      BY DriveAssumption DEF IInv, TypeOK, RegistersOK, KernelOK, SlotsInv
    <2>. QED
      BY <2>1 DEF IInv, TypeOK, RegistersOK
  <1>3. MemoryOK'
    BY DriveAssumption DEF IInv, TypeOK, MemoryOK
  <1>4. KernelOK'
    BY DriveAssumption DEF IInv, TypeOK, KernelOK
  <1>5. SlotsInv'
    BY DriveAssumption DEF IInv, TypeOK, RegistersOK, KernelOK, SlotsInv, DriveInv
  <1>6. DriveInv'
    BY DriveAssumption DEF IInv, TypeOK, RegistersOK, KernelOK, SlotsInv, DriveInv
  <1>7. ReadInv'
    BY DriveAssumption DEF IInv, TypeOK, RegistersOK, KernelOK, SlotsInv, DriveInv, ReadInv, Holds
  <1>8. SuccessIsTheSectors'
    BY DEF IInv, ReadInv, SuccessIsTheSectors
  <1>9. ReadFailsForAReason'
    BY DEF IInv, SlotsInv, DriveInv, ReadInv, ReadFailsForAReason, Free, cmdslots
  <1>. QED
    BY <1>1, <1>2, <1>3, <1>4, <1>5, <1>6, <1>7, <1>8, <1>9 DEF IInv, TypeOK

LEMMA Step_Waits ==
  ASSUME IInv, Waits
  PROVE  IInv'
  <1>. USE DEF Waits, registers, inside, kernel
  <1>1. FlagsOK'
    BY DEF IInv, TypeOK, FlagsOK
  <1>2. RegistersOK'
    BY DEF IInv, TypeOK, RegistersOK
  <1>3. MemoryOK'
    BY DriveAssumption DEF IInv, TypeOK, MemoryOK
  <1>4. KernelOK'
    BY DriveAssumption DEF IInv, TypeOK, KernelOK
  <1>5. SlotsInv'
    BY DriveAssumption DEF IInv, TypeOK, RegistersOK, KernelOK, SlotsInv, DriveInv
  <1>6. DriveInv'
    BY DriveAssumption DEF IInv, TypeOK, RegistersOK, KernelOK, SlotsInv, DriveInv
  <1>7. ReadInv'
    BY DriveAssumption DEF IInv, TypeOK, RegistersOK, KernelOK, SlotsInv, DriveInv, ReadInv, Holds
  <1>8. SuccessIsTheSectors'
    BY DEF IInv, ReadInv, SuccessIsTheSectors
  <1>9. ReadFailsForAReason'
    BY DEF IInv, SlotsInv, DriveInv, ReadInv, ReadFailsForAReason, Free, cmdslots
  <1>. QED
    BY <1>1, <1>2, <1>3, <1>4, <1>5, <1>6, <1>7, <1>8, <1>9 DEF IInv, TypeOK

LEMMA Step_LooksAgain ==
  ASSUME IInv, LooksAgain
  PROVE  IInv'
  <1>. USE DEF LooksAgain, registers, inside, kernel
  <1>1. FlagsOK'
    BY DEF IInv, TypeOK, FlagsOK
  <1>2. RegistersOK'
    BY DEF IInv, TypeOK, RegistersOK
  <1>3. MemoryOK'
    BY DriveAssumption DEF IInv, TypeOK, MemoryOK
  <1>4. KernelOK'
    BY DriveAssumption DEF IInv, TypeOK, KernelOK
  <1>5. SlotsInv'
    BY DriveAssumption DEF IInv, TypeOK, RegistersOK, KernelOK, SlotsInv, DriveInv
  <1>6. DriveInv'
    BY DriveAssumption DEF IInv, TypeOK, RegistersOK, KernelOK, SlotsInv, DriveInv
  <1>7. ReadInv'
    BY DriveAssumption DEF IInv, TypeOK, RegistersOK, KernelOK, SlotsInv, DriveInv, ReadInv, Holds
  <1>8. SuccessIsTheSectors'
    BY DEF IInv, ReadInv, SuccessIsTheSectors
  <1>9. ReadFailsForAReason'
    BY DEF IInv, SlotsInv, DriveInv, ReadInv, ReadFailsForAReason, Free, cmdslots
  <1>. QED
    BY <1>1, <1>2, <1>3, <1>4, <1>5, <1>6, <1>7, <1>8, <1>9 DEF IInv, TypeOK

LEMMA Step_ReadError ==
  ASSUME IInv, ReadError
  PROVE  IInv'
  <1>. USE DEF ReadError, registers, inside, kernel, Returns
  <1>1. FlagsOK'
    BY DEF IInv, TypeOK, FlagsOK
  <1>2. RegistersOK'
    BY DEF IInv, TypeOK, RegistersOK
  <1>3. MemoryOK'
    BY DriveAssumption DEF IInv, TypeOK, MemoryOK
  <1>4. KernelOK'
    BY DriveAssumption DEF IInv, TypeOK, KernelOK
  <1>5. SlotsInv'
    BY DEF IInv, SlotsInv, DriveInv, ReadInv
  <1>6. DriveInv'
    BY DriveAssumption DEF IInv, TypeOK, RegistersOK, KernelOK, SlotsInv, DriveInv
  <1>7. ReadInv'
    BY DriveAssumption DEF IInv, TypeOK, RegistersOK, KernelOK, SlotsInv, DriveInv, ReadInv, Holds
  <1>8. SuccessIsTheSectors'
    BY DEF IInv, ReadInv, SuccessIsTheSectors
  <1>9. ReadFailsForAReason'
    BY DEF IInv, SlotsInv, DriveInv, ReadInv, ReadFailsForAReason, Free, cmdslots
  <1>. QED
    BY <1>1, <1>2, <1>3, <1>4, <1>5, <1>6, <1>7, <1>8, <1>9 DEF IInv, TypeOK

LEMMA Step_NextChunk ==
  ASSUME IInv, NextChunk
  PROVE  IInv'
  <1>. USE DEF NextChunk, registers, inside, kernel
  <1>. DEFINE w == Wanted(call, i)
  <1>01. /\ call \in Calls /\ i \in Nat /\ i < call.count /\ ~call.single /\ i + 1 # call.count
         /\ call.count \in Nat /\ call.sector \in Nat
    BY DriveAssumption DEF IInv, TypeOK, KernelOK, ReadInv, Last
  <1>02. w.lba = call.sector + i /\ w.count = 1 /\ w.at = i
    BY <1>01 DEF Wanted
  <1>03. slot \notin ci /\ Holds(i)
    BY DEF IInv, SlotsInv, ReadInv
  <1>04. buffer[i] = call.sector + i
    BY <1>01, <1>02, <1>03 DEF Holds
  <1>05. \A k \in 0 .. i - 1 : buffer[k] = call.sector + k
    BY DEF IInv, ReadInv
  <1>0. \A k \in 0 .. (i + 1) - 1 : buffer[k] = call.sector + k
    BY <1>01, <1>04, <1>05
  <1>1. FlagsOK'
    BY DEF IInv, TypeOK, FlagsOK
  <1>2. RegistersOK'
    BY DEF IInv, TypeOK, RegistersOK
  <1>3. MemoryOK'
    BY DriveAssumption DEF IInv, TypeOK, MemoryOK
  <1>4. KernelOK'
    BY DriveAssumption DEF IInv, TypeOK, KernelOK
  <1>5. SlotsInv'
    BY DriveAssumption DEF IInv, TypeOK, RegistersOK, KernelOK, SlotsInv, DriveInv
  <1>6. DriveInv'
    BY DriveAssumption DEF IInv, TypeOK, RegistersOK, KernelOK, SlotsInv, DriveInv
  <1>7. ReadInv'
    BY <1>0, <1>01 DEF IInv, SlotsInv, ReadInv
  <1>8. SuccessIsTheSectors'
    BY DEF IInv, ReadInv, SuccessIsTheSectors
  <1>9. ReadFailsForAReason'
    BY DEF IInv, SlotsInv, DriveInv, ReadInv, ReadFailsForAReason, Free, cmdslots
  <1>. QED
    BY <1>1, <1>2, <1>3, <1>4, <1>5, <1>6, <1>7, <1>8, <1>9 DEF IInv, TypeOK

LEMMA Step_ReadDone ==
  ASSUME IInv, ReadDone
  PROVE  IInv'
  <1>. USE DEF ReadDone, registers, inside, kernel, Returns
  <1>. DEFINE w == Wanted(call, i)
  <1>01. /\ call \in Calls /\ i \in Nat /\ i < call.count /\ (call.single => i = 0)
         /\ call.single \/ i + 1 = call.count
         /\ call.count \in Nat /\ call.sector \in Nat
    BY DriveAssumption DEF IInv, TypeOK, KernelOK, ReadInv, Last
  <1>02. \A k \in 0 .. w.count - 1 : buffer[w.at + k] = w.lba + k
    BY DEF IInv, SlotsInv, ReadInv, Holds
  <1>03. \A k \in 0 .. i - 1 : buffer[k] = call.sector + k
    BY DEF IInv, ReadInv
  <1>0. \A k \in 0 .. call.count - 1 : buffer[k] = call.sector + k
    <2>1. CASE call.single
      <3>1. w.lba = call.sector /\ w.count = call.count /\ w.at = 0
        BY <2>1 DEF Wanted
      <3>. QED
        BY <1>01, <1>02, <3>1
    <2>2. CASE ~call.single
      <3>1. w.lba = call.sector + i /\ w.count = 1 /\ w.at = i
        BY <2>2 DEF Wanted
      <3>2. buffer[i + 0] = (call.sector + i) + 0
        BY <1>02, <3>1
      <3>. QED
        BY <1>01, <1>03, <2>2, <3>2
    <2>. QED
      BY <2>1, <2>2
  <1>1. FlagsOK'
    BY DEF IInv, TypeOK, FlagsOK
  <1>2. RegistersOK'
    BY DEF IInv, TypeOK, RegistersOK
  <1>3. MemoryOK'
    BY DriveAssumption DEF IInv, TypeOK, MemoryOK
  <1>4. KernelOK'
    BY DriveAssumption DEF IInv, TypeOK, KernelOK
  <1>5. SlotsInv'
    BY DriveAssumption DEF IInv, TypeOK, RegistersOK, KernelOK, SlotsInv, DriveInv
  <1>6. DriveInv'
    BY DriveAssumption DEF IInv, TypeOK, RegistersOK, KernelOK, SlotsInv, DriveInv
  <1>7. ReadInv'
    BY DriveAssumption DEF IInv, TypeOK, RegistersOK, KernelOK, SlotsInv, DriveInv, ReadInv, Holds
  <1>8. SuccessIsTheSectors'
    BY <1>0 DEF SuccessIsTheSectors
  <1>9. ReadFailsForAReason'
    BY DEF IInv, SlotsInv, DriveInv, ReadInv, ReadFailsForAReason, Free, cmdslots
  <1>. QED
    BY <1>1, <1>2, <1>3, <1>4, <1>5, <1>6, <1>7, <1>8, <1>9 DEF IInv, TypeOK

LEMMA Step_EnginesFollow ==
  ASSUME IInv, EnginesFollow
  PROVE  IInv'
  <1>. USE DEF EnginesFollow, registers, inside, kernel
  <1>1. FlagsOK'
    BY DEF IInv, TypeOK, FlagsOK
  <1>2. RegistersOK'
    BY DEF IInv, TypeOK, RegistersOK
  <1>3. MemoryOK'
    BY DriveAssumption DEF IInv, TypeOK, MemoryOK
  <1>4. KernelOK'
    BY DriveAssumption DEF IInv, TypeOK, KernelOK
  <1>5. SlotsInv'
    <2>1. UNCHANGED <<cap, ci, executing, halted, header, pc, slot, call, i>>
      BY Zenon
    <2>. QED
      BY <2>1 DEF IInv, SlotsInv, Wanted
  <1>6. DriveInv'
    BY DriveAssumption DEF IInv, TypeOK, RegistersOK, KernelOK, SlotsInv, DriveInv
  <1>7. ReadInv'
    BY DriveAssumption DEF IInv, TypeOK, RegistersOK, KernelOK, SlotsInv, DriveInv, ReadInv, Holds
  <1>8. SuccessIsTheSectors'
    BY DEF IInv, ReadInv, SuccessIsTheSectors
  <1>9. ReadFailsForAReason'
    BY DEF IInv, SlotsInv, DriveInv, ReadInv, ReadFailsForAReason, Free, cmdslots
  <1>. QED
    BY <1>1, <1>2, <1>3, <1>4, <1>5, <1>6, <1>7, <1>8, <1>9 DEF IInv, TypeOK

LEMMA Step_BecomesReady ==
  ASSUME IInv, BecomesReady
  PROVE  IInv'
  <1>. USE DEF BecomesReady, registers, inside, kernel
  <1>1. FlagsOK'
    BY DEF IInv, TypeOK, FlagsOK
  <1>2. RegistersOK'
    BY DEF IInv, TypeOK, RegistersOK
  <1>3. MemoryOK'
    BY DriveAssumption DEF IInv, TypeOK, MemoryOK
  <1>4. KernelOK'
    BY DriveAssumption DEF IInv, TypeOK, KernelOK
  <1>5. SlotsInv'
    BY DriveAssumption DEF IInv, TypeOK, RegistersOK, KernelOK, SlotsInv, DriveInv
  <1>6. DriveInv'
    BY DriveAssumption DEF IInv, TypeOK, RegistersOK, KernelOK, SlotsInv, DriveInv
  <1>7. ReadInv'
    BY DriveAssumption DEF IInv, TypeOK, RegistersOK, KernelOK, SlotsInv, DriveInv, ReadInv, Holds
  <1>8. SuccessIsTheSectors'
    BY DEF IInv, ReadInv, SuccessIsTheSectors
  <1>9. ReadFailsForAReason'
    BY DEF IInv, SlotsInv, DriveInv, ReadInv, ReadFailsForAReason, Free, cmdslots
  <1>. QED
    BY <1>1, <1>2, <1>3, <1>4, <1>5, <1>6, <1>7, <1>8, <1>9 DEF IInv, TypeOK

LEMMA Step_Fetches ==
  ASSUME IInv, NEW s \in Slots, Fetches(s)
  PROVE  IInv'
  <1>. USE DEF Fetches, registers, inside, kernel
  <1>0. pc \in Polling /\ s = slot /\ ~tfes /\ Wanted(call, i).count >= 0
    <2>1. pc \in Polling /\ s = slot
      BY DEF IInv, SlotsInv
    <2>2. ~tfes
      BY <2>1 DEF IInv, ReadInv
    <2>3. Wanted(call, i).count \in 1 .. PrdtSectors
      BY <2>1, CommandNow
    <2>. QED
      BY <2>1, <2>2, <2>3, DriveAssumption
  <1>1. FlagsOK'
    BY DEF IInv, TypeOK, FlagsOK
  <1>2. RegistersOK'
    BY DEF IInv, TypeOK, RegistersOK
  <1>3. MemoryOK'
    BY DriveAssumption DEF IInv, TypeOK, MemoryOK
  <1>4. KernelOK'
    BY DriveAssumption DEF IInv, TypeOK, KernelOK
  <1>5. SlotsInv'
    BY DriveAssumption DEF IInv, TypeOK, RegistersOK, KernelOK, SlotsInv, DriveInv
  <1>6. DriveInv'
    BY <1>0 DEF DriveInv, Wanted
  <1>7. ReadInv'
    BY DriveAssumption DEF IInv, TypeOK, RegistersOK, KernelOK, SlotsInv, DriveInv, ReadInv, Holds
  <1>8. SuccessIsTheSectors'
    BY DEF IInv, ReadInv, SuccessIsTheSectors
  <1>9. ReadFailsForAReason'
    BY DEF IInv, SlotsInv, DriveInv, ReadInv, ReadFailsForAReason, Free, cmdslots
  <1>. QED
    BY <1>1, <1>2, <1>3, <1>4, <1>5, <1>6, <1>7, <1>8, <1>9 DEF IInv, TypeOK

LEMMA Step_Moves ==
  ASSUME IInv, Moves
  PROVE  IInv'
  <1>. USE DEF Moves, registers, inside, kernel
  <1>. DEFINE w == Wanted(call, i)
  <1>01. pc \in Polling /\ executing = slot /\ ~tfes /\ slot \in ci /\ header[slot] = w
    BY DEF IInv, TypeOK, RegistersOK, SlotsInv, DriveInv
  <1>02. /\ call \in Calls /\ i \in Nat /\ w \in Command
         /\ w.at + w.count <= BufferSectors
    BY <1>01, CommandNow
  <1>03. /\ w.lba \in Nat /\ w.at \in Nat /\ w.count \in Nat /\ moved \in Nat /\ moved < w.count
         /\ BufferSectors \in Nat
    BY <1>01, <1>02, DriveAssumption DEF Command, IInv, TypeOK, RegistersOK
  <1>04. /\ buffer' = [buffer EXCEPT ![w.at + moved] = w.lba + moved]
         /\ buffer \in [0 .. BufferSectors - 1 -> Nat \cup {Stale}]
         /\ w.at + moved \in 0 .. BufferSectors - 1
    BY <1>01, <1>02, <1>03 DEF IInv, TypeOK, MemoryOK
  <1>05. \A k \in 0 .. BufferSectors - 1 : k # w.at + moved => buffer'[k] = buffer[k]
    BY <1>04
  <1>06. buffer'[w.at + moved] = w.lba + moved
    BY <1>04
  <1>07. \A k \in 0 .. moved - 1 : buffer[w.at + k] = w.lba + k
    BY <1>01 DEF IInv, DriveInv
  <1>08. \A k \in 0 .. (moved + 1) - 1 : buffer'[w.at + k] = w.lba + k
    <2>. SUFFICES ASSUME NEW k \in 0 .. moved
                  PROVE  buffer'[w.at + k] = w.lba + k
      BY <1>03
    <2>1. CASE k = moved
      BY <2>1, <1>06
    <2>2. CASE k # moved
      <3>1. k \in 0 .. moved - 1 /\ w.at + k \in 0 .. BufferSectors - 1 /\ w.at + k # w.at + moved
        BY <2>2, <1>02, <1>03
      <3>. QED
        BY <3>1, <1>05, <1>07
    <2>. QED
      BY <2>1, <2>2
  <1>09. Wanted(call, i)' = w
    BY DEF Wanted
  <1>1. FlagsOK'
    BY DEF IInv, TypeOK, FlagsOK
  <1>2. RegistersOK'
    BY DEF IInv, TypeOK, RegistersOK
  <1>3. MemoryOK'
    <2>1. w.lba + moved \in Nat
      BY <1>03
    <2>2. buffer' \in [0 .. BufferSectors - 1 -> Nat \cup {Stale}]
      BY <2>1, <1>04
    <2>3. header' = header
      OBVIOUS
    <2>. QED
      BY <2>2, <2>3 DEF IInv, TypeOK, MemoryOK
  <1>4. KernelOK'
    BY DriveAssumption DEF IInv, TypeOK, KernelOK
  <1>5. SlotsInv'
    BY DriveAssumption DEF IInv, TypeOK, RegistersOK, KernelOK, SlotsInv, DriveInv
  <1>6. DriveInv'
    <2>1. moved' = moved + 1 /\ moved + 1 <= w.count /\ UNCHANGED <<pc, executing, slot, tfes, call, i>>
      BY <1>03
    <2>. QED
      BY <2>1, <1>01, <1>03, <1>08, <1>09 DEF DriveInv
  <1>7. ReadInv'
    <2>1. UNCHANGED <<pc, call, i, tfes, fault, slot, ci, halted, answer>>
      BY Zenon
    <2>2. \A k \in 0 .. i - 1 : buffer'[k] = buffer[k]
      <3>1. CASE call.single
        BY <3>1, <1>01, <1>02 DEF IInv, ReadInv
      <3>2. CASE ~call.single
        <4>1. w.at = i /\ w.count = 1
          BY <3>2 DEF Wanted
        <4>. QED
          BY <4>1, <1>02, <1>03, <1>05
      <3>. QED
        BY <3>1, <3>2
    <2>. QED
      BY <2>1, <2>2, <1>01 DEF IInv, ReadInv
  <1>8. SuccessIsTheSectors'
    BY DEF IInv, ReadInv, SuccessIsTheSectors
  <1>9. ReadFailsForAReason'
    BY DEF IInv, SlotsInv, DriveInv, ReadInv, ReadFailsForAReason, Free, cmdslots
  <1>. QED
    BY <1>1, <1>2, <1>3, <1>4, <1>5, <1>6, <1>7, <1>8, <1>9 DEF IInv, TypeOK

LEMMA Step_Completes ==
  ASSUME IInv, Completes
  PROVE  IInv'
  <1>. USE DEF Completes, registers, inside, kernel
  <1>1. FlagsOK'
    BY DEF IInv, TypeOK, FlagsOK
  <1>2. RegistersOK'
    BY DEF IInv, TypeOK, RegistersOK
  <1>3. MemoryOK'
    BY DriveAssumption DEF IInv, TypeOK, MemoryOK
  <1>4. KernelOK'
    BY DriveAssumption DEF IInv, TypeOK, KernelOK
  <1>5. SlotsInv'
    BY DriveAssumption DEF IInv, TypeOK, RegistersOK, KernelOK, SlotsInv, DriveInv
  <1>6. DriveInv'
    BY DriveAssumption DEF IInv, TypeOK, RegistersOK, KernelOK, SlotsInv, DriveInv
  <1>7. ReadInv'
    BY DriveAssumption DEF IInv, TypeOK, RegistersOK, KernelOK, SlotsInv, DriveInv, ReadInv, Holds
  <1>8. SuccessIsTheSectors'
    BY DEF IInv, ReadInv, SuccessIsTheSectors
  <1>9. ReadFailsForAReason'
    BY DEF IInv, SlotsInv, DriveInv, ReadInv, ReadFailsForAReason, Free, cmdslots
  <1>. QED
    BY <1>1, <1>2, <1>3, <1>4, <1>5, <1>6, <1>7, <1>8, <1>9 DEF IInv, TypeOK

LEMMA Step_Fails ==
  ASSUME IInv, Fails
  PROVE  IInv'
  <1>. USE DEF Fails, registers, inside, kernel
  <1>1. FlagsOK'
    BY DEF IInv, TypeOK, FlagsOK
  <1>2. RegistersOK'
    BY DEF IInv, TypeOK, RegistersOK
  <1>3. MemoryOK'
    BY DriveAssumption DEF IInv, TypeOK, MemoryOK
  <1>4. KernelOK'
    BY DriveAssumption DEF IInv, TypeOK, KernelOK
  <1>5. SlotsInv'
    BY DriveAssumption DEF IInv, TypeOK, RegistersOK, KernelOK, SlotsInv, DriveInv
  <1>6. DriveInv'
    BY DriveAssumption DEF IInv, TypeOK, RegistersOK, KernelOK, SlotsInv, DriveInv
  <1>7. ReadInv'
    BY DriveAssumption DEF IInv, TypeOK, RegistersOK, KernelOK, SlotsInv, DriveInv, ReadInv, Holds
  <1>8. SuccessIsTheSectors'
    BY DEF IInv, ReadInv, SuccessIsTheSectors
  <1>9. ReadFailsForAReason'
    BY DEF IInv, SlotsInv, DriveInv, ReadInv, ReadFailsForAReason, Free, cmdslots
  <1>. QED
    BY <1>1, <1>2, <1>3, <1>4, <1>5, <1>6, <1>7, <1>8, <1>9 DEF IInv, TypeOK

LEMMA InitInvariant ==
  ASSUME Init
  PROVE  IInv
  <1>. USE DEF Init
  <1>1. NoCommand \in Command
    BY DEF NoCommand, Command
  <1>2. FlagsOK /\ RegistersOK /\ MemoryOK /\ KernelOK
    <2>1. FlagsOK
      BY DEF FlagsOK
    <2>2. RegistersOK /\ MemoryOK
      BY <1>1, DriveAssumption DEF RegistersOK, MemoryOK
    <2>3. KernelOK
      BY DriveAssumption DEF KernelOK, NoAnswer
    <2>. QED
      BY <2>1, <2>2, <2>3
  <1>3. SlotsInv /\ DriveInv /\ ReadInv
    BY DEF SlotsInv, DriveInv, ReadInv, NoAnswer
  <1>4. SuccessIsTheSectors /\ ReadFailsForAReason
    BY DEF SuccessIsTheSectors, ReadFailsForAReason, NoAnswer
  <1>. QED
    BY <1>2, <1>3, <1>4 DEF IInv, TypeOK

LEMMA StutterInvariant ==
  ASSUME IInv, UNCHANGED vars
  PROVE  IInv'
  <1>. USE DEF vars, registers, inside, kernel
  <1>1. TypeOK'
    BY DEF IInv, TypeOK, FlagsOK, RegistersOK, MemoryOK, KernelOK
  <1>2. SlotsInv' /\ DriveInv'
    BY DEF IInv, SlotsInv, DriveInv, Wanted
  <1>3. ReadInv'
    BY DEF IInv, ReadInv, Holds, Wanted
  <1>4. SuccessIsTheSectors' /\ ReadFailsForAReason'
    BY DEF IInv, SuccessIsTheSectors, ReadFailsForAReason, cmdslots
  <1>. QED
    BY <1>1, <1>2, <1>3, <1>4 DEF IInv

LEMMA NextInvariant ==
  ASSUME IInv, [Next]_vars
  PROVE  IInv'
  <1>1. ASSUME Kernel PROVE IInv'
    BY <1>1, Step_stop_cmd, Step_port_rebase, Step_start_cmd, Step_ClearsErrors,
       Step_find_cmdslot, Step_NoSlot, Step_Builds, Step_Spins, Step_Hung, Step_Ready,
       Step_Issues, Step_Waits, Step_LooksAgain, Step_ReadError, Step_NextChunk,
       Step_ReadDone DEF Kernel
  <1>2. ASSUME NEW c \in Calls, Reads(c) PROVE IInv'
    BY <1>2, Step_Reads
  <1>3. ASSUME Works PROVE IInv'
    BY <1>3, Step_EnginesFollow, Step_BecomesReady, Step_Fetches, Step_Moves,
       Step_Completes DEF Works
  <1>. QED
    BY <1>1, <1>2, <1>3, Step_Fails, StutterInvariant DEF Next

\* The inductive invariant holds in every state.
THEOREM Invariant == Spec => []IInv
  BY InitInvariant, NextInvariant, PTL DEF Spec

\* The variables of the drive and of the kernel keep their types; the spin counter its
\* limit, and the commands the buffer's bounds.
THEOREM TypeCorrect == Spec => []TypeOK
  <1>1. IInv => TypeOK
    BY DEF IInv
  <1>. QED
    BY <1>1, Invariant, PTL

\* A read that reports success returns the sectors it was asked for.
THEOREM SuccessReturnsTheSectors == Spec => []SuccessIsTheSectors
  <1>1. IInv => SuccessIsTheSectors
    BY DEF IInv
  <1>. QED
    BY <1>1, Invariant, PTL

\* A read fails only for an error of its own, a busy port or a list with no free slot.
THEOREM FailuresHaveReasons == Spec => []ReadFailsForAReason
  <1>1. IInv => ReadFailsForAReason
    BY DEF IInv
  <1>. QED
    BY <1>1, Invariant, PTL

\* Of all steps only two write to the list of commands.
LEMMA WhoWritesTheList ==
  ASSUME [Next]_vars, ~port_rebase, ~Builds
  PROVE  UNCHANGED <<header, clb>>
  <1>. USE DEF registers, inside, kernel, vars, Returns
  <1>1. ASSUME Kernel PROVE UNCHANGED <<header, clb>>
    BY <1>1 DEF Kernel, stop_cmd, start_cmd, ClearsErrors, find_cmdslot, NoSlot, Spins,
       Hung, Ready, Issues, Waits, LooksAgain, ReadError, NextChunk, ReadDone
  <1>2. ASSUME NEW c \in Calls, Reads(c) PROVE UNCHANGED <<header, clb>>
    BY <1>2 DEF Reads
  <1>3. ASSUME Works PROVE UNCHANGED <<header, clb>>
    BY <1>3 DEF Works, EnginesFollow, BecomesReady, Fetches, Moves, Completes
  <1>4. ASSUME Fails PROVE UNCHANGED <<header, clb>>
    BY <1>4 DEF Fails
  <1>. QED
    BY <1>1, <1>2, <1>3, <1>4 DEF Next

\* The kernel never writes over a command the drive was handed and has not given back.
THEOREM CommandsStay == Spec => HandedCommandsStay
  <1>. DEFINE A == \A s \in ci : header'[s] = header[s]
  <1>1. ASSUME IInv, [Next]_vars PROVE A \/ UNCHANGED vars
    <2>1. CASE port_rebase
      BY <1>1, <2>1 DEF port_rebase, IInv, SlotsInv
    <2>2. CASE Builds
      <3>1. slot \notin ci /\ ci \subseteq Slots /\ header \in [Slots -> Command]
        BY <1>1, <2>2, DriveAssumption
           DEF Builds, IInv, TypeOK, RegistersOK, MemoryOK, SlotsInv
      <3>. QED
        BY <2>2, <3>1 DEF Builds
    <2>3. CASE ~port_rebase /\ ~Builds
      BY <1>1, <2>3, WhoWritesTheList
    <2>. QED
      BY <2>1, <2>2, <2>3
  <1>. QED
    BY <1>1, Invariant, PTL DEF Spec, HandedCommandsStay

\* The list is exchanged only while neither engine runs.
THEOREM ListIsExchangedAtRest == Spec => ListChangesAtRest
  <1>. DEFINE A == clb' # clb => ~cr /\ ~fr /\ executing = None
  <1>1. ASSUME IInv, [Next]_vars PROVE A \/ UNCHANGED vars
    <2>1. CASE port_rebase
      BY <1>1, <2>1 DEF port_rebase, IInv, SlotsInv
    <2>2. CASE Builds
      BY <2>2 DEF Builds, registers
    <2>3. CASE ~port_rebase /\ ~Builds
      BY <1>1, <2>3, WhoWritesTheList
    <2>. QED
      BY <2>1, <2>2, <2>3
  <1>. QED
    BY <1>1, Invariant, PTL DEF Spec, ListChangesAtRest

-----------------------------------------------------------------------------
\* The polling.

\* Once port_rebase is through, nobody turns the engines off or exchanges the list.
LEMMA PortStays ==
  ASSUME IInv, PortInv, [Next]_vars
  PROVE  PortInv'
  <1>. USE DEF PortInv, Early, vars, registers, inside, kernel, Returns, Goes
  <1>1. ASSUME Kernel PROVE PortInv'
    <2>1. CASE stop_cmd \/ port_rebase \/ start_cmd
      BY <2>1 DEF stop_cmd, port_rebase, start_cmd
    <2>2. CASE ClearsErrors \/ find_cmdslot \/ NoSlot \/ Builds
      BY <2>2 DEF ClearsErrors, find_cmdslot, NoSlot, Builds
    <2>3. CASE Spins \/ Hung \/ Ready \/ Issues
      BY <2>3 DEF Spins, SpinEnds, Hung, Ready, Issues
    <2>4. CASE Waits \/ LooksAgain \/ ReadError \/ NextChunk \/ ReadDone
      BY <2>4 DEF Waits, LooksAgain, ReadError, NextChunk, ReadDone
    <2>. QED
      BY <1>1, <2>1, <2>2, <2>3, <2>4 DEF Kernel
  <1>2. ASSUME NEW c \in Calls, Reads(c) PROVE PortInv'
    BY <1>2 DEF Reads
  <1>3. ASSUME Works PROVE PortInv'
    BY <1>3 DEF Works, EnginesFollow, BecomesReady, Fetches, Moves, Completes
  <1>4. ASSUME Fails PROVE PortInv'
    BY <1>4 DEF Fails
  <1>. QED
    BY <1>1, <1>2, <1>3, <1>4 DEF Next

THEOREM PortInvariant == Spec => []PortInv
  <1>1. Init => PortInv
    BY DEF Init, PortInv, Early
  <1>. QED
    BY <1>1, PortStays, Invariant, PTL DEF Spec

\* Whenever read_ahci polls for a command and the drive did not stop, the drive is able to
\* get on with that very command: the poll without a limit is not a deadlock (ahci.c:619-632).
THEOREM PollIsNeverInVain == Spec => []PollIsServed
  <1>1. ASSUME IInv, PortInv PROVE PollIsServed
    <2>. SUFFICES ASSUME pc \in {"wait", "look"}, slot \in ci, ~halted
                  PROVE  /\ st /\ clb = "kernel" /\ header[slot].count > 0
                         /\ executing \in {None, slot}
      BY DEF PollIsServed
    <2>1. st /\ clb = "kernel"
      BY <1>1 DEF PortInv, Early
    <2>2. header[slot] = Wanted(call, i)
      BY <1>1 DEF IInv, SlotsInv, Polling
    <2>3. Wanted(call, i).count \in 1 .. PrdtSectors
      BY <1>1, CommandNow DEF Early
    <2>4. executing \in {None, slot}
      BY <1>1 DEF IInv, DriveInv
    <2>. QED
      BY <2>1, <2>2, <2>3, <2>4, DriveAssumption
  <1>. QED
    BY <1>1, Invariant, PortInvariant, PTL

\* A step of the drive while the kernel polls for its command.
LEMMA WorkGetsDone ==
  ASSUME IInv, Works, pc \in Polling, slot \in ci, slot \in ci', ~halted
  PROVE  WorkLeft' \in 0 .. WorkLeft - 1
  <1>1. /\ header[slot].count \in Nat /\ moved \in Nat /\ slot \in Nat
        /\ executing # None => executing = slot /\ moved <= header[slot].count
        /\ \A s \in ci : s = slot
    <2>1. header[slot] = Wanted(call, i)
      BY DEF IInv, SlotsInv
    <2>2. Wanted(call, i).count \in Nat
      BY CommandNow, DriveAssumption DEF Early, Polling
    <2>3. moved \in Nat /\ slot \in Nat
      BY DriveAssumption DEF IInv, TypeOK, RegistersOK, KernelOK, Slots
    <2>4. executing # None => executing = slot /\ moved <= Wanted(call, i).count
      BY DEF IInv, DriveInv
    <2>5. \A s \in ci : s = slot
      BY DEF IInv, SlotsInv
    <2>. QED
      BY <2>1, <2>2, <2>3, <2>4, <2>5
  <1>2. slot # None
    BY <1>1 DEF None
  <1>. DEFINE n == header[slot].count
              e == One(cr # st) + One(fr # fre)
  <1>3. e \in Nat
    BY DEF One
  <1>4. UNCHANGED <<header, slot>>
    BY DEF Works, EnginesFollow, BecomesReady, Fetches, Moves, Completes, kernel, registers
  <1>5. WorkLeft = (IF executing = slot THEN n - moved ELSE n + 1) + e
                     + One(busy /\ executing = None)
    BY <1>1, <1>2 DEF WorkLeft, One
  <1>6. WorkLeft' = (IF executing' = slot THEN n - moved' ELSE n + 1) + One(cr' # st') + One(fr' # fre')
                     + One(busy' /\ executing' = None)
    BY <1>4 DEF WorkLeft, One
  <1>7. CASE EnginesFollow
    <2>1. /\ UNCHANGED <<executing, moved, busy>>
          /\ One(cr' # st') + One(fr' # fre') = e - 1
      BY <1>7 DEF EnginesFollow, One, inside, FlagsOK, IInv, TypeOK
    <2>. QED
      BY <1>1, <1>3, <1>5, <1>6, <2>1 DEF One
  <1>8. CASE BecomesReady
    BY <1>1, <1>2, <1>3, <1>5, <1>6, <1>8 DEF BecomesReady, One, inside
  <1>9. CASE \E s \in Slots : Fetches(s)
    <2>1. /\ executing = None /\ executing' = slot /\ moved' = 0
          /\ UNCHANGED <<cr, st, fr, fre>>
      BY <1>1, <1>9 DEF Fetches
    <2>2. WorkLeft' = n + e /\ One(busy /\ executing = None) \in Nat
      BY <1>1, <1>2, <1>3, <1>6, <2>1 DEF One
    <2>3. WorkLeft = n + 1 + e + One(busy /\ executing = None)
      BY <1>2, <1>5, <2>1
    <2>. QED
      BY <1>1, <1>3, <2>2, <2>3
  <1>10. CASE Moves
    BY <1>1, <1>2, <1>3, <1>5, <1>6, <1>10 DEF Moves, One, registers
  <1>11. CASE Completes
    BY <1>1, <1>11 DEF Completes
  <1>. QED
    BY <1>7, <1>8, <1>9, <1>10, <1>11 DEF Works

\* No step of the drive is wasted while the kernel polls for a command: with fair turns
\* the poll ends after as many of them as WorkLeft says.
THEOREM PollingComesToAnEnd == Spec => PollEnds
  <1>. DEFINE A == (pc \in {"wait", "look"} /\ pc' \in {"wait", "look"} /\ slot \in ci /\ slot \in ci' /\ ~halted')
                     => UNCHANGED <<registers, inside, buffer>> \/ WorkLeft' \in 0 .. WorkLeft - 1
  <1>1. ASSUME IInv, [Next]_vars PROVE A \/ UNCHANGED vars
    <2>. SUFFICES ASSUME pc \in {"wait", "look"}, pc' \in {"wait", "look"}, slot \in ci, slot \in ci', ~halted'
                  PROVE  UNCHANGED <<registers, inside, buffer>> \/ WorkLeft' \in 0 .. WorkLeft - 1
      OBVIOUS
    <2>1. CASE Kernel
      BY <1>1, <2>1
         DEF Kernel, stop_cmd, port_rebase, start_cmd, ClearsErrors, find_cmdslot, NoSlot, Builds,
             Spins, SpinEnds, Hung, Ready, Issues, Waits, LooksAgain, ReadError, NextChunk,
             ReadDone, Returns, Goes
    <2>2. CASE \E c \in Calls : Reads(c)
      BY <2>2 DEF Reads, Goes
    <2>3. CASE Works
      <3>1. ~halted
        BY <2>3 DEF Works, EnginesFollow, BecomesReady, Fetches, Moves, Completes, inside
      <3>. QED
        BY <1>1, <2>3, <3>1, WorkGetsDone DEF Polling
    <2>4. CASE Fails
      <3>1. executing = slot
        BY <1>1, <2>4 DEF Fails, IInv, DriveInv, kernel
      <3>. QED
        BY <2>4, <3>1 DEF Fails, kernel
    <2>5. CASE UNCHANGED vars
      BY <2>5 DEF vars
    <2>. QED
      BY <1>1, <2>1, <2>2, <2>3, <2>4, <2>5 DEF Next
  <1>. QED
    BY <1>1, Invariant, PTL DEF Spec, PollEnds

-----------------------------------------------------------------------------
\* The refinement.

question == IF pc \in {"stop", "stopping", "starting", "idle"}
            THEN [sector |-> 0, count |-> 0]
            ELSE [sector |-> call.sector, count |-> call.count]

reply == [ok |-> answer.ok, data |-> answer.data]

\* A step that neither begins nor ends a read shows nothing to the file system.
LEMMA SilentStep ==
  ASSUME UNCHANGED <<call, answer>>,
         pc' \in {"stop", "stopping", "starting", "idle"}
           <=> pc \in {"stop", "stopping", "starting", "idle"}
  PROVE  UNCHANGED Abstract!vars
  BY DEF Abstract!vars

\* While a read runs there is a question, and it is for at least one sector.
LEMMA Asked ==
  ASSUME IInv, pc \notin Early \cup {"idle"}
  PROVE  question = [sector |-> call.sector, count |-> call.count]
         /\ question # [sector |-> 0, count |-> 0]
  <1>1. call \in Calls
    BY DEF IInv, ReadInv
  <1>2. call.count >= 1
    BY <1>1, DriveAssumption
  <1>. QED
    BY <1>2 DEF question

LEMMA FailureAnswers ==
  ASSUME IInv, pc \notin Early \cup {"idle"}, NEW why, Returns(FALSE, why)
  PROVE  Abstract!Fail
  <1>1. question # [sector |-> 0, count |-> 0]
    BY Asked
  <1>2. pc' = "idle" /\ answer'.ok = FALSE /\ answer'.data = <<>>
    BY DEF Returns
  <1>. QED
    BY <1>1, <1>2 DEF question, Abstract!Fail, Abstract!NoCall, Abstract!NoAnswer

LEMMA SuccessAnswers ==
  ASSUME IInv, IInv', pc \notin Early \cup {"idle"}, Returns(TRUE, "none")
  PROVE  Abstract!Succeed
  <1>1. question # [sector |-> 0, count |-> 0]
    BY Asked
  <1>2. pc' = "idle" /\ answer'.ok = TRUE /\ call' = call
    BY DEF Returns
  <1>3. answer'.data = [k \in 0 .. call.count - 1 |-> call.sector + k]
    BY <1>2 DEF IInv, SuccessIsTheSectors
  <1>. QED
    BY <1>1, <1>2, <1>3 DEF question, Abstract!Succeed, Abstract!NoCall, Abstract!Sectors

LEMMA QuestionAsked ==
  ASSUME NEW c \in Calls, Reads(c)
  PROVE  Abstract!Next
  <1>. DEFINE q == [sector |-> c.sector, count |-> c.count]
  <1>1. Abstract!Ask(q)
    BY DEF Reads, Abstract!Ask, Abstract!NoCall, Abstract!NoAnswer, NoAnswer
  <1>. QED
    BY <1>1 DEF Abstract!Next

LEMMA KernelImplements ==
  ASSUME IInv, IInv', Kernel
  PROVE  [Abstract!Next]_(Abstract!vars)
  <1>1. ASSUME NoSlot \/ Hung \/ ReadError PROVE Abstract!Fail
    BY <1>1, FailureAnswers DEF NoSlot, Hung, SpinEnds, ReadError
  <1>2. ASSUME ReadDone PROVE Abstract!Succeed
    BY <1>2, SuccessAnswers DEF ReadDone
  <1>3. ASSUME ~(NoSlot \/ Hung \/ ReadError \/ ReadDone) PROVE UNCHANGED Abstract!vars
    BY <1>3, SilentStep DEF Kernel, stop_cmd, port_rebase, start_cmd, ClearsErrors,
       find_cmdslot, Builds, Spins, SpinEnds, Ready, Issues, Waits, LooksAgain, NextChunk
  <1>. QED
    BY <1>1, <1>2, <1>3 DEF Abstract!Next

LEMMA DriveIsSilent ==
  ASSUME Works \/ Fails \/ UNCHANGED vars
  PROVE  UNCHANGED Abstract!vars
  <1>1. UNCHANGED <<call, answer, pc>>
    BY DEF Works, Fails, EnginesFollow, BecomesReady, Fetches, Moves, Completes, vars, kernel
  <1>. QED
    BY <1>1, SilentStep

\* The commands, slots and polls implement reads of sectors, whatever the drive does.
THEOREM Refinement == Spec => ImplementsSectorReads
  <1>1. Init => Abstract!Init
    BY DEF Init, NoAnswer, Abstract!Init, Abstract!NoCall, Abstract!NoAnswer
  <1>2. ASSUME IInv, IInv', [Next]_vars PROVE [Abstract!Next]_(Abstract!vars)
    BY <1>2, KernelImplements, QuestionAsked, DriveIsSilent DEF Next
  <1>. QED
    BY <1>1, <1>2, Invariant, PTL DEF Spec, ImplementsSectorReads, Abstract!Spec
=============================================================================
