------------------------------- MODULE HeapIrq -------------------------------
(***************************************************************************)
(* The heap of module Heap when an interrupt falls into one of its calls.  *)
(* keyboard_interrupt_handler allocates a keyboard_event and a subject     *)
(* name, notifies, and frees both, all between two instructions of the     *)
(* code it interrupts; liballoc_lock says whether the heap was locked      *)
(* already, and none of its callers looks at the answer.                   *)
(*                                                                         *)
(* One window of kmalloc is modelled: a new major is in the list and       *)
(* nothing is in it yet (kmalloc.c:299-310). The other calls of the        *)
(* interrupted code are whole.                                             *)
(***************************************************************************)
EXTENDS Heap

CONSTANTS EventSize, NameSize  \* sizeof(keyboard_event), the 25 of the subject name

VARIABLES
  locked,       \* liballoc_is_locked
  call,         \* the interrupted kmalloc: its new major, 0 if none, and request
  stage,        \* calls the interrupt handler has made, 0 outside of it
  held          \* what the handler has allocated, the last first

allVars == <<vars, locked, call, stage, held>>

NoCall == [major |-> None, req |-> 0]

IrqInit == Init /\ locked = FALSE /\ call = NoCall /\ stage = 0 /\ held = <<>>

\* The first block is page_fault_mem, allocated before the keyboard's interrupt is
\* unmasked and never freed.
Permanent(m, b) == m = 1 /\ b.at = MajHdr
InterruptsOn == \E m \in Majors : \E b \in minors[m] : Permanent(m, b)

-----------------------------------------------------------------------------
\* The interrupted code.

\* kmalloc up to the point where its new major is linked and empty.
KernelGrows(req) ==
  LET path == Path(Need(req))
      new == made + 1
      considered == order = <<>> \/ FreeIn(order[Len(order)]) >= Need(req)
  IN
  /\ \A k \in DOMAIN path : ~HasRoom(path[k], Need(req))
  /\ made < MaxMajors
  /\ \E st \in 1 .. MaxPages :
       /\ PagesFor(st, req)
       /\ msize' = [msize EXCEPT ![new] = st * PageSize]
       /\ usage' = [usage EXCEPT ![new] = MajHdr]
       /\ allocated' = allocated + st * PageSize
       /\ taken' = taken + st * PageSize
       /\ bestBet' = BestOf(IF considered THEN Append(path, new) ELSE path,
                            [m \in Majors |-> IF m = new THEN st * PageSize - MajHdr
                                                         ELSE FreeIn(m)])
  /\ order' = Append(order, new)
  /\ made' = new
  /\ call' = [major |-> new, req |-> req]
  /\ locked' = TRUE
  /\ UNCHANGED <<minors, inuse, moving, stage, held>>

\* CASE 2: the block goes to the front of the major.
KernelPlaces ==
  /\ call # NoCall
  /\ Place(call.major, MajHdr, call.req)
  /\ usage' = [usage EXCEPT ![call.major] = @ + Need(call.req)]
  /\ call' = NoCall
  /\ locked' = FALSE
  /\ UNCHANGED <<order, made, msize, bestBet, allocated, taken, moving, stage, held>>

\* Calls in which no interrupt falls; each ends with liballoc_unlock.
KernelWhole ==
  /\ call = NoCall
  /\ \/ \E req \in Requests : KmallocFinds(req)
     \/ \E m \in Majors : \E b \in minors[m] : ~Permanent(m, b) /\ KfreeBlock(m, b)
  /\ locked' = FALSE
  /\ UNCHANGED <<moving, call, stage, held>>

Kernel ==
  /\ stage = 0
  /\ KernelWhole \/ KernelPlaces \/ (call = NoCall /\ \E req \in Requests : KernelGrows(req))

-----------------------------------------------------------------------------
\* keyboard_interrupt_handler, as far as it uses the heap.

IrqKmalloc(n, req) ==
  /\ InterruptsOn
  /\ stage = n /\ stage' = n + 1
  /\ KmallocFinds(req) \/ KmallocGrows(req)
  /\ \E m \in Majors : \E b \in minors'[m] \ minors[m] : held' = <<<<m, b>>>> \o held
  /\ locked' = FALSE
  /\ UNCHANGED <<moving, call>>

IrqKfree(n, next) ==
  /\ stage = n /\ stage' = next
  /\ KfreeBlock(held[1][1], held[1][2])
  /\ held' = Tail(held)
  /\ locked' = FALSE
  /\ UNCHANGED <<moving, call>>

Irq ==
  \/ IrqKmalloc(0, EventSize) \/ IrqKmalloc(1, NameSize)
  \/ IrqKfree(2, 3) \/ IrqKfree(3, 0)

IrqNext == Kernel \/ Irq

IrqSpec == IrqInit /\ [][IrqNext]_allVars

-----------------------------------------------------------------------------
\* "This function is supposed to lock the memory data structures" (kmalloc.c:704):
\* when no call is under way, every live block is in a major of the list, as it is
\* without interrupts (ListExact of HeapProps).
BlocksStayListed ==
  stage = 0 /\ call = NoCall =>
    \A m \in Majors : minors[m] # {} => \E i \in DOMAIN order : order[i] = m

=============================================================================
