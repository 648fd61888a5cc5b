---------------------------- MODULE PagesProofs -----------------------------
(***************************************************************************)
(* Proofs about the page allocator: for every size of the tables, every    *)
(* sequence of allocations and every number of programs, each user finds   *)
(* its own memory as long as the heap stays below the frame buffer.        *)
(***************************************************************************)
EXTENDS PagesProps, TLAPS

Pooled == {"tables", "heap", "port", "buffer", "program"}

USE DEF NoFrame, None, Frames, Entries

-----------------------------------------------------------------------------
\* What page_map of n pages leaves of the table, and what it adds to the grants.
LEMMA MapEffect ==
  ASSUME kernel_page_data_tables \in [Entries -> Frames], granted \subseteq Grant,
         NEW v \in Nat, NEW f \in Nat, NEW n \in Nat, NEW to \in Clients,
         KernelFirst <= v, v + n <= 4 * DirSize,
         PageMap(v, f, n, to)
  PROVE  /\ kernel_page_data_tables' \in [Entries -> Frames]
         /\ granted' \subseteq Grant
         /\ granted \subseteq granted'
         /\ \A i \in 0 .. n - 1 :
              /\ [page |-> v + i, frame |-> f + i, to |-> to] \in granted'
              /\ kernel_page_data_tables'[v + i - KernelFirst] = f + i
         /\ \A e \in Entries : KernelFirst + e < v \/ v + n <= KernelFirst + e =>
              kernel_page_data_tables'[e] = kernel_page_data_tables[e]
  <1>. DirSize \in Nat /\ KernelFirst = 3 * DirSize
    BY PagesAssumption DEF KernelFirst
  <1>1. Grants(v, f, n, to) \subseteq Grant
    BY DEF Grants, Grant
  <1>2. kernel_page_data_tables' \in [Entries -> Frames]
    BY DEF PageMap
  <1>3. \A e \in Entries : KernelFirst + e < v \/ v + n <= KernelFirst + e =>
          kernel_page_data_tables'[e] = kernel_page_data_tables[e]
    BY DEF PageMap
  <1>4. ASSUME NEW i \in 0 .. n - 1
        PROVE  /\ [page |-> v + i, frame |-> f + i, to |-> to] \in granted'
               /\ kernel_page_data_tables'[v + i - KernelFirst] = f + i
    <2>1. [page |-> v + i, frame |-> f + i, to |-> to] \in granted'
      BY DEF PageMap, Grants
    <2>2. v + i - KernelFirst \in Entries
      OBVIOUS
    <2>3. kernel_page_data_tables'[v + i - KernelFirst] = f + ((KernelFirst + (v + i - KernelFirst)) - v)
      BY <2>2 DEF PageMap
    <2>. QED
      BY <2>1, <2>3
  <1>. QED
    BY <1>1, <1>2, <1>3, <1>4 DEF PageMap

-----------------------------------------------------------------------------
\* What an allocation of n pages for client to leaves: the part of the invariant that
\* does not depend on who asked, and the new grants.
Allocated(n, to) ==
  /\ kernel_page_data_tables' \in [Entries -> Frames]
  /\ granted' \subseteq Grant /\ granted \subseteq granted'
  /\ phsyical_memory_top' \in Nat
  /\ kernel_virtual_memory_top' \in HeapFirst .. MaxPage
  /\ \A g \in granted' : Shape(g)'
  /\ HeapBelowScreen' => \A g \in granted' : Mapped(g)'
  /\ NothingIsGivenTwice'
  /\ \A i \in 0 .. n - 1 : [page |-> kernel_virtual_memory_top + i,
                            frame |-> phsyical_memory_top + i, to |-> to] \in granted'
  /\ kernel_page_data_tables'[kernel_virtual_memory_top - KernelFirst] = phsyical_memory_top
  /\ kernel_virtual_memory_top' = kernel_virtual_memory_top + n
  /\ phsyical_memory_top' = phsyical_memory_top + n

\* page_allocate keeps what the allocator promises, for any number of pages.
LEMMA Allocate ==
  ASSUME IInv, NEW n \in Nat \ {0}, NEW to \in Pooled, page_allocate(n, to),
         physical_memory_base' = physical_memory_base,
         Devices' = Devices, boot = "done" => boot' = "done"
  PROVE  Allocated(n, to)
  <1>. DEFINE v == kernel_virtual_memory_top
              f == phsyical_memory_top
              new == Grants(v, f, n, to)
  <1>1. /\ v \in HeapFirst .. MaxPage /\ f \in Nat /\ v + n <= MaxPage
        /\ v \in Nat /\ n \in Nat /\ to \in Clients
        /\ kernel_page_data_tables \in [Entries -> Frames] /\ granted \subseteq Grant
        /\ DirSize \in Nat /\ KernelFirst = 3 * DirSize
        /\ HeapFirst \in Nat /\ FrameBuffer \in Nat /\ MaxPage \in Nat
        /\ KernelFirst + 2 <= HeapFirst /\ MaxPage <= 4 * DirSize /\ FrameBuffer < MaxPage
        /\ physical_memory_base \in {1, 2}
        /\ f = physical_memory_base + (v - HeapFirst) - Devices /\ Devices \in {0, 1}
        /\ Devices = 1 => v >= HeapFirst + 3
        /\ v' = v + n /\ f' = f + n
        /\ ScreenFrame \in Nat /\ AbarFrame \in Nat
        /\ 2 + MaxPage - HeapFirst <= ScreenFrame /\ ScreenFrame <= AbarFrame
    BY PagesAssumption DEF IInv, TypeOK, InStep, page_allocate, Room, KernelFirst, Pooled, Clients, Devices
  <1>2. PageMap(v, f, n, to) /\ granted' = granted \cup new
    BY DEF page_allocate, PageMap
  <1>3. /\ kernel_page_data_tables' \in [Entries -> Frames]
        /\ granted' \subseteq Grant /\ granted \subseteq granted'
        /\ \A i \in 0 .. n - 1 :
             /\ [page |-> v + i, frame |-> f + i, to |-> to] \in granted'
             /\ kernel_page_data_tables'[v + i - KernelFirst] = f + i
        /\ \A e \in Entries : KernelFirst + e < v \/ v + n <= KernelFirst + e =>
             kernel_page_data_tables'[e] = kernel_page_data_tables[e]
    <2>1. /\ kernel_page_data_tables \in [Entries -> Frames] /\ granted \subseteq Grant
          /\ v \in Nat /\ f \in Nat /\ n \in Nat /\ to \in Clients
          /\ KernelFirst <= v /\ v + n <= 4 * DirSize
      BY <1>1
    <2>2. PageMap(v, f, n, to)
      BY <1>2
    <2>. HIDE DEF v, f
    <2>. QED
      BY ONLY <2>1, <2>2, MapEffect, ZenonT(60)
  <1>4. \A g \in new : /\ v <= g.page /\ g.page < v + n /\ g.frame = f + (g.page - v)
                       /\ g.to = to /\ g.page \in Nat /\ g.frame \in Nat
    <2>1. TAKE g \in new
    <2>2. PICK i \in 0 .. n - 1 : g = [page |-> v + i, frame |-> f + i, to |-> to]
      BY DEF Grants
    <2>. QED
      BY <1>1, <2>2
  <1>5. \A g \in granted : Shape(g) /\ g.page \in Nat /\ g.frame \in Nat /\ g.to \in Clients
    BY DEF IInv, TypeOK, Grant
  <1>. HIDE DEF new
  <1>6. ASSUME NEW g \in granted' PROVE Shape(g)'
    <2>1. CASE g \in granted
      BY <1>1, <1>5, <2>1 DEF Shape, Devices
    <2>2. CASE g \in new
      BY <1>1, <1>4, <2>2 DEF Shape, Pooled
    <2>. QED
      BY <1>2, <2>1, <2>2
  <1>7. ASSUME HeapBelowScreen', NEW g \in granted' PROVE Mapped(g)'
    <2>1. CASE g \in granted
      <3>1. Mapped(g)
        BY <1>1, <1>7, <2>1 DEF IInv, HeapBelowScreen
      <3>2. g.page - KernelFirst \in Entries /\ (g.page < v \/ v + n <= g.page)
        BY <1>1, <1>5, <1>7, <2>1 DEF Shape, HeapBelowScreen
      <3>. QED
        BY <1>1, <1>3, <1>5, <2>1, <3>1, <3>2 DEF Mapped
    <2>2. CASE g \in new
      <3>1. g.page - v \in 0 .. n - 1
        BY <1>1, <1>4, <2>2
      <3>2. v + (g.page - v) - KernelFirst = g.page - KernelFirst
        BY <1>1, <1>4, <2>2
      <3>. QED
        BY <1>3, <1>4, <2>2, <3>1, <3>2 DEF Mapped
    <2>. QED
      BY <1>2, <2>1, <2>2
  <1>8. NothingIsGivenTwice'
    <2>1. SUFFICES ASSUME HeapBelowScreen', NEW g \in granted', NEW h \in granted',
                          g.page = h.page \/ g.frame = h.frame
                   PROVE  g = h
      BY DEF NothingIsGivenTwice
    <2>2. HeapBelowScreen /\ v + n <= FrameBuffer
      BY <1>1, <2>1 DEF HeapBelowScreen
    <2>3. \A x \in granted, y \in new : x.page # y.page /\ x.frame # y.frame
      <3>1. TAKE x \in granted, y \in new
      <3>2. /\ x.page \in Nat /\ x.frame \in Nat /\ x.to \in Clients /\ Shape(x)
            /\ v <= y.page /\ y.page < v + n /\ y.frame = f + (y.page - v)
            /\ y.page \in Nat /\ y.frame \in Nat
        BY <1>4, <1>5
      <3>3. CASE x.to = "kernel"
        BY <1>1, <3>2, <3>3 DEF Shape
      <3>4. CASE x.to = "screen"
        <4>1. /\ FrameBuffer <= x.page /\ x.frame = ScreenFrame + (x.page - FrameBuffer)
          BY <3>2, <3>4 DEF Shape
        <4>2. x.page # y.page
          BY <1>1, <2>2, <3>2, <4>1
        <4>3. x.frame >= ScreenFrame /\ y.frame < f + n
          BY <1>1, <3>2, <4>1
        <4>. QED
          BY <1>1, <2>2, <3>2, <4>2, <4>3
      <3>5. CASE x.to = "registers"
        BY <1>1, <3>2, <3>5 DEF Shape
      <3>6. CASE x.to \notin {"kernel", "screen", "registers"}
        BY <1>1, <3>2, <3>6 DEF Shape
      <3>. QED
        BY <3>3, <3>4, <3>5, <3>6
    <2>4. \A x, y \in new : x.page = y.page \/ x.frame = y.frame => x = y
      <3>1. TAKE x \in new, y \in new
      <3>2. PICK i \in 0 .. n - 1 : x = [page |-> v + i, frame |-> f + i, to |-> to]
        BY DEF new, Grants
      <3>3. PICK j \in 0 .. n - 1 : y = [page |-> v + j, frame |-> f + j, to |-> to]
        BY DEF new, Grants
      <3>4. x.page = y.page \/ x.frame = y.frame => i = j
        BY <1>1, <3>2, <3>3
      <3>. QED
        BY <3>2, <3>3, <3>4
    <2>. QED
      BY <1>2, <2>1, <2>2, <2>3, <2>4 DEF IInv, NothingIsGivenTwice
  <1>9. \A i \in 0 .. n - 1 : [page |-> v + i, frame |-> f + i, to |-> to] \in granted'
    BY <1>3
  <1>10. kernel_page_data_tables'[v - KernelFirst] = f
    <2>1. 0 \in 0 .. n - 1 /\ v + 0 - KernelFirst = v - KernelFirst /\ f + 0 = f
      BY <1>1
    <2>. QED
      BY <1>3, <2>1
  <1>11. phsyical_memory_top' \in Nat /\ kernel_virtual_memory_top' \in HeapFirst .. MaxPage
    BY <1>1
  <1>12. kernel_virtual_memory_top' = kernel_virtual_memory_top + n
    BY DEF page_allocate
  <1>13. phsyical_memory_top' = phsyical_memory_top + n
    BY DEF page_allocate
  <1>. QED
    BY <1>3, <1>6, <1>7, <1>8, <1>9, <1>10, <1>11, <1>12, <1>13 DEF Allocated

-----------------------------------------------------------------------------
\* What is on record stays on record: the users' knowledge survives a step that
\* changes none of it and only adds grants.
LEMMA UsersStillKnow ==
  ASSUME UsersKnow, granted \subseteq granted',
         UNCHANGED <<drive, physical_memory_base, newest, program_page, pdpt0>>,
         global_page_data_tables'[0] = global_page_data_tables[0],
         boot \notin {"start", "tables"} \/ boot' \in {"start", "tables"}
  PROVE  UsersKnow'
  <1>1. port_page' # None =>
          /\ clb' = port_page' - HeapFirst
          /\ [page |-> port_page', frame |-> physical_memory_base' + (port_page' - HeapFirst) - 1,
              to |-> "port"] \in granted'
    BY DEF UsersKnow, Has, drive
  <1>2. global_buffer' # None =>
          /\ [page |-> global_buffer', frame |-> global_buffer_addr', to |-> "buffer"] \in granted'
          /\ [page |-> global_buffer' + 1, frame |-> global_buffer_addr' + 1, to |-> "buffer"]
               \in granted'
    BY DEF UsersKnow, Has, drive
  <1>3. boot' \notin {"start", "tables"} =>
          [page |-> ProcessPage, frame |-> physical_memory_base' + 2, to |-> "heap"] \in granted'
    BY DEF UsersKnow, Has
  <1>4. newest' = Kernel /\ pdpt0' = "global" =>
          global_page_data_tables'[0] = physical_memory_base' + 2
    BY DEF UsersKnow
  <1>5. newest' # Kernel => [page |-> program_page'[newest'], frame |-> global_page_data_tables'[0],
                             to |-> "program"] \in granted'
    BY DEF UsersKnow, Has
  <1>. QED
    BY <1>1, <1>2, <1>3, <1>4, <1>5 DEF UsersKnow, Has, ProcessPage

-----------------------------------------------------------------------------
\* The steps of the boot and of the heap.

\* A major of any size for the heap keeps the invariant.
LEMMA HeapPages ==
  ASSUME IInv, NEW n \in MajorSizes, KmallocMajor(n)
  PROVE  IInv'
  <1>1. /\ TypeOK /\ InStep /\ UsersKnow /\ boot' = boot /\ boot \notin {"start", "tables", "heap"}
        /\ physical_memory_base' = physical_memory_base /\ page_allocate(n, "heap")
        /\ UNCHANGED <<global_page_data_tables, pdpt0, drive, programs>>
        /\ n \in Nat \ {0} /\ "heap" \in Pooled /\ Devices' = Devices
    BY PagesAssumption DEF IInv, KmallocMajor, Pooled, Devices
  <1>2. Allocated(n, "heap")
    BY <1>1, Allocate
  <1>3. TypeOK'
    BY <1>1, <1>2 DEF TypeOK, Allocated, drive, programs
  <1>4. InStep'
    <2>1. /\ physical_memory_base \in Nat /\ kernel_virtual_memory_top \in Nat
          /\ HeapFirst \in Nat /\ n \in Nat /\ Devices \in Nat
      BY <1>1, PagesAssumption DEF TypeOK, Devices
    <2>2. /\ kernel_virtual_memory_top' = kernel_virtual_memory_top + n
          /\ phsyical_memory_top' = phsyical_memory_top + n
          /\ newest' = newest /\ pdpt0' = pdpt0
      BY <1>1, <1>2 DEF Allocated, programs
    <2>. QED
      BY <1>1, <2>1, <2>2 DEF InStep
  <1>5. UsersKnow'
    BY <1>1, <1>2, UsersStillKnow DEF Allocated, drive, programs
  <1>. QED
    BY <1>2, <1>3, <1>4, <1>5 DEF IInv, Allocated

\* The first page of the pool, taken for tables that are never used.
LEMMA TablesPage ==
  ASSUME IInv, TakeTables
  PROVE  IInv'
  <1>1. /\ TypeOK /\ InStep /\ UsersKnow /\ boot = "start" /\ boot' = "tables"
        /\ physical_memory_base' = physical_memory_base /\ page_allocate(1, "tables")
        /\ UNCHANGED <<global_page_data_tables, pdpt0, drive, programs>>
        /\ 1 \in Nat \ {0} /\ "tables" \in Pooled /\ Devices' = Devices
    BY DEF IInv, TakeTables, Boots, Pooled, Devices
  <1>2. Allocated(1, "tables")
    BY <1>1, Allocate
  <1>3. TypeOK'
    BY <1>1, <1>2 DEF TypeOK, Allocated, drive, programs, Phases
  <1>4. InStep'
    BY <1>1, <1>2, PagesAssumption DEF InStep, TypeOK, Allocated, programs, Devices
  <1>5. UsersKnow'
    BY <1>1, <1>2, UsersStillKnow DEF Allocated, drive, programs
  <1>. QED
    BY <1>2, <1>3, <1>4, <1>5 DEF IInv, Allocated

\* The first major of the heap, in whose second half page 0 will lie.
LEMMA FirstMajorPages ==
  ASSUME IInv, TakeFirstMajor
  PROVE  IInv'
  <1>1. /\ TypeOK /\ InStep /\ UsersKnow /\ boot = "tables" /\ boot' = "heap"
        /\ physical_memory_base' = physical_memory_base /\ page_allocate(2, "heap")
        /\ UNCHANGED <<global_page_data_tables, pdpt0, drive, programs>>
        /\ 2 \in Nat \ {0} /\ "heap" \in Pooled /\ Devices' = Devices
    BY DEF IInv, TakeFirstMajor, Boots, Pooled, Devices
  <1>2. Allocated(2, "heap")
    BY <1>1, Allocate
  <1>3. TypeOK'
    BY <1>1, <1>2 DEF TypeOK, Allocated, drive, programs, Phases
  <1>4. InStep'
    BY <1>1, <1>2, PagesAssumption DEF InStep, TypeOK, Allocated, programs, Devices
  <1>5. Has(ProcessPage, physical_memory_base + 2, "heap")'
    <2>1. [page |-> kernel_virtual_memory_top + 1, frame |-> phsyical_memory_top + 1, to |-> "heap"]
            \in granted'
      BY <1>2 DEF Allocated
    <2>2. /\ kernel_virtual_memory_top + 1 = HeapFirst + 2
          /\ phsyical_memory_top + 1 = physical_memory_base + 2
      BY <1>1, PagesAssumption DEF InStep, TypeOK, Devices
    <2>3. [page |-> HeapFirst + 2, frame |-> physical_memory_base + 2, to |-> "heap"]
            \in granted'
      BY ONLY <2>1, <2>2
    <2>. QED
      BY <1>1, <2>3 DEF Has, ProcessPage
  <1>6. UsersKnow'
    <2>1. /\ pdpt0' = "kernel" /\ newest' = Kernel /\ granted \subseteq granted'
          /\ UNCHANGED <<port_page, clb, global_buffer, global_buffer_addr>>
      BY <1>1, <1>2 DEF InStep, programs, drive, Allocated
    <2>2. port_page' # None =>
            clb' = port_page' - HeapFirst /\
            [page |-> port_page', frame |-> physical_memory_base' + (port_page' - HeapFirst) - 1,
             to |-> "port"] \in granted'
      BY <1>1, <2>1 DEF UsersKnow, Has
    <2>3. global_buffer' # None =>
            [page |-> global_buffer', frame |-> global_buffer_addr', to |-> "buffer"] \in granted' /\
            [page |-> global_buffer' + 1, frame |-> global_buffer_addr' + 1, to |-> "buffer"]
              \in granted'
      BY <1>1, <2>1 DEF UsersKnow, Has
    <2>. QED
      BY <1>5, <2>1, <2>2, <2>3 DEF UsersKnow, Has
  <1>. QED
    BY <1>2, <1>3, <1>4, <1>6 DEF IInv, Allocated

-----------------------------------------------------------------------------
\* Page 0 gets its own table, and leads into the first major.
LEMMA PageZeroMapped ==
  ASSUME IInv, MapPageZero
  PROVE  IInv'
  <1>1. /\ TypeOK /\ InStep /\ UsersKnow /\ boot = "heap" /\ boot' = "devices"
        /\ pdpt0' = "global" /\ newest = Kernel
        /\ UNCHANGED <<kernel_page_data_tables, physical_memory_base, tops, granted, drive, programs>>
    BY DEF IInv, MapPageZero, Boots, InStep
  <1>2. /\ UNCHANGED <<phsyical_memory_top, kernel_virtual_memory_top>>
        /\ UNCHANGED <<port_page, clb, global_buffer, global_buffer_addr>>
        /\ UNCHANGED <<program_page, newest, alive, running>>
        /\ Devices' = Devices
    BY <1>1 DEF tops, drive, programs, Devices
  <1>3. /\ global_page_data_tables' \in [Entries -> Frames]
        /\ global_page_data_tables'[0] = physical_memory_base + 2
    <2>1. /\ 0 \in Entries /\ 0 # TestPage /\ TestPage \in Nat /\ HeapFirst \in Nat
          /\ physical_memory_base \in Nat
          /\ global_page_data_tables \in [Entries -> Frames]
      BY <1>1, PagesAssumption DEF TypeOK
    <2>2. /\ ProcessPage + physical_memory_base - HeapFirst = physical_memory_base + 2
          /\ physical_memory_base + 2 \in Frames
      BY <2>1 DEF ProcessPage
    <2>3. global_page_data_tables' =
            [global_page_data_tables EXCEPT ![0] = physical_memory_base + 2, ![TestPage] = TestPage]
      BY <2>2 DEF MapPageZero
    <2>. QED
      BY <2>1, <2>2, <2>3
  <1>4. TypeOK'
    BY <1>1, <1>2, <1>3 DEF TypeOK, Phases
  <1>5. InStep'
    BY <1>1, <1>2, PagesAssumption DEF InStep, TypeOK, Devices
  <1>6. UsersKnow'
    BY <1>1, <1>2, <1>3 DEF UsersKnow, Has, ProcessPage
  <1>7. (\A g \in granted : Shape(g))'
    BY <1>1, <1>2 DEF IInv, Shape
  <1>8. (HeapBelowScreen => \A g \in granted : Mapped(g))' /\ NothingIsGivenTwice'
    BY <1>1, <1>2 DEF IInv, Mapped, HeapBelowScreen, NothingIsGivenTwice
  <1>. QED
    BY <1>4, <1>5, <1>6, <1>7, <1>8 DEF IInv

\* The drive's registers take a page of the heap's addresses but no memory.
LEMMA RegistersMapped ==
  ASSUME IInv, AhciMapsRegisters
  PROVE  IInv'
  <1>. DEFINE v == kernel_virtual_memory_top
              new == [page |-> v, frame |-> AbarFrame, to |-> "registers"]
  <1>1. /\ TypeOK /\ InStep /\ UsersKnow /\ boot = "devices" /\ boot' = "registers"
        /\ physical_memory_base' = physical_memory_base
        /\ PageMap(v, AbarFrame, 1, "registers") /\ v + 1 <= MaxPage
        /\ v' = v + 1 /\ phsyical_memory_top' = phsyical_memory_top
        /\ UNCHANGED <<global_page_data_tables, pdpt0, drive, programs>>
    BY DEF IInv, AhciMapsRegisters, Boots, page_allocate_and_map, Room
  <1>2. /\ v \in Nat /\ v \in HeapFirst .. MaxPage /\ phsyical_memory_top \in Nat
        /\ kernel_page_data_tables \in [Entries -> Frames] /\ granted \subseteq Grant
        /\ physical_memory_base \in {1, 2}
        /\ DirSize \in Nat /\ KernelFirst = 3 * DirSize
        /\ HeapFirst \in Nat /\ FrameBuffer \in Nat /\ MaxPage \in Nat
        /\ KernelFirst + 2 <= HeapFirst /\ MaxPage <= 4 * DirSize
        /\ AbarFrame \in Nat /\ ScreenFrame \in Nat
        /\ 2 + MaxPage - HeapFirst <= ScreenFrame /\ ScreenFrame <= AbarFrame
        /\ phsyical_memory_top = physical_memory_base + (v - HeapFirst)
        /\ v >= HeapFirst + 3 /\ pdpt0 = "global" /\ newest = Kernel
    BY <1>1, PagesAssumption DEF TypeOK, KernelFirst, InStep, Devices
  <1>3. /\ kernel_page_data_tables' \in [Entries -> Frames]
        /\ granted' \subseteq Grant /\ granted \subseteq granted'
        /\ \A e \in Entries : KernelFirst + e < v \/ v + 1 <= KernelFirst + e =>
             kernel_page_data_tables'[e] = kernel_page_data_tables[e]
        /\ kernel_page_data_tables'[v - KernelFirst] = AbarFrame
        /\ granted' = granted \cup {new}
    <2>1. /\ kernel_page_data_tables \in [Entries -> Frames] /\ granted \subseteq Grant
          /\ v \in Nat /\ AbarFrame \in Nat /\ 1 \in Nat /\ "registers" \in Clients
          /\ KernelFirst <= v /\ v + 1 <= 4 * DirSize
      BY <1>1, <1>2 DEF Clients
    <2>2. PageMap(v, AbarFrame, 1, "registers")
      BY <1>1
    <2>3. /\ kernel_page_data_tables' \in [Entries -> Frames]
          /\ granted' \subseteq Grant /\ granted \subseteq granted'
          /\ \A i \in 0 .. 1 - 1 : kernel_page_data_tables'[v + i - KernelFirst] = AbarFrame + i
          /\ \A e \in Entries : KernelFirst + e < v \/ v + 1 <= KernelFirst + e =>
               kernel_page_data_tables'[e] = kernel_page_data_tables[e]
      <3>. HIDE DEF v
      <3>. QED
        BY ONLY <2>1, <2>2, MapEffect, ZenonT(60)
    <2>4. /\ 0 \in 0 .. 1 - 1 /\ v + 0 - KernelFirst = v - KernelFirst /\ AbarFrame + 0 = AbarFrame
          /\ v + 0 = v /\ \A i \in 0 .. 1 - 1 : i = 0
      BY <1>2
    <2>5. Grants(v, AbarFrame, 1, "registers") = {new}
      BY <2>4 DEF Grants
    <2>. QED
      BY <2>2, <2>3, <2>4, <2>5 DEF PageMap
  <1>4. \A g \in granted : Shape(g) /\ g.page \in Nat /\ g.frame \in Nat /\ g.to \in Clients
    BY <1>2 DEF IInv, Grant
  <1>5. \A g \in granted : g.page < v \/ FrameBuffer <= g.page
    BY <1>2, <1>4 DEF Shape, Clients
  <1>6. TypeOK'
    <2>1. v' \in HeapFirst .. MaxPage
      BY <1>1, <1>2
    <2>. QED
      BY <1>1, <1>3, <2>1 DEF TypeOK, drive, programs, Phases
  <1>7. InStep'
    BY <1>1, <1>2 DEF InStep, programs, Devices
  <1>8. UsersKnow'
    BY <1>1, <1>3, UsersStillKnow DEF drive, programs
  <1>9. ASSUME NEW g \in granted' PROVE Shape(g)'
    <2>1. CASE g \in granted
      BY <1>1, <1>2, <1>4, <2>1 DEF Shape, Devices
    <2>2. CASE g = new
      BY <1>1, <1>2, <2>2 DEF Shape, Devices
    <2>. QED
      BY <1>3, <2>1, <2>2
  <1>10. ASSUME HeapBelowScreen', NEW g \in granted' PROVE Mapped(g)'
    <2>1. CASE g \in granted
      <3>1. Mapped(g)
        BY <1>1, <1>2, <1>10, <2>1 DEF IInv, HeapBelowScreen
      <3>2. g.page - KernelFirst \in Entries /\ (g.page < v \/ v + 1 <= g.page)
        BY <1>1, <1>2, <1>4, <1>5, <1>10, <2>1 DEF Shape, HeapBelowScreen
      <3>. QED
        BY <1>2, <1>3, <1>4, <2>1, <3>1, <3>2 DEF Mapped
    <2>2. CASE g = new
      BY <1>3, <2>2 DEF Mapped
    <2>. QED
      BY <1>3, <2>1, <2>2
  <1>11. NothingIsGivenTwice'
    <2>1. SUFFICES ASSUME HeapBelowScreen', NEW g \in granted', NEW h \in granted',
                          g.page = h.page \/ g.frame = h.frame
                   PROVE  g = h
      BY DEF NothingIsGivenTwice
    <2>2. HeapBelowScreen /\ v + 1 <= FrameBuffer
      BY <1>1, <1>2, <2>1 DEF HeapBelowScreen
    <2>3. \A x \in granted : x.page # v /\ x.frame # AbarFrame
      <3>1. TAKE x \in granted
      <3>2. /\ Shape(x) /\ x.page \in Nat /\ x.frame \in Nat /\ x.to \in Clients
            /\ Devices = 0 /\ boot # "done"
        BY <1>1, <1>4 DEF Devices
      <3>3. CASE x.to = "kernel"
        BY <1>2, <3>2, <3>3 DEF Shape
      <3>4. CASE x.to # "kernel"
        BY <1>1, <1>2, <3>2, <3>4 DEF Shape
      <3>. QED
        BY <3>3, <3>4
    <2>. QED
      BY <1>3, <2>1, <2>2, <2>3 DEF IInv, NothingIsGivenTwice
  <1>. QED
    BY <1>3, <1>6, <1>7, <1>8, <1>9, <1>10, <1>11 DEF IInv

-----------------------------------------------------------------------------
\* The drive's tables and its buffer.

\* port_rebase's arithmetic is right by one page of registers.
LEMMA PortPages ==
  ASSUME IInv, AhciTakesPort
  PROVE  IInv'
  <1>. DEFINE v == kernel_virtual_memory_top
              f == phsyical_memory_top
  <1>1. /\ TypeOK /\ InStep /\ UsersKnow /\ boot = "registers" /\ boot' = "port"
        /\ physical_memory_base' = physical_memory_base /\ page_allocate(1, "port")
        /\ UNCHANGED <<global_page_data_tables, pdpt0, global_buffer, global_buffer_addr, programs>>
        /\ port_page' = v /\ clb' = v - HeapFirst
        /\ 1 \in Nat \ {0} /\ "port" \in Pooled /\ Devices' = Devices
    BY DEF IInv, AhciTakesPort, Boots, Pooled, Devices
  <1>2. Allocated(1, "port")
    BY <1>1, Allocate
  <1>3. /\ v \in Nat /\ v >= HeapFirst + 3 /\ HeapFirst \in Nat /\ physical_memory_base \in Nat
        /\ f = physical_memory_base + (v - HeapFirst) - 1 /\ newest = Kernel
        /\ pdpt0 = "global"
    BY <1>1, PagesAssumption DEF TypeOK, InStep, Devices
  <1>4. TypeOK'
    <2>1. port_page' \in Frames /\ clb' \in Frames
      BY <1>1, <1>3
    <2>. QED
      BY <1>1, <1>2, <2>1 DEF TypeOK, Allocated, programs, Phases
  <1>5. InStep'
    BY <1>1, <1>2, <1>3 DEF InStep, Allocated, programs, Devices
  <1>6. UsersKnow'
    <2>1. [page |-> v, frame |-> f, to |-> "port"] \in granted' /\ granted \subseteq granted'
      <3>1. 0 \in 0 .. 1 - 1 /\ v + 0 = v /\ f + 0 = f
        BY <1>3
      <3>. QED
        BY <1>2, <3>1 DEF Allocated
    <2>2. Has(port_page, physical_memory_base + (port_page - HeapFirst) - 1, "port")'
      BY <1>1, <1>3, <2>1 DEF Has
    <2>3. global_buffer' # None =>
            [page |-> global_buffer', frame |-> global_buffer_addr', to |-> "buffer"] \in granted' /\
            [page |-> global_buffer' + 1, frame |-> global_buffer_addr' + 1, to |-> "buffer"]
              \in granted'
      BY <1>1, <2>1 DEF UsersKnow, Has
    <2>4. [page |-> ProcessPage, frame |-> physical_memory_base' + 2, to |-> "heap"] \in granted'
      BY <1>1, <2>1 DEF UsersKnow, Has
    <2>5. global_page_data_tables'[0] = physical_memory_base' + 2 /\ newest' = Kernel
      BY <1>1, <1>3 DEF UsersKnow, programs
    <2>6. clb' = port_page' - HeapFirst
      BY <1>1
    <2>. QED
      BY <2>2, <2>3, <2>4, <2>5, <2>6 DEF UsersKnow, Has, ProcessPage
  <1>. QED
    BY <1>2, <1>4, <1>5, <1>6 DEF IInv, Allocated

LEMMA BufferPages ==
  ASSUME IInv, AhciTakesBuffer
  PROVE  IInv'
  <1>. DEFINE v == kernel_virtual_memory_top
              f == phsyical_memory_top
  <1>1. /\ TypeOK /\ InStep /\ UsersKnow /\ boot = "port" /\ boot' = "drive"
        /\ physical_memory_base' = physical_memory_base /\ page_allocate(2, "buffer")
        /\ UNCHANGED <<global_page_data_tables, pdpt0, port_page, clb, programs>>
        /\ global_buffer' = v /\ global_buffer_addr' = kernel_page_data_tables'[v - KernelFirst]
        /\ 2 \in Nat \ {0} /\ "buffer" \in Pooled /\ Devices' = Devices
    BY DEF IInv, AhciTakesBuffer, Boots, Pooled, Devices
  <1>2. Allocated(2, "buffer")
    BY <1>1, Allocate
  <1>3. /\ v \in Nat /\ v >= HeapFirst + 3 /\ HeapFirst \in Nat /\ physical_memory_base \in Nat
        /\ f = physical_memory_base + (v - HeapFirst) - 1 /\ f \in Nat /\ newest = Kernel
        /\ pdpt0 = "global"
    BY <1>1, PagesAssumption DEF TypeOK, InStep, Devices
  <1>4. global_buffer_addr' = f
    BY <1>1, <1>2 DEF Allocated
  <1>5. TypeOK'
    <2>1. global_buffer' \in Frames /\ global_buffer_addr' \in Frames
      BY <1>1, <1>3, <1>4
    <2>. QED
      BY <1>1, <1>2, <2>1 DEF TypeOK, Allocated, programs, Phases
  <1>6. InStep'
    BY <1>1, <1>2, <1>3 DEF InStep, Allocated, programs, Devices
  <1>7. UsersKnow'
    <2>1. /\ [page |-> v, frame |-> f, to |-> "buffer"] \in granted'
          /\ [page |-> v + 1, frame |-> f + 1, to |-> "buffer"] \in granted'
          /\ granted \subseteq granted'
      <3>1. 0 \in 0 .. 2 - 1 /\ 1 \in 0 .. 2 - 1 /\ v + 0 = v /\ f + 0 = f
        BY <1>3
      <3>. QED
        BY <1>2, <3>1 DEF Allocated
    <2>2. port_page' # None =>
            clb' = port_page' - HeapFirst /\
            [page |-> port_page', frame |-> physical_memory_base' + (port_page' - HeapFirst) - 1,
             to |-> "port"] \in granted'
      BY <1>1, <2>1 DEF UsersKnow, Has
    <2>3. Has(global_buffer, global_buffer_addr, "buffer")'
      BY <1>1, <1>4, <2>1 DEF Has
    <2>4. Has(global_buffer + 1, global_buffer_addr + 1, "buffer")'
      BY <1>1, <1>4, <2>1 DEF Has
    <2>5. [page |-> ProcessPage, frame |-> physical_memory_base' + 2, to |-> "heap"] \in granted'
      BY <1>1, <2>1 DEF UsersKnow, Has
    <2>6. global_page_data_tables'[0] = physical_memory_base' + 2 /\ newest' = Kernel
      BY <1>1, <1>3 DEF UsersKnow, programs
    <2>. QED
      BY <2>2, <2>3, <2>4, <2>5, <2>6 DEF UsersKnow, Has, ProcessPage
  <1>. QED
    BY <1>2, <1>5, <1>6, <1>7 DEF IInv, Allocated

-----------------------------------------------------------------------------
\* The screen, at its fixed place behind everything the heap took so far.
LEMMA ScreenMapped ==
  ASSUME IInv, NEW n \in ScreenPages, VgaInitalize(n)
  PROVE  IInv'
  <1>. DEFINE new == Grants(FrameBuffer, ScreenFrame, n, "screen")
  <1>1. /\ TypeOK /\ InStep /\ UsersKnow /\ boot = "drive" /\ boot' = "done"
        /\ physical_memory_base' = physical_memory_base
        /\ PageMap(FrameBuffer, ScreenFrame, n, "screen")
        /\ UNCHANGED <<phsyical_memory_top, kernel_virtual_memory_top>>
        /\ UNCHANGED <<global_page_data_tables, pdpt0, drive, programs>>
    BY DEF IInv, VgaInitalize, Boots, tops
  <1>2. /\ n \in Nat /\ kernel_virtual_memory_top \in HeapFirst .. MaxPage
        /\ kernel_page_data_tables \in [Entries -> Frames] /\ granted \subseteq Grant
        /\ physical_memory_base \in {1, 2}
        /\ DirSize \in Nat /\ KernelFirst = 3 * DirSize
        /\ HeapFirst \in Nat /\ FrameBuffer \in Nat /\ MaxPage \in Nat
        /\ KernelFirst + 2 <= HeapFirst /\ HeapFirst + 3 <= FrameBuffer
        /\ FrameBuffer + n <= 4 * DirSize /\ FrameBuffer < MaxPage
        /\ AbarFrame \in Nat /\ ScreenFrame \in Nat
        /\ 2 + MaxPage - HeapFirst <= ScreenFrame /\ ScreenFrame + n <= AbarFrame
        /\ phsyical_memory_top = physical_memory_base + (kernel_virtual_memory_top - HeapFirst) - 1
    BY <1>1, PagesAssumption DEF TypeOK, KernelFirst, InStep, Devices
  <1>3. /\ kernel_page_data_tables' \in [Entries -> Frames]
        /\ granted' \subseteq Grant /\ granted \subseteq granted'
        /\ \A i \in 0 .. n - 1 :
             kernel_page_data_tables'[FrameBuffer + i - KernelFirst] = ScreenFrame + i
        /\ \A e \in Entries : KernelFirst + e < FrameBuffer \/ FrameBuffer + n <= KernelFirst + e =>
             kernel_page_data_tables'[e] = kernel_page_data_tables[e]
    <2>1. /\ kernel_page_data_tables \in [Entries -> Frames] /\ granted \subseteq Grant
          /\ FrameBuffer \in Nat /\ ScreenFrame \in Nat /\ n \in Nat /\ "screen" \in Clients
          /\ KernelFirst <= FrameBuffer /\ FrameBuffer + n <= 4 * DirSize
      BY <1>2 DEF Clients
    <2>2. PageMap(FrameBuffer, ScreenFrame, n, "screen")
      BY <1>1
    <2>. QED
      BY ONLY <2>1, <2>2, MapEffect, ZenonT(60)
  <1>4. granted' = granted \cup new
    BY <1>1 DEF PageMap
  <1>5. \A g \in new : /\ FrameBuffer <= g.page /\ g.page < FrameBuffer + n
                       /\ g.frame = ScreenFrame + (g.page - FrameBuffer)
                       /\ g.to = "screen" /\ g.page \in Nat /\ g.frame \in Nat
    <2>1. TAKE g \in new
    <2>2. PICK i \in 0 .. n - 1 :
            g = [page |-> FrameBuffer + i, frame |-> ScreenFrame + i, to |-> "screen"]
      BY DEF Grants
    <2>. QED
      BY <1>2, <2>2
  <1>6. \A g \in granted : /\ Shape(g) /\ g.page \in Nat /\ g.frame \in Nat
                           /\ g.to \in Clients /\ g.to # "screen"
    BY <1>1, <1>2 DEF IInv, Grant, Shape
  <1>. HIDE DEF new
  <1>7. TypeOK'
    BY <1>1, <1>3 DEF TypeOK, drive, programs, Phases
  <1>8. InStep'
    BY <1>1, <1>2 DEF InStep, programs, Devices
  <1>9. UsersKnow'
    BY <1>1, <1>3, UsersStillKnow DEF drive, programs
  <1>10. ASSUME NEW g \in granted' PROVE Shape(g)'
    <2>1. CASE g \in granted
      BY <1>1, <1>2, <1>6, <2>1 DEF Shape, Devices
    <2>2. CASE g \in new
      BY <1>1, <1>2, <1>5, <2>2 DEF Shape, Devices
    <2>. QED
      BY <1>4, <2>1, <2>2
  <1>11. ASSUME HeapBelowScreen, NEW g \in granted
         PROVE  /\ KernelFirst <= g.page /\ g.page < FrameBuffer
                /\ g.frame < ScreenFrame \/ ScreenFrame + n <= g.frame
    <2>1. CASE g.to = "kernel"
      BY <1>2, <1>6, <2>1 DEF Shape
    <2>2. CASE g.to = "registers"
      BY <1>2, <1>6, <1>11, <2>2 DEF Shape, HeapBelowScreen
    <2>3. CASE g.to \notin {"kernel", "screen", "registers"}
      BY <1>2, <1>6, <1>11, <2>3 DEF Shape, HeapBelowScreen
    <2>. QED
      BY <1>6, <2>1, <2>2, <2>3
  <1>12. HeapBelowScreen' => HeapBelowScreen
    BY <1>1 DEF HeapBelowScreen
  <1>13. ASSUME HeapBelowScreen', NEW g \in granted' PROVE Mapped(g)'
    <2>1. CASE g \in granted
      <3>1. Mapped(g)
        BY <1>12, <1>13, <2>1 DEF IInv
      <3>2. g.page - KernelFirst \in Entries /\ g.page < FrameBuffer
        BY <1>2, <1>6, <1>11, <1>12, <1>13, <2>1
      <3>. QED
        BY <1>2, <1>3, <1>6, <2>1, <3>1, <3>2 DEF Mapped
    <2>2. CASE g \in new
      <3>1. /\ g.page - FrameBuffer \in 0 .. n - 1
            /\ FrameBuffer + (g.page - FrameBuffer) - KernelFirst = g.page - KernelFirst
        BY <1>2, <1>5, <2>2
      <3>. QED
        BY <1>3, <1>5, <2>2, <3>1 DEF Mapped
    <2>. QED
      BY <1>4, <2>1, <2>2
  <1>14. NothingIsGivenTwice'
    <2>1. SUFFICES ASSUME HeapBelowScreen', NEW g \in granted', NEW h \in granted',
                          g.page = h.page \/ g.frame = h.frame
                   PROVE  g = h
      BY DEF NothingIsGivenTwice
    <2>2. \A x \in granted, y \in new : x.page # y.page /\ x.frame # y.frame
      BY <1>2, <1>5, <1>6, <1>11, <1>12, <2>1
    <2>3. \A x, y \in new : x.page = y.page \/ x.frame = y.frame => x = y
      <3>1. TAKE x \in new, y \in new
      <3>2. PICK i \in 0 .. n - 1 :
              x = [page |-> FrameBuffer + i, frame |-> ScreenFrame + i, to |-> "screen"]
        BY DEF new, Grants
      <3>3. PICK j \in 0 .. n - 1 :
              y = [page |-> FrameBuffer + j, frame |-> ScreenFrame + j, to |-> "screen"]
        BY DEF new, Grants
      <3>4. x.page = y.page \/ x.frame = y.frame => i = j
        BY <1>2, <3>2, <3>3
      <3>. QED
        BY <3>2, <3>3, <3>4
    <2>. QED
      BY <1>4, <1>12, <2>1, <2>2, <2>3 DEF IInv, NothingIsGivenTwice
  <1>. QED
    BY <1>3, <1>7, <1>8, <1>9, <1>10, <1>13, <1>14 DEF IInv

-----------------------------------------------------------------------------
\* The programs.

\* Loading a program gives it a page of its own and leads page 0 there.
LEMMA ProgramPages ==
  ASSUME IInv, NEW p \in Programs, LoaderLoad(p)
  PROVE  IInv'
  <1>. DEFINE v == kernel_virtual_memory_top
              f == phsyical_memory_top
  <1>1. /\ TypeOK /\ InStep /\ UsersKnow /\ boot = "done" /\ boot' = "done" /\ pdpt0' = pdpt0
        /\ physical_memory_base' = physical_memory_base /\ UNCHANGED drive
        /\ page_allocate(1, "program") /\ 1 \in Nat \ {0} /\ "program" \in Pooled
        /\ Devices' = Devices
    BY DEF IInv, LoaderLoad, Pooled, Devices
  <1>2. Allocated(1, "program")
    BY <1>1, Allocate
  <1>3. /\ v \in Nat /\ f \in Nat /\ HeapFirst \in Nat /\ physical_memory_base \in Nat
        /\ v >= HeapFirst + 3 /\ f = physical_memory_base + (v - HeapFirst) - Devices
        /\ Devices \in Nat /\ 0 \in Entries /\ p # Kernel /\ pdpt0 = "global"
    BY <1>1, PagesAssumption DEF TypeOK, InStep, Devices
  <1>4. /\ program_page' = [program_page EXCEPT ![p] = v]
        /\ global_page_data_tables' = [global_page_data_tables EXCEPT ![0] = f]
        /\ newest' = p /\ alive' = alive \cup {p} /\ running' = p
    BY <1>2 DEF LoaderLoad, Allocated
  <1>5. /\ program_page' \in [Programs -> Nat \cup {None}] /\ program_page'[p] = v
        /\ global_page_data_tables' \in [Entries -> Frames] /\ global_page_data_tables'[0] = f
    BY <1>1, <1>3, <1>4 DEF TypeOK
  <1>6. TypeOK'
    BY <1>1, <1>2, <1>4, <1>5 DEF TypeOK, Allocated, drive
  <1>7. InStep'
    BY <1>1, <1>2, <1>3 DEF InStep, Allocated
  <1>8. UsersKnow'
    <2>1. [page |-> v, frame |-> f, to |-> "program"] \in granted' /\ granted \subseteq granted'
      <3>1. 0 \in 0 .. 1 - 1 /\ v + 0 = v /\ f + 0 = f
        BY <1>3
      <3>. QED
        BY <1>2, <3>1 DEF Allocated
    <2>2. port_page' # None =>
            clb' = port_page' - HeapFirst /\
            [page |-> port_page', frame |-> physical_memory_base' + (port_page' - HeapFirst) - 1,
             to |-> "port"] \in granted'
      BY <1>1, <2>1 DEF UsersKnow, Has, drive
    <2>3. global_buffer' # None =>
            [page |-> global_buffer', frame |-> global_buffer_addr', to |-> "buffer"] \in granted' /\
            [page |-> global_buffer' + 1, frame |-> global_buffer_addr' + 1, to |-> "buffer"]
              \in granted'
      BY <1>1, <2>1 DEF UsersKnow, Has, drive
    <2>4. [page |-> ProcessPage, frame |-> physical_memory_base' + 2, to |-> "heap"] \in granted'
      BY <1>1, <2>1 DEF UsersKnow, Has
    <2>5. newest' # Kernel /\
          [page |-> program_page'[newest'], frame |-> global_page_data_tables'[0], to |-> "program"]
            \in granted'
      BY <1>3, <1>4, <1>5, <2>1
    <2>. QED
      BY <2>2, <2>3, <2>4, <2>5 DEF UsersKnow, Has, ProcessPage
  <1>. QED
    BY <1>2, <1>6, <1>7, <1>8 DEF IInv, Allocated

\* A turn, a program's end and a step that changes nothing move no page.
LEMMA TurnsMoveNothing ==
  ASSUME IInv, TypeOK',
         UNCHANGED <<tables, physical_memory_base, tops, boot, granted, drive, program_page, newest>>
  PROVE  IInv'
  <1>1. /\ UNCHANGED <<kernel_page_data_tables, global_page_data_tables, pdpt0>>
        /\ UNCHANGED <<physical_memory_base, phsyical_memory_top, kernel_virtual_memory_top>>
        /\ UNCHANGED <<boot, granted, port_page, clb, global_buffer, global_buffer_addr>>
        /\ UNCHANGED <<program_page, newest>> /\ Devices' = Devices
    BY DEF tables, tops, drive, Devices
  <1>2. InStep'
    BY <1>1 DEF IInv, InStep
  <1>3. UsersKnow'
    BY <1>1 DEF IInv, UsersKnow, Has, ProcessPage
  <1>4. (\A g \in granted : Shape(g))'
    BY <1>1 DEF IInv, Shape
  <1>5. (HeapBelowScreen => \A g \in granted : Mapped(g))' /\ NothingIsGivenTwice'
    BY <1>1 DEF IInv, Mapped, HeapBelowScreen, NothingIsGivenTwice
  <1>. QED
    BY <1>2, <1>3, <1>4, <1>5 DEF IInv

-----------------------------------------------------------------------------
\* The invariant holds at the start.
LEMMA InitInvariant == Init => IInv
  <1>. SUFFICES ASSUME Init PROVE IInv
    OBVIOUS
  <1>1. /\ DirSize \in Nat /\ KernelFirst = 3 * DirSize /\ HeapFirst \in Nat
        /\ FrameBuffer \in Nat /\ MaxPage \in Nat /\ KernelFirst + 2 <= HeapFirst
        /\ HeapFirst <= MaxPage /\ MaxPage <= 4 * DirSize
        /\ physical_memory_base \in PhysicalBases /\ physical_memory_base \in {1, 2}
    BY PagesAssumption DEF Init, KernelFirst
  <1>2. \A g \in granted : /\ g.to = "kernel" /\ g.page = KernelFirst + g.frame
                           /\ g.frame \in 0 .. physical_memory_base - 1
                           /\ g \in Grant
                           /\ g = [page |-> KernelFirst + g.frame, frame |-> g.frame, to |-> "kernel"]
    <2>1. TAKE g \in granted
    <2>2. PICK i \in 0 .. physical_memory_base - 1 :
            g = [page |-> KernelFirst + i, frame |-> 0 + i, to |-> "kernel"]
      BY DEF Init, Grants
    <2>3. 0 + i = i /\ i \in Nat /\ KernelFirst + i \in Nat
      BY <1>1
    <2>. QED
      BY <2>2, <2>3 DEF Grant, Clients
  <1>3. TypeOK
    <2>1. granted \subseteq Grant
      BY <1>2
    <2>2. kernel_virtual_memory_top \in HeapFirst .. MaxPage /\ phsyical_memory_top \in Nat
      BY <1>1 DEF Init
    <2>3. kernel_page_data_tables \in [Entries -> Frames]
      BY <1>1 DEF Init
    <2>. QED
      BY <1>1, <2>1, <2>2, <2>3 DEF Init, TypeOK, Phases
  <1>4. InStep
    BY <1>1 DEF Init, InStep, Devices
  <1>5. UsersKnow
    BY DEF Init, UsersKnow
  <1>6. \A g \in granted : Shape(g)
    BY <1>1, <1>2 DEF Shape
  <1>7. \A g \in granted : Mapped(g)
    <2>1. TAKE g \in granted
    <2>2. g.frame \in {0, 1} /\ g.page - KernelFirst = g.frame /\ g.frame \in Entries
      BY <1>1, <1>2
    <2>. QED
      BY <2>2 DEF Init, Mapped
  <1>8. NothingIsGivenTwice
    <2>1. SUFFICES ASSUME NEW g \in granted, NEW h \in granted,
                          g.page = h.page \/ g.frame = h.frame
                   PROVE  g = h
      BY DEF NothingIsGivenTwice
    <2>2. g.frame = h.frame
      BY <1>1, <1>2, <2>1
    <2>. QED
      BY <1>2, <2>2
  <1>. QED
    BY <1>3, <1>4, <1>5, <1>6, <1>7, <1>8 DEF IInv

\* And every step keeps it.
LEMMA NextInvariant == IInv /\ [Next]_vars => IInv'
  <1>. SUFFICES ASSUME IInv, [Next]_vars PROVE IInv'
    OBVIOUS
  <1>1. CASE TakeTables
    BY <1>1, TablesPage
  <1>2. CASE TakeFirstMajor
    BY <1>2, FirstMajorPages
  <1>3. CASE MapPageZero
    BY <1>3, PageZeroMapped
  <1>4. ASSUME NEW n \in MajorSizes, KmallocMajor(n) PROVE IInv'
    BY <1>4, HeapPages
  <1>5. CASE AhciMapsRegisters
    BY <1>5, RegistersMapped
  <1>6. CASE AhciTakesPort
    BY <1>6, PortPages
  <1>7. CASE AhciTakesBuffer
    BY <1>7, BufferPages
  <1>8. ASSUME NEW n \in ScreenPages, VgaInitalize(n) PROVE IInv'
    BY <1>8, ScreenMapped
  <1>9. ASSUME NEW p \in Programs, LoaderLoad(p) PROVE IInv'
    BY <1>9, ProgramPages
  <1>10. ASSUME NEW q \in Programs \cup {Kernel}, TaskSwitch(q) PROVE IInv'
    <2>1. UNCHANGED <<tables, physical_memory_base, tops, boot, granted, drive, program_page, newest>>
      BY <1>10 DEF TaskSwitch
    <2>2. TypeOK'
      BY <1>10 DEF IInv, TypeOK, TaskSwitch, tables, tops, drive
    <2>. QED
      BY <2>1, <2>2, TurnsMoveNothing
  <1>11. ASSUME NEW q \in Programs \cup {Kernel}, ProgramEnds(q) PROVE IInv'
    <2>1. UNCHANGED <<tables, physical_memory_base, tops, boot, granted, drive, program_page, newest>>
      BY <1>11 DEF ProgramEnds
    <2>2. TypeOK'
      BY <1>11 DEF IInv, TypeOK, ProgramEnds, tables, tops, drive
    <2>. QED
      BY <2>1, <2>2, TurnsMoveNothing
  <1>12. CASE UNCHANGED vars
    <2>1. UNCHANGED <<tables, physical_memory_base, tops, boot, granted, drive, program_page, newest>>
      BY <1>12 DEF vars, programs
    <2>2. TypeOK'
      BY <1>12 DEF IInv, TypeOK, vars, tables, tops, drive, programs
    <2>. QED
      BY <2>1, <2>2, TurnsMoveNothing
  <1>. QED
    BY <1>1, <1>2, <1>3, <1>4, <1>5, <1>6, <1>7, <1>8, <1>9, <1>10, <1>11, <1>12 DEF Next

-----------------------------------------------------------------------------
\* The inductive invariant holds in every state.
THEOREM Invariant == Spec => []IInv
  BY InitInvariant, NextInvariant, PTL DEF Spec

\* The variables keep their types: a program whose turn it is has not ended.
THEOREM TypeCorrect == Spec => []TypeOK
  <1>1. IInv => TypeOK
    BY DEF IInv
  <1>. QED
    BY <1>1, Invariant, PTL

\* A granted page lies in the kernel's directory, so the kernel's table translates it.
LEMMA GrantedPagesTranslate ==
  ASSUME IInv, NEW g \in granted, HeapBelowScreen
  PROVE  Frame(g.page) = g.frame
  <1>1. /\ Shape(g) /\ g.page \in Nat /\ g.frame \in Nat /\ Mapped(g)
        /\ DirSize \in Nat /\ KernelFirst = 3 * DirSize /\ KernelFirst + 2 <= HeapFirst
        /\ HeapFirst \in Nat /\ FrameBuffer \in Nat /\ HeapFirst + 3 <= FrameBuffer
    BY PagesAssumption DEF IInv, TypeOK, Grant, KernelFirst
  <1>2. g.page >= KernelFirst
    BY <1>1 DEF Shape
  <1>. QED
    BY <1>1, <1>2 DEF Frame, Mapped

\* Every user's pages lead to its memory, below the frame buffer.
THEOREM PagesAreKept == Spec => []ClientsKeepTheirPages
  <1>1. IInv => ClientsKeepTheirPages
    BY GrantedPagesTranslate DEF ClientsKeepTheirPages
  <1>. QED
    BY <1>1, Invariant, PTL

\* No page and no frame is given twice, below the frame buffer.
THEOREM PagesAreGivenOnce == Spec => []NothingIsGivenTwice
  <1>1. IInv => NothingIsGivenTwice
    BY DEF IInv
  <1>. QED
    BY <1>1, Invariant, PTL

\* Page 0 is the page of the program loaded last.
THEOREM PageZeroIsTheLastLoaded == Spec => []PageZeroIsTheNewestProgram
  <1>1. IInv => PageZeroIsTheNewestProgram
    <2>. SUFFICES ASSUME IInv, HeapBelowScreen, pdpt0 = "global"
                  PROVE  Frame(0) = Frame(IF newest = Kernel THEN ProcessPage
                                                             ELSE program_page[newest])
      BY DEF PageZeroIsTheNewestProgram
    <2>1. Frame(0) = global_page_data_tables[0]
      <3>1. 0 \in Entries /\ ~(0 >= KernelFirst)
        BY PagesAssumption DEF KernelFirst
      <3>. QED
        BY <3>1 DEF Frame
    <2>2. CASE newest = Kernel
      <3>1. boot \notin {"start", "tables"}
        BY DEF IInv, InStep
      <3>2. [page |-> ProcessPage, frame |-> physical_memory_base + 2, to |-> "heap"] \in granted
        BY <3>1 DEF IInv, UsersKnow, Has
      <3>3. Frame(ProcessPage) = physical_memory_base + 2
        BY <3>2, GrantedPagesTranslate
      <3>4. global_page_data_tables[0] = physical_memory_base + 2
        BY <2>2 DEF IInv, UsersKnow
      <3>. QED
        BY <2>1, <2>2, <3>3, <3>4
    <2>3. CASE newest # Kernel
      <3>1. [page |-> program_page[newest], frame |-> global_page_data_tables[0],
             to |-> "program"] \in granted
        BY <2>3 DEF IInv, UsersKnow, Has
      <3>2. Frame(program_page[newest]) = global_page_data_tables[0]
        BY <3>1, GrantedPagesTranslate
      <3>. QED
        BY <2>1, <2>3, <3>2
    <2>. QED
      BY <2>2, <2>3
  <1>. QED
    BY <1>1, Invariant, PTL

\* The drive was told where its tables are exactly when the image fits in one page.
THEOREM TablesWhereTold == Spec => []DriveFindsItsTables
  <1>1. IInv => DriveFindsItsTables
    <2>. SUFFICES ASSUME IInv, HeapBelowScreen, port_page # None
                  PROVE  clb = Frame(port_page) <=> physical_memory_base = 1
      BY DEF DriveFindsItsTables
    <2>1. clb = port_page - HeapFirst
      BY DEF IInv, UsersKnow
    <2>2. [page |-> port_page, frame |-> physical_memory_base + (port_page - HeapFirst) - 1,
           to |-> "port"] \in granted
      BY DEF IInv, UsersKnow, Has
    <2>3. Frame(port_page) = physical_memory_base + (port_page - HeapFirst) - 1
      BY <2>2, GrantedPagesTranslate
    <2>4. port_page \in Int /\ HeapFirst \in Int /\ physical_memory_base \in Int
      BY PagesAssumption DEF IInv, TypeOK
    <2>. QED
      BY <2>1, <2>3, <2>4
  <1>. QED
    BY <1>1, Invariant, PTL

\* The drive's buffer is one piece of memory, where the drive is told it is.
THEOREM BufferWhereTold == Spec => []DriveFindsItsBuffer
  <1>1. IInv => DriveFindsItsBuffer
    <2>. SUFFICES ASSUME IInv, HeapBelowScreen, global_buffer # None
                  PROVE  \A i \in {0, 1} : Frame(global_buffer + i) = global_buffer_addr + i
      BY DEF DriveFindsItsBuffer
    <2>1. /\ [page |-> global_buffer, frame |-> global_buffer_addr, to |-> "buffer"] \in granted
          /\ [page |-> global_buffer + 1, frame |-> global_buffer_addr + 1, to |-> "buffer"] \in granted
      BY DEF IInv, UsersKnow, Has
    <2>2. /\ Frame(global_buffer) = global_buffer_addr
          /\ Frame(global_buffer + 1) = global_buffer_addr + 1
      BY <2>1, GrantedPagesTranslate
    <2>3. global_buffer + 0 = global_buffer /\ global_buffer_addr + 0 = global_buffer_addr
      BY DEF IInv, TypeOK
    <2>. QED
      BY <2>2, <2>3
  <1>. QED
    BY <1>1, Invariant, PTL

=============================================================================
