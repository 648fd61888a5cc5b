------------------------------- MODULE Pages --------------------------------
(***************************************************************************)
(* The page allocator and the page tables, arch/x86/memory.c, with all its *)
(* users: the heap (util/kmalloc.c), the drive (device/block/ahci.c), the  *)
(* screen (device/video/vga.c) and the programs (arch/x86/loader.c).       *)
(*                                                                         *)
(* Addresses are counted in pages of 2 MB. The kernel's table serves the   *)
(* last of the four directories, global_page_data_tables the first; the    *)
(* two between them are never used. Nothing is ever given back.            *)
(***************************************************************************)
EXTENDS Integers, FiniteSets

CONSTANTS
  DirSize,        \* PAGE_NUM_TABLES, 512
  HeapFirst,      \* KERNEL_VIRT_HEAP_BASE, page 1664
  FrameBuffer,    \* 0xE0000000, page 1792
  MaxPage,        \* bound on kernel_virtual_memory_top; 4 GB end at 4 * DirSize
  PhysicalBases,  \* frames the kernel image may be followed by
  AbarFrame,      \* 0xFEA00000, the registers of the drive
  ScreenFrame,    \* the frame buffer the boot loader reports
  ScreenPages,    \* the sizes the screen may have
  MajorSizes,     \* pages a new major of the heap may take
  TestPage,       \* 0x02800000, mapped to itself as a test
  Programs, Kernel

KernelFirst == 3 * DirSize                      \* KERNEL_VIRT_LOAD_BASE

ASSUME PagesAssumption ==
  /\ DirSize \in Nat /\ HeapFirst \in Nat /\ FrameBuffer \in Nat /\ MaxPage \in Nat
  /\ KernelFirst + 2 <= HeapFirst /\ HeapFirst + 3 <= FrameBuffer
  /\ FrameBuffer < MaxPage /\ MaxPage <= 4 * DirSize
  /\ PhysicalBases \subseteq {1, 2}             \* the kernel maps two pages of itself
  /\ ScreenPages \subseteq Nat
  /\ \A n \in ScreenPages : FrameBuffer + n <= 4 * DirSize
  /\ MajorSizes \subseteq Nat \ {0}
  /\ TestPage \in 1 .. DirSize - 1
  /\ AbarFrame \in Nat /\ ScreenFrame \in Nat
  /\ 2 + MaxPage - HeapFirst <= ScreenFrame     \* memory lies below the devices
  /\ ScreenFrame <= AbarFrame
  /\ \A n \in ScreenPages : ScreenFrame + n <= AbarFrame
  /\ Kernel \notin Programs

NoFrame == -1
Frames == Nat \cup {NoFrame}
Entries == 0 .. DirSize - 1
Clients == {"kernel", "tables", "heap", "registers", "port", "buffer", "screen", "program"}
Phases == {"start", "tables", "heap", "devices", "registers", "port", "drive", "done"}

VARIABLES
  kernel_page_data_tables,
  global_page_data_tables,
  pdpt0,                        \* the table of the first directory
  physical_memory_base,
  phsyical_memory_top,
  kernel_virtual_memory_top,
  boot,                         \* how far kernel_main has come
  granted,                      \* every page handed out: its frame then, and to whom
  port_page, clb,               \* the drive's tables, and the frame it was told
  global_buffer, global_buffer_addr,   \* its buffer, and the frame it is told
  program_page,                 \* the page each program was loaded into
  newest,                       \* the program loaded last
  alive, running                \* programs that have not ended; whose turn it is

tables == <<kernel_page_data_tables, global_page_data_tables, pdpt0>>
tops == <<phsyical_memory_top, kernel_virtual_memory_top>>
drive == <<port_page, clb, global_buffer, global_buffer_addr>>
programs == <<program_page, newest, alive, running>>
vars == <<tables, physical_memory_base, tops, boot, granted, drive, programs>>

Grant == [page : Nat, frame : Nat, to : Clients]
None == -1                                      \* no page, no frame yet

TypeOK ==
  /\ kernel_page_data_tables \in [Entries -> Frames]
  /\ global_page_data_tables \in [Entries -> Frames]
  /\ pdpt0 \in {"kernel", "global"}
  /\ physical_memory_base \in PhysicalBases
  /\ phsyical_memory_top \in Nat
  /\ kernel_virtual_memory_top \in HeapFirst .. MaxPage
  /\ boot \in Phases
  /\ granted \subseteq Grant
  /\ {port_page, clb, global_buffer, global_buffer_addr} \subseteq Frames
  /\ program_page \in [Programs -> Nat \cup {None}]
  /\ newest \in Programs \cup {Kernel}
  /\ alive \subseteq Programs
  /\ running \in alive \cup {Kernel}

-----------------------------------------------------------------------------
\* The processor's translation of a page, as mem_virt_to_phys repeats it.
Frame(v) ==
  IF v >= KernelFirst THEN kernel_page_data_tables[v - KernelFirst]
  ELSE IF v \notin Entries THEN NoFrame
  ELSE IF pdpt0 = "kernel" THEN kernel_page_data_tables[v]
  ELSE global_page_data_tables[v]

\* n grants of pages from v on to client to.
Grants(v, f, n, to) ==
  {[page |-> v + i, frame |-> f + i, to |-> to] : i \in 0 .. n - 1}

\* page_map of n pages of the kernel's directory, one after the other.
PageMap(v, f, n, to) ==
  /\ kernel_page_data_tables' =
       [e \in Entries |-> IF v <= KernelFirst + e /\ KernelFirst + e < v + n
                            THEN f + (KernelFirst + e - v)
                            ELSE kernel_page_data_tables[e]]
  /\ granted' = granted \cup Grants(v, f, n, to)

Room(n) == kernel_virtual_memory_top + n <= MaxPage

\* Variant: the frame goes on only once for a whole request.
page_allocate_OneFrame(n, to) ==
  /\ Room(n)
  /\ PageMap(kernel_virtual_memory_top, phsyical_memory_top, n, to)
  /\ kernel_virtual_memory_top' = kernel_virtual_memory_top + n
  /\ phsyical_memory_top' = phsyical_memory_top + 1

page_allocate(n, to) ==
  /\ Room(n)
  /\ PageMap(kernel_virtual_memory_top, phsyical_memory_top, n, to)
  /\ kernel_virtual_memory_top' = kernel_virtual_memory_top + n
  /\ phsyical_memory_top' = phsyical_memory_top + n

\* Variant: the page stays the next one to give.
page_allocate_and_map_Stays(f, to) ==
  /\ Room(1)
  /\ PageMap(kernel_virtual_memory_top, f, 1, to)
  /\ UNCHANGED tops

\* A device's frame takes a page but none of the memory.
page_allocate_and_map(f, to) ==
  /\ Room(1)
  /\ PageMap(kernel_virtual_memory_top, f, 1, to)
  /\ kernel_virtual_memory_top' = kernel_virtual_memory_top + 1
  /\ UNCHANGED phsyical_memory_top

-----------------------------------------------------------------------------
\* memory_initalize. The kernel has mapped itself; the low directory is its table too.

Init ==
  /\ kernel_page_data_tables = [e \in Entries |-> IF e \in {0, 1} THEN e ELSE NoFrame]
  /\ global_page_data_tables = [e \in Entries |-> NoFrame]
  /\ pdpt0 = "kernel"
  /\ physical_memory_base \in PhysicalBases
  /\ phsyical_memory_top = physical_memory_base
  /\ kernel_virtual_memory_top = HeapFirst
  /\ boot = "start"
  /\ granted = Grants(KernelFirst, 0, physical_memory_base, "kernel")
  /\ port_page = None /\ clb = None
  /\ global_buffer = None /\ global_buffer_addr = None
  /\ program_page = [p \in Programs |-> None]
  /\ newest = Kernel /\ alive = {} /\ running = Kernel

Boots(from, to) == boot = from /\ boot' = to

TakeTables ==
  /\ Boots("start", "tables")
  /\ page_allocate(1, "tables")
  /\ UNCHANGED <<global_page_data_tables, pdpt0, physical_memory_base, drive, programs>>

\* kmalloc of one page: with its headers that is the first major, of two pages.
TakeFirstMajor ==
  /\ Boots("tables", "heap")
  /\ page_allocate(2, "heap")
  /\ UNCHANGED <<global_page_data_tables, pdpt0, physical_memory_base, drive, programs>>

\* process_address_space: one page behind the start of the first major.
ProcessPage == HeapFirst + 2

\* The low directory gets its own table; page 0 leads into the heap for now.
MapPageZero ==
  /\ Boots("heap", "devices")
  /\ global_page_data_tables' =
       [global_page_data_tables EXCEPT ![0] = ProcessPage + physical_memory_base - HeapFirst,
                                       ![TestPage] = TestPage]
  /\ pdpt0' = "global"
  /\ UNCHANGED <<kernel_page_data_tables, physical_memory_base, tops, granted, drive, programs>>

\* liballoc_alloc for a kmalloc that finds no room, of the kernel or of a handler.
KmallocMajor(n) ==
  /\ boot \notin {"start", "tables", "heap"}
  /\ page_allocate(n, "heap")
  /\ UNCHANGED <<global_page_data_tables, pdpt0, physical_memory_base, boot, drive, programs>>

-----------------------------------------------------------------------------
\* ahci_initalize.

AhciMapsRegisters ==
  /\ Boots("devices", "registers")
  /\ page_allocate_and_map(AbarFrame, "registers")
  /\ UNCHANGED <<global_page_data_tables, pdpt0, physical_memory_base, drive, programs>>

\* Variant: the port's tables are told as if no page had gone to the registers.
AhciTakesPort_Next ==
  /\ Boots("registers", "port")
  /\ page_allocate(1, "port")
  /\ port_page' = kernel_virtual_memory_top
  /\ clb' = kernel_virtual_memory_top - HeapFirst + 1
  /\ UNCHANGED <<global_page_data_tables, pdpt0, physical_memory_base,
                 global_buffer, global_buffer_addr, programs>>

\* port_rebase tells the drive an address computed from the virtual one.
AhciTakesPort ==
  /\ Boots("registers", "port")
  /\ page_allocate(1, "port")
  /\ port_page' = kernel_virtual_memory_top
  /\ clb' = kernel_virtual_memory_top - HeapFirst
  /\ UNCHANGED <<global_page_data_tables, pdpt0, physical_memory_base,
                 global_buffer, global_buffer_addr, programs>>

\* Variant: the buffer's frame is computed as the port's is.
AhciTakesBuffer_Computed ==
  /\ Boots("port", "drive")
  /\ page_allocate(2, "buffer")
  /\ global_buffer' = kernel_virtual_memory_top
  /\ global_buffer_addr' = kernel_virtual_memory_top - HeapFirst
  /\ UNCHANGED <<global_page_data_tables, pdpt0, physical_memory_base, port_page, clb, programs>>

\* The frame of the buffer is read back from the page table.
AhciTakesBuffer ==
  /\ Boots("port", "drive")
  /\ page_allocate(2, "buffer")
  /\ global_buffer' = kernel_virtual_memory_top
  /\ global_buffer_addr' = kernel_page_data_tables'[kernel_virtual_memory_top - KernelFirst]
  /\ UNCHANGED <<global_page_data_tables, pdpt0, physical_memory_base, port_page, clb, programs>>

\* Variant: the screen's pages count from the heap on.
VgaInitalize_AtTop(n) ==
  /\ Boots("drive", "done")
  /\ PageMap(FrameBuffer - 1, ScreenFrame, n, "screen")
  /\ UNCHANGED <<global_page_data_tables, pdpt0, physical_memory_base, tops, drive, programs>>

\* vga_initalize maps the screen at its fixed place, whatever is there.
VgaInitalize(n) ==
  /\ Boots("drive", "done")
  /\ PageMap(FrameBuffer, ScreenFrame, n, "screen")
  /\ UNCHANGED <<global_page_data_tables, pdpt0, physical_memory_base, tops, drive, programs>>

-----------------------------------------------------------------------------
\* loader_load and the programs' turns.

\* Variant: page 0 gets the frame that is free next, not the one of the new page.
LoaderLoad_FrameOnTop(p) ==
  /\ boot = "done" /\ running = Kernel /\ p \notin alive
  /\ page_allocate(1, "program")
  /\ program_page' = [program_page EXCEPT ![p] = kernel_virtual_memory_top]
  /\ global_page_data_tables' = [global_page_data_tables EXCEPT ![0] = phsyical_memory_top']
  /\ newest' = p /\ alive' = alive \cup {p} /\ running' = p
  /\ UNCHANGED <<pdpt0, physical_memory_base, boot, drive>>

\* The shell loads p into a page of its own, maps page 0 to its frame and hands over.
LoaderLoad(p) ==
  /\ boot = "done" /\ running = Kernel /\ p \notin alive
  /\ page_allocate(1, "program")
  /\ program_page' = [program_page EXCEPT ![p] = kernel_virtual_memory_top]
  /\ global_page_data_tables' =
       [global_page_data_tables EXCEPT
          ![0] = kernel_page_data_tables'[kernel_virtual_memory_top - KernelFirst]]
  /\ newest' = p /\ alive' = alive \cup {p} /\ running' = p
  /\ UNCHANGED <<pdpt0, physical_memory_base, boot, drive>>

\* A task switch touches no table: set_task_pde is never called.
TaskSwitch(q) ==
  /\ q \in alive \cup {Kernel} /\ q # running
  /\ running' = q
  /\ UNCHANGED <<tables, physical_memory_base, tops, boot, granted, drive,
                 program_page, newest, alive>>

ProgramEnds(q) ==
  /\ running # Kernel
  /\ alive' = alive \ {running}
  /\ q \in alive' \cup {Kernel} /\ running' = q
  /\ UNCHANGED <<tables, physical_memory_base, tops, boot, granted, drive,
                 program_page, newest>>

Next ==
  \/ TakeTables \/ TakeFirstMajor \/ MapPageZero
  \/ \E n \in MajorSizes : KmallocMajor(n)
  \/ AhciMapsRegisters \/ AhciTakesPort \/ AhciTakesBuffer
  \/ \E n \in ScreenPages : VgaInitalize(n)
  \/ \E p \in Programs : LoaderLoad(p)
  \/ \E q \in Programs \cup {Kernel} : TaskSwitch(q) \/ ProgramEnds(q)

Spec == Init /\ [][Next]_vars

=============================================================================
