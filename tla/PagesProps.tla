----------------------------- MODULE PagesProps -----------------------------
(***************************************************************************)
(* What the users of the page allocator of module Pages rely on.           *)
(***************************************************************************)
EXTENDS Pages

\* The heap has not grown into the frame buffer (memory.c:395 has no limit).
HeapBelowScreen == kernel_virtual_memory_top <= FrameBuffer

\* As long as the heap stays below the frame buffer, every page ever handed out, to
\* the heap, the drive, the screen or a program, leads to the frame it was handed out
\* with: no later page_map took it away (memory.c:338-419, vga.c:49-55).
ClientsKeepTheirPages ==
  HeapBelowScreen => \A g \in granted : Frame(g.page) = g.frame

\* And no page and no frame went to two of them, the device's frames and the frames of
\* the kernel's own image included (memory.c:74-77, 395-419).
NothingIsGivenTwice ==
  HeapBelowScreen =>
    \A g, h \in granted : g.page = h.page \/ g.frame = h.frame => g = h

\* Page 0, where every NULL pointer and every program points, leads to the page of the
\* program loaded last, whoever runs; before the first one into the heap's first major,
\* never to the kernel, the drive or the screen (memory.c:143, loader.c:51-53).
PageZeroIsTheNewestProgram ==
  HeapBelowScreen /\ pdpt0 = "global" =>
    Frame(0) = Frame(IF newest = Kernel THEN ProcessPage ELSE program_page[newest])

\* The address port_rebase computes is where the port's tables are exactly when the
\* kernel's image ends in its first page: the one page of memory before the pool makes
\* up for the one page of the heap that went to the registers (ahci.c:215-225, 476).
DriveFindsItsTables ==
  HeapBelowScreen /\ port_page # None =>
    (clb = Frame(port_page) <=> physical_memory_base = 1)

\* The drive writes sectors from global_buffer_addr on: the two pages of the buffer
\* are one piece of memory and begin there (ahci.c:229-243).
DriveFindsItsBuffer ==
  HeapBelowScreen /\ global_buffer # None =>
    \A i \in {0, 1} : Frame(global_buffer + i) = global_buffer_addr + i

-----------------------------------------------------------------------------
\* What the allocator keeps, in the form its steps need.

\* The heap's pages and the memory advance together, but for the registers' page.
Devices == IF boot \in {"start", "tables", "heap", "devices"} THEN 0 ELSE 1

InStep ==
  /\ phsyical_memory_top = physical_memory_base + (kernel_virtual_memory_top - HeapFirst) - Devices
  /\ boot = "start" => kernel_virtual_memory_top = HeapFirst
  /\ boot = "tables" => kernel_virtual_memory_top = HeapFirst + 1
  /\ boot = "heap" => kernel_virtual_memory_top = HeapFirst + 3
  /\ boot \notin {"start", "tables"} => kernel_virtual_memory_top >= HeapFirst + 3
  /\ pdpt0 = "kernel" <=> boot \in {"start", "tables", "heap"}
  /\ newest # Kernel => boot = "done"

\* Where the pages and the frames of each client lie.
Shape(g) ==
  /\ g.to = "kernel" => g.page = KernelFirst + g.frame /\ g.frame < physical_memory_base
  /\ g.to = "screen" => /\ boot = "done"
                        /\ FrameBuffer <= g.page /\ g.page < 4 * DirSize
                        /\ g.frame = ScreenFrame + (g.page - FrameBuffer)
                        /\ g.frame < AbarFrame
  /\ g.to = "registers" => /\ Devices = 1 /\ g.frame = AbarFrame
                           /\ HeapFirst <= g.page /\ g.page < kernel_virtual_memory_top
  /\ g.to \notin {"kernel", "screen", "registers"} =>
       /\ HeapFirst <= g.page /\ g.page < kernel_virtual_memory_top
       /\ physical_memory_base <= g.frame /\ g.frame < phsyical_memory_top

\* The grant of page v with frame f to client to is on record.
Has(v, f, to) == [page |-> v, frame |-> f, to |-> to] \in granted

\* What the drive and the programs were told is what was granted.
UsersKnow ==
  /\ port_page # None =>
       /\ clb = port_page - HeapFirst
       /\ Has(port_page, physical_memory_base + (port_page - HeapFirst) - 1, "port")
  /\ global_buffer # None =>
       /\ Has(global_buffer, global_buffer_addr, "buffer")
       /\ Has(global_buffer + 1, global_buffer_addr + 1, "buffer")
  /\ boot \notin {"start", "tables"} => Has(ProcessPage, physical_memory_base + 2, "heap")
  /\ newest = Kernel /\ pdpt0 = "global" =>
       global_page_data_tables[0] = physical_memory_base + 2
  /\ newest # Kernel => Has(program_page[newest], global_page_data_tables[0], "program")

\* The frame of a granted page stands in the kernel's table.
Mapped(g) == kernel_page_data_tables[g.page - KernelFirst] = g.frame

IInv ==
  /\ TypeOK /\ InStep /\ UsersKnow
  /\ \A g \in granted : Shape(g)
  /\ HeapBelowScreen => \A g \in granted : Mapped(g)
  /\ NothingIsGivenTwice

=============================================================================
