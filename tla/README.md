# A verification development for VersionV (VVOS)

VersionV is a 32-bit x86 hobby operating system. Its own code is `src/kernel/`
(about 10,800 lines of C and assembly). `scratch/`, `support/`, `modules/`,
`iso/` and `os_root/` hold experiments, host tools and the contents of the disk
image; they are not part of the kernel and are left aside. Paths below are
relative to `src/kernel/`.

Contents: [the system](#the-system), [inventory](#inventory),
[modules](#modules-and-how-they-correspond-to-the-code), [runs](#runs-bounds-and-what-they-show),
[fairness](#fairness), [proofs](#what-is-proved),
[disagreements](#where-code-and-comments-disagree),
[limits](#what-is-not-modelled), [plan](#plan).

## The system

`kernel_main` (`kernel.c`) initialises in a fixed order: multiboot data,
devices, terminal, serial ports, memory, symbols, interrupts, observers, PS/2
(keyboard, mouse), serial interrupts, tasks, PCI, AHCI, the file system, VGA,
vUI and the console window; it then runs `task_check` and enters `kshell_run`,
which never returns. Everything the system does afterwards is one of: a command
of the shell, a turn of another task, or an interrupt.

There is one CPU. Tasks are cooperative: no interrupt switches them. System
calls enter through an interrupt gate and run with interrupts off. What remains
concurrent is the interrupt handlers (timer, keyboard, mouse, serial) against
the kernel's own code, which runs with interrupts on, and the tasks against each
other at the places where they yield.

```
 key --> keyboard.c --> observer.c --+--> keyboard's own ring (no reader left)
                                     +--> vui.c --> kapps_console.c ring --+
                                                                           v
 screen <-- vui_console.c <-- terminal.c <-- printf <-- kshell.c  <-- kapps_console_getchar
              serial ports <-----+   <-- debugf/klog     |
                                                         +--> task.c, loader.c (tasks)
                                                         +--> afs.c --> ahci.c (files)
                     everything --> kmalloc.c --> memory.c (pages)
```

## Inventory

State, operations, interactions, what is hard, and what makes the component
correct. `PROJECT.json` lists the same components with their status, and the
hazards at their lines.

| Component | State and operations | Interacts with | Hard, and what must hold |
|---|---|---|---|
| Tasks and scheduler (`arch/x86/task.c`, `device/chipset/interrupts_asm.s`, `syscall/sched_yield*.c`, `exit.c`) | `tasks[]`, `task_current`; `task_add`, `switch_next_task`, `switch_task_to`, `kexec`, `kfork`, `task_exit`, `task_check` | shell, loader, system calls | Long sequences of legal calls, ids never given back, an uninitialised id compared on creation. Every live task stays findable by the scan, ended ones stay ended, task 0 always comes back. |
| Kernel heap (`util/kmalloc.c`) | majors in a list, minors in each, running totals, `l_bestBet`; `kmalloc`, `kfree`, `krealloc`, `kcalloc` | every component; `page_allocate` | Four places a block may go, unlinking of empty majors, interrupts inside a call. Blocks are disjoint and large enough, list and accounts are exact, pages are taken only when needed. |
| System calls (`arch/x86/syscall.c`, `syscall/*.c`) | none of their own; dispatch, `open`, `read`, `write`, `close`, `sbrk`, ... | tasks, files, terminal | `close` and `sbrk` do nothing; `read` of standard input blocks by yielding. |
| Interrupts and PICs (`device/chipset/interrupts.c`) | the IDT, two controllers with mask, requests and lines in service, `timer_var`; dispatch, `interrupt_unmask_irq`, `remap_pic` | all handlers | Handlers run between any two instructions from the first `sti` on; an interrupt without a gate ends the machine; a line that is not acknowledged blocks those behind it. |
| Keyboard (`device/character/keyboard.c`, `chipset/ps2.c`) | `is_shift`, `character_buffer` and its indices; `keyboard_interrupt_handler` | observers, heap | Works on the heap inside an interrupt; its own ring wraps one cell late. |
| Observers (`util/observer.c`) | subjects and observers in fixed tables | keyboard, mouse, vUI | Order of registration; limits of the tables. |
| Console application (`kapps/kapps_console.c`) | `console_in_buffer` and its indices; `kapps_console_handle_events`, `kapps_console_getchar` | vUI, shell, scheduler | Writer in an interrupt, reader in steps; wrap and overflow. Keys arrive once and in order. |
| Kernel shell (`util/kshell.c`) | `line`, `line_pos`, `argv`; `kshell_get_line`, `kshell_process_line`, commands | console, tasks, files, loader | Buffer limits of line, words and `cat`. |
| vUI console (`ui/vui_console.c`) | page, cursor, colours, escape parser; `vui_console_putc` | terminal, heap | Wrap, scroll, tab and escape codes in every combination; uninitialised fields. The page shows the lines in order. |
| Terminal (`device/character/terminal.c`, `include/debug.h`) | `is_debug_output`, `redirect_putc`; `term_put_char`, `debugf`, `klog` | vUI console, serial ports, every handler | One global flag shared with interrupt handlers. |
| Files (`fs/afs.c`, `fs/fs.c`) | image, descriptors, `next_fd`; `afs_open`, `afs_read`, the two path lookups | AHCI, heap, loader, shell, fonts | Two searches that treat a path differently, failed reads in the middle, descriptors never given back. A descriptor is one file's place and size. |
| AHCI, ATA (`device/block/*.c`) | the registers of one port, its list of commands, one buffer; `port_rebase`, `read_ahci`, `ahci_read_at_byte_offset*` | files, pages | A drive that works on its own between any two accesses, fails, stops, stays busy; commands that stay in the list; byte ranges over sectors. Success is the sectors asked for, failure has a reason of this read. |
| Loader, ELF, libraries (`arch/x86/loader.c`, `fs/elf.c`, `fs/dynamiclib.c`) | a task per program, pages at virtual 0 | files, tasks, memory | One set of page tables for all programs. |
| Memory (`arch/x86/memory.c`) | two tables of 512 pages, physical and virtual tops; `page_allocate`, `page_map`, `page_allocate_and_map` | heap, AHCI, VGA, loader | Bump allocation without a limit meets the mapped frame buffer; page 0 is one for all programs; physical addresses are computed, not looked up. |
| vUI handles, windows, alerts (`ui/vui.c`, `ui/vui_*.c`) | `handles[256]`, active window, parents; `vui_add_handle`, `vui_set_parent`, `vui_keypress`, `vui_get_handle_at_point` | console, observers, mouse | The table only grows; keys before a window is active; clicks between the making of an object and its parent. |
| Mouse (`device/character/mouse.c`) | packet position, pointer; `mouse_initalize`, `mouse_handler` | vUI, keyboard (one shared buffer) | Bytes that are lost or belong to the keyboard, requests left by the set-up; resynchronisation. |
| Serial (`device/character/serial.c`, `util/serial_client.c`) | ports; read and write | terminal | Polling writes. |
| PCI, devices (`chipset/pci.c`, `device/device.c`) | two fixed tables | boot, AHCI | Limits of the tables. |
| Lists (`util/vv_list.c`) | a linked list | nothing calls it | -- |
| Kernel applications (`kapps/kapps_ps.c`, `kapps_memviewer.c`) | none | tasks, vUI | Print and draw. |
| Boot (`bootstrap/*`, `kernel.c`) | the order of initialisation | all | Gives the initial states of the modules. |
| Dead code (`arch/x86/callback.c`, `fs/modules_bootsrap.c`, `device/net/intel8254.c`, `setup_test_task`, `task_initalize_and_run`, partial contexts, ...) | -- | never called | -- |

## Modules, and how they correspond to the code

Each component is a module; `...Props` states its properties and `...Proofs`
proves them. An `MC...` module holds only the definitions its `.cfg` files
need. Operators named `X_Late`, `X_First` and the like, next to an operator `X`
and introduced by "As if" or "Variant", are plausible bugs of `X`: no
specification uses them, and each property is known to fail when one of them takes the place of the
operator.

### `Tasks`, `TasksProps`, `TasksProofs`, `CpuHandover`

`used` and `status` are the fields `id` and `status` of `tasks[]`,
`task_current` is the global of that name. A saved register context is
abstracted to `pc[t]`, the call task `t` makes next; an action is one call of
the running task with everything it does until control is in C code again
(`SchedYield` is the whole of `sched_yield_asm` with `switch_next_task`).
`local` holds the ids `task_add` returned to task 0. `KernelStep` is
`kernel_main` from `task_check` on: first the check, then the first `ps`, then
shell commands in any order. `TaskStep` is the rest: the check's loops, `ps`,
programs that yield or end, and the way out through `task_exit`.

* `task_add` compares `t->id` before anything set it; `AddedStatus` lets the new
  task start ACTIVE or WAIT.
* `kfork`'s child has no entry point of its own: its first turn is the machine
  state `fault`. A `task_add` that runs off the end of `tasks[]` is `overrun`,
  a scan that finds nobody is `died`, the `q` command is `off`.

`CpuHandover` is what the scheduler promises without slots or statuses: tasks
are created, made ready once, given the CPU one at a time by its holder, and end
for good. `TasksProps!Handover` maps each slot to a phase of life.

### `Heap`, `HeapProps`, `HeapProofs`, `HeapIrq`

A major is a number (its order of creation), a minor a record of its offset and
two sizes. `order` is the list from `l_memRoot` along `next`. The list of minors
is kept in address order by the code, so it is a set and a walk along it a walk
over offsets. The walk of `kmalloc` over the majors, with its start at
`l_bestBet` and its restart at `l_memRoot`, is kept; so are the four places a
block may go, the alignment padding, and `krealloc`'s copy and shrink.

`HeapIrq` extends the heap with one window: `kmalloc` has linked a new major and
not yet put a block in it, and a key interrupt, whose handler calls `kmalloc`
and `kfree` twice, falls there. `liballoc_lock` sets a flag and its answer is
ignored.

### `Input`, `InputProps`, `InputProofs`, `LineSource`

`keyboard_interrupt_handler` is the whole handler with both observers. The reader is task
0 in `kapps_console_getchar`, split at every read and write of the shared ring
(test, yield, take, increment, wrap) and followed by `kshell_get_line` on the
character. The byte behind each 255-byte array is written by the code, so each
ring has that extra cell. `lost` is history: the ring overflowed once, after
which nothing is promised.

`LineSource` is the promise: a queue of characters, cut into lines at a newline
or after 256 characters. The mapping puts together the line so far, the
character in the reader's hand and the unread part of the ring.

### `Files`, `FilesProps`, `FilesProofs`

A block of the image is what its bytes read as: a type, a size, an index of
names. `afs_get_generic_block` (size) and `afs_get_file_location` with
`afs_get_parent_dir` (place) are two separate searches, as in the code, each
with its treatment of slashes, files on the way and missing names.
`ahci_read_at_byte_offset_512_chunks` turns a byte range into sector reads of
which each may fail. `FilesProps!FilesNamed` says what a path denotes without
any walk. The tools that build the image enter a name without looking for it, so a
directory may hold a name twice: one search then takes the last entry, the other
the first. What is promised of a path is promised of images where that does not
happen (`WellNamed`); the run has images of both kinds.

### `VuiConsole`, `VuiConsoleProps`, `VuiConsoleProofs`

One character is one step: texts come from one task at a time, and no interrupt
writes to the console. A cell of `data` holds the number of the line its
character belongs to, 0 for a blank, which is what order and loss of lines
depend on. `captured_escape`, its index, the flag and `tab_size` start as the
memory was, for `vui_console_new` never sets them. Writes past
`captured_escape` hit what lies behind it: padding, then `tab_size` (`TabAt`),
then the pointer `data` (`DataAt`), where the run ends as `code_overrun`.

### `Terminal`

`Starts`, `debug_out_on`, `Puts`, `debug_out_off` are `printf` and the macros
`debugf` and `klog`, a character per step; `KeyInterrupt` and `MouseInterrupt`
fall between any two and print debug text of their own. (The timer's handler
would print too, but its line is masked, see `Interrupts`; an exception prints
and then ends the machine.) `stage` follows the boot: nothing prints to a screen
before `vui_console_main` sets the redirection. `sent` and `disturbed` are
history. Its proofs stand beside those of the console it prints to, at the end of
`VuiConsoleProofs`, which is why its names begin with `Terminal` (`TerminalSpec`).

### `Pages`, `PagesProps`, `PagesProofs`

`kernel_page_data_tables` and `global_page_data_tables` are the two tables the
code fills, one entry per page of 2 MB; `Frame` is the translation, the one of
`mem_virt_to_phys` and of the processor. `boot` follows `kernel_main` through
`memory_initalize`, `ahci_initalize` and `vga_initalize`; after it the heap grows
and programs are loaded, run and end. `granted` is history: each page that was
handed out, with the frame it got and its user. The bound `MaxPage` is above
`FrameBuffer`, so the heap does run over the screen in the model; every property
says that it holds below.

### `Drive`, `DriveProps`, `DriveProofs`, `SectorReads`

The kernel's part is `port_rebase` with `stop_cmd` and `start_cmd`, then reads,
each step one access to a register of the port: clear the errors, find a slot,
build the command, spin while busy, issue, wait, look for an error, look again.
`call` is either one command for several sectors (`ahci_read_at_byte_offset`) or
a chunk per sector (`..._512_chunks`). The drive's part is external and takes its
steps between any two of those: engines start and stop, a command is fetched, its
sectors move one by one, it completes or fails; after a failure the drive goes on
or stops with the command in its slot. `cap`, `ci`, `tfes`, `st`, `fre`, `cr`,
`fr`, `clb` are the fields of those names in the port's registers; `cmdslots` is
computed with the mask the code uses, which loses a bit.

`SectorReads` is what the file system sees: a question, and either exactly the
sectors asked for or a failure. `Files` reads through that interface (its
`Filled`); `DriveProps!Abstract` maps the driver to it.

### `Interrupts`, `Desktop`, `DesktopProps`, `DesktopProofs`

`Interrupts` is the two controllers and the gates: requests (`irr`), lines in
service (`isr`), the mask of the first (`pic1_irq_mask`), priorities and the
cascade, `interrupts_initalize` and `ps2_initalize` as they program them, and the
acknowledgement at the end of `interrupt_default_handler`. `Takes` is an interrupt that
finds its gate, `NoGate` one that does not and switches the machine off. `SystemCall` is
what a system call does here: `syscall_handler` (`syscall.c:56`) acknowledges at both
controllers although no line was raised, and so ends the service of whatever is in
service, line 8 included; of the calls, the two that yield return before it.

`Desktop` composes it with the two devices of `ps2.c`, the two handlers, the
delivery of a key to the active window, and the table of objects. `port` is the
one output buffer; a byte in it carries its sender, which the handlers cannot
see. `boot` is the program counter of `kernel_main`, one step per call that
changes what a handler reads: gates, observer, objects, parents, the event
handler, the active window; afterwards it is the shell's, which makes windows of
the memory viewer as often as the user likes, and runs programs, whose system calls
acknowledge (`ProgramCalls`). A key is a press; what becomes of
its code is `Input`'s. `heard`, `plain`, `slipped`, `astray`, `leftover`, `pressed` and
`delivered` are history.

`ps2_initalize` runs with interrupts off, but not with the devices off: `MouseInitalize`
enables the mouse (0xF4, `mouse.c:80`), which may report from then on; `Flush` is one
turn of the loop in `keyboard_initalize` that throws away what is in the buffer, a byte
of a packet as well as a key; `KeyboardInitalize` is the moment it finds the buffer
empty; `Ps2Gates` sets the gates and lets interrupts in. Between any two of these the
devices go on, so the mouse may be within a packet when the count starts at 0, and a
request may stand for a byte that is gone or for another one. `mouse_read` gives up after
a while and takes a key for an answer, so the answers to the last two commands
may come late (`owed`). `astray` says that by any of this `mouse_handler` may be at
another byte than the mouse, until a packet whose last two bytes have bit 3 clear has put
it right. Assumed of the device: it sends no packet before 0xF4, and none before its
answers; no earlier answer than those of 0xF6 and 0xF4 comes late. Not modelled: that a
key is read for the configuration byte (`mouse.c:62`), after which either device may be
switched off or silent.

## Runs, bounds and what they show

| Run | States, depth | Bounds | Question |
|---|---|---|---|
| `tasks` | 1,993, 44 | 8 slots: task 0, the two of `task_check`, up to five more; the table fills up | Does every task keep its place in the scan, does every ready task and always task 0 get the CPU, how often is it overtaken, is it a refinement of `CpuHandover`? |
| `heap` | 22,825, 16 | 3 majors of 1 or 2 pages of 12 units; requests 0, 1, 5, 17 | Do blocks stay apart and large enough, do list and accounts stay exact, are pages taken only when no gap fits? |
| `heap_irq` | violated, 9 states | requests 0 and 5 | Does the lock protect the list from a key interrupt? |
| `input` | 110,205, 47 | rings of 2 (+1 cell), line of 3, 7 interrupts | Do keys arrive once, in order, in complete lines, and is a complete line processed? |
| `files` | 195,321, 4 | 24 images, 10 kinds of path, ranges inside and across sectors, two descriptors to give out | Do the two lookups agree, why does open fail, what does a read deliver? |
| `console` | 1,363,997, 29 | 3x3 page, 7 lines, tab sizes 0 and 2 | Does the page stay in order, does the cursor stay on it? |
| `console_codes` | 44,588, 65 | 3x1 page, 9 cells for a code, two contents of memory | Does a code set the colours it names? |
| `terminal` | 518, 12 | texts of up to 5 characters | Where does each character go? |
| `pages` | 23,620, 23 | directories of 16 pages, 12 pages of heap below the screen and 2 over it, images of one and two pages, two programs | Does every page lead where it was handed out, is anything handed out twice, whose page is page 0, is the drive told the right addresses? |
| `drive` | 6,348, 80 | 1, 3 or 5 slots, 2 polls, reads of 2 sectors in one command and of 3 in chunks | Why does a read fail, are handed commands left alone, does a read end, is it a refinement of `SectorReads`? |
| `desktop` | 496,340, 49 | lines 0, 1, 8 and 12, two keys once the console listens, five objects | Does each byte reach its handler, do packets fall back into step, does the console get every key, does a click end, when can the machine go down? |
| `interrupts_timer` | violated, 2 states | lines 0, 1 and 12 | Is the timer unmasked, as the comment says? |

Types are not a question of these runs: of every module that a passing run checks,
`TypeCorrect` (of `Terminal`, `PrintTypeCorrect`) is a theorem.

Why the bounds are enough. *Tasks*: the scan wraps over used, ended and free
slots, and every command appears in every order. *Heap*: three majors are the
least in which the first, a middle and the last one of a list can be unlinked
and in which a search starts in the middle and starts again; a page holds two
blocks of the small requests, so a gap arises before the first, between and
behind; a gap left by the smallest request is one unit too short for the next,
where an off-by-one would show. *Input*: both rings wrap twice; the ring
overflows and the line fills at every point of the reader. *Files*: two blocks
beside the root, each a file or a directory, give a directory in a directory,
a file on the way, equal names at two levels and in one directory, and missing
names; a range may
begin and end anywhere in a sector of three bytes. *Console*: lines wrap, the
page scrolls twice, the line under the cursor is overwritten. *Codes*: the full
code of the kernel just fits, and shorter, broken and longer ones precede it.
*Terminal*: a handler before, between and after any characters. *Pages*: each
user asks for pages at its place in the boot; the heap then grows by majors of
both sizes up to the frame buffer, onto it and over it; a program is loaded while
another has yielded. *Drive*: of 1, 3 and 5 slots the mask leaves none, two and
none, so a command can stay behind in one slot and both; two polls let the
port become ready at once, in time and not at all; a chunked read has a first, a
middle and a last sector. *Desktop*: line 0 is masked and line 8 not acknowledged
by its own interrupt, the two kinds of line beside the devices' own (lines 9 to 11 and 13
to 15 behave as 12, lines 3 to 7 as 1, without a device that uses the shared
buffer); five objects are the console's three, a window with its label, and the
refused one after them; two keys may stand in the buffer and in delivery.

Deadlock is checked in all passing runs but `heap`, where majors are never reused
and a run ends when three were made and emptied; `console` and `console_codes`,
where a run ends with its lines or the machine; `pages`, which ends at `MaxPage`;
`drive`, which may wait for ever for a drive that stopped; and `desktop`, where
the machine may be switched off.

## Fairness

* `Tasks!FairSpec`: weak fairness of `KernelStep \/ TaskStep` together. The CPU
  executes the running task; nothing is assumed about which command the user
  gives or whether a program ever yields a second time, and no task is given
  fairness of its own: getting a turn is the scheduler's doing.
* `Input!FairSpec`: weak fairness of the reader's steps. Task 0 always gets the
  CPU back (`KernelComesBack`, checked in `tasks`), as long as programs yield or
  end. Keys are not fair: nobody has to type.
* `Drive!Spec`: weak fairness of the kernel's steps together (it polls with
  nothing else to do) and of the drive's work together. Failing is not fair, and
  neither is answering once the drive stopped: `EveryReadEnds` excepts it.
* `Desktop!DesktopSpec`: weak fairness of `Interrupt`: the processor takes an
  interrupt when one is enabled. `kernel_main` and the devices are not fair.
  Among the lines of the run those of the two devices alternate by
  themselves, for they share one buffer; a device on lines 9 to 11 that raised
  its line without end would starve the mouse, and so does line 8 from its first
  interrupt to the next system call, if there is one: programs are not fair.
* `Heap`, `HeapIrq`, `Files`, `VuiConsole`, `Terminal`, `Pages`, `Interrupts`
  have safety properties only.

## What is proved

For every value of the constants that the named assumptions allow
(`TaskMaxAssumption`, `HeapAssumption`, `InputAssumption`,
`VuiConsoleAssumption`, `TextAssumption`, `PagesAssumption`, `DriveAssumption`,
`FilesAssumption`,
`LinesAssumption`, `DesktopAssumption`). Each argument is an inductive invariant `IInv` that the
runs imply on their instances, with one lemma per action.

* `TasksProofs`: `TypeCorrect`, `NoTaskIsStranded`, `TheRunningTaskIsActive`,
  `TheSchedulerNeverDies`, `EndedTasksStayEnded`, `TheWaitIsBounded`,
  `SchedulerImplementsHandover`, `TaskCheckAlwaysPasses`. That no task is lost
  is not inductive: a task that `task_add` made is WAIT or ACTIVE until its
  creator makes it ready, so the invariant follows the program counter of task 0
  and the locals that hold the new id (`LocalsInv`), the slots that are free
  (`SlotsInv`) and where task 0 can be while another runs (`PointsInv`).
  `TaskCheckAlwaysPasses` needs `CheckInv` on top: the two test tasks sit in the
  two slots behind task 0, so one yield goes through both. `TheWaitIsBounded` is the
  arithmetic of the scan: whoever is taken lies before everyone who goes on waiting.
* `HeapProofs`: `TypeCorrect`, `BlocksNeverOverlap`, `ClientBytesAlwaysFit`,
  `TheListIsExact`, `TheBestBetIsListed`, `AccountsStayExact`, `PagesOnlyWhenFull`. A
  block fits only because the others lie where they do, and the search ends only
  because listed majors are live, so disjointness, room, list and best bet are
  carried together (`LayoutInv`). The accounts are sums over sets of blocks and
  majors: they need that no block is put where one lies already, and lemmas on sums
  (`SumAdds`, `SumChanges`, ...). These are inductions over the subsets of a finite
  set; the library's induction theorems take a predicate, which the provers cannot
  instantiate, so `Subsets` states it for a set of subsets instead and follows
  from a minimal counterexample (`WFMin`). `PagesOnlyWhenFull`
  needs that blocks which leave a gap leave that much of the major in total
  (`Packing`, the same induction), for CASE 1 of `kmalloc` skips a major by its
  `usage`, and that the path over the majors passes all of them (`PathPassesAll`).
* `InputProofs`: `TypeCorrect`, `TheHandIsOldest`, `TheLineHasRoom`,
  `InputImplementsLineSource`, `NoStepIsWasted`, for every size of ring and line. Between
  increment and wrap the reader's index is one past the ring's extra cell, which
  `IndexInv` confines to that one step.
* `VuiConsoleProofs`: `TypeCorrect`, `OnlyTabsLeave`, `ThePageIsInOrder`,
  `LinesLeaveAtTheTop`, `TheCodeIsRead`. Order
  on the page is stated cell by cell (`Ordered`) and shown to survive a write at
  the cursor, a step to the next row and a scroll; it needs that rows above the
  cursor hold older lines (`LineInv`). That a line goes only from the top or under the
  next one needs that the cursor's row shows no line but the one being printed and the
  one before it, and the last row not even that (`CursorInv`); what a code sets, that its characters stand in the buffer as they
  came (`CodeInv`).
  For `Terminal`: `PrintTypeCorrect`, `PrintfIsSeen`, `DebugTextKeepsItsStart`.
  `FlagInv` ties the one flag to the place in the text: no text is being printed
  for the user while the flag is set, and a debug text that went astray was
  disturbed and has the flag cleared until its end.
* `PagesProofs`: `TypeCorrect`, `PagesAreKept`, `PagesAreGivenOnce`,
  `PageZeroIsTheLastLoaded`, `TablesWhereTold`, `BufferWhereTold`. Pages and
  frames advance together but for the one page of the registers (`InStep`); each
  grant lies in the range of its user (`Shape`) and stands in the table
  (`Mapped`); the drive's and the programs' variables name grants (`UsersKnow`).
* `DriveProofs`: `TypeCorrect`, `SuccessReturnsTheSectors`, `FailuresHaveReasons`,
  `CommandsStay`, `ListIsExchangedAtRest`, `PollIsNeverInVain`,
  `PollingComesToAnEnd`, `Refinement`. The kernel does not know
  what the drive does; the invariant says what the two can rely on: which slots
  may hold a command at each step of the kernel (`SlotsInv`), that the drive works
  on the kernel's command alone (`DriveInv`), and that a command that left its
  slot without an error has filled its part of the buffer (`ReadInv`).
* `FilesProofs`: `TypeCorrect`, `DescriptorsAreTheirFiles`, `OpenFailsForAReason`,
  `ReadsDeliver`, for images and paths of any size and depth. The invariant says
  that a descriptor is what the two searches find for its path (`LookedUp`) and that
  open failed because the walk did (`Refused`); what the searches find is then
  compared with `FilesNamed`. The walk is a recursive function, and that it follows a
  chain of directories to its end is shown for the first name at which it would not
  (`Climb`, the same way as `Subsets`: by the least number of a set).
* `DesktopProofs`: `TypeCorrect`, `DownOnlyInTheBoot`, `PacketsFallIntoStep`,
  `EveryKeyReachesTheConsole`, `EveryClickEnds`, `SlipsOnlyFromTheBoot`, for any
  set of lines, keys and size of the table. Two requests may be pending with one
  byte in the buffer only through the boot or a slip: `RequestInv` says who a
  request belongs to and needs that the keyboard goes before the mouse.
  `ByteInv` counts the mouse's bytes on both sides: what was sent follows from what was
  heard once a byte was heard, and before that only if the boot lost none (`Counted`), so
  the count is right unless `astray`, and a packet with plain bytes puts it
  right wherever it stood. `SlipsOnlyFromTheBoot` adds that neither a slip nor a wrong
  count begins after the mouse was first heard. `ObjectInv` knows the first
  objects at each step, and that no later object is given the window's place.

Only model-checked: liveness, which is out of the prover's reach as it rests on
ENABLED (`KernelComesBack`, `EveryTaskGetsItsTurn`, `LinesAreProcessed`,
`EveryReadEnds`, `EveryByteIsRead`), and `HeapIrq` and `TimerIsUnmasked`, whose runs
are counterexamples. Every invariant, action property and refinement that a passing run
checks is a theorem. For three of the five the part of the argument that needs no
fairness is one too: `TheWaitIsBounded` (a task that waits comes nearer with each
switch), `NoStepIsWasted` (the reader's work shrinks with each of its steps while a
key waits), and `PollIsNeverInVain` with `PollingComesToAnEnd` (the drive can always
take a step on the command the kernel waits for, and each one shrinks what is left).

Only proved: the types, and `RunningTaskIsActive`, `TaskCheckPasses`,
`EndedStaysEnded`, `BestBetIsListed`, `SuccessIsTheSectors`, `EachStepCounts`,
`PollIsServed` and `PollEnds`, which are parts of what the runs' properties rest on.
TLC finds no counterexample to any of them on the instances of the runs either.

## Where code and comments disagree

Each of the first two is a run that finds a counterexample, with a `findings` entry
that has the lines.

* `heap_irq`: a key interrupt inside `kmalloc` unlinks the major that was just
  linked; the block that is then placed is in no list.
* `interrupts_timer`: `interrupt_unmask_irq` computes `irq & (1 << irq)`, which
  is 0 for every vector it is called with, and toggles the mask of line 0. After
  all five calls of the boot the timer is masked; `interrupts.c:87` says it
  is unmasked there.

The others no run is spent on. The actions named here show them.

* `kfork` returns 0 to the parent (`task.c:419`), its comment gives 0 to the
  child (`Tasks!ForkReturn`).
* `liballoc_free` (`kmalloc.c:760`) frees nothing, while `kfree` unlinks the
  major; the pages are lost (`taken` and `allocated` in `HeapProps!TotalsExact`).
* `afs_open` opens directories, and `/a/b` when `a` is a file
  (`Files!afs_get_generic_block`), although `afs.c:170` speaks of the given file.
* Debug text that a handler's own debug text interrupts ends on the console
  (`Terminal!HandlerPrints`); `kshell.c:251` sends the list of tasks "to debug
  out" in such a text.
* `afs_read` returns 1, not the number of members (`afs.c:66`, `:80`).
* `l_bestBet` is "the major with the most free memory" only until it fills up
  (`kmalloc.c:74`, `:275`), which `NewPagesOnlyWhenFull` shows to be harmless.
* After a scroll the console's next line overwrites the line just printed
  (`vui_console.c:438`), which `LinesGoForAReason` spells out.
* `port_rebase` computes the physical address of its tables (`ahci.c:476`); it is
  the right one only while the kernel's image fits in one page of 2 MB
  (`DriveFindsItsTables`).
* A drive with one slot is used for none, one with sixteen for fifteen: the field
  of the register counts from 0 and has five bits, of which the mask takes four
  (`ahci.c:213`, `Drive!cmdslots`).
* Line 8 is not acknowledged at the second controller (`interrupts.c:332` compares
  with `>`), which is why `EveryByteIsRead` excepts it. A later system call makes up for it
  (`syscall.c:56`), by accident: it acknowledges interrupts that nobody raised.

## What is not modelled

* Pixels, fonts and layout: drawing is output nobody reads back. A scroll moves
  the pixels by one row less than the font's height; that is not visible in the
  model.
* Interrupts between the single writes of a heap list, other than the window of
  `HeapIrq`: the outcomes depend on the order the compiler gives the writes.
* Commands of more than 16 sectors: no caller makes one. The errors of the host's
  own bus, and hot-plugging: the driver looks at neither.
* The words of a command line (`kshell_process_line`) and the 2048 bytes of `cat`:
  what can go wrong there is a write from one buffer into the next, and what that
  changes is not given by the code.
* Interrupts inside `page_allocate`: the keyboard's handler reaches it through
  `kmalloc`; as with the heap's lists, the outcome depends on the compiler.
* The pointer's position and what a click does beyond finding its object.
* Exceptions other than the one an interrupt without a gate raises. A page fault maps a
  page first, and returns if it is one inside `page_fault_test` or not the first
  (`interrupts.c:167`); no module has accesses that fault. Of the exception handler only
  its end, which switches the machine off, is in the model (`NoGate`).
* What memory holds after a write outside its array (`task_add` past the table,
  `captured_escape` past the data pointer): the runs end there.
* Register contents, ELF decoding, port programming, the filling of the IDT, early
  assembly.
* The components with status `not_modelled` in `PROJECT.json`, each with its
  reason: code that nothing calls (lists, callbacks, modules, the network card, the
  serial client), tables filled once (PCI), and output to a port (serial).

By far the largest files of the repository are data or libraries that are not part of the
kernel's logic: fonts (`tamzen.h`, `fira.h`), a font renderer (`ssfn.h`) and the
experiments under `scratch/` (`dvsm.h`, `miniz`, `lodepng`). No definition stands
for any of them.

## Plan

Done: `Tasks` with `CpuHandover`, `Heap` with `HeapIrq`, `Input` with
`LineSource`, `Files`, `VuiConsole`, `Terminal`, `Pages`, `Drive` with
`SectorReads`, `Interrupts` with `Desktop`; proofs of every safety property.

Left, the most useful first:

1. A measure for `EveryByteIsRead` of `Desktop`, as the other liveness properties
   have one; and the heap as an implementation of an allocator that knows only its
   clients' regions.
2. `Files` on top of `Drive` instead of on `SectorReads`' promise, with a second
   reader once a program's read is interrupted by another's.
3. `Terminal` in front of `VuiConsole`, so that a debug text that goes astray meets
   the escape parser.
4. The serial ports' interrupts, as soon as something is done with what they read.
