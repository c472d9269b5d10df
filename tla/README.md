# cezOS in TLA+

Specifications of cezOS, a small 32-bit x86 kernel: TLA+ modules for its components,
TLC configurations that check them on small instances, and TLAPS proofs of what
matters most. File names below are relative to the repository's `src/` directory.

## 1. The system

A boot sector (`bootloader/`) loads the kernel's ELF file and jumps to `kernel/entry.S`,
which turns paging on with a static page table and calls `init`. `init` clears the bss,
initializes the console, sets up memory (`initialize_memory`) and enters a monitor that
reads command lines (`wait_input`). Interrupts are off throughout: no file sets up an
interrupt table. The kernel is one thread of control on one processor; concurrency exists
only with devices (serial port, keyboard controller, disk), with what the hardware caches
(the TLB), and between the callers of the memory functions over time.

### Inventory

| Component | State it keeps | Operations | Talks to | What is hard about it |
|---|---|---|---|---|
| Page allocator, `kernel/kmap.c` | `pages[]` (`refs`, `next_free`), `page_free_list` | `init_pages`, `check_page_list`, `page_alloc`, `free_page`, `page_decref` | everything that maps memory | the list is threaded through the entries, and the link doubles as the mark of a free page |
| Page tables, `kernel/kmap.c` | directories and tables in memory, TLB, `refs` | `get_page_table`, `search_page`, `insert_page`, `remove_page`, `invalidate_tlb` | allocator, MMU | counts, entries, list and TLB must agree over any sequence of calls and several directories |
| Memory initialization, `kernel/kmap.c`, `kclock.c`, `entrypgdir.c` | sizes, `boot_alloc`'s pointer, `kern_page_directory`, `cr3` | `get_memory_size`, `boot_alloc`, `create_kern_pgdir`, `map_memory_region`, the checks | allocator, MMU, RTC | runs on a page table that maps 4 MB only, while it takes pages for the next one |
| Tasks, `kernel/proc.c` | `tasks`, `task_pgdir` | `proc_init_vm`, `init_procs`, `pid_to_proc` | allocator | a directory copied from the kernel's |
| Startup, `bootloader/boot.S`, `kernel/entry.S`, `init.c` | `cr0`, `cr3`, segment registers, the bss | from `boot` to `wait_input` | 8042, loader, all parts of the kernel | the 8042 works at its own pace; each mode must still reach the code, stack and tables in use |
| Segmentation, `kernel/proc.c`, `boot.S` | descriptor tables | `lgdt`, `proc_init_percpu` | CPU | a selector and an index differ by a factor of 8 |
| Console, `kernel/console.c` | ring `cons`, `serial_exists` | `serial_init`, `serial_interrupt`, `keyboard_interrupt`, `console_interrupt`, `console_getc`, `getchar`, `serial_putc`, `lpt_putc` | devices, `readline` | polling against devices that act at any time or not at all; no test for a full ring |
| Keyboard decoding, `kernel/console.c`, `console.h` | `shift` | `kbd_proc_data` | keyboard, console input | state spread over many bytes |
| Screen, `kernel/console.c` | `c_buffer`, `c_pos` | `init_cga`, `cga_putc` (`clrscr` is not called) | `cprintf`, `readline` | wrapping, scrolling, erasing |
| Monitor, `kernel/command.c`, `lib/readline.c` | `buf`, `commands[]` | `wait_input`, `readline`, `run_command` | console, screen, `strcmp` | echo and buffer must agree; name lookup |
| Boot loader, `bootloader/main.c` | locals of `readseg` | `kload`, `readseg`, `readsect`, `waitdisk` | disk | whole sectors around segments; the drive's timing |
| Strings, `lib/string.c` | none | `strlen` ... `memfind`, `strtol` | all | overlap, ends, signs |
| Formatting, `lib/printfmt.c`, `kernel/printf.c` | locals of `vprintfmt`, `sprintbuf` | `vprintfmt`, `vsnprintf`, `cprintf` | screen, division | directives cut off, widths, extreme numbers |
| 64-bit arithmetic, `lib/arch64.c` | locals | division, remainder, shifts, counts of bits | formatting | signs, shift counts |

Properties that make each part correct are listed with its module below. `hazards` in
`PROJECT.json` lists, line by line, what is hard to test.

## 2. The modules

State variables and operators keep the names of the source. Every call is one action
unless another party can act during it; then each access to a device, or each iteration of
a loop, is an action. Definitions named `X_Something` directly in front of a definition `X`
are slips of X: what a plausible mistake in that code would make of it. No specification
uses them; putting one in the place of X must break a property, which shows that the
property is sensitive to that code (`mutants` in `PROJECT.json`).

### Page allocator: `PageList`, `PagePool`, `FreeListSetup`, `PageListProofs`

`PageList` is the array `pages` as two functions `next_free` and `refs`, the head
`page_free_list`, a history variable `held` (pages the callers have) and `cpu`. Of paging it
keeps which directory is in use (`cr3`) and the pages that have lost their kernel address
(`unmapped`): `page_alloc` clears a page through that address (`Reaches`). Its actions
are `PageAlloc` (`page_alloc` with `first_free_page`, and the `memset` if the caller asks for
it, which faults where the page is not reached), `PageAllocEmpty` (the read through a
NULL head), `FreePage`, `PageIncref` (what `insert_page`, `get_page_table` and
`proc_init_vm` do to a page), `PageDecref` (`page_decref` with the `free_page` in it),
`UnmapPage` (`remove_page` at the kernel address of a page, as boot does it) and
`LoadDirectory`. The callers act on pages they hold.

* `ListInv`, the inductive invariant: types; no two entries with one successor; nothing
  points at the head; only listed pages have a successor; listed and held pages partition
  the allocatable ones, and listed pages have no references.
* `FreeListWhole`: a walk over the list ends, without repetition, and meets exactly the
  free pages.
* `NoUseAfterFree`, and refinement of `PagePool` (`ImplementsPool`).
* `StopsOnlyForCause`: the kernel stops with an error only when no page is left or a page in
  use is freed, and faults in clearing a page only when that page has just left the list and
  lies above 4 MB before the load of `cr3`, or was unmapped since.

`PagePool` is the abstract specification: a set of free pages, a set of held ones, counts.

`FreeListSetup` runs the three loops of `init_pages` and the two of `check_page_list(1)`
one iteration per step, from memory of any (uniform) content where `memset` clears only
`pages_count` bytes. `SetupDone` says that they end in the initial state of `PageList`, and
so joins the two modules; `SplitKeepsPages` is the invariant of the relinking loop.

### Memory and address spaces: `Kmap`, `Boot`, `AddressSpaces`, `BootProofs`, `AddressSpacesProofs`

`Kmap` defines the functions of `kmap.c` as operators from a machine (free list as a
sequence, counts, tables in memory, `cr3`, TLB) to the machine they leave, together with the
page walk and the TLB of the processor (marked external in the map).

`Boot` is `initialize_memory`: one action per statement, one per page in the mapping loops.
The initial state is what `entry.S` leaves. Properties: the allocator never owns memory of
the kernel (`FreeDisjointFromKernel`), no page table is taken from memory not mapped
(`BootKeepsRunning`), the load of `cr3` keeps what the kernel runs on
(`SwitchKeepsKernel`), users see read-only pages only (`UserReadOnly`), and what boot leaves
at its end (`BootLeaves`).

`AddressSpaces` extends `Boot` and goes on where it ends: callers allocate, free, insert
and remove pages in the kernel's directory and in those that `proc_init_vm` makes for tasks,
and the kernel reads through its directory, which fills the TLB. Properties:
`RefsCountMappings`, `MappedNotReused`, `PagesAccountedFor`, `TlbCoherent`,
`TasksIsolated`, `StopsForCause` (which takes a fault and the endless loop of
`MEM_ERROR_LOOP` for one: the end of the run), and `MappedAsAsked`: no address below U_TOP
changes what it maps, in any directory, but by a call of `insert_page` or `remove_page` for
that address in a directory that has the same page table, and then to what the call asked. A
page table that kept what its page held before would break it. One run checks the properties
of both modules: its behaviours begin with `Boot`'s.

### Console: `Console`, `CharQueue`, `Keyboard`, `Screen`, `Shell`, `ConsoleProofs`, `ShellProofs`

`Console` interleaves `getchar`'s polling and the echo of the characters it returns, one
port access per step, with the devices: receiver and transmitter of the serial port, keyboard
controller, printer. It implements `CharQueue`, a queue, as long as fewer than `CONSBUFSIZE` characters are under
way (`ImplementsQueue`); a key pressed is taken unless a byte of the mouse lies in front of it
(`KeysTaken`), a stashed character is returned (`CharsReturned`), with or without a serial
port, and although transmitter and printer may no longer answer; on a transmitter that works
no echoed character is lost (`SerialKeepsUp`; `owed` is a history variable).

`Keyboard` is `kbd_proc_data` fed with the bytes that presses, repeats and releases produce,
buffered in the controller. The history variable `seen` is the set of keys held according to
the bytes taken. `NoStuckModifier` (which covers the prefix flag), `ResetOnlyByThreeKeys`.

`Screen` is `init_cga` and `cga_putc` as operators; `Shell` composes it with `readline`, `run_command`
and `wait_input`. `CursorOnScreen`, `EchoShowsLine` (the screen shows prompt and buffer),
`NamedCommandRuns`. After `shutdown` the monitor returns and `entry.S`
loops at `spin`: that is the end of the specification.

### From the boot sector to the monitor: `BootLoader`, `Startup`, `StartupProofs`

`BootLoader` reads header and segments sector by sector from a drive that is busy, done and
ready at its own pace; bytes of the disk are named by their offset in the kernel's file. It
writes physical memory, in which bit 20 of an address counts only while `a20` is on.

`Startup` runs `boot.S`, `BootLoader`, `entry.S` and `init` over that memory, together with
the 8042 controller, which takes the two bytes that turn line 20 on in its own time. Each
step is a stretch of code between accesses to devices, and asks whether what it accesses is
mapped and writable then (`Readable`, `Writable`) and whether a segment register can be
loaded (`Loads`); if not the step ends in "fault". `who` records that a function was called
that `init` leaves out: `proc_init_percpu`, `init_procs`, `clrscr`. The word `entry` writes
at 0x472 is outside the memory considered, and of `console_init`, `say_hi` and
`initialize_memory`, which have modules of their own, the step keeps what they access and
the page directory they leave. The memory the kernel uses from then on is marked as `Used`,
its contents not followed: a byte of the stack by `relocated`, data and bss by
`console_init`, and all but the read-only segments by `initialize_memory`, which hands the
low memory out as pages.

* `SegmentsInPlace`: what the ELF file describes is in memory when the kernel is entered.
* `StartupRuns`: no fault on the way; boot sector and header page are not loaded over as long
  as the low memory is not the kernel's; the functions left out fault when they are called.
* `KernelAsLinked`: when `init_bss` has run the bss is clear and nothing else was cleared, the
  stack it runs on included.
* `LoadEnds`: the monitor is reached, or a disk without a kernel refused.

### The libraries: `Strings`, `PrintFmt`, `LongDivision`, `LibraryProofs`, `PrintFmtProofs`

`Strings` has the functions of `string.c` as operators on a memory, and one call per
behaviour on every contents of it. `WritesInPlace` says what the writing calls leave, blocks
that overlap included, `ComparesTexts` what comparing and looking up promise together. A
`char` is signed on this target (`Char`): `strcmp` and `strncmp` take a byte from 128 on for a
negative number, `memcmp` does not. The index `strcat` never sets is a choice among all
addresses.

`PrintFmt` steps through the format as `vprintfmt` does, with `vsnprintf`'s buffer.
`NumberReadBack` reads printed numbers, and those in error messages, back with `strtol` (also
modelled there): it is about the calls whose format is one directive, given by its parts in
`about` (flag, width, length, letter; `Directive` puts them together), so that it can say which
number was meant without reading the format; `BufferBounded`, `PrintEnds`. `ArgumentsMatch` says that a directive finds an
argument of its kind; it is part of what the run checks and the hypothesis of the proofs.

`LongDivision` runs the loop of `__divmoddi4` bit by bit. `LoopInvariant` (with the counts of
the shifts in front of the loop), `DividesRight`; `ShiftsAndCountsRight` compares the shifts
made of half words, and the counts made by halving and by sums, with their definitions.

## 3. The runs

| Run | Instance | States |
|---|---|---|
| `PageList.cfg` | 7 pages, 5 allocatable, on both sides of the hole and of 4 MB; 2 references; any page unmapped and `cr3` loaded at any time | 161 552 |
| `FreeListSetup.cfg` | 9 pages, 2 of them above 4 MB | 3 352 |
| `AddressSpaces.cfg` | tables of 16 entries, machines of 16, 18, 20 and 24 pages, on which boot leaves 1, 3, 5 and 9 free; the calls after boot on those up to 20 pages: 2 tasks, which are exchangeable (`MCSymmetry`), and the kernel, 2 addresses in 2 tables, 2 permissions | 126 164 |
| `Console.cfg` | ring of 4, 2 characters and the mouse, 5 bytes in all, 2 polls of a busy device; deadlock checked | 214 652 |
| `Keyboard.cfg` | 8 keys, 3 bytes in the controller | 317 208 |
| `Shell.cfg` | screen of 4 x 3, line buffer of 5, 3 commands | 107 215 |
| `Startup.cfg` | sectors of 4 bytes, 13 layouts of two segments, line 20 and the 8042 in any state | 2 567 |
| `PrintFmt.cfg` | words of 8 bits, 5 881 calls | 40 794 |
| `LongDivision.cfg` | words of 8 bits, all pairs, signed and unsigned | 468 138 |
| `Strings.cfg` | memory of 5 bytes of 4 values, one of them above 127; every call on every contents | 358 353 |
| `BootMemoryStaysMapped.cfg`, `AddressSpacesStaleTlb.cfg` | as `AddressSpaces.cfg`, the first without the calls after boot; expected to be violated (section 4) | |

The types of the variables (`TypeOK`, `KbdTypeOK`, `StringsTypeOK`) are a conjunct of one invariant of each module:
`ListInv`, `SplitKeepsPages`, `BootKeepsRunning`, `NoStuckModifier`, `EchoShowsLine`,
`StartupRuns`, `BufferBounded`, `LoopInvariant`, `ComparesTexts`.

Why the bounds are enough:

* Page allocator: five free pages give lists of every length up to five, with pages held,
  counted and freed in any order. That the size does not matter is proved (section 5).
  `MaxRefs` bounds a counter whose only special values are 0 and 1.
* `FreeListSetup`: each loop runs at least twice, the border of 4 MB falls inside the
  extended memory, and the cleared part of `pages` ends inside the array.
* `Boot`, in the run of `AddressSpaces`: page tables of 16 entries scale "4 MB" to 16 pages. The four machines end below,
  at and above that border; the second half of the address space is two tables, so that the
  stack mapping runs over from one table into the other as it does in the code.
* `AddressSpaces`: two addresses in different tables, so that tables are made by
  mapping too; with up to five pages the allocator runs dry. `ApiPages` leaves
  the largest machine, with nine pages, to boot alone. `MaxRefs` = 2 allows one page at two
  addresses or in two directories.
* `Console`: a ring of 4 wraps with 5 bytes. `TypeAhead` = 3 keeps it below full, the
  condition under which it is a queue: with one character more `rpos` meets `wpos`. With
  `Polls` = 2 a device is found ready at the first, at the last or at no poll. A transmitter
  is `prompt` if it needs fewer polls than that: 12800 polls of five port accesses take many
  times as long as one character at 9600 baud.
* `Keyboard`: the keys that share a flag (both Shift keys, Ctrl with and without prefix), a
  toggle, a letter and the extended Delete. Three bytes in the controller hold a prefixed
  key and the start of the next.
* `Startup`: with line 20 off, the kernel's addresses fall on boot sector and header page;
  the segments share a sector, or start anywhere in a sector of their own, and the bss ends
  in the middle of one.
* `Strings`: in 5 bytes, texts of up to 4 characters begin, equal and overlap each other; they
  differ first in bytes on one side of 128 or on both.
* `Shell`: a full line with its prompt takes two of four rows and scrolls the screen.
* `PrintFmt`, `LongDivision`: the code is uniform in the width of its words. 8-bit words keep
  every boundary (0, 1, largest and smallest signed, largest unsigned, half words).

Deadlock is checked in `Console.cfg`, the only part that must never stop. The others end or
stop the processor by design, or call one function per behaviour.

### Fairness

* `Console`: weak fairness of the kernel's steps: `getchar` polls without end, and nothing
  preempts it. None of the devices, whose sender stops after `MaxSent` bytes, but the
  transmitter in the behaviours in which it is `prompt`.
* `Startup`: of the code, which polls, of the 8042 and of the drive, which answer in the end:
  one that never does leaves the code polling. `boot.S` sends the byte that turns line 20 on
  and does not wait until the 8042 has taken it: that this happens before the drive has
  delivered the eight sectors of the header is an assumption (`Drive`). Those go to an
  address line 20 does not move.
* `PrintFmt`: of the whole next-state relation: one processor with interrupts off executes
  straight through.
* All others: none, safety only.

## 4. Where code and documentation disagree

Two runs check what a comment or a check of the repository says, and TLC finds a behaviour of
the code that is different.

| Run | Statement | What happens |
|---|---|---|
| `BootMemoryStaysMapped` | all physical memory is mapped (kmap.c:384, 525) | the trial of the directory unmaps one page at its kernel address (kmap.c:443); `page_alloc(PAGE_ZERO_FILLED)` of that page, the first one handed out, then faults |
| `AddressSpacesStaleTlb` | an inserted page is what is read there (kmap.c:439) | the trial's TLB entry survives and hides it |

The passing runs work around neither: `StopsForCause` names the fault, `TlbCoherent` the
address.

Others follow from definitions of the modules, which translate the code as it is:

| Statement | Definition | What the code does |
|---|---|---|
| the stack region maps `bootstack` (kmap.c:378) | `BootstackPA` in `Boot` | maps the address stored in the first word of the stack, 0 |
| stack RW/-- (memlayout.h:55) | `MapStack` in `Boot` | maps it read-only and open to users |
| the last region ends at 2^32 (kmap.c:385) | `RemainingPages` in `Boot` | ends one page short (kmap.c:352) |
| page tables R-/R- (memlayout.h:68) | `ProcInitVm` in `AddressSpaces` | a task's are writable and closed to it (proc.c:129) |
| a freed page is not freed again (kmap.c:204) | `FreePage` in `PageList` | lets the last page of the list through |
| data from the mouse is ignored (console.c:167) | `KeyboardEmpty` in `Console` | leaves it in the controller, where it blocks the keyboard |
| characters are stashed (console.c:257) | `Stash` in `Console` | one more than fits makes the ring look empty |
| `shutdown` shuts down (command.c:10) | `strcmp` in `Shell` | so does any beginning of it, unless another command agrees first |
| the kernel text segment goes into CS (proc.c:100) | `ProcGdt` in `Startup` | the selector refers to an entry that is null: the jump faults |
| `sizeof(gdt) - 1` (boot.S:97) | `BootGdt` in `Startup` | the limit is one byte larger, which no selector reaches |
| interrupts are enabled again (console.c:352) | `clrscr` in `Startup` | not reached: the low address of the screen cannot be written |
| `strcat` "TESTED" (string.c:70) | `strcat` in `Strings` | ends the text at an index never set |
| memory is moved (string.c:197) | `memmove` in `Strings` | overwrites its source when it moves a block up |
| `-` pads on the right (printfmt.c:108) | `printnum` in `PrintFmt` | pads numbers on the left, with dashes |

Modelled as they are, without a statement to hold against them: `insert_page` of a mapped
page assigns in its condition (kmap.c:274) and keeps the old permissions, where a comparison
would have let the lines behind it set the new ones; no property rests on it, and
`MappedAsAsked` holds either way. `strcmp` and
`strncmp` return the opposite of the usual sign, and 0 if one text begins the other, and compare
signed characters, so that they agree with `memcmp` where one of two bytes is above 127; `%o` prints XXX
and takes no argument; `cprintf` always returns 0; `PAGE_ALLIGNED_ROUND` goes to the next
page for an aligned address; `MEM_ERROR_LOOP` prints a line number with `%s`, which faults
once address 0 is not mapped.

## 5. What is proved

Each theorem holds for every value of the constants that satisfies the named assumptions of
its module; TLC evaluates those on every run. Each proof module begins with what makes its
theorems true.

### Page allocator: `PageListProofs`

For every number of pages and every position of the I/O hole, the kernel and the 4 MB border,
under `LayoutAssumption` (base memory ends below the kernel's end, which is at most 4 MB and in
memory; `boot_alloc` enforces the limit, kmap.c:92), `RefsAssumption` and `NullAssumption`.

* `ListInvariant`: `Spec => []ListInv`
* `AllocationSafety`: `Spec => []NoUseAfterFree`
* `StopCauses`: `Spec => StopsOnlyForCause`, the fault in clearing a page included
* `Refinement`: `Spec => ImplementsPool`
* `ListIsWhole`: `Spec => []FreeListWhole`
* `SetupInvariant`, `SetupIsDone`, `SplitKeepsThePages`: `SetupSpec => []SetupDone`,
  `SetupSpec => []SplitKeepsPages`

The argument: `NoUseAfterFree` alone is not inductive. The successor of the head becomes the
new head, so to know that the head's other pages stay listed, and the head itself does not,
one must know that links are injective, that nothing points to the head and that pages off
the list have no link. These are the conjuncts of `ListInv`. `InitListed` and `InitInv`
follow the list that boot leaves; `AllocListed`, `PushListed` say how the set of listed
pages changes when the head leaves and when a page is pushed; `AllocLinks`, `PushLinks`
that the link conjuncts survive; `NextInv` has one step per action. The refinement maps the
list to the set of listed pages, and `StepPool` maps every action to one of `PagePool`, or a
stutter when the kernel stops.

`FreeListWhole` speaks of a walk over the list, where links that are injective could still
close a circle apart from it. A rank of the pages (`Acyclic`) excludes that: it falls along
every link, and what a step does to the list only puts a page on top of the order or takes one
away. That the walk ends is the pigeonhole principle; that it meets every free page, a proof
by the least counterexample.

`SetupInv` says for each program counter of the five loops what the list looks like: when
`init_pages` is at page n, the pages below n are linked in falling order (`Built`); when
`check_page_list` is at page p, the two sublists hold the pages above p and the rest is still
linked below it. A subtlety that the proof brings out is that the store through `*tp[t]`
changes nothing before the lists are joined (`StoreIsStale`), because the page stored is
already the successor or the sublist is cut off afterwards.

### Console and keyboard: `ConsoleProofs`

* `ConsoleInvariant`, `EchoIsKept`: `Spec => []SerialKeepsUp`, for every alphabet, ring and
  number of polls. `ConsoleInv` adds what the program counter knows: the port that was found
  has a byte, and a transmitter that works is empty when the next character is written.
* `BufferIsQueue`: if `TypeAhead < CONSBUFSIZE`, then `Spec => ImplementsQueue`. The hypothesis is
  the condition of the queue: with one character more `rpos` meets `wpos`. The abstract queue is the
  content of the ring from `rpos` to `wpos`; `StashAppends` and `GrabTakes` treat the cases in
  which an index wraps, `CountOf` and `SlotOf` the arithmetic modulo the size of the ring.
* `KeyboardInvariant`, `ModifiersDoNotStick`: `KbdSpec => []NoStuckModifier`;
  `OnlyThreeKeysReset`: `KbdSpec => ResetOnlyByThreeKeys`. For every set of keys whose codes are
  in 1..127 and none of which has the code 96 (`KeyAssumption`): with prefix and release bit, 96
  would be the prefix byte. Beyond the stated property the invariant needs `Framed`: the flag
  `E0ESC` together with the bytes still in the controller has exactly one prefix in front of
  each extended key, although press and release arrive one byte at a time.

### Startup: `StartupProofs`

* `StartupInvariant`, `SegmentsAreInPlace`: `Spec => []SegmentsInPlace`; `StartReachesTheMonitor`:
  `Spec => []StartupRuns`; `KernelIsAsLinked`: `Spec => []KernelAsLinked`. For every size of
  sector and every kernel image that satisfies `ImagesAssumption` and `StartupAssumption`: the
  segments lie above 1 MB and, as the linker lays them out (kernel.ld), in increasing order,
  each at the same place within a sector as in the file; two that share a sector share it in
  the file too, and all end in the 4 MB that `entry_pgdir` maps. `LoaderAssumption` has the
  addresses of boot.S and memlayout.h: boot sector, header page, line 20.

A whole sector is read at a time, so a segment's first and last sector overwrite bytes around
it. The invariant says which bytes are final (`Loaded`), where readseg is in memory and in the
file (`ReadInv`), that the boot sector and the header stay as they are (`BootKept`), that line
20 is on before the first segment is read (`A20Inv`, `DiskInv`), how much of the bss is clear
(`BssClear`) and what the processor's registers select (`CpuInv`).

### Boot: `BootProofs`

* `BootInvariant`: `Spec => []BootInv`; `BootRuns`: `Spec => []BootKeepsRunning`;
  `KernelOutOfReach`: `Spec => []FreeDisjointFromKernel`; `UserCannotWrite`:
  `Spec => []UserReadOnly`; `SwitchIsSafe`: `Spec => SwitchKeepsKernel`; `BootHandsOver`:
  `Spec => BootLeaves`.

For page tables of every size, every kernel image and every set of sizes the RTC may report
that `KmapAssumption` and `BootAssumption` admit. The latter says of each machine (`Fits`): base
memory ends below the image, as the hole at 640 KB makes it; `boot_alloc` stays in the first page
table, as kmap.c:92 enforces; memory is not larger than the last region; the pages below the end
of the first page table are enough for the tables of the three regions, and two more are left to
try out. `UserReadOnly` and the theorems on the directory need no more than that the stack is
shorter than one table.

None of the properties is inductive, because each rests on what the tables hold: that the kernel
keeps running depends on which pages the directory in use maps, that the user cannot write on
how the three regions overlap in the table below the kernel. `BootInv` gives for each statement
of `initialize_memory` the pages of the list that are handed out, in order (`ListOf` is an
explicit sequence, `TheListIs` its facts), and the contents of the directory and of every table:
`MappedPages`, `MappedStack`, `MappedMemory` in the loops, where a table is taken from the list
at the first page that falls into it (`MapHere` where a table is, `MapMore` where it is taken);
`Mapping` from there on, with the page that is lost on the way (`Loses`). A table is cleared
through the entry page table, which reaches the first table's pages only (`EntryReaches`): there
the sorting of the list by `check_page_list` is used. `InsertFresh` and `Removed` say what
`insert_page` and `remove_page` do to the machine, for any directory.

### Address spaces: `AddressSpacesProofs`

* `ApiInvariant`: `ApiSpec => []ApiInv`; `CountsAreRight`: `ApiSpec => []RefsCountMappings`;
  `NothingMappedIsReused`: `ApiSpec => []MappedNotReused`; `PagesAreAccountedFor`:
  `ApiSpec => []PagesAccountedFor`; `TlbFollowsTables`: `ApiSpec => []TlbCoherent`;
  `TasksAreIsolated`: `ApiSpec => []TasksIsolated`.
* `CallsStopForCause`: `ApiSpec => StopsForCause`; `MappingsAreAsked`:
  `ApiSpec => MappedAsAsked`.
* The properties of `Boot` in the behaviours that go on with calls: `FreeStaysApart`,
  `CallsKeepTypes`, `UserStillCannotWrite`, `NoOtherSwitch`, `CallsStartWhole`.

For any number of tasks, callers, addresses and mappings of a page, on every machine boot can
start on. Beyond the assumptions of `Boot` there is `AddressAssumption`: callers map pages in
the kernel's directory or in tasks', at addresses below U_TOP, with permissions among P, W and U.
The code checks none of this, nor that callers free and map only pages they hold.

`RefsCountMappings` is not inductive: `remove_page` decrements the count of the page its entry
names, so that page must be held and the entry counted once, and `insert_page` may take a page
for a table, so that page must be mapped nowhere. `ApiInv` is the invariant of boot until
`pc` is "done" (`Enter` is the step to the next part) and then that the machine is sound. `Sound(m, D, H, L, all)` says of a machine
m with the directories D, of which the callers hold the pages H:

* `Places`, `Owners`: where the tables are; a page is on the list, once, or held, or a table.
* `Upper`: from U_TOP on, all directories are the kernel's but for the mapping of themselves,
  and the kernel's tables are as boot left them.
* `Lower`: below U_TOP an entry of a directory is empty or names a table; a table has one index
  in all directories, and is shared only with the kernel's directory. This is `TasksIsolated`
  made inductive: with it a store into a table changes one address, in one directory or in all
  that were copied from the kernel's.
* `MapsHeld`, `Counts`: what is mapped is held; the counts are right and those of free pages 0.
* `Coherent`: TLB entries, but for boot's, are what the kernel's directory translates.

`Whole`, that no page is forgotten, holds only until the kernel stops: a page that cannot be
cleared has left the list by then. Each elementary change is one lemma (`SoundInserted`,
`SoundRemoved`, `SoundFreed`, `SoundTable`, `SoundTask`, `SoundAccess`), each function of kmap.c one more
(`InsertCall`, `RemoveCall`, `FreeCall`, `AllocCall`, `TaskCall`), which says that it serves the
call (`Serves`: the machine stays sound), finds no page
(`NoPage`) or refuses (`Refused`). That these are all its ends is `StopsForCause`: `page_decref` in
the middle of a call never fails, because the count it reaches zero from was right. What a call
does to the translation of the addresses below U_TOP is nothing (`WalksKept`) or one address and
what was asked for it (`Asked`): a store into a table changes one address (`StoreAsked`, by
`Lower`), and a new table maps nothing because it was cleared (`SoundTable`). `SoundAtFirst`
shows that the machine boot leaves is sound.

### The monitor: `ShellProofs`

* `ShellInvariant`: `Spec => []ShellInv`; `CursorStaysOnScreen`: `Spec => []CursorOnScreen`;
  `EchoIsTheLine`: `Spec => []EchoShowsLine`; `NamesRun`: `Spec => NamedCommandRuns`.

For every size of screen and line buffer, all commands and whatever they print. The assumptions
(`ShellAssumption`, `ScreenAssumption`): the characters that are stored have no effect of their
own, and prompt and longest line fit on the screen but for one row, as 8 + 1023 characters do on
24 rows of 80. That an erasure goes back to the character that was typed, over the end of a row
and after the screen has scrolled, depends on what stands in front of the cursor, and that the
prompt stays on the screen on how far the cursor is from its top. `ShellInv` says that the screen
is sound (`Screens`: the cursor on it, shown where it is, and only characters that can be printed)
and, while a line is read, that the cells in front of the cursor are the prompt and the buffer.
`PutShows` and `EraseShows` say what one character adds and one
erasure takes away, `PrintShows` that a prompt is shown at the cursor wherever the output before
it ended, by induction over the text. `NamesRun` needs only that no name in `commands[]` begins
another (`NamesAssumption`, which holds of help, kerninfo and shutdown): then the search, which
takes the first name that agrees as far as it goes, finds no other.

### The libraries: `LibraryProofs`

* `DivisionInvariant`: `Spec => []DivisionInv`; `LoopIsRight`: `Spec => []LoopInvariant`;
  `DivisionIsRight`: `Spec => []DividesRight`. `ShiftsAndZerosRight`: what `ShiftsAndCountsRight`
  says of the shifts and of the zeros, for every word and every count.
* `ShiftsAndCountsAreRight`: `Log <= 6` gives `Spec => []ShiftsAndCountsRight`, ones included.

For words of every width that is a power of two, and any set of them (`WordAssumption`).
`LoopInvariant` is not inductive, because it speaks only of the part of the numerator that is
already divided; a bit moved next must be the next one of the numerator. `DivisionInv` adds that
the upper bits of `a` are those still to come and the bits below them the quotient so far, with
the last quotient bit in `wrap` (`PartlyDivided`). A step doubles the part divided and adds a bit
(`DivideStep`): since the remainder is below the divisor before, the one subtraction suffices,
and since both are words, the top bit of `b - rem - 1` tells whether it is due. `StartCount`
shows that the two counts of zeros in front of the loop give a shift within 1 and 63.

`LeadingZerosRight` and `TrailingZerosRight` are inductions over the halvings, `Pow2Sum` and
`Pow2Mono` over the exponent.

The counts of ones (`PopcountRight`) are right only while the sums do not run into each other.
`OneByte` says what the three masked sums make of one byte, by the ones of pairs and of nibbles
(`PairsOf`, `NibblesOf`, `BytesOf`), and `BytesSplit` carries it from byte to byte. After that a
word is a row of bytes, each at most 8, and adding the upper half to the lower leaves in the lowest
byte the sum of two: `FoldStep` keeps that the bytes still to be added have the sum sought
(`BytesHaveSum`), which is at most the number of bits and so fits into a byte. That is why the
theorem has `Log <= 6`, words of at most 64 bits as in the code, and why `x - (x >> 1 & 0x55..)`
and the last mask lose nothing.

The library's induction theorems take an operator, which no
installed prover can instantiate; these proofs, as those of the screen and of the free list,
take the least number for which something fails instead (`LeastNatural`, from `WFMin`).

For `Strings`, `ComparisonsAgree`: `StringsSpec => []ComparesTexts`; `WritesAreInPlace`:
`StringsSpec => WritesInPlace`, for memories of every size, under `StringsAssumption`. `CopyApart` is
the induction over the bytes copied: a block not moved up onto itself arrives unchanged, because
each byte is read before the copy reaches it; `TextArrives` then finds the end of the text where
it should be. `AgreeingTexts` reduces what `strcmp` and `strncmp` promise to the set of places where
two texts differ before either ends.

### Formatting: `PrintFmtProofs`

* `PrintInvariant`: `Spec /\ []ArgumentsMatch => []PrintInv`; `BufferIsBounded`:
  `Spec /\ []ArgumentsMatch => []BufferBounded`; `NumbersReadBack`:
  `Spec /\ []ArgumentsMatch => []NumberReadBack`; `EveryStepGoesOn`:
  `Spec /\ []ArgumentsMatch => [](Left \in Nat \X Nat \X Nat) /\ [][Less(Left', Left)]_vars`.

For every set of calls, size of buffer, list of error texts and width of a word. Two hypotheses
are about the caller: formats and error texts are texts (`PrintAssumption`), and a directive finds
an argument of the kind it takes (`ArgumentsMatch`), without which C promises nothing; the run
checks that all its calls satisfy it. But for `NumbersReadBack` nothing is assumed of the format itself: directives may be
unknown, cut off by its end, or have any flags, widths and precisions. That theorem is about the
calls with one directive for a number; `AboutAssumption` says what `about` stands for: any width,
in digits or by `*`, `0` or `-` or no flag, any number of `l`. It leaves every other call
alone, and a word is of even size, as 2^32 is, so that exactly one number has no opposite.

`BufferBounded` is not inductive in two respects. That characters go on being stored at the
right place needs to know exactly how much of the output is stored, also when a text was cut off
(`Stored`); `PutKeeps` shows that `sprintputch` keeps this for every text. And the
loop that goes back from an unknown letter to the last `%` stays inside the format only because
there is one (`InDirective`, `PercentBeforeIs`). What the directives print has to be a text of
characters: for numbers that is an induction over the quotients of `printnum`'s recursion
(`DigitsExist`, `DigitsAgree`, `NumTextIs`), for widths one over their digits (`DecimalIs`).

`NumbersReadBack` has three parts.

* `strtol` undoes `printnum`. `NumberOf`, the value `strtol` adds up digit by digit, of a text
  with one more digit is `base` times the value plus that digit (`NumberOfAppend`); by the
  induction over quotients that printing follows, the digits printed for a number have that
  number as their value (`PrintedReads`), zeros in front included (`ZerosRead`). `StrtolIs`
  gives `strtol` from its steps: what is left behind blanks, behind the sign, behind `0x`;
  `BlanksRead`, `MinusReads`, `HexReads` are the cases that occur.
* A directive put together from its parts is read part by part. `DirectiveText` finds every
  character of the format; `NextInDirective` the one action for each character. `Somewhere`
  lists how far the call can have come (`Begins`, `AtFlag`, `AtWidth`, `AtLength`, `Over`,
  and for `%o` `BehindOctal` and `InSecond`), each with the flags and the argument that were
  read; that a width ends where its digits do is `RunEndsAt`. `ReadInv` is inductive.
* At the letter, the argument taken is the number that was meant (`MeantIs`, `MeantWord`), and
  the text given to `putch` reads back as that number (`SignedPrints`, `UnsignedPrints`,
  `PointerPrints`, `ErrorPrints`, `OctalPrints`). For `%e`, `ErrorSize` shows that the size of
  every error but one is a positive `int`; the one left leads to `wild`.

`EveryStepGoesOn` is the reason why formatting ends although an unknown letter sends the reading
back: `Left` counts first the `%` not read yet, then whether a directive is being read, then the
characters up to the end. Going back leaves the first as it is, because there is no other `%` in
between, and ends the directive.

### Only model-checked

* Every liveness property: TLAPS 1.4.5 has no ENABLED.
  For `PrintEnds`, `EveryStepGoesOn` is what can be said without fairness; that there is
  always a next step until `vprintfmt` returns, and that it is taken, is left to the run.

## 6. Not modelled

* `pid_to_proc` and `proc_alloc`: they change nothing, and nothing calls them.
* The attribute of a cell of the screen, and the probe that tells a monochrome adapter.
* What a console command prints, and the text of messages.
* A serial port or a printer that disappears while the kernel runs, and crashes: nothing is
  kept over a restart.
* Headers and build files, whose layout appears as assumptions on constants.

## 7. Plan

Done, in this order: the allocator with its proofs, `FreeListSetup`, `Kmap` with `Boot` and
`AddressSpaces`, the console modules, the boot loader, formatting and division, `Startup`,
the output half of the console, `Strings`; then the proofs of section 5: the console's refinement,
the list as a whole, the keyboard, the free list's setup, startup, boot, address spaces, the
monitor, strings and division, formatting.

Left: what needs a prover for liveness (`KeysTaken`, `CharsReturned`, `LoadEnds`, `PrintEnds`).
