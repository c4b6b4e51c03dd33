# A TLA+ verification of the Talios kernel

Talios is an experimental x86-64 kernel in C: BIOS boot, one processor, a buddy
page allocator with slabs above it, a `vrun_time` scheduler, an interrupt driven
ATA driver with FAT32 above it, kernel timers, a PS/2 keyboard, a framebuffer
console, `fork`/`vfork`/`execve`, and a small user land with a shell. This
directory holds specifications of it, the TLC configurations that check them on
small instances, and proofs that TLAPS checks for every instance.

Everything is written from the code in `kernel/` and `user/`. `PROJECT.json` gives,
for each definition, the lines it models, and for each hazard of the code the line
where it bites.

## The system and its parts

| Part | Source | Module |
|---|---|---|
| Page allocator (buddy system), boot reservation | `memory.c` | `Buddy`, `PageAllocator`, `BuddyProofs` |
| Slabs: `kmalloc`, `kfree`, private caches | `memory.c` | `Slab`, implementing `PageAllocator` |
| Circular lists | `lib.h` | `KernelList`, `KernelListProofs` |
| Run queue, `schedule()`, tick, return from interrupts | `schedule.c`, `hpet.c`, `entry.S`, `task.h` | `Scheduler` |
| ATA request queue and interrupt | `disk.c` | `Disk` (on `Scheduler`) |
| Wait queues, keyboard ring | `waitqueue.c`, `keyboard.c` | `WaitQueue` (on `Scheduler`), `Keyboard` (on `WaitQueue`) |
| Timers and softirqs | `timer.c`, `softirq.c`, `hpet.c` | `Timer` |
| Areas, mmap, page faults, heap | `vma.c`, `mmap.c`, `memory.c`, `sys.c`, `trap.c` | `AddressSpace` |
| fork, vfork, execve, open files | `task.c`, `sys.c` | `Process` |
| FAT32 directories, path walk, `open`, `getdents`, `lseek` | `fat32.c`, `vfs.c`, `sys.c` | `Directory` |
| Console: cursor, spin lock, printing from tasks, softirqs, handlers | `printk.c`, `spin_lock.c`, `spin_lock.h` | `Console`, `ConsoleProofs` |
| Formatting, `printf` to the screen | `printk.c`, `lib.c`, `user/printf.c`, `sys.c` | `Format` |
| Scan codes to characters | `user/keyboard.c` | `KeyDecode` |
| The shell's line, words and commands | `user/init.c` | `Shell` |

How they interact: a system call runs with interrupts on. An interrupt gate closes
interrupts, runs the handler, and `ret_from_intr` first runs raised softirqs, with
interrupts on again, and then may call `schedule()` when the interrupted task allows
preemption. The tick charges the running task, raises the timer softirq and asks
for a reschedule; `end_request` of the disk and `wake_up` of the keyboard wake a
sleeper. A task sleeps by setting its state and calling `schedule()` itself.
Everything takes memory from `kmalloc`, which takes pages from the buddy system, and
everything prints through `ColorPrintfk`.

## The modules

**PageAllocator** is what callers of an allocator rely on: some pages are set aside
at boot, an allocation hands out what nobody has, a release takes it back. `Buddy`
implements it page by page, `Slab` byte by byte.

**Buddy** is the code: LIFO free lists per order, `nr_free`, the zone's counters,
`RefCount` and `reserved`. `Reserve` is `reserve_phys_range`, the `Seed...` actions
are `init_buddy_system`, `AllocSplit` and `CoreMerge` are one iteration each of the
split and merge loops, `AllocTake`, `CoreInsert`, `FreeInsert` the code after them.
`cur` is the block a loop has reached, `held` what callers have. Callers give back
a block with the size they asked for, as all callers in the tree do. Left out:
`Attribute`, which no branch reads, and the choice between zones.

**Slab** has the caches of `KmallocSlabSet` with their lists of slabs, the colour
maps and the three sets of counters, and a private cache as `CreateSlabCache` makes
it. The structures that kmalloc takes from itself (for a slab of a large class, for
a private cache) are objects like any other, and the unchecked inner call that can
return NULL is `mm.fault`. A call is one step. Two kinds of slab lie in part under
their own objects: the structure at the end of a page of small objects, which the
rounded-up count lets the last object reach, and the map of a slab that a large class
has grown by, which stands where its first object is (`memory.c:518`). `over` is that
part of the page and `Write` a caller writing to what it holds: over the structure
that ends in `mm.fault`, over the map it leaves any map (`mm.overrun`). The
properties of `Slab` are claimed until one of them happens.

**KernelList** has `ListInit`, `ListForeAdd`, `ListBackAdd`, `ListDelete` on links
`next` and `prev`. The modules below keep real links, because an element that is
inserted twice or deleted under somebody only shows at that level.

**Scheduler** has the run queue as such a list. A handler with the `schedule()` that
`ret_from_intr` calls is one step, since interrupts are off. The `schedule()` a task
calls to wait runs with interrupts on: its statements are the actions `SchedEnter`
... `SchedLeave`, and handlers run in between. `SWITCH_TO` does not save `rflags`,
and `intr` models what that means for the next task; a task that gets the processor
for the first time is taken to start with interrupts on, although a fresh kernel
thread (`task.c:50-76`) has no `sti` and inherits the flag. List operations are one
step. `rq.doubled` remembers that a task was linked in that was on the list already.
`vrun_time` is only compared, so the least is kept at zero.

**Disk** extends `Scheduler` with `submit`, `ide_transfer`, `wait_for_finish`, the
handlers and `end_request`. `unfinished` is history: requests a task has submitted
and `end_request` has not seen. The drive is external and interrupts when it likes.

**WaitQueue** extends `Scheduler` with `sleep_on`, a step for each statement, and
`wake_up`. The `wait_queue_t` on the stack of `sleep_on` is the node of its task. When
`schedule()` returns too early, the frame goes and the node stays on the list: it
`Dangles`, and a `wake_up` or `sleep_on` that comes to it may find anything there, which
ends in `wait_list.lost`. What the kernel does after that is not followed.

**Keyboard** adds the ring: `KeyboardHandler` in the interrupt,
`keyboard_read` statement by statement (the choice of `counter` reads `count` twice,
its decrement is a load and a store), and the resets of open, close and ioctl. The
n-th key since the reset has the code n, so order and loss can be read off `received`.
`disturbed` says that a key came in the middle of a reset.

**Timer** has the timer list, `jiffies`, `softirq_status` and, for each task, the
stack of activations of `do_softirq`; each statement of `do_softirq` and `do_time`
is a step, ticks nest, and the processor may change hands in the middle.
`add_timer` is one step, at any moment: its one caller, `time_init`, adds to an empty
list, where its scan has nothing to visit.

**AddressSpace** is one address space: the list of areas, the page table as a
function, the free frames, `EndBrk`. Callers pass bytes; alignment is done as in
the code. `MapUserRange4K` may fail at any page, for want of a frame or of a page table,
and takes back what it had mapped (`UnmapBack`). `grown` is history: how far the heap
has really come, as `EndBrk` is an error number after a failure.
`halted` is the endless loop at the end of `DoPageFault`. `do_mmap` and
`do_munmap` have no caller in the tree; they are modelled with the arguments their
checks let through.

**Process** has, for each task, `lmm`, `handle_array` and `PF_VFORK`, and the sets of
objects that are allocated. `ProcessNext` has programs that use vfork the usual way,
`NextScarce` adds memory that runs out and children of vfork that do more,
`NextExec` adds execve in the child of a fork. `halted` is a page fault in the kernel:
`sys_close` of an empty handle goes through a null pointer (`sys.c:127`), and the
missing pgd that `do_fork` and `do_execve` do not notice (`no_pgd`), because
`VIRT_TO_PHY` has moved NULL before they test for it. `freed` is history: the address
spaces that a failing execve in place has freed. Process lets an open of a file and an
execve succeed; the clearing in `fat32_lookup` that prevents it is in Directory.

**Directory** is the root directory as the entries in its chain of clusters, with
deleted entries, end marks, long names and 8.3 names. `fat32_lookup` and
`fat32_readdir` are operators over it, written as the loops they are, with the name
buffers they carry along; the actions are `sys_open` of a path, `getdents`, and
`lseek` to the start. A deleted piece of a long name reads as piece 37, which does not
fit the buffer of `fat32_lookup`: the lookup has the outcome "lost" from there on
(`Overruns`). A cluster is one sector.

**Console** has the cursor and the cells, the spin lock and `preempt_count`, and a
stack of calls of `ColorPrintfk` for each task. A handler, with interrupts off,
prints in one step and takes no lock; `mixed` remembers that it did so in the middle
of a text. In `SoftirqSpec` the timer softirq prints too, on top of the task it
interrupted. `PutOne` is one round of the loop. The loop behind a lock that is found
taken has no action: on one processor nobody could free it.

**Format** reads a format item by item, as `VsPrintfk` and `vsprintf` do, with the
bounds they check; `int` and `long` have small widths and wrap around.
`NumToString` divides as the machine does. Literal characters, which the code does
not check against the buffer, are assumed to fit.

**KeyDecode** is `AnalyzeKeyCode` as a machine that is fed bytes, driven by somebody
who presses and releases keys, which may overlap. `typed` is what the keys mean, the
codes by which the decoder reports grey keys and Pause included. The decoder drops
the byte after Enter whatever it is (`keyboard.c:470`), and takes a release of
Backspace or Tab for one more key (462-467): `regular` says that neither has changed
the text so far. Grey keys are pressed without shift, and
nobody presses Print Screen. **Shell** is the loop of `main`: `read_line`, the two passes
of `parse_command`, `find_cmd`. Lines fit the buffer (`LineFits`); the code does not
check.

The `MC...` modules give the constants their values. Some of them put components
side by side that share no state in these models: a variable `part` (in `MCProcess`,
`scarce`) is chosen at the start and says which one runs, while the others stay in an
initial state. Such a run is the union of the runs of its parts, no more. For this,
modules that meet in one run have distinct names for their `Init`, `Next` and
variables; `NIL` in `Slab` is C's NULL. Where a property belongs to one part only,
the MC module restates it for that part (`WakeupToCome`, `SlabBooks`, ...).

Most modules with state have a type invariant (`TypeOK`, `DiskTypeOK`, `SpaceTypeOK`, ...).
That of `Buddy` is proved. The others hold in the instances below and can be added to
a configuration as one more `INVARIANT`; the configurations name only the properties
that say more.

## The runs

| Run | Parts and instance | Shows |
|---|---|---|
| `progress` | `Scheduler`: idle and three tasks | The run queue is sorted, `vrun_time`s stay within one budget, and every task runs again and again. |
| | `Console`: two tasks, handlers | The lock is never contended, no text is cut in two but by a handler, every print returns. |
| `sleepers` | `Disk`: a disk task and a computing task; and two disk tasks | The drive never stalls and the request count is exact, no wake-up is lost, no task that may run drops out of the run queue, and until a task is linked in twice the queue is one list with its count. |
| | `Keyboard`: a reader, a ring of two, three keys | Keys are read in order and once, `count` is never ahead, the same of the run queue, a sleeper stays on the wait queue until a node left behind on a dead frame is followed. |
| `disk_live` | `Disk`: a disk task | A waiting task goes on. |
| `timer` | `Timer`: three timers, two tasks, three nested activations | The timer list is exact and sorted, a timer that is due is never forgotten, none runs early, and every one runs. |
| `sequential` | `Buddy`: pages 1..8, four orders | All reservations, all sequences of calls: pages neither shared nor lost, counters exact, merging complete, `PageAllocator` implemented. |
| | `Slab`: two classes, a private cache, two pages to grow by | Until a map is overwritten: the counters agree, what is marked taken is held, pages are accounted for, NULL only when full, `PageAllocator` implemented. |
| | `Directory`: two clusters of two entries | The listing is exact but for names with 0x05, and what is listed is found again unless a deleted long name overruns the buffer. |
| | `KeyDecode`: seven bytes | The text is what was typed, with shift, control, alt, grey keys and Pause, while `regular`. |
| | `Shell`: lines of up to seven keys | A line runs the command of its first word, with its words as argv. |
| | `Format`: formats of three items | The numbers on the screen that are not negative read back as those passed, and what printf makes is shown whole. |
| `address_space` | `AddressSpace`: few pages and frames | Areas sorted and disjoint, frames conserved when `brk` fails half way too, entries agree with areas, the lowest gap that fits is found, munmap is exact. |
| `process` | `Process`: three tasks, vfork as it is meant | Files and address spaces are neither shared nor freed in use, and no address space is lost. |
| | `Process`: three tasks, failures | No failure frees an address space in use, but for an execve in place. |

The other runs end in a violation, see below.

### Bounds

- `Buddy`: a zone that starts on an odd page has blocks without a buddy inside it on
  both sides, all orders but the last can be split and merged, and request sizes go
  one order past the largest.
- `Slab`: one class with its header in the page and one with a structure of its own;
  two further pages let a class grow, shrink and fail to grow, in either order.
- `Scheduler`: in `progress`, `MaxLag` (14) is more than the longest budget (12), so
  `FairShare` is not true by the bound; a task further behind counts as `MaxLag`
  behind. In `sleepers` 4 is enough for every order of two tasks; nothing there is
  about the size of the distance.
- `Disk`: `MaxSectors` 2 in `disk_live` and `disk_early` has both a sector that ends a
  request and one that does not; `sleepers` has requests of one sector, and with two
  disk tasks reads only. `MaxRequests` 2 has a queue with a request behind the first.
  A behaviour of `sleepers` ends where a task is linked in twice, where
  `insert_task_queue` spins, or where a dangling node is followed.
- `Keyboard`: three keys for a ring of two overrun it once; the properties about the
  order of keys are claimed up to there and not beyond, since nothing in the code
  handles a full ring.
- `Timer`: `MaxDepth` 3 has a tick inside a tick inside the first (on the stack of
  the second task, `BDepth` 2), `MaxJiffies` 3 gives every order of expiry of three
  timers, and equal ones. The timers are alike, so they are added in one order of
  their names; symmetry reduction is not used where liveness is checked.
- `AddressSpace`: a few pages of two bytes give unaligned addresses and lengths,
  areas cut at either end and in the middle, and a shortage of frames; the heap can
  grow by two pages at once, so that `MapUserRange4K` fails at the second.
- `Process`: three tasks give a fork of a forked and of a vforked child; tasks,
  files and address spaces are limited to the model's sets, and where memory is
  scarce to three of each.
- `Directory`: a long name on either side of the border of two clusters.
- `Console`: three calls, so that two tasks and a handler overlap; four
  columns and two rows reach both edges.
- `Format`: widths of 4 and 6 bits keep the borders of int and long apart; a buffer
  of 8 fills up within three items.
- `KeyDecode`, `Shell`: seven bytes hold a whole Pause code with a key around it, or
  three words with blanks in every place. Each printing key is typed with the two
  shift keys, and one of them with Backspace, Tab, Enter, control and alt as well.

The passing run of `AddressSpace` passes addresses that keep clear of code and heap;
`address_space_heap` shows what happens when they do not. Deadlock is not checked in
`address_space`, `process` and `process_exec` (`DoPageFault` may stop the machine, and a
task whose address space is gone may be the last) and in the violations
`directory_open` and `console_softirq`. In `sequential`, `Finished` lists the ways in
which a part may come to its end; every other deadlock would be reported.

### Fairness

`Scheduler` has weak fairness of `Tick`, the HPET being periodic. `FairDiskSpec` adds
strong fairness of the disk interrupt, which stays pending while interrupts are off,
and of the steps of the task on the processor, which executes many instructions
between two interrupts. `Timer` has weak fairness of `Tick` and strong fairness of the
softirq's steps on each task's stack; `Console` has strong fairness of the switch to
each task and of each task's steps. That every task gets the processor again is what
`EveryTaskRuns` shows of the scheduler, and a budget is a jiffy at least.
`ProgressSpec` states the fairness of `Scheduler` and of `Console` for the part that
runs.

### What the violations show

- `disk_early`: `doc.md` describes the lost wake-up of the disk driver and its cure.
  The wake-up is indeed not lost (`WakeupToCome`, `TransferEnds`). But an interrupt
  between `get_next_task` and the test after it queues the running task, and its
  next `ide_transfer` then returns before the I/O is over.
- `address_space_heap`: `range_is_free` knows areas, but heap, code and stack have
  none: an area may be put over mapped pages.
- `process_exec`: execve in the child of a fork meets the pages fork copied, fails,
  and frees the address space it was called from.
- `directory_open`: `fat32_lookup` clears the first 32 bytes of the node it has just
  filled in: size, blocks, attribute and `sb`; `f_ops` and `inode_ops` stay. Attribute 0
  is `FS_ATTR_DIR`, so `sys_open` of a file returns `-EISDIR`.
- `console_softirq`: the timer softirq waits for the screen lock of the task below it.

### Behaviour the models have and no run is about

The modules do what the code does here too; the properties are stated so that they
hold beside it.

- With two tasks on the disk, the window of `disk_early` links a task into the run
  queue twice; the list gets a cycle without its head, and `insert_task_queue` walks
  it for ever (`rq.spins`). `sleepers` reaches this; `QueueIntact` holds up to the moment
  of the second insertion (`rq.doubled`).
- `sleep_on` sets the state first and queues the task afterwards, with interrupts on:
  preempted in between, the task is on no queue. `SleeperIsQueued` holds from the
  moment it is queued, until a node on a dead frame is followed.
- The holder of the first object of a slab that a large class has grown by overwrites
  the slab's map (`mm.overrun`).
- An execve in place that fails frees the address space, whoever shares it
  (`freed` in `SpaceAllocated`).
- In `fat32_lookup`, 8.3 names that differ only in the place of the dot are the same
  (`NoTwins` in `ListedIsFound`), and the end mark matches the name "."; in
  `fat32_readdir` a name that begins with 0x05 is skipped, and a long name of its own
  would go to the next file (`NoLongNamePassed`). A deleted piece of a long name is
  written past the buffer of `fat32_lookup` (`Overruns`).
- The decoder of scan codes drops the byte behind Enter and takes releases of Backspace
  and Tab for keys (`regular` in `TextIsTyped`).
- A handler prints into the middle of a text (`mixed` in `TextsWhole`); the cursor
  stops one row below the last; a tab at the right edge of a line whose width is no
  multiple of `TAB_WIDTH` is drawn past it.
- `NumToString` divides negative numbers as unsigned ones; `NumbersReadBack` is about
  the others.
- After a failed `brk`, `EndBrk` is the error number; a fork that fails may free files
  of the parent.

## What is proved

`BuddyProofs` proves, for every zone, every `MAX_ORDER` and every sequence of calls:
`TypeCorrect`, `NrFreeCorrect`, `PagesUsedOnce` and `Implementation`. The
assumptions are `ZoneAssumption` (the zone is not empty) and `BlockPagesAssumption`
(`BlockPages[o]` doubles with each order, as `1 << o` does). None of these is
inductive alone. `IInv` adds to `TypeOK`:

- `ListsInv`: `nr_free` is the length of its list and no list has a page twice;
- `Geometry`: blocks lie in the zone, off the reserved pages, and are pairwise
  disjoint. The merged block needs disjointness of its two halves, and the split
  needs that the halves cover what the block covered;
- `Phase`: what `pc` says of `cur` and `req`, such as the list that a split is about
  to take from being non-empty;
- `RefInv`: pages in a held block, or in one being released, have a reference to drop.

There is one lemma per action; `NextInv` puts them together, and the refinement
follows from the invariant, since a step either changes `held` or `reserved` as the
abstract action does or leaves both alone.

`ConsoleProofs` proves `LockNeverContended`: for any tasks, texts and screen, while
tasks and handlers print, `LockUncontended` holds. The invariant `LockInv` says that a
task has one call at most, that its `preempt_count` is 1 exactly between
`preempt_disable` and `preempt_enable`, that only the task on the processor is there,
and that the lock is 1 exactly while that task is past the increment. The theorem is
about `Spec`, in which no softirq prints; `console_softirq` is the counterexample when
one does.

`KernelListProofs` proves of the list operations, for any set of nodes and any number
of circles through it, that `next` and `prev` stay inverse to each other, where the
node ends up, and that deleting a node twice does nothing more. `Timer` rests on the
last: an outer `do_time` may delete what an inner one has deleted.

Only model-checked: the liveness properties (TLAPS has no rules for fairness it could
use here), `NoPageLost`, `CountersExact`, `NoFalseOutOfMemory`, and everything about
the other modules. `Timer`, `Format`, `Directory` and the screen of `Console` compute
with recursive functions, and what these yield for every input needs an induction
that the installed provers cannot do.

## Not modelled

- Reading and writing of FAT32 files, `write_inode` and the updates of the table: no
  call gets a file to work on, as `directory_open` shows.
- Semaphores and atomics: nothing uses them. `spin_lock` between two processors, and
  the start of other processors: `main()` starts none.
- An interrupt in the middle of a list operation, of an allocation, or of an update
  of `running_task_count`: modules take these as one step.
- Real page tables, descriptor tables, APIC, PCI, DMA, floppy, boot loader: register
  programming before or outside any concurrency.
- The commands of the shell and user `malloc`, which never gives anything back.

## Running

    tlc -workers 2 -config MCTimer.cfg MCTimer
    tlapm BuddyProofs.tla
