# A TLA+ verification project for QuickDevSkeleton

QuickDevSkeleton is a collection of small Linux kernel modules, each a skeleton
that a driver or file system can be started from. There is no single program:
every module is loaded on its own and talks to the kernel and to user space.
What can go wrong in it is what goes wrong in drivers: threads, interrupt
handlers and completion callbacks that share a structure, sleepers that nobody
wakes, locks taken in two contexts, resources given back on some paths only,
and devices that disappear while they are in use. This directory holds TLA+
models of those parts, TLC runs, and TLAPS proofs.

`PROJECT.json` is the machine-readable index: components, runs, the lines of
code behind each definition, findings, hazards and theorems.

## 1. Inventory

| Part | State | Operations | Interacts through | What makes it correct |
|---|---|---|---|---|
| `protect/pipe.c` | ring buffer, `rp`, `wp`, semaphore, two wait queues | read, write, ioctl reset, open, close, /proc | wait queues, signals, faulting user copies | FIFO, bounds, nobody sleeps beside data or room |
| `usb/usb-skeleton.c` | kref, mutex, write-slot semaphore, error field, bulk-in buffer, URBs | open, close, flush, read, write, two callbacks, probe, disconnect, reset, suspend | USB core callbacks, URB completions, autosuspend | no use after free, no leak, slots conserved, unplug completes |
| `protect/my_spin.c` | list, counter, spinlock | interrupt handler, read, load, unload | interrupt on any CPU | no deadlock with the handler, counter agrees with list, no use after free |
| `fs/block_page_read` | global page, bio, buffer | read, bio completion | bit wait queue, block layer | a reader is woken and sees the block |
| `fs/journal`, `fs/jbd2` | journal, handle of the task, page lock and flags | write_begin/end, writepage, fsync, sync_fs, mount | page cache, journal library | handle and page lock balanced on every path |
| `fs/*/file_system.c` | module reference | mount, kill_sb | VFS | one reference per mount |
| other `fs` lessons | - | readpage, get_block, bread | page cache | page unlocked once |
| `char`, `time/my_wait.c` | linear buffer, `wp`, file position | read, write, llseek, load | unlocked sharing, a wait queue | bounds, no underflow, reader woken |
| `interrupt`, `protect/my_atomic.c`, `time/my_timer.c` | counters, key buffer, tasklet, work, timer | handler, bottom half, load, unload | deferred execution | nothing runs after unload, no key lost |
| `pci`, `io`, `platform/skel_drv.c`, `key_char_platform.c` | regions, mappings, cdev, class device | probe, remove | bus core | exact roll-back |
| `platform/fake_pata.c` | two register pages and their shadows | polling thread, load, unload | libata writes the page | every command seen, identify data in order |
| `memory/list_buffer.c`, `list_cache.c` | none (a walk) | radix tree walk | page cache | every entry visited once, index arithmetic |
| `debug`, `module`, `0_` .. `3_`, other `memory` | almost none | load, unload | - | - |
| `platform/pata_platform.c`, `ide_platform.c` | mappings, host | probe, remove | libata, IDE core | exact roll-back |
| `fs/*_orig.c` | kernel copies | - | - | third-party |

The hard behaviours are listed at their lines under "hazards" in
`PROJECT.json`. In short: conditions evaluated without the lock (pipe), two
locks or none for one field (usb), a lock shared with an interrupt handler
(my_spin), a wake-up that can come too early and globals shared by readers
(read.c, page_cache_read), early returns between a begin and an end (journal),
commits, aborts and crashes around an in-place write (journal), free space
computed before another writer uses it (char buffers), variables shared with an
interrupt handler (like_irq, my_atomic), deferred work that outlives its module
(interrupt), roll-backs (pci, io, platform, multi_mem), a register page that two
sides write (fake_pata), and a walk over a tree that changes (list_buffer).

## 2. Plan

Everything in the repository that keeps state, compiles and is its own code is
now in a module. They were written in the order of risk: first the concurrent
drivers (Pipe, UsbSkel, KeyQueue, BioRead), then the journalled file system and
the mounts (JournalFs, FsMount, PageRead), then what all drivers have in common
(DriverCode, DriverLife), then the shared buffers and pages (CharBuffer,
SharedCells, FakePata, RadixWalk).

Proofs followed the same order: Pipe and KeyQueue, then UsbSkel, BioRead and the
devices, then the shared variables and the file systems, then RadixWalk and the
refinement of AtomicKeys. Every safety property that the passing runs check is
now a theorem, except those of DriverLife (section 6 says why). What would be
worth adding: that `PIPE_RESET` is the only way in which a writer of the pipe is
stranded when some threads may reset, which needs a history variable.

## 3. Modules

| Module | Models | Role |
|---|---|---|
| `FifoChannel` | - | abstract bounded channel |
| `Pipe` | `protect/pipe.c` | detailed specification; `Channel` is the refinement mapping |
| `PipeProofs` | | theorems about Pipe |
| `UsbSkel` | `usb/usb-skeleton.c` | one device, its threads and the USB core |
| `UsbSkelProofs` | | theorems about UsbSkel |
| `AtomicKeys` | - | abstract queue whose reads take one step |
| `KeyQueue` | `protect/my_spin.c` | interrupt handler, readers, load and unload; `Atomic` is the refinement mapping |
| `KeyQueueProofs` | | theorems about KeyQueue |
| `BioRead` | `fs/block_page_read/read.c` | readers, device and completion |
| `BioReadProofs` | | theorems about BioRead |
| `JournalFs` | `fs/journal`, `fs/jbd2`, the write side of `fs/get_block` and `fs/write_page` | writers, flusher, journal, crashes |
| `FsMount` | mount, lookup and unload of all lessons under `fs` | module and inode references |
| `PageRead` | readpage and read of the lessons under `fs` | readers, page lock, device |
| `FileSystemProofs` | | theorems about JournalFs, FsMount and PageRead |
| `MCFileSystems` | | runs one of the three, chosen in the initial state |
| `DriverCode` | init, exit, probe and remove of 36 drivers | straight-line programs over resources, as data |
| `DriverLife` | the callbacks of these drivers | runs a program against a kernel that may refuse anything |
| `CharBuffer` | read, write, llseek of `char`, `time/my_wait*.c`, `pci`, `io` | two threads, one buffer or one set of registers |
| `SharedCells` | `interrupt/like_irq.c`, `irq_disable.c`, `debug/my_proc.c`, `protect/my_atomic.c` | variables shared without a lock |
| `SharedCellsProofs` | | theorems about SharedCells |
| `FakePata` | `platform/fake_pata.c` | polling thread and libata |
| `RadixWalk` | `memory/list_buffer.c` | the walk and a changing page cache |
| `RadixWalkProofs` | | theorems about RadixWalk |
| `DeviceProofs` | | theorems about FakePata and CharBuffer |
| `MCDevices` | | runs one of the four, chosen in the initial state |
| `MCPipe` | | symmetry set for TLC; modules with liveness properties are checked without symmetry, where it is not sound |

Conventions. A thread has a control point `pc` named after the function and
the statement it is about to execute. An action is what a function does between
two points at which somebody else can look. State names are those of the C
structures. Operators marked *Mutant* are deliberately wrong versions of the
definition that follows them; no specification uses them. `PROJECT.json` pairs
each with the property that it breaks.

### Pipe

`buf`, `wp`, `rp`, `sem`, `readq` and `writeq` are the fields of `struct mydev`,
pointers counted from `start`. `my_read` and `my_write` are split at the
semaphore, in `wait_event_interruptible` (queue, load, load and test, sleep)
and between the copy, the advance of the pointer and its wrap-around, because
the wait condition of the other side is evaluated without the semaphore and so
sees every intermediate value. It loads the two pointers in source order. A user
copy may fail after it has written any number of bytes; a signal may end any
sleep. `down_interruptible` lets a newcomer overtake, which the kernel does not
do: this only adds behaviours.

### UsbSkel

`hub` is the control point of the USB core's worker: probe, disconnect, reset,
suspend, resume and re-plug. What the core promises is external and stated in
the module's head: the device lock serialises these, endpoints are disabled and
their URBs killed before `disconnect` (the driver does not set `soft_unbind`),
the minor table is locked against open, `usb_kill_urb` returns after the
callback, and tasks are frozen during suspend. `flying` counts write URBs,
`rurb` is the read URB. `errors` is split into load and store wherever the code
touches it without a common lock.

### KeyQueue

Each thread owns a CPU. `IrqEnter` starts `key_func` on any CPU whose
interrupts are on and stops that CPU's thread until the handler returns; the
line is not re-entered. `heap` counts allocations that are not freed. The n-th
key has the value n, which makes order and duplication visible. `free_irq` is
two steps, unregister and wait.

AtomicKeys is what a reader may rely on without knowing of the lock: it gets the
oldest keys, as many as it asked for or as there are, in one step. In the mapping
`Atomic` that step is the evaluation of `min(count, key_count)`. From then on
`count` keys at the head of the list are `Reserved` for the holder of the lock,
and the abstract queue is the list behind them, so that neither the loop that
copies them one by one nor `key_count -= count` is seen. If `kzalloc` fails they
are the oldest keys of the queue again; a `copy_to_user` that fails loses them,
as in the code. `my_exit` empties a queue that nobody reads. Since keys are
queued in the order of their values, every queue of AtomicKeys has them read once
and in order, so that the run checks the refinement in place of `KeysOnce`.

### BioRead

Every access to the globals `private_page`, `private_bio` and `buffer` is a
step; `bio = private_bio` uses the value stored just before, as compiled code
does. A page is "filled" once a bio that names it has ended well. Allocation
failures are not modelled.

### JournalFs

A page stands for its four buffers, which the code always walks together; its
content is the number of the write or store that made it. `get_block` maps every
block to block 0, so `disk` is one block that all pages share. `info` is
`current->journal_info`, `trans` the running transaction, `logged` what was
committed, `tail` what a replay finds. `Crash` may come at any step and keeps
`disk`, `logged` and `tail`; `example_fill_super` replays. `JournalAbort` is an
I/O error of the journal, after which handles do nothing. Each callback
(`write_begin`, `write_end`, `writepage`, `sync_file`) is split at
`journal_start`, the walk, the copy and the stop, where flusher, journal thread
and stores through a mapping come in. jbd2 has the same `writepage` with one
credit for four buffers; once the journal is aborted, access is refused before
the credits are looked at.

The journal may refuse a handle (`journal_start`) or access to a buffer
(`journal_get_write_access` has no memory for a frozen copy) at any time, not only
after an abort; `refused` remembers which. Refused access ends the walk of
`write_begin` with the handle open, the page locked and perhaps a dirty bit
cleared. A task that comes back with such a handle does a *bare* write (the `b_`
labels): `write_begin` returns 0 at once, so nothing has made buffers or asked for
access when `write_end` calls `page_buffers`, which dies on a page without them,
and `journal_dirty_metadata`, which dies on buffers the transaction does not have.
Its `write_end` then stops the left-over handle. While a task has a handle open
the transaction cannot commit: the journal stands still, and everybody who waits
for a commit with it. The task's own `fsync` joins the left-over handle, commits
nothing and returns 0, although the comment at `address_mapping.c:22` says "There
cannot be a transaction open by this task".

`example_fill_super` may fail with a NULL journal, which `journal_load` reads
through; with an error of `journal_load`, after which the journal is destroyed and
may have been replayed in part; and for want of memory for the root, which leaves
the journal loaded.

### FsMount

Each lesson is a record: does `mount` take a module reference, is `kill_sb` the
module's own, how can `fill_super` fail, what does `lookup` hand out. The
operations are those of `fs/journal` and `fs/bread`; a lesson without a step
skips it. `delete_module` runs at any time, as no lesson sets `owner`. The inode
that `lookup` asks `iget_locked` for may be NULL, unless it is in the cache
already, and is written through all the same (`example_lookup_null`).

### PageRead

One page (the file has three bytes), locked by the VFS before `readpage`. `lost`
records each way in which a lesson forgets to unlock it.

### DriverCode and DriverLife

A setup or teardown function is a sequence of statements: `Take` a resource or
run the alternative, `Try` without looking at the outcome, `Set` a pointer,
`Retry` until it is granted, `Drop` what must be there, `Free` what may be NULL or
missing, `Need` what is read through, `Never` have what a `BUG_ON` forbids, `Test`
another condition, `Fail`. Drivers that are copies of one
another still have their own programs, since an error path missing in one of them
is what is looked for. DriverLife runs the programs of one driver, refuses any
request, and lets the callbacks run while what they are registered with is held:
handlers and proc readers are waited for by the call that removes them, open
files pin the module but not the device, deferred work is waited for by nobody,
and the timer of `my_timer.c` may start itself again.

`any.c` needs the last two statements. Its probe repeats `alloc_chrdev_region`
while it fails; a refused round changes nothing, and `GrantRetry` has no fairness,
so that the probe may stay there for ever. Its remove function, which is also
the way out of every error of the probe, frees a network device that nobody has
unregistered: `free_netdev` has a `BUG_ON` for that, and the thread dies.

### CharBuffer and SharedCells

Every load and store of a shared variable is a step; `wp += count`, `irqs++` and
`disable_count--` are two. A `size_t` difference that is negative is larger than
any count. The two stores of `key_buf[pos++] = value` come in either order, and
a key that finds the buffer full is counted among the `refused`. Of a text written
to `my_proc.c` the model keeps what matters to its reader: whether it leaves no
room for a terminator (`full`) and whether it is longer than the page into which
`proc_read` prints it (`long`), as neither the write nor the read has a bound. A
model of CharBuffer stops once memory outside of the buffer was touched.

### FakePata

The page is three registers that the thread treats differently. `pending` is a
command that the thread has not looked at yet and whether it can still see it.

### RadixWalk

The tree is the set of its indices; its height is the least one that all of them
fit, and slots are computed as the kernel does. `maxindex` and the table are pure
functions, compared with powers of the fan-out.

The walk has neither the tree lock nor `rcu_read_lock`, so each load is a step:
the root and its height before the loop (`walk_begin`, `walk_height`), then for
each index the root (`walk_root`), one slot per level (`walk_slot`), the test for
buffer heads and the ring of them (`page_has_buffers`, `radix_node_has_buffer`).
Between any two of them a page comes or goes (`Change`), a page gets or loses its
buffer heads (`Buffers`), or a node that has left the tree is freed
(`GracePeriod`). What the walk holds is a chain: a node of height `lvl` reached by
the digits `base`, of which the levels above `foot` were cut off by a shrinking
and `wgone` says whether the node at `foot` has left the tree. A root that was cut
off still leads into the tree by its first slot; a node that was emptied leads
nowhere; a freed one has NULL, another file's page or anything in its slots.

`index` is an unsigned long and wraps; `max_index` is an
unsigned int. Where the two have the same width, as on a 32-bit machine, and the
tree has its full height, no index is beyond `max_index`: the walk begins again at
0 and never ends. `ShrinkingOnly` names this case. The run has an int that is
narrower than a long, where it cannot happen; the proof covers both.

What the walk prints is left out. It adds a line to the caller's page for each
page of the file that has buffers, without a bound: a file with some hundred of
them is printed past the end of that page.

## 4. Runs

| Run | Bounds | Shows |
|---|---|---|
| `pipe` | 2 threads, both may reset, 2 data bytes, ring of 3, requests up to 2 | semaphore balanced, copies in bounds, no reader asleep beside data, FIFO, refinement of FifoChannel |
| `pipe_live` | 2 threads, no reset, ring of 3, fair | no writer stranded, progress of readers, writers and semaphore waiters |
| `pipe_reset` (violation) | 2 threads, ring of 2 | PIPE_RESET strands a sleeping writer |
| `usb` | 2 threads, 2 slots, buffer of 2, reads up to 2, fair | slots, references, buffer ownership, autosuspend count, no URB on a gone device or during reset; unplug completes and frees every caller, even if the device is silent |
| `usb_reset_lost`, `usb_null` (violations) | 2 threads | see Findings |
| `keys` | 2 CPUs, 4 keys, reads up to 2, fair | lock, list, counter, order, lifetime, leaks; calls return, interrupts are handled; refinement of AtomicKeys |
| `bio` | 2 readers, 3 reads, I/O errors, fair | no dangling `private_bio`, a sleeper is woken by its own bio, a reader that is alone sees the block |
| `bio_lost` (violation) | 1 reader, 1 read | see Findings |
| `drivers` | 36 drivers, one device, one callback of each kind, fair | exact roll-back, setup and teardown (`HeldMatchesPhase`), nothing released twice (`NoStrayRelease`), callbacks find what they use (`UsesAreLive`), resources nest (`NestedLifetimes`), every function returns (`CodeReturns`) |
| `filesystems` | 1 writer, 1 flusher, 2 pages, 2 versions, 1 sync, 2 mounts; 16 lessons, 3 references; 2 readers, 2 reclaims | lock and handle balanced (`CallsBalanced`), fsync keeps its promise (`SyncCommitted`), no write in place before its commit (`WriteAhead`), module and inode references (`MountSafe`), pages come back and show the block (`ReadsSafe`) |
| `devices` | 2 threads, buffer of 2, registers of 8, 2 bytes accepted; key buffer of 2, 3 keys, 2 allocations at a time, counter modulo 8; fan-out 4, 5-bit long, 4-bit int, 4 indices, 3 changes to pages or buffers | `BufferSafe`, `CellsSafe`, `PollingSafe`, `WalkRight` |

**Why the bounds are enough to be interesting.** A ring of three bytes holds
two: full, empty, wrapped, and a request cut by the end of the buffer all
happen, and with two data bytes a swap or a stale byte is seen. Two threads are
a reader and a writer, two of a kind, or either of them against a reset. Write
URBs outlive the call that submitted them, so two threads use up two slots and
make the third write block; reads of one or two bytes from a buffer of two
empty it in part, in full, or ask for more than is left. On two CPUs the
handler interrupts a reader or runs beside it, and four keys with reads of two
leave a rest in the list. In BioRead three reads let one reader come back while
the other's bio is in flight. In JournalFs two versions on two pages are enough
for one to overtake the other on block 0, and two mounts for a crash and a
replay. A buffer of two bytes is filled, overrun by two writers and read behind
its end; eight bytes of registers are two words. Three keys overflow a key buffer
of two, or come before, in and after a reader's window. With a long of five bits
and an int of four the largest index does not fit the int, as 64 and 32 bits do
for a tree of six levels; indices 0, 1, 6 and 21 need none, one, two and three
levels, and with three changes a tree shrinks by one, two or all of its levels,
or shrinks and grows again, under one search. The proofs of section 6 remove the
bounds for the safety properties of all modules but DriverLife.

**Known defects inside passing runs.** Most lessons leave out error handling on
purpose or by accident. Where no comment of the repository says otherwise, such
a defect is not a finding; the property names it as an exception (the driver and
the resource, or the circumstance that it takes) and holds for everything else.
Every exception is reachable in the run. They are listed in section 5.

**Fairness.** Code that can run is scheduled (weak fairness of the steps of a
call). Strong fairness is assumed for acquiring a semaphore, mutex or spinlock,
because the kernel queues waiters (semaphore and mutex lists, ticket locks), and
for the delivery of a pending interrupt to some CPU that enables its interrupts
again and again. No thread has to call, no key has to be pressed, no USB device
has to answer; a block device has to end each bio, well or not. In DriverLife
setup and teardown code runs on, interrupt handlers, proc readers and the thread
return, and the bus removes the device of a driver that is unregistered; a file
may stay open for ever, and a request that is repeated until it is granted need
not be. The runs `filesystems` and `devices` have no liveness.

**Deadlock** is checked in the runs of Pipe, UsbSkel and KeyQueue. In the others
standing still is a legal end: readers asleep for good (`bio_lost` is about
them), a module that is unloaded, a thread that died in an access, a page that
nobody unlocks; the invariants say which of these may happen.

## 5. Findings

- `pipe_reset`: PIPE_RESET changes what writers wait for and wakes nobody.
- `usb_reset_lost`: a writer overwrites the -EPIPE of a reset it never saw. (The
  same unlocked load and store of `errors` lets a reader and a writer both
  report one error.)
- `usb_null`: `dev->interface` is used after `io_mutex` is released.
- `bio_lost`: the completion can come before the reader is in the wait queue.
  (With two readers at once `show_content` also copies the page of whoever
  called last; `LoneReaderSeesBlock` therefore assumes that calls do not
  overlap.)

Defects that the passing runs name as exceptions:

- *journal*: a walk that fails in `write_begin`, after an abort or for want of
  memory, returns with the handle open, and the early returns of `write_begin` and
  `writepage` leave the page locked. A task with such a handle goes on writing,
  with buffers that nobody made or that the transaction does not have: it dies in
  `write_end`, or what it writes may reach the disk before its commit; its `fsync`
  returns 0 without a commit. `writepage` goes on after a refused walk and dies of
  the buffers that it did not get. A store through a mapping may
  be written in place before its commit. jbd2 asks for one credit and walks four
  buffers. `fill_super` passes a NULL journal to `journal_load`.
- *mount*: a mount that fails, or that finds the device mounted, keeps its module
  reference; nothing stops rmmod between the lookup of the type and
  `try_module_get`; `kill_sb` gives the module back and returns into it; a root
  inode, or one from `iget_locked`, that is NULL is written through; `bread`,
  `buffer_read` and `page_cache_read` hand out a global inode without a reference.
- *readpage*: `page_cache_read` leaves the page locked after an I/O error, or if
  the bio of the read before is not cleared yet; `buffer_read` and
  `submit_bh_readpage` show a page whose read has failed; `sb_bread` copies from
  the start of the block whatever the position.
- *drivers*: listed as `RollbackLeaks`, `UnloadLeaks`, `KnownFaults` and
  `KnownDangling` in DriverLife. The gravest: the probe of `my_pci2.c` falls
  through into its error path, `release_mydev` reads through the entry that could
  not be allocated, tasklet, work and timer run after unload, remove of `any.c`
  always dies in `free_netdev`, and its probe does not return while no major
  number is free.
- *buffers*: overlapping writers overrun the buffer; `mychar.c` and `my_wait.c`
  copy from behind `wp` for a pread there; the I/O port readers go past the ports.
  (On a 64-bit machine their `unsigned long` array is also half as large as what
  they store in it; the model is that of 32 bits. With a `port_size`, a module
  parameter, that is not a multiple of four the last word is cut even without
  going past the end: the proof of `TransfersInside` asked for that case, the
  default of 0x100 hides it.)
- *shared variables*: a key that comes between the loop and `pos = 0` of
  `like_irq.c` is lost; `my_proc.c` frees twice after a failed copy, prints past a
  text without a terminator and past the page for a text longer than it; `irqs`
  loses counts; `disable_count` wraps when an enable is too many.
- *fake disk*: a command is missed if it is written while the thread is past its
  byte, or if it equals the status it replaces (DEVICE RESET during a read).
- *radix walk*: the root is not tested again, so that a tree that shrinks to one
  page under the walk is read as a node; nodes are read after they were freed, so
  that a page that was there all the time is missed if an old root is freed under
  the search for it; a page may lose its buffer heads between the test for them
  and the walk round them; indices beyond an unsigned int are left
  out; with int and long of one width the walk over a tree of full height does not
  end; a tree of one page reports its buffer heads as the length of the text.

## 6. Proofs

Checked with TLAPS 1.4.5 (Z3, Zenon, LS4), for every value of the constants
that satisfies the assumptions named in the modules. Those are: bounds are
naturals (or positive where zero makes no sense); `BufLen >= 2` and `Resetters` a
subset of `Procs` in Pipe; the CPUs of KeyQueue are finitely many and `None` is
not one of them, the threads of UsbSkel are finitely many, as both proofs count
them; in SharedCells there is a thread, and buffers are not called "NULL" or
"empty"; in JournalFs there is a page, and no task is called "no". None of the
properties is inductive by itself; what was added to it was first checked by TLC
as an invariant and then proved.

**Pipe** (`PipeProofs`). The properties are not inductive by themselves; four
layers build on one another.
1. *Semaphore*: `sem` is 1 minus the number of threads at a locked control
   point (`SemaphoreBalanced`), hence at most one thread is there.
2. *Ring*: types, a pointer equals `end` only while its owner is about to wrap
   it, and the count of the owner fits the free space or the data
   (`CopyInBounds`).
3. *Wait queues*: a queued reader that has loaded one pointer still has the
   current value, or a writer is on its way to `wake_up`; a sleeping one sees
   an empty pipe or such a writer (`NoReaderStranded`). The mirror image for
   writers needs that nobody resets (`NoWriterStrandedWithoutReset` assumes
   `Resetters = {}`; the run `pipe_reset` shows that it must).
4. *Bytes*: the content of the ring as a sequence; every step appends, removes
   from the front, or leaves it (`PipeIsFifo`, `PipeImplementsChannel`).

**UsbSkel** (`UsbSkelProofs`). One invariant `IInv` with a part for each thing
that keeps the driver in order.
1. *Who may be where*: `io_mutex` has one owner, a thread or the core between
   `pre_reset` and `post_reset`; nobody moves while tasks are frozen; a thread is
   inside `skel_open` only while the minor is registered (`MutexOK`, `FrozenOK`,
   `OpenOK`).
2. *Core*: URBs are in flight only in the states of the core that allow it, and
   the interface is NULL in exactly those after `disconnect` has cleared it
   (`UrbOK`, from which `GoneDeviceQuiet`).
3. *Counts*: free slots, threads that hold one and URBs in flight make up
   `WRITES_IN_FLIGHT`; there is a reference for each open file and
   one while the interface is bound; likewise for autosuspend (`SlotOK`, `KrefOK`, `PmOK`). They are
   cardinalities of the sets of threads at certain control points; a few lemmas
   say how such a set changes when one thread moves (`SlotsConserved`,
   `LifetimeCorrect`, `NothingLeaked`).
4. *Buffer*: with a read under way nobody has copied from it, and what was copied
   does not exceed what was filled (`BufferExclusive`).

**KeyQueue** (`KeyQueueProofs`), six layers.
1. *Lifetime*: which phase of load and unload goes with which control points,
   whether the device exists, and where the handler may be
   (`LifetimeCorrect`).
2. *Lock*: its owner is exactly the thread or handler at a locked point, and
   a reader that asks for it or has it runs with interrupts off
   (`NoDeadlockOnLock`).
3. *List and counter*: equal when the lock is free, and off by what the owner
   has done so far when it is not (`CountCorrect`).
4. *Order*: the list is increasing, what readers have taken is below it and no two
   have the same, and the key that the handler is about to add and the next one
   that is pressed are above all of these (`KeysReadInOrder`).
5. *Heap*: allocations are the nodes of the list, the one that the handler is
   about to add, and the buffers of readers inside their loop (`NothingLeaked`).
6. *Atomicity*: only the holder of the lock has keys reserved, and no more than
   are on the list (`LeftOK`, a consequence of layers 2 and 3). With it each step
   is looked at once through the mapping: `ReadMin` is a take or an empty read,
   a failed `kzalloc` gives the keys back, the append of `key_func` is a put
   (newest by layer 4), my_exit forgets; all others leave the four abstract
   variables as they are, the copying loop because a key that leaves the list
   enters the reader's buffer (`SeenStep`, `QueueImplementsAtomicKeys`).

**BioRead** (`BioReadProofs`). A call has a number of its own and owns its bio
until it submits it (`BioNotDangling`). Under `[]Lone`, calls that do not overlap,
at most one bio is under way and `private_page` is still the page it was given
(`LoneReader`).

**FakePata, CharBuffer** (`DeviceProofs`).
- The status is BSY whenever the bytes of the page do not belong together, or the
  host has put a command over it; a command that can be seen is ahead of the
  scan; the offset moves by four and one (`PollingIsSafe`).
- As long as no writers overlap, a writer's room is still there and what lies
  below `wp` is what was accepted; a reader whose position was not set by the
  caller is not beyond `wp`, and one asleep with something to read has a writer
  that is about to wake it (`BuffersAreSafe`).

**RadixWalk** (`RadixWalkProofs`), three layers.
1. *Arithmetic*. The library has no laws of exponentiation, and induction theorems
   take an operator, which the provers cannot instantiate. Both are got round:
   `Cardinality(SUBSET S) = 2^Cardinality(S)` is a library fact, and counting the
   subsets of `1 .. n + 1` with and without `n + 1` gives `2^(n+1) = 2 * 2^n`
   (`PowerOfTwo`); an induction is an argument about a least counterexample, from
   the well-foundedness of the naturals (`LeastNatural`). From these `2^(a+b)`,
   monotonicity, and that shifting twice is one shift (`PowerSum`,
   `PowerMonotone`, `DivDiv`).
2. *Tree*. Every tree has a height that reaches its indices (`TreeHeight`); one
   slot further down adds one digit of the index to those that led there
   (`NextDigit`, `Spans`); the table is right and so is what an unsigned int keeps
   of it (`TableRight`, `LastIndex`).
3. *Walk*. `WalkInv`: what the walk holds is a chain whose upper part, if any, was
   cut off by a shrinking (`HoldInv`); the way to a page that is there all the time
   stays open wherever the walk is on it, as its nodes are cut off at most above
   `foot`, where its digits are 0 (`WayInv`); a tree that has not lost a level
   reaches all that the walk goes through (`ReachInv`); then what was found lies
   behind `index` and was counted once (`CountInv`); and if nothing changed
   everything behind `index` was found, buffer heads too, and the loop ended one
   index behind the last (`QuietInv`). There is a lemma for each load and for each
   change of the tree. `StablePagesFound` and `WalkIsRight` follow. The proof
   asked for the case of one width, in which `index` wraps.

**SharedCells** (`SharedCellsProofs`). The driver never changes, so each of the
four has an invariant of its own. For `like_irq.c` every key is with the handler,
in the buffer, shown, refused, or late; the places behind a reader have been shown and
those ahead have not; what is left when `pos` is cleared is late. For `my_proc.c`,
while calls do not overlap, at most the buffer behind `ker_buf` is allocated, and
it is unless a copy has failed; a reader prints the text that is there, so that
the page is overrun by a long one only. The atomic sum of `my_atomic.c` lags by the
handlers that are inside, the plain one by at least those that have loaded it.
`disable_count` is off by what the one call under way has still to store, modulo
its width (`CellsAreSafe`).

**JournalFs, FsMount, PageRead** (`FileSystemProofs`).
- `CallInv`: the task that works on a page has its lock, a handle is open at the
  points between start and stop, and a lock or handle is left behind only by the
  early returns, after a refusal or an abort; a bare write has a left-over handle,
  and so access was refused (`JournalCallsBalanced`).
- `WriteInv`: a page with buffers to be written in place, a block on disk and what
  a replay would find hold only versions that are logged or that a mapped store, or a
  bare write outside of the transaction, made (`JournalWriteAhead`).
- `SyncInv`: the content of a page is logged, or on its way there under a handle,
  or waits for `writepage`; no step loses it between the three (`KeptStep`), so
  that `sync_file` finds it wherever it was when it was called; a handle that was
  left over before stays, and that call promises nothing (`LeftStep`,
  `SyncIsCommitted`).
- `PinInv` and `InodeInv`: module references are those of the mounts and those
  that failed mounts have kept; the inode's are those of the names
  (`MountIsSafe`).
- `PageInv` and `FileInv`: a locked page has one reader or device that is to
  unlock it; what was got so far is the file up to the position
  (`ReadsAreSafe`).

**Only model-checked.**
- Liveness: `ReaderProgress` and the like of Pipe, `CallsReturn`, `KeyHandled`,
  the unplug properties of UsbSkel, `QueuedReaderWoken`, `CodeReturns`. The prover
  does not handle fairness.
- The runs that end in a violation.
- DriverLife. Its only constant is the set of drivers, a subset of a fixed table,
  and the run takes the whole table: TLC's search is exhaustive, and a proof would
  be the same enumeration of 36 programs by other means. (`HeldMatchesPhase`,
  `NoStrayRelease`, `UsesAreLive`, `NestedLifetimes`.)

## 7. Not modelled

- The reader and writer counts and the /proc output of pipe.c, which decide
  nothing.
- Directory listing, the statistics that are only printed, and the loops of
  `list_buffer.c` and `list_cache.c` over all inodes and what they print.
- `invalidatepage`, `releasepage` and `readpages` of the journalled lessons,
  which hand over to the kernel.
- The control block of `fake_pata.c`, which is only logged; the write of
  `key_char_platform.c`, one byte to an address that nothing reads.
- Code that does not compile: `net/my_8139.c`, the file operations of
  `pci/my_pci.c`, `debug/my_list.c`.
- `debug/wrong_stack_sample.c`, which panics on purpose; lessons without state;
  copies of kernel files; test programs.
- Memory ordering between CPUs beyond the order of the source, except where a
  store may be moved by the compiler (`like_irq.c`).

Kernel services (scheduler, wait queues, locks, allocators, USB core, block
layer, page cache, journal library, libata, module loader) are modelled only as
far as the code uses them and are marked external in the map.
