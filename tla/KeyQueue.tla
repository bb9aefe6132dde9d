------------------------------ MODULE KeyQueue ------------------------------
(***************************************************************************)
(* The keyboard queue, protect/my_spin.c: an interrupt handler appends the *)
(* scan codes to dev->key_list, my_read takes them off again, and both     *)
(* hold the spinlock dev->my_lock.  The module may be loaded and unloaded  *)
(* while keys are pressed.                                                 *)
(*                                                                         *)
(* A thread runs on a CPU of its own and stays there: preemption is        *)
(* disabled under a spinlock, and outside it a thread's place is of no     *)
(* consequence.  The handler runs on any CPU whose interrupts are enabled, *)
(* and the thread of that CPU does not move until the handler returns; one *)
(* interrupt line is never handled on two CPUs at a time.  The n-th key    *)
(* pressed has the value n, so that keys can be told apart.                *)
(***************************************************************************)
EXTENDS Integers, Sequences, FiniteSets

CONSTANTS Cpus,      \* the CPUs, and the thread that each of them runs
          None,      \* no CPU
          MaxPress,  \* number of keys pressed (bound)
          MaxCount   \* largest count a reader asks for (bound)

ASSUME ConstantsAssumption ==
    /\ None \notin Cpus /\ IsFiniteSet(Cpus)
    /\ MaxPress \in Nat
    /\ MaxCount \in Nat

VARIABLES mod,        \* "unloaded", "loading", "live" or "unloading"
          dev,        \* is struct mydev allocated?
          irq,        \* is key_func registered?
          cdev,       \* is the character device registered?
          my_lock,    \* the CPU that holds dev->my_lock, or None
          key_list,   \* dev->key_list
          key_count,  \* dev->key_count
          heap,       \* key_dev items and kernel buffers not yet freed
          presses,    \* keys pressed so far
          pending,    \* the key whose interrupt waits, or 0
          hcpu,       \* the CPU on which key_func runs, or None
          hpc,        \* control point of key_func
          tmp,        \* its tmp->value
          pc,         \* control point of each thread
          count,      \* local variable count of my_read
          kbuf,       \* what it has copied to kbuf
          irqoff      \* are the CPU's interrupts disabled?

driver  == <<mod, dev, irq, cdev>>
queue   == <<my_lock, key_list, key_count>>
handler == <<pending, hcpu, hpc, tmp>>
thread  == <<pc, count, kbuf, irqoff>>
vars    == <<driver, queue, heap, presses, handler, thread>>

\* Control points at which a thread owns my_lock.
ReadLocked == {"read_min", "read_alloc", "read_loop", "read_sub"}
ExitLocked == {"exit_cdev", "exit_free"}

InRead == {"read_irqsave", "read_lock", "read_copy"} \cup ReadLocked

PCs == {"idle", "init_dev", "init_irq", "init_cdev",
        "exit_irq", "exit_sync", "exit_lock", "exit_dev"} \cup InRead \cup ExitLocked

min(a, b) == IF a < b THEN a ELSE b

-----------------------------------------------------------------------------

Init ==
    /\ mod = "unloaded" /\ dev = FALSE /\ irq = FALSE /\ cdev = FALSE
    /\ my_lock = None /\ key_list = << >> /\ key_count = 0
    /\ heap = 0 /\ presses = 0
    /\ pending = 0 /\ hcpu = None /\ hpc = "none" /\ tmp = 0
    /\ pc = [c \in Cpus |-> "idle"]
    /\ count = [c \in Cpus |-> 0]
    /\ kbuf = [c \in Cpus |-> << >>]
    /\ irqoff = [c \in Cpus |-> FALSE]

\* The thread of CPU c is at control point l and is not interrupted.
At(c, l) == pc[c] = l /\ hcpu # c

Goto(c, l) == pc' = [pc EXCEPT ![c] = l]

Return(c) ==
    /\ Goto(c, "idle")
    /\ count' = [count EXCEPT ![c] = 0]
    /\ kbuf' = [kbuf EXCEPT ![c] = << >>]

\* spin_lock(): go on once the lock is free.
SpinLock(c) == my_lock = None /\ my_lock' = c

SpinUnlock == my_lock' = None

IrqRestore(c) == irqoff' = [irqoff EXCEPT ![c] = FALSE]

-----------------------------------------------------------------------------
(* my_init *)

Insmod(c) ==
    /\ At(c, "idle") /\ mod = "unloaded"
    /\ mod' = "loading"
    /\ Goto(c, "init_dev")
    /\ UNCHANGED <<dev, irq, cdev, queue, heap, presses, handler, count, kbuf,
                   irqoff>>

InitDev(c) ==
    /\ At(c, "init_dev")
    /\ dev' = TRUE
    /\ my_lock' = None /\ key_list' = << >> /\ key_count' = 0
    /\ Goto(c, "init_irq")
    /\ UNCHANGED <<mod, irq, cdev, heap, presses, handler, count, kbuf, irqoff>>

\* kzalloc() or request_irq() fails; dev is freed if there is one.
InitFail(c) ==
    /\ At(c, "init_dev") \/ At(c, "init_irq")
    /\ dev' = FALSE
    /\ mod' = "unloaded"
    /\ Goto(c, "idle")
    /\ UNCHANGED <<irq, cdev, queue, heap, presses, handler, count, kbuf, irqoff>>

InitIrq(c) ==
    /\ At(c, "init_irq")
    /\ irq' = TRUE
    /\ Goto(c, "init_cdev")
    /\ UNCHANGED <<mod, dev, cdev, queue, heap, presses, handler, count, kbuf,
                   irqoff>>

\* The result of cdev_add() is ignored.
InitCdev(c) ==
    /\ At(c, "init_cdev")
    /\ cdev' \in BOOLEAN
    /\ mod' = "live"
    /\ Goto(c, "idle")
    /\ UNCHANGED <<dev, irq, queue, heap, presses, handler, count, kbuf, irqoff>>

-----------------------------------------------------------------------------
(* The keyboard and its interrupt *)

KeyPress ==
    /\ irq /\ pending = 0 /\ presses < MaxPress
    /\ presses' = presses + 1
    /\ pending' = presses + 1
    /\ UNCHANGED <<driver, queue, heap, hcpu, hpc, tmp, thread>>

IrqEnter(c) ==
    /\ irq /\ pending # 0 /\ hcpu = None /\ ~ irqoff[c]
    /\ hcpu' = c
    /\ hpc' = "alloc"
    /\ UNCHANGED <<driver, queue, heap, presses, pending, tmp, thread>>

\* kzalloc() fails and the handler does not read the key.
KeyNoMem ==
    /\ hpc = "alloc"
    /\ hcpu' = None /\ hpc' = "none" /\ pending' = 0
    /\ UNCHANGED <<driver, queue, heap, presses, tmp, thread>>

KeyAlloc ==
    /\ hpc = "alloc"
    /\ heap' = heap + 1
    /\ tmp' = pending /\ pending' = 0
    /\ hpc' = "lock"
    /\ UNCHANGED <<driver, queue, presses, hcpu, thread>>

KeyLock ==
    /\ hpc = "lock"
    /\ SpinLock(hcpu)
    /\ hpc' = "add"
    /\ UNCHANGED <<driver, key_list, key_count, heap, presses, pending, hcpu,
                   tmp, thread>>

KeyAdd ==
    /\ hpc = "add"
    /\ key_list' = Append(key_list, tmp)
    /\ hpc' = "count"
    /\ UNCHANGED <<driver, my_lock, key_count, heap, presses, pending, hcpu,
                   tmp, thread>>

KeyCount ==
    /\ hpc = "count"
    /\ key_count' = key_count + 1
    /\ SpinUnlock
    /\ hcpu' = None /\ hpc' = "none" /\ tmp' = 0
    /\ UNCHANGED <<driver, key_list, heap, presses, pending, thread>>

key_func == KeyNoMem \/ KeyAlloc \/ KeyLock \/ KeyAdd \/ KeyCount

-----------------------------------------------------------------------------
(* my_read *)

\* The open file keeps the module from being unloaded.
ReadCall(c) ==
    /\ At(c, "idle") /\ cdev /\ mod # "unloading"
    /\ \E n \in 0 .. MaxCount : count' = [count EXCEPT ![c] = n]
    /\ Goto(c, "read_irqsave")
    /\ UNCHANGED <<driver, queue, heap, presses, handler, kbuf, irqoff>>

\* Mutant: spin_lock() for spin_lock_irqsave().
ReadNoIrqSave(c) ==
    /\ At(c, "read_irqsave")
    /\ Goto(c, "read_lock")
    /\ UNCHANGED <<driver, queue, heap, presses, handler, count, kbuf, irqoff>>

\* spin_lock_irqsave() disables the interrupts, then spins.
ReadIrqSave(c) ==
    /\ At(c, "read_irqsave")
    /\ irqoff' = [irqoff EXCEPT ![c] = TRUE]
    /\ Goto(c, "read_lock")
    /\ UNCHANGED <<driver, queue, heap, presses, handler, count, kbuf>>

ReadLock(c) ==
    /\ At(c, "read_lock")
    /\ SpinLock(c)
    /\ Goto(c, "read_min")
    /\ UNCHANGED <<driver, key_list, key_count, heap, presses, handler, count,
                   kbuf, irqoff>>

ReadEmpty(c) ==
    /\ At(c, "read_min")
    /\ min(count[c], key_count) = 0
    /\ SpinUnlock /\ IrqRestore(c)
    /\ Return(c)
    /\ UNCHANGED <<driver, key_list, key_count, heap, presses, handler>>

ReadMin(c) ==
    /\ At(c, "read_min")
    /\ min(count[c], key_count) # 0
    /\ count' = [count EXCEPT ![c] = min(@, key_count)]
    /\ Goto(c, "read_alloc")
    /\ UNCHANGED <<driver, queue, heap, presses, handler, kbuf, irqoff>>

ReadNoMem(c) ==
    /\ At(c, "read_alloc")
    /\ SpinUnlock /\ IrqRestore(c)
    /\ Return(c)
    /\ UNCHANGED <<driver, key_list, key_count, heap, presses, handler>>

ReadAlloc(c) ==
    /\ At(c, "read_alloc")
    /\ heap' = heap + 1
    /\ Goto(c, "read_loop")
    /\ UNCHANGED <<driver, queue, presses, handler, count, kbuf, irqoff>>

\* Mutant: the loop does not advance.
ReadLoopsForever(c) ==
    /\ At(c, "read_loop")
    /\ Len(kbuf[c]) < count[c]
    /\ UNCHANGED vars

\* Mutant: the item at key_list.prev for the one at key_list.next.
ReadTakeNewest(c) ==
    /\ At(c, "read_loop")
    /\ Len(kbuf[c]) < count[c]
    /\ key_list # << >>
    /\ kbuf' = [kbuf EXCEPT ![c] = Append(@, key_list[Len(key_list)])]
    /\ key_list' = SubSeq(key_list, 1, Len(key_list) - 1)
    /\ heap' = heap - 1
    /\ UNCHANGED <<driver, my_lock, key_count, presses, handler, pc, count,
                   irqoff>>

\* One iteration: the oldest item goes to kbuf, off the list, and is freed.
ReadTake(c) ==
    /\ At(c, "read_loop")
    /\ Len(kbuf[c]) < count[c]
    /\ key_list # << >>
    /\ kbuf' = [kbuf EXCEPT ![c] = Append(@, Head(key_list))]
    /\ key_list' = Tail(key_list)
    /\ heap' = heap - 1
    /\ UNCHANGED <<driver, my_lock, key_count, presses, handler, pc, count,
                   irqoff>>

\* Mutant: key_count is updated after the lock has been released.
ReadUnlockEarly(c) ==
    /\ At(c, "read_loop")
    /\ Len(kbuf[c]) = count[c]
    /\ SpinUnlock /\ IrqRestore(c)
    /\ Goto(c, "read_sub")
    /\ UNCHANGED <<driver, key_list, key_count, heap, presses, handler, count,
                   kbuf>>

ReadTaken(c) ==
    /\ At(c, "read_loop")
    /\ Len(kbuf[c]) = count[c]
    /\ Goto(c, "read_sub")
    /\ UNCHANGED <<driver, queue, heap, presses, handler, count, kbuf, irqoff>>

\* Mutant: spin_unlock() for spin_unlock_irqrestore().
ReadSubNoRestore(c) ==
    /\ At(c, "read_sub")
    /\ key_count' = key_count - count[c]
    /\ SpinUnlock
    /\ Goto(c, "read_copy")
    /\ UNCHANGED <<driver, key_list, heap, presses, handler, count, kbuf, irqoff>>

ReadSub(c) ==
    /\ At(c, "read_sub")
    /\ key_count' = key_count - count[c]
    /\ SpinUnlock /\ IrqRestore(c)
    /\ Goto(c, "read_copy")
    /\ UNCHANGED <<driver, key_list, heap, presses, handler, count, kbuf>>

\* Mutant: a failed copy_to_user() returns without kfree(kbuf).
ReadCopyLeaks(c) ==
    /\ At(c, "read_copy")
    /\ heap' \in {heap, heap - 1}
    /\ Return(c)
    /\ UNCHANGED <<driver, queue, presses, handler, irqoff>>

\* copy_to_user(), whether it fails or not, and kfree(kbuf).
ReadCopy(c) ==
    /\ At(c, "read_copy")
    /\ heap' = heap - 1
    /\ Return(c)
    /\ UNCHANGED <<driver, queue, presses, handler, irqoff>>

my_read(c) ==
    \/ ReadIrqSave(c) \/ ReadEmpty(c) \/ ReadMin(c) \/ ReadNoMem(c)
    \/ ReadAlloc(c) \/ ReadTake(c) \/ ReadTaken(c) \/ ReadSub(c) \/ ReadCopy(c)

-----------------------------------------------------------------------------
(* my_exit *)

Rmmod(c) ==
    /\ At(c, "idle") /\ mod = "live"
    /\ \A d \in Cpus : pc[d] \notin InRead
    /\ mod' = "unloading"
    /\ Goto(c, "exit_irq")
    /\ UNCHANGED <<dev, irq, cdev, queue, heap, presses, handler, count, kbuf,
                   irqoff>>

\* free_irq() unregisters the handler; the keyboard driver, which shares the
\* line, takes a key that is pending, unless key_func is about to read it.
ExitIrq(c) ==
    /\ At(c, "exit_irq")
    /\ irq' = FALSE
    /\ pending' = IF hpc = "alloc" THEN pending ELSE 0
    /\ Goto(c, "exit_sync")
    /\ UNCHANGED <<mod, dev, cdev, queue, heap, presses, hcpu, hpc, tmp, count,
                   kbuf, irqoff>>

\* Mutant: free_irq() does not wait for a handler that is running.
ExitNoSync(c) ==
    /\ At(c, "exit_sync")
    /\ Goto(c, "exit_lock")
    /\ UNCHANGED <<driver, queue, heap, presses, handler, count, kbuf, irqoff>>

\* It then waits until a handler that is running has returned.
ExitSync(c) ==
    /\ At(c, "exit_sync") /\ hcpu = None
    /\ Goto(c, "exit_lock")
    /\ UNCHANGED <<driver, queue, heap, presses, handler, count, kbuf, irqoff>>

ExitLock(c) ==
    /\ At(c, "exit_lock")
    /\ SpinLock(c)
    /\ Goto(c, "exit_cdev")
    /\ UNCHANGED <<driver, key_list, key_count, heap, presses, handler, count,
                   kbuf, irqoff>>

ExitCdev(c) ==
    /\ At(c, "exit_cdev")
    /\ cdev' = FALSE
    /\ Goto(c, "exit_free")
    /\ UNCHANGED <<mod, dev, irq, queue, heap, presses, handler, count, kbuf,
                   irqoff>>

\* The list is emptied only if key_count says that there is something in it.
ExitFree(c) ==
    /\ At(c, "exit_free")
    /\ \/ key_count # 0 /\ key_list' = << >> /\ heap' = heap - Len(key_list)
       \/ key_count = 0 /\ UNCHANGED <<key_list, heap>>
    /\ SpinUnlock
    /\ Goto(c, "exit_dev")
    /\ UNCHANGED <<driver, key_count, presses, handler, count, kbuf, irqoff>>

ExitDev(c) ==
    /\ At(c, "exit_dev")
    /\ dev' = FALSE
    /\ mod' = "unloaded"
    /\ Goto(c, "idle")
    /\ UNCHANGED <<irq, cdev, queue, heap, presses, handler, count, kbuf, irqoff>>

-----------------------------------------------------------------------------

my_init(c) == InitDev(c) \/ InitFail(c) \/ InitIrq(c) \/ InitCdev(c)

my_exit(c) ==
    \/ ExitIrq(c) \/ ExitSync(c) \/ ExitCdev(c) \/ ExitFree(c) \/ ExitDev(c)

Locks(c) == ReadLock(c) \/ ExitLock(c)

Calls(c) == Insmod(c) \/ ReadCall(c) \/ Rmmod(c)

Next ==
    \/ KeyPress
    \/ key_func
    \/ \E c \in Cpus : \/ Calls(c) \/ IrqEnter(c) \/ Locks(c)
                       \/ my_init(c) \/ my_read(c) \/ my_exit(c)

Spec == Init /\ [][Next]_vars

(***************************************************************************)
(* A CPU goes on with what it is doing.  A spinlock is granted in the      *)
(* order in which it was asked for, and an interrupt that is pending is    *)
(* taken when a CPU enables its interrupts, so neither can be passed over  *)
(* for ever.  Nobody is obliged to call, or to press a key.                *)
(***************************************************************************)
Fairness ==
    /\ \A c \in Cpus : /\ WF_vars(my_init(c) \/ my_read(c) \/ my_exit(c))
                       /\ SF_vars(Locks(c))
    /\ WF_vars(KeyNoMem \/ KeyAlloc \/ KeyAdd \/ KeyCount)
    /\ SF_vars(KeyLock)
    /\ SF_vars(\E c \in Cpus : IrqEnter(c))

FairSpec == Spec /\ Fairness

-----------------------------------------------------------------------------

(***************************************************************************)
(* my_read holds the lock with the interrupts of its CPU disabled, and     *)
(* my_exit takes it when no interrupt can come any more: key_func never    *)
(* spins on a lock that the very thread it interrupted holds.              *)
(***************************************************************************)
NoSelfDeadlock == hpc = "lock" => my_lock # hcpu

(***************************************************************************)
(* key_count is the length of key_list whenever nobody holds the lock,     *)
(* until my_exit empties the list: my_read takes no item off an empty      *)
(* list, and my_exit, which looks only at key_count, frees them all.       *)
(***************************************************************************)
CountMatchesList ==
    /\ dev /\ my_lock = None /\ (\A c \in Cpus : pc[c] # "exit_dev") =>
          key_count = Len(key_list)
    /\ \A c \in Cpus : pc[c] = "read_loop" =>
                          count[c] - Len(kbuf[c]) <= Len(key_list)

Keys(s) == {s[i] : i \in 1 .. Len(s)}

(***************************************************************************)
(* A key that key_func has queued is read once and in the order in which   *)
(* the keys were pressed: whatever a reader has taken is older than all    *)
(* that is still queued, and no two readers have taken the same key.       *)
(***************************************************************************)
KeysOnce ==
    /\ \A i, j \in 1 .. Len(key_list) : i < j => key_list[i] < key_list[j]
    /\ \A c \in Cpus : \A k \in Keys(kbuf[c]), l \in Keys(key_list) : k < l
    /\ \A c, d \in Cpus : c # d => Keys(kbuf[c]) \cap Keys(kbuf[d]) = {}

(***************************************************************************)
(* Nothing uses struct mydev after my_exit, or a my_init that fails, has   *)
(* freed it: neither a reader nor the handler is under way.                *)
(***************************************************************************)
NoUseAfterFree ==
    ~ dev => /\ hcpu = None /\ ~ irq /\ ~ cdev
             /\ \A c \in Cpus : pc[c] \notin InRead \cup ExitLocked

(***************************************************************************)
(* When struct mydev is gone every item and every kernel buffer has been   *)
(* freed, once: the paths of my_read, and the keys nobody has read.        *)
(***************************************************************************)
NoLeak == ~ dev => heap = 0

(***************************************************************************)
(* A call of my_read, my_init or my_exit returns, however many keys are    *)
(* pressed meanwhile.                                                      *)
(***************************************************************************)
CallsReturn == \A c \in Cpus : pc[c] # "idle" ~> pc[c] = "idle"

(***************************************************************************)
(* A pending key interrupt is handled (or the handler is unregistered),    *)
(* and the handler returns.                                                *)
(***************************************************************************)
KeyHandled == (pending # 0 \/ hcpu # None) ~> (pending = 0 /\ hcpu = None)

-----------------------------------------------------------------------------

\* The keys at the head of the list that the reader of c has yet to take, from
\* the moment it knows how many it gets.
Left(c) ==
    IF pc[c] \in {"read_alloc", "read_loop"} THEN count[c] - Len(kbuf[c]) ELSE 0

Reserved == IF my_lock \in Cpus THEN Left(my_lock) ELSE 0

\* What a call of my_read is doing at control point l.
Kind(l) ==
    CASE l \in {"read_irqsave", "read_lock", "read_min"} -> "asked"
      [] l = "read_alloc"                                -> "holding"
      [] l \in {"read_loop", "read_sub", "read_copy"}    -> "given"
      [] OTHER                                           -> "idle"

AbsQueue == SubSeq(key_list, Reserved + 1, Len(key_list))
AbsCall  == [c \in Cpus |-> Kind(pc[c])]
AbsWant  == [c \in Cpus |-> IF Kind(pc[c]) = "asked" THEN count[c] ELSE 0]
AbsGot   == [c \in Cpus |-> kbuf[c] \o SubSeq(key_list, 1, Left(c))]

Atomic == INSTANCE AtomicKeys WITH Readers <- Cpus, queue <- AbsQueue,
                                   call <- AbsCall, want <- AbsWant, got <- AbsGot

(***************************************************************************)
(* To its readers the queue is one whose reads happen in a single step:    *)
(* the loop of my_read and the appends of key_func, which each take        *)
(* several steps, cannot be told from taking min(count, key_count) keys at *)
(* once, and a kzalloc() that fails leaves the queue as it was.  Each key  *)
(* is read once and in order: KeysOnce holds of every such queue.          *)
(***************************************************************************)
ImplementsAtomicKeys == Atomic!Spec
=============================================================================
