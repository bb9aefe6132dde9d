-------------------------------- MODULE Pipe --------------------------------
(***************************************************************************)
(* The pipe driver, protect/pipe.c: a ring buffer of BUF_LEN bytes between *)
(* dev->start and dev->end, guarded by the semaphore dev->mysem, with a    *)
(* wait queue for readers and one for writers.                             *)
(*                                                                         *)
(* A process is a thread that is inside at most one system call.  Its      *)
(* control point pc says where in my_read, my_write or my_ioctl it is.     *)
(* Pointers are offsets from dev->start.  A step is what the code does     *)
(* between two points at which another process can observe or change the   *)
(* device: the buffer and the two pointers are written under mysem, but    *)
(* wait_event_interruptible() evaluates its condition without it.  It      *)
(* loads the two pointers one after the other, so a pointer that has been  *)
(* advanced and not yet wrapped is visible, and so is a pair of values     *)
(* that never existed at one time.                                         *)
(***************************************************************************)
EXTENDS Integers, Sequences

CONSTANTS Procs,      \* threads that use the device
          Resetters,  \* those that may issue the PIPE_RESET ioctl
          BufLen,     \* BUF_LEN
          Data,       \* bytes that writers write
          Zero,       \* the byte kzalloc() and a failed copy leave behind
          MaxCount    \* largest count a caller asks for (bound)

ASSUME ConstantsAssumption ==
    /\ BufLen \in Nat /\ BufLen >= 2
    /\ MaxCount \in Nat
    /\ Resetters \subseteq Procs

VARIABLES buf,     \* the bytes between start and end
          wp, rp,  \* dev->wp, dev->rp
          sem,     \* dev->mysem
          readq,   \* threads queued on dev->readq and not woken yet
          writeq,  \* threads queued on dev->writeq and not woken yet
          pc,      \* control point of each thread
          cnt,     \* the local variable count of each call
          ubuf,    \* the caller's buffer, as a sequence of bytes
          seen     \* the first pointer an unlocked wait condition has loaded

vars == <<buf, wp, rp, sem, readq, writeq, pc, cnt, ubuf, seen>>

Byte == Data \cup {Zero}

\* Control points at which a thread owns mysem.
ReadLocked  == {"read_test", "read_copy", "read_adv", "read_wrap"}
WriteLocked == {"write_test", "write_copy", "write_adv", "write_wrap"}
IoctlLocked == {"ioctl_wp", "ioctl_rp"}
Locked      == ReadLocked \cup WriteLocked \cup IoctlLocked

Waiting == {"read_down", "read_prep", "read_load", "read_check", "read_sleep",
            "read_wake", "write_down", "write_prep", "write_load",
            "write_check", "write_sleep", "write_wake", "ioctl_down"}

PCs == {"idle"} \cup Locked \cup Waiting

min(a, b) == IF a < b THEN a ELSE b

-----------------------------------------------------------------------------
\* my_init: both pointers at start, semaphore free.
Init ==
    /\ buf = [i \in 0 .. BufLen - 1 |-> Zero]
    /\ wp = 0 /\ rp = 0
    /\ sem = 1
    /\ readq = {} /\ writeq = {}
    /\ pc = [p \in Procs |-> "idle"]
    /\ cnt = [p \in Procs |-> 0]
    /\ ubuf = [p \in Procs |-> << >>]
    /\ seen = [p \in Procs |-> 0]

Goto(p, l) == pc' = [pc EXCEPT ![p] = l]

Return(p) ==
    /\ Goto(p, "idle")
    /\ cnt' = [cnt EXCEPT ![p] = 0]
    /\ ubuf' = [ubuf EXCEPT ![p] = << >>]
    /\ seen' = [seen EXCEPT ![p] = 0]

\* down_interruptible() succeeds when the count is positive.
Down(p, from, to) ==
    /\ pc[p] = from
    /\ sem > 0
    /\ sem' = sem - 1
    /\ Goto(p, to)
    /\ UNCHANGED <<buf, wp, rp, readq, writeq, cnt, ubuf, seen>>

Up == sem' = sem + 1

\* A signal ends an interruptible sleep: -ERESTARTSYS, nothing held.
Interrupted(p) ==
    /\ \/ pc[p] \in {"read_down", "write_down", "ioctl_down"} /\ sem = 0
       \/ pc[p] \in {"read_sleep", "write_sleep"}
    /\ Return(p)
    /\ readq' = readq \ {p}
    /\ writeq' = writeq \ {p}
    /\ UNCHANGED <<buf, wp, rp, sem>>

-----------------------------------------------------------------------------
(* my_read *)

ReadCall(p) ==
    /\ pc[p] = "idle"
    /\ \E n \in 0 .. MaxCount : cnt' = [cnt EXCEPT ![p] = n]
    /\ Goto(p, "read_down")
    /\ UNCHANGED <<buf, wp, rp, sem, readq, writeq, ubuf, seen>>

ReadDown(p) == Down(p, "read_down", "read_test")

\* The loop test: an empty pipe releases the semaphore before it waits.
ReadEmpty(p) ==
    /\ pc[p] = "read_test"
    /\ wp = rp
    /\ Up
    /\ Goto(p, "read_prep")
    /\ UNCHANGED <<buf, wp, rp, readq, writeq, cnt, ubuf, seen>>

\* How much of the request one contiguous copy can serve.
ReadChunk(n) == IF wp > rp THEN min(n, wp - rp) ELSE min(n, BufLen - rp)

ReadReady(p) ==
    /\ pc[p] = "read_test"
    /\ wp # rp
    /\ cnt' = [cnt EXCEPT ![p] = ReadChunk(@)]
    /\ Goto(p, "read_copy")
    /\ UNCHANGED <<buf, wp, rp, sem, readq, writeq, ubuf, seen>>

\* wait_event_interruptible(readq, wp != rp): queue, test, sleep, again.
ReadPrepare(p) ==
    /\ pc[p] = "read_prep"
    /\ readq' = readq \cup {p}
    /\ Goto(p, "read_load")
    /\ UNCHANGED <<buf, wp, rp, sem, writeq, cnt, ubuf, seen>>

ReadLoad(p) ==
    /\ pc[p] = "read_load"
    /\ seen' = [seen EXCEPT ![p] = wp]
    /\ Goto(p, "read_check")
    /\ UNCHANGED <<buf, wp, rp, sem, readq, writeq, cnt, ubuf>>

\* Mutant: the thread queues itself only after it has tested the condition.
ReadCheckThenQueue(p) ==
    /\ pc[p] = "read_check"
    /\ \/ seen[p] # rp /\ readq' = readq \ {p} /\ Goto(p, "read_down")
       \/ seen[p] = rp /\ readq' = readq \cup {p} /\ Goto(p, "read_sleep")
    /\ seen' = [seen EXCEPT ![p] = 0]
    /\ UNCHANGED <<buf, wp, rp, sem, writeq, cnt, ubuf>>

ReadCheck(p) ==
    /\ pc[p] = "read_check"
    /\ \/ seen[p] # rp /\ readq' = readq \ {p} /\ Goto(p, "read_down")
       \/ seen[p] = rp /\ readq' = readq /\ Goto(p, "read_sleep")
    /\ seen' = [seen EXCEPT ![p] = 0]
    /\ UNCHANGED <<buf, wp, rp, sem, writeq, cnt, ubuf>>

ReadAwake(p) ==
    /\ pc[p] = "read_sleep"
    /\ p \notin readq
    /\ Goto(p, "read_prep")
    /\ UNCHANGED <<buf, wp, rp, sem, readq, writeq, cnt, ubuf, seen>>

\* copy_to_user() succeeds ...
ReadCopy(p) ==
    /\ pc[p] = "read_copy"
    /\ ubuf' = [ubuf EXCEPT ![p] = [i \in 1 .. cnt[p] |-> buf[rp + i - 1]]]
    /\ Goto(p, "read_adv")
    /\ UNCHANGED <<buf, wp, rp, sem, readq, writeq, cnt, seen>>

\* Mutant: the fault path forgets up().
ReadFaultKeepsSem(p) ==
    /\ pc[p] = "read_copy"
    /\ cnt[p] > 0
    /\ Return(p)
    /\ UNCHANGED <<buf, wp, rp, sem, readq, writeq>>

\* ... or faults: the semaphore is released, rp stays where it was.
ReadFault(p) ==
    /\ pc[p] = "read_copy"
    /\ cnt[p] > 0
    /\ Up
    /\ Return(p)
    /\ UNCHANGED <<buf, wp, rp, readq, writeq>>

ReadAdvance(p) ==
    /\ pc[p] = "read_adv"
    /\ rp' = rp + cnt[p]
    /\ Goto(p, "read_wrap")
    /\ UNCHANGED <<buf, wp, sem, readq, writeq, cnt, ubuf, seen>>

ReadWrap(p) ==
    /\ pc[p] = "read_wrap"
    /\ rp' = IF rp = BufLen THEN 0 ELSE rp
    /\ Up
    /\ Goto(p, "read_wake")
    /\ UNCHANGED <<buf, wp, readq, writeq, cnt, ubuf, seen>>

\* Mutant: the writers are not woken.
ReadNoWake(p) ==
    /\ pc[p] = "read_wake"
    /\ Return(p)
    /\ UNCHANGED <<buf, wp, rp, sem, readq, writeq>>

ReadWake(p) ==
    /\ pc[p] = "read_wake"
    /\ writeq' = {}
    /\ Return(p)
    /\ UNCHANGED <<buf, wp, rp, sem, readq>>

-----------------------------------------------------------------------------
(* my_write *)

\* Mutant: no slot is kept free to tell a full ring from an empty one.
spacefreeAll(r, w) ==
    IF r = w THEN BufLen - 1
    ELSE IF r < w THEN BufLen + r - w
    ELSE r - w

spacefree(r, w) ==
    IF r = w THEN BufLen - 1
    ELSE IF r < w THEN BufLen + r - w - 1
    ELSE r - w - 1

WriteCall(p) ==
    /\ pc[p] = "idle"
    /\ \E n \in 0 .. MaxCount :
         /\ cnt' = [cnt EXCEPT ![p] = n]
         /\ \E s \in [1 .. n -> Data] : ubuf' = [ubuf EXCEPT ![p] = s]
    /\ Goto(p, "write_down")
    /\ UNCHANGED <<buf, wp, rp, sem, readq, writeq, seen>>

WriteDown(p) == Down(p, "write_down", "write_test")

WriteFull(p) ==
    /\ pc[p] = "write_test"
    /\ spacefree(rp, wp) = 0
    /\ Up
    /\ Goto(p, "write_prep")
    /\ UNCHANGED <<buf, wp, rp, readq, writeq, cnt, ubuf, seen>>

\* Mutant: the copy is not limited to the free bytes.
WriteChunkNoSpace(n) ==
    IF rp > wp THEN min(n, rp - wp) ELSE min(n, BufLen - wp)

WriteChunk(n) ==
    IF rp > wp THEN min(min(n, spacefree(rp, wp)), rp - wp - 1)
               ELSE min(min(n, spacefree(rp, wp)), BufLen - wp)

WriteReady(p) ==
    /\ pc[p] = "write_test"
    /\ spacefree(rp, wp) # 0
    /\ cnt' = [cnt EXCEPT ![p] = WriteChunk(@)]
    /\ Goto(p, "write_copy")
    /\ UNCHANGED <<buf, wp, rp, sem, readq, writeq, ubuf, seen>>

WritePrepare(p) ==
    /\ pc[p] = "write_prep"
    /\ writeq' = writeq \cup {p}
    /\ Goto(p, "write_load")
    /\ UNCHANGED <<buf, wp, rp, sem, readq, cnt, ubuf, seen>>

WriteLoad(p) ==
    /\ pc[p] = "write_load"
    /\ seen' = [seen EXCEPT ![p] = rp]
    /\ Goto(p, "write_check")
    /\ UNCHANGED <<buf, wp, rp, sem, readq, writeq, cnt, ubuf>>

WriteCheck(p) ==
    /\ pc[p] = "write_check"
    /\ \/ /\ spacefree(seen[p], wp) # 0
          /\ writeq' = writeq \ {p}
          /\ Goto(p, "write_down")
       \/ /\ spacefree(seen[p], wp) = 0
          /\ writeq' = writeq
          /\ Goto(p, "write_sleep")
    /\ seen' = [seen EXCEPT ![p] = 0]
    /\ UNCHANGED <<buf, wp, rp, sem, readq, cnt, ubuf>>

WriteAwake(p) ==
    /\ pc[p] = "write_sleep"
    /\ p \notin writeq
    /\ Goto(p, "write_prep")
    /\ UNCHANGED <<buf, wp, rp, sem, readq, writeq, cnt, ubuf, seen>>

\* The first k bytes of the caller's data from wp on, zeroes up to cnt.
CopyIn(p, k) ==
    [i \in 0 .. BufLen - 1 |->
        IF i < wp \/ i >= wp + cnt[p] THEN buf[i]
        ELSE IF i < wp + k THEN ubuf[p][i - wp + 1] ELSE Zero]

\* Mutant: the result of copy_from_user() is ignored.
WriteCopyUnchecked(p) ==
    /\ pc[p] = "write_copy"
    /\ \E k \in 0 .. cnt[p] : buf' = CopyIn(p, k)
    /\ Goto(p, "write_adv")
    /\ UNCHANGED <<wp, rp, sem, readq, writeq, cnt, ubuf, seen>>

WriteCopy(p) ==
    /\ pc[p] = "write_copy"
    /\ buf' = CopyIn(p, cnt[p])
    /\ Goto(p, "write_adv")
    /\ UNCHANGED <<wp, rp, sem, readq, writeq, cnt, ubuf, seen>>

\* Mutant: the fault path forgets up().
WriteFaultKeepsSem(p) ==
    /\ pc[p] = "write_copy"
    /\ \E k \in 0 .. cnt[p] - 1 : buf' = CopyIn(p, k)
    /\ Return(p)
    /\ UNCHANGED <<wp, rp, sem, readq, writeq>>

\* copy_from_user() faults after k bytes and zeroes the rest.
WriteFault(p) ==
    /\ pc[p] = "write_copy"
    /\ \E k \in 0 .. cnt[p] - 1 : buf' = CopyIn(p, k)
    /\ Up
    /\ Return(p)
    /\ UNCHANGED <<wp, rp, readq, writeq>>

WriteAdvance(p) ==
    /\ pc[p] = "write_adv"
    /\ wp' = wp + cnt[p]
    /\ Goto(p, "write_wrap")
    /\ UNCHANGED <<buf, rp, sem, readq, writeq, cnt, ubuf, seen>>

WriteWrap(p) ==
    /\ pc[p] = "write_wrap"
    /\ wp' = IF wp = BufLen THEN 0 ELSE wp
    /\ Up
    /\ Goto(p, "write_wake")
    /\ UNCHANGED <<buf, rp, readq, writeq, cnt, ubuf, seen>>

\* Mutant: the readers are not woken.
WriteNoWake(p) ==
    /\ pc[p] = "write_wake"
    /\ Return(p)
    /\ UNCHANGED <<buf, wp, rp, sem, readq, writeq>>

WriteWake(p) ==
    /\ pc[p] = "write_wake"
    /\ readq' = {}
    /\ Return(p)
    /\ UNCHANGED <<buf, wp, rp, sem, writeq>>

-----------------------------------------------------------------------------
(* my_ioctl, command PIPE_RESET.  The other commands change nothing. *)

IoctlCall(p) ==
    /\ p \in Resetters
    /\ pc[p] = "idle"
    /\ Goto(p, "ioctl_down")
    /\ UNCHANGED <<buf, wp, rp, sem, readq, writeq, cnt, ubuf, seen>>

IoctlDown(p) == Down(p, "ioctl_down", "ioctl_wp")

\* rp = wp = start stores wp first.
IoctlResetWp(p) ==
    /\ pc[p] = "ioctl_wp"
    /\ wp' = 0
    /\ Goto(p, "ioctl_rp")
    /\ UNCHANGED <<buf, rp, sem, readq, writeq, cnt, ubuf, seen>>

IoctlResetRp(p) ==
    /\ pc[p] = "ioctl_rp"
    /\ rp' = 0
    /\ Up
    /\ Return(p)
    /\ UNCHANGED <<buf, wp, readq, writeq>>

-----------------------------------------------------------------------------

\* What a call does on its own once it has been made.
ReadStep(p) ==
    \/ ReadEmpty(p) \/ ReadReady(p) \/ ReadPrepare(p) \/ ReadLoad(p)
    \/ ReadCheck(p) \/ ReadAwake(p) \/ ReadCopy(p) \/ ReadFault(p) \/ ReadAdvance(p)
    \/ ReadWrap(p) \/ ReadWake(p)

WriteStep(p) ==
    \/ WriteFull(p) \/ WriteReady(p) \/ WritePrepare(p) \/ WriteLoad(p)
    \/ WriteCheck(p) \/ WriteAwake(p) \/ WriteCopy(p) \/ WriteFault(p) \/ WriteAdvance(p)
    \/ WriteWrap(p) \/ WriteWake(p)

IoctlStep(p) == IoctlResetWp(p) \/ IoctlResetRp(p)

Downs(p) == ReadDown(p) \/ WriteDown(p) \/ IoctlDown(p)

Calls(p) == ReadCall(p) \/ WriteCall(p) \/ IoctlCall(p)

Next == \E p \in Procs :
    \/ Calls(p) \/ Downs(p) \/ ReadStep(p) \/ WriteStep(p) \/ IoctlStep(p)
    \/ Interrupted(p)

Spec == Init /\ [][Next]_vars

(***************************************************************************)
(* A thread that can run is eventually scheduled.  The waiters of a        *)
(* semaphore are served in the order in which they came, so a thread that  *)
(* waits in down_interruptible() cannot be overtaken for ever.  Nobody is  *)
(* obliged to call, and no signal is obliged to come.                      *)
(***************************************************************************)
Fairness == \A p \in Procs :
    /\ WF_vars(ReadStep(p) \/ WriteStep(p) \/ IoctlStep(p))
    /\ SF_vars(Downs(p))

FairSpec == Spec /\ Fairness

-----------------------------------------------------------------------------
(* The bytes in the pipe, and the promise they keep *)

Size == IF wp >= rp THEN wp - rp ELSE BufLen + wp - rp

Slot(i) == IF rp + i - 1 < BufLen THEN rp + i - 1 ELSE rp + i - 1 - BufLen

\* A reset has emptied the pipe as soon as it has stored the first pointer.
Resetting == \E p \in Procs : pc[p] = "ioctl_rp"

Content == IF Resetting THEN << >> ELSE [i \in 1 .. Size |-> buf[Slot(i)]]

Channel == INSTANCE FifoChannel WITH chan <- Content, Capacity <- BufLen - 1

(***************************************************************************)
(* Types of the variables (struct mydev and the locals of the calls).      *)
(***************************************************************************)
TypeOK ==
    /\ buf \in [0 .. BufLen - 1 -> Byte]
    /\ wp \in 0 .. BufLen /\ rp \in 0 .. BufLen
    /\ sem \in Nat
    /\ readq \subseteq Procs /\ writeq \subseteq Procs
    /\ pc \in [Procs -> PCs]
    /\ cnt \in [Procs -> Nat]
    /\ ubuf \in [Procs -> Seq(Byte)]
    /\ seen \in [Procs -> 0 .. BufLen]

(***************************************************************************)
(* Every path of my_read, my_write and my_ioctl, the fault and signal      *)
(* paths included, gives mysem back exactly once: the semaphore is free    *)
(* exactly when nobody is between its down and its up, and never two       *)
(* threads are.                                                            *)
(***************************************************************************)
SemaphoreBalanced ==
    /\ sem \in {0, 1}
    /\ sem = 1 <=> \A p \in Procs : pc[p] \notin Locked
    /\ \A p, q \in Procs : pc[p] \in Locked /\ pc[q] \in Locked => p = q

(***************************************************************************)
(* The copy of a call stays inside the buffer and inside the bytes that    *)
(* were there (reading) or free (writing) when the call looked: what       *)
(* my_read and my_write computed before a copy that may sleep in a page    *)
(* fault is still true when the pointer is advanced.                       *)
(***************************************************************************)
CopyInBounds ==
    \A p \in Procs :
        /\ pc[p] \in {"read_copy", "read_adv"} =>
              cnt[p] <= Size /\ rp + cnt[p] <= BufLen
        /\ pc[p] \in {"write_copy", "write_adv"} =>
              cnt[p] <= BufLen - 1 - Size /\ wp + cnt[p] <= BufLen

(***************************************************************************)
(* The wake-up protocol of my_write and my_read: a reader that sleeps on   *)
(* readq while there are bytes in the pipe has a writer on its way to      *)
(* wake_up(&dev->readq).                                                   *)
(***************************************************************************)
ReaderNotStranded ==
    \A p \in readq :
        pc[p] = "read_sleep" /\ Content # << >> =>
            \E q \in Procs : pc[q] \in {"write_wrap", "write_wake"}

(***************************************************************************)
(* "wait until buffer not empty" (pipe.c:104; "not full" is meant): a      *)
(* writer that sleeps on writeq while the pipe has room has a thread on    *)
(* its way to wake_up(&dev->writeq).                                       *)
(***************************************************************************)
WriterNotStranded ==
    \A p \in writeq :
        pc[p] = "write_sleep" /\ Len(Content) < BufLen - 1 =>
            \E q \in Procs : pc[q] \in {"read_wrap", "read_wake", "ioctl_rp"}

(***************************************************************************)
(* my_read hands out the oldest bytes, in order and once, and my_write     *)
(* appends a prefix of the caller's bytes: the step that advances the      *)
(* pointer moves exactly what was copied.                                  *)
(***************************************************************************)
FifoOrder ==
    [][\A p \in Procs :
         /\ pc[p] = "read_adv" /\ pc'[p] = "read_wrap" =>
               Content = ubuf[p] \o Content'
         /\ pc[p] = "write_adv" /\ pc'[p] = "write_wrap" =>
               Content' = Content \o SubSeq(ubuf[p], 1, cnt[p])]_vars

(***************************************************************************)
(* The ring buffer implements the abstract channel: whatever the           *)
(* interleaving, bytes enter at the tail, at most BUF_LEN - 1 of them, and *)
(* leave at the head; a failed or interrupted call changes nothing.        *)
(***************************************************************************)
ImplementsChannel == Channel!Spec

(***************************************************************************)
(* A blocked read returns to its loop test as soon as there is something   *)
(* to read: no wake-up is lost for good, whoever took the bytes.           *)
(***************************************************************************)
ReaderProgress ==
    \A p \in Procs :
        (pc[p] = "read_sleep" /\ Content # << >>)
            ~> (pc[p] # "read_sleep" \/ Content = << >>)

(***************************************************************************)
(* The same for a blocked write: a reader that makes room wakes it.        *)
(***************************************************************************)
WriterProgress ==
    \A p \in Procs :
        (pc[p] = "write_sleep" /\ Len(Content) < BufLen - 1)
            ~> (pc[p] # "write_sleep" \/ Len(Content) = BufLen - 1)

(***************************************************************************)
(* A thread that wants mysem gets it, or a signal.                         *)
(***************************************************************************)
SemaphoreProgress ==
    \A p \in Procs :
        pc[p] \in {"read_down", "write_down", "ioctl_down"}
            ~> pc[p] \in Locked \cup {"idle"}
=============================================================================
