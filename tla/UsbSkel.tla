------------------------------ MODULE UsbSkel ------------------------------
(***************************************************************************)
(* The USB skeleton driver, usb/usb-skeleton.c: one struct usb_skel, the   *)
(* threads that have its character device open, the USB core that probes,  *)
(* disconnects, resets and suspends it (hub), and the URBs in flight.      *)
(*                                                                         *)
(* The core is external.  It serialises probe, disconnect, reset and       *)
(* suspend under the device lock; before ->disconnect it disables the      *)
(* endpoints and kills their URBs (the driver does not set soft_unbind);   *)
(* it runs ->open with the minor table locked against usb_deregister_dev;  *)
(* and usb_kill_urb returns when the completion callback has returned.     *)
(*                                                                         *)
(* io_mutex is held from a step that takes it to the step that releases    *)
(* it.  err_lock is a spin lock held within one step, except in skel_write,*)
(* whose load and store of dev->errors are two steps because skel_read and *)
(* skel_post_reset access the field without the lock.                      *)
(***************************************************************************)
EXTENDS Integers, FiniteSets

CONSTANTS Tasks,             \* threads, each with a file of its own
          WritesInFlight,    \* WRITES_IN_FLIGHT
          BulkInSize,        \* dev->bulk_in_size
          MaxCount           \* largest count passed to read (bound)

ASSUME UsbAssumption ==
    /\ IsFiniteSet(Tasks)
    /\ WritesInFlight \in Nat \ {0}
    /\ BulkInSize \in Nat \ {0}
    /\ MaxCount \in Nat \ {0}

VARIABLES hub,          \* what the USB core is doing with the interface
          epOn,         \* the endpoints accept URBs
          minor,        \* the minor is registered
          intfdata,     \* the interface points to dev
          interface,    \* dev->interface # NULL
          kref,         \* dev->kref; 0: dev is freed (or not yet allocated)
          io_mutex,     \* TRUE: locked
          limit_sem,    \* dev->limit_sem
          flying,       \* write URBs submitted and not completed
          rurb,         \* length of bulk_in_urb in flight, 0: not submitted
          ongoing_read, \* dev->ongoing_read
          filled,       \* dev->bulk_in_filled
          copied,       \* dev->bulk_in_copied
          errors,       \* dev->errors
          pm,           \* usage count of usb_autopm_{get,put}_interface
          pc,           \* control point of each thread
          count,        \* argument of the read a thread is in
          rv            \* value of dev->errors a thread has loaded

core   == <<epOn, minor, intfdata>>
refs   == <<interface, kref, pm>>
reads  == <<rurb, ongoing_read, filled, copied>>
writes == <<limit_sem, flying>>
locals == <<count, rv>>
vars   == <<hub, core, refs, io_mutex, writes, reads, errors, pc, locals>>

\* 0, a failed transfer (-EIO and the like), -EPIPE, or an unlinked URB
\* (-ENOENT, -ECONNRESET, -ESHUTDOWN).
Faults == {"io", "pipe"}
Status == {"ok", "unlink"} \cup Faults

\* Control points of a thread that owns io_mutex.
MutexPCs == {"r_retry", "r_wait", "r_err", "r_clear", "r_data",
             "f_draw", "f_kill", "f_err"}

\* Control points of a thread that has passed down(&limit_sem).
LimitPCs == {"w_err", "w_clear", "w_lock", "w_oops", "w_up"}

PCs == {"closed", "open_get", "open", "r_lock", "w_down", "f_lock",
        "rel_lock", "rel_put"} \cup MutexPCs \cup LimitPCs

HubMutex == {"rst_draw", "rst_kill", "rst_post"}
HubFrozen == {"susp_draw", "susp_kill", "suspended"}

HubPCs == {"unbound", "probe", "bound", "disc_data", "disc_minor",
           "disc_lock", "disc_kill", "disc_put", "gone", "rst_lock"} \cup HubMutex \cup HubFrozen

min(a, b) == IF a < b THEN a ELSE b

-----------------------------------------------------------------------------
Init ==
    /\ hub = "unbound"
    /\ epOn = FALSE /\ minor = FALSE /\ intfdata = FALSE
    /\ interface = FALSE /\ kref = 0 /\ pm = 0
    /\ io_mutex = FALSE
    /\ limit_sem = 0 /\ flying = 0
    /\ rurb = 0 /\ ongoing_read = FALSE /\ filled = 0 /\ copied = 0
    /\ errors = "ok"
    /\ pc = [t \in Tasks |-> "closed"]
    /\ count = [t \in Tasks |-> 0]
    /\ rv = [t \in Tasks |-> "ok"]

Goto(t, l) == pc' = [pc EXCEPT ![t] = l]

\* Back to user space with nothing held.
Return(t) ==
    /\ Goto(t, "open")
    /\ count' = [count EXCEPT ![t] = 0]
    /\ rv' = [rv EXCEPT ![t] = "ok"]

Lock   == ~ io_mutex /\ io_mutex' = TRUE
Unlock == io_mutex' = FALSE

\* spin_lock(&dev->err_lock) in a step of its own succeeds.
ErrLockFree == \A t \in Tasks : pc[t] # "w_clear"

\* if (urb->status) dev->errors = urb->status
Record(st) ==
    /\ errors' = IF st = "ok" THEN errors ELSE st

-----------------------------------------------------------------------------
(* Completion of URBs *)

\* skel_read_bulk_callback
ReadDone(st) ==
    /\ rurb > 0
    /\ ErrLockFree
    /\ Record(st)
    /\ filled' \in IF st = "ok" THEN 0 .. rurb ELSE {filled}
    /\ ongoing_read' = FALSE
    /\ rurb' = 0
    /\ UNCHANGED <<hub, core, refs, io_mutex, writes, copied, pc, locals>>

\* skel_write_bulk_callback
WriteDone(st) ==
    /\ flying > 0
    /\ ErrLockFree
    /\ Record(st)
    /\ flying' = flying - 1
    /\ limit_sem' = limit_sem + 1
    /\ UNCHANGED <<hub, core, refs, io_mutex, reads, pc, locals>>

\* usb_kill_anchored_urbs(&dev->submitted): the callbacks run, unlinked.
KillWrites ==
    /\ ErrLockFree
    /\ Record(IF flying = 0 THEN "ok" ELSE "unlink")
    /\ flying' = 0
    /\ limit_sem' = limit_sem + flying

\* usb_kill_urb(dev->bulk_in_urb)
KillRead ==
    /\ ErrLockFree
    /\ Record(IF rurb = 0 THEN "ok" ELSE "unlink")
    /\ ongoing_read' = (ongoing_read /\ rurb = 0)
    /\ rurb' = 0
    /\ UNCHANGED <<filled, copied>>

\* The core gives every URB of the interface back before ->disconnect.
FlushEndpoints ==
    /\ ErrLockFree
    /\ Record(IF flying = 0 /\ rurb = 0 THEN "ok" ELSE "unlink")
    /\ flying' = 0
    /\ limit_sem' = limit_sem + flying
    /\ ongoing_read' = (ongoing_read /\ rurb = 0)
    /\ rurb' = 0
    /\ UNCHANGED <<filled, copied>>

\* usb_submit_urb can succeed.
CanSubmit == epOn

-----------------------------------------------------------------------------
(* skel_open, skel_release, skel_flush *)

\* usb_find_interface and usb_get_intfdata, with the minor table locked.
OpenFind(t) ==
    /\ pc[t] = "closed"
    /\ minor /\ intfdata
    /\ Goto(t, "open_get")
    /\ UNCHANGED <<hub, core, refs, io_mutex, writes, reads, errors, locals>>

\* usb_autopm_get_interface fails ...
OpenFail(t) ==
    /\ pc[t] = "open_get"
    /\ Goto(t, "closed")
    /\ UNCHANGED <<hub, core, refs, io_mutex, writes, reads, errors, locals>>

\* Mutant: skel_open forgets kref_get.
OpenNoRef(t) ==
    /\ pc[t] = "open_get"
    /\ pm' = pm + 1
    /\ Goto(t, "open")
    /\ UNCHANGED <<hub, core, interface, kref, io_mutex, writes, reads, errors,
                   locals>>

\* ... or it succeeds, and kref_get follows.
OpenGet(t) ==
    /\ pc[t] = "open_get"
    /\ pm' = pm + 1
    /\ kref' = kref + 1
    /\ Goto(t, "open")
    /\ UNCHANGED <<hub, core, interface, io_mutex, writes, reads, errors, locals>>

ReleaseCall(t) ==
    /\ pc[t] = "open"
    /\ Goto(t, "rel_lock")
    /\ UNCHANGED <<hub, core, refs, io_mutex, writes, reads, errors, locals>>

\* Mutant: the release of a device that is gone returns early.
ReleaseEarly(t) ==
    /\ pc[t] = "rel_lock"
    /\ ~ io_mutex
    /\ pm' = IF interface THEN pm - 1 ELSE pm
    /\ Goto(t, IF interface THEN "rel_put" ELSE "closed")
    /\ UNCHANGED <<hub, core, interface, kref, io_mutex, writes, reads, errors,
                   locals>>

\* Under io_mutex: an interface that is gone is left alone.
ReleasePm(t) ==
    /\ pc[t] = "rel_lock"
    /\ ~ io_mutex
    /\ pm' = IF interface THEN pm - 1 ELSE pm
    /\ Goto(t, "rel_put")
    /\ UNCHANGED <<hub, core, interface, kref, io_mutex, writes, reads, errors,
                   locals>>

ReleasePut(t) ==
    /\ pc[t] = "rel_put"
    /\ kref' = kref - 1
    /\ Goto(t, "closed")
    /\ UNCHANGED <<hub, core, interface, pm, io_mutex, writes, reads, errors,
                   locals>>

FlushCall(t) ==
    /\ pc[t] = "open"
    /\ Goto(t, "f_lock")
    /\ UNCHANGED <<hub, core, refs, io_mutex, writes, reads, errors, locals>>

FlushLock(t) ==
    /\ pc[t] = "f_lock"
    /\ Lock
    /\ Goto(t, "f_draw")
    /\ UNCHANGED <<hub, core, refs, writes, reads, errors, locals>>

\* skel_draw_down: the anchor is empty or 1000 ms have passed ...
FlushDraw(t) ==
    /\ pc[t] = "f_draw"
    /\ KillWrites
    /\ Goto(t, "f_kill")
    /\ UNCHANGED <<hub, core, refs, io_mutex, reads, locals>>

\* ... and then the read is killed.
FlushKill(t) ==
    /\ pc[t] = "f_kill"
    /\ KillRead
    /\ Goto(t, "f_err")
    /\ UNCHANGED <<hub, core, refs, io_mutex, writes, locals>>

\* Read and clear the error under err_lock, then drop io_mutex.
FlushErr(t) ==
    /\ pc[t] = "f_err"
    /\ ErrLockFree
    /\ errors' = "ok"
    /\ Unlock
    /\ Return(t)
    /\ UNCHANGED <<hub, core, refs, writes, reads>>

-----------------------------------------------------------------------------
(* skel_read *)

ReadCall(t) ==
    /\ pc[t] = "open"
    /\ \E n \in 1 .. MaxCount : count' = [count EXCEPT ![t] = n]
    /\ Goto(t, "r_lock")
    /\ UNCHANGED <<hub, core, refs, io_mutex, writes, reads, errors, rv>>

ReadLock(t) ==
    /\ pc[t] = "r_lock"
    /\ interface
    /\ Lock
    /\ Goto(t, "r_retry")
    /\ UNCHANGED <<hub, core, refs, writes, reads, errors, locals>>

\* disconnect() was called: -ENODEV.
ReadGone(t) ==
    /\ pc[t] = "r_lock"
    /\ ~ io_mutex /\ ~ interface
    /\ Return(t)
    /\ UNCHANGED <<hub, core, refs, io_mutex, writes, reads, errors>>

ReadRetry(t) ==
    /\ pc[t] = "r_retry"
    /\ ErrLockFree
    /\ Goto(t, IF ongoing_read THEN "r_wait" ELSE "r_err")
    /\ UNCHANGED <<hub, core, refs, io_mutex, writes, reads, errors, locals>>

\* Mutant: the result of wait_event_interruptible is not looked at.
ReadWaitUnchecked(t) ==
    /\ pc[t] = "r_wait"
    /\ Goto(t, "r_err")
    /\ UNCHANGED <<hub, core, refs, io_mutex, writes, reads, errors, locals>>

\* O_NONBLOCK: -EAGAIN; or a signal ends the wait.
ReadGiveUp(t) ==
    /\ pc[t] = "r_wait"
    /\ Unlock
    /\ Return(t)
    /\ UNCHANGED <<hub, core, refs, writes, reads, errors>>

\* wait_event_interruptible(bulk_in_wait, !ongoing_read)
ReadWoken(t) ==
    /\ pc[t] = "r_wait"
    /\ ~ ongoing_read
    /\ Goto(t, "r_err")
    /\ UNCHANGED <<hub, core, refs, io_mutex, writes, reads, errors, locals>>

\* rv = dev->errors, without err_lock.
ReadErr(t) ==
    /\ pc[t] = "r_err"
    /\ rv' = [rv EXCEPT ![t] = errors]
    /\ Goto(t, IF errors = "ok" THEN "r_data" ELSE "r_clear")
    /\ UNCHANGED <<hub, core, refs, io_mutex, writes, reads, errors, count>>

ReadClear(t) ==
    /\ pc[t] = "r_clear"
    /\ errors' = "ok"
    /\ Unlock
    /\ Return(t)
    /\ UNCHANGED <<hub, core, refs, writes, reads>>

available == filled - copied

\* skel_do_read_io(dev, n), whose usb_submit_urb succeeds iff ok.
skel_do_read_io(n, ok) ==
    /\ ok => CanSubmit
    /\ filled' = 0 /\ copied' = 0
    /\ ongoing_read' = ok
    /\ rurb' = IF ok THEN min(BulkInSize, n) ELSE 0

\* Nothing left in the buffer: IO needs to be done, and awaited.
ReadStart(t) ==
    /\ pc[t] = "r_data"
    /\ filled = 0 \/ available = 0
    /\ skel_do_read_io(count[t], TRUE)
    /\ Goto(t, "r_retry")
    /\ UNCHANGED <<hub, core, refs, io_mutex, writes, errors, locals>>

\* Mutant: a failed submission is retried, with io_mutex held.
ReadStartRetries(t) ==
    /\ pc[t] = "r_data"
    /\ filled = 0 \/ available = 0
    /\ skel_do_read_io(count[t], FALSE)
    /\ Goto(t, "r_retry")
    /\ UNCHANGED <<hub, core, refs, io_mutex, writes, errors, locals>>

ReadStartFails(t) ==
    /\ pc[t] = "r_data"
    /\ filled = 0 \/ available = 0
    /\ skel_do_read_io(count[t], FALSE)
    /\ Unlock
    /\ Return(t)
    /\ UNCHANGED <<hub, core, refs, writes, errors>>

\* The buffer satisfies the read, or all but the rest that is started now.
ReadData(t) ==
    /\ pc[t] = "r_data"
    /\ filled # 0 /\ available # 0
    /\ \/ /\ available < count[t]
          /\ \E ok \in BOOLEAN : skel_do_read_io(count[t] - available, ok)
       \/ /\ available >= count[t]
          /\ copied' = copied + count[t]
          /\ UNCHANGED <<rurb, ongoing_read, filled>>
    /\ Unlock
    /\ Return(t)
    /\ UNCHANGED <<hub, core, refs, writes, errors>>

-----------------------------------------------------------------------------
(* skel_write *)

WriteCall(t) ==
    /\ pc[t] = "open"
    /\ Goto(t, "w_down")
    /\ UNCHANGED <<hub, core, refs, io_mutex, writes, reads, errors, locals>>

WriteDown(t) ==
    /\ pc[t] = "w_down"
    /\ limit_sem > 0
    /\ limit_sem' = limit_sem - 1
    /\ Goto(t, "w_err")
    /\ UNCHANGED <<hub, core, refs, io_mutex, flying, reads, errors, locals>>

\* O_NONBLOCK: -EAGAIN; or a signal ends the wait for limit_sem or io_mutex.
GiveUp(t) ==
    /\ \/ pc[t] = "w_down" /\ limit_sem = 0
       \/ pc[t] = "r_lock" /\ io_mutex
    /\ Return(t)
    /\ UNCHANGED <<hub, core, refs, io_mutex, writes, reads, errors>>

\* Under err_lock: retval = dev->errors ...
WriteErr(t) ==
    /\ pc[t] = "w_err"
    /\ ErrLockFree
    /\ rv' = [rv EXCEPT ![t] = errors]
    /\ Goto(t, IF errors = "ok" THEN "w_lock" ELSE "w_clear")
    /\ UNCHANGED <<hub, core, refs, io_mutex, writes, reads, errors, count>>

\* ... and, still under it, dev->errors = 0.
WriteClear(t) ==
    /\ pc[t] = "w_clear"
    /\ errors' = "ok"
    /\ Goto(t, "w_up")
    /\ UNCHANGED <<hub, core, refs, io_mutex, writes, reads, locals>>

\* Mutant: a failed allocation takes the label exit instead of error.
WriteAllocKeepsSlot(t) ==
    /\ pc[t] = "w_lock"
    /\ Return(t)
    /\ UNCHANGED <<hub, core, refs, io_mutex, writes, reads, errors>>

\* No memory for the URB or its buffer, or the user's buffer is bad.
WriteAllocFails(t) ==
    /\ pc[t] = "w_lock"
    /\ Goto(t, "w_up")
    /\ UNCHANGED <<hub, core, refs, io_mutex, writes, reads, errors, locals>>

\* Under io_mutex: disconnect() was called.
WriteGone(t) ==
    /\ pc[t] = "w_lock"
    /\ ~ io_mutex /\ ~ interface
    /\ Goto(t, "w_up")
    /\ UNCHANGED <<hub, core, refs, io_mutex, writes, reads, errors, locals>>

\* Under io_mutex: usb_submit_urb succeeds ...
WriteSubmit(t) ==
    /\ pc[t] = "w_lock"
    /\ ~ io_mutex /\ interface
    /\ CanSubmit
    /\ flying' = flying + 1
    /\ Return(t)
    /\ UNCHANGED <<hub, core, refs, io_mutex, limit_sem, reads, errors>>

\* ... or it fails.
WriteRefused(t) ==
    /\ pc[t] = "w_lock"
    /\ ~ io_mutex /\ interface
    /\ Goto(t, "w_oops")
    /\ UNCHANGED <<hub, core, refs, io_mutex, writes, reads, errors, locals>>

\* dev_err(&dev->interface->dev), after mutex_unlock; then error_unanchor.
WriteReport(t) ==
    /\ pc[t] = "w_oops"
    /\ Goto(t, "w_up")
    /\ UNCHANGED <<hub, core, refs, io_mutex, writes, reads, errors, locals>>

WriteUp(t) ==
    /\ pc[t] = "w_up"
    /\ limit_sem' = limit_sem + 1
    /\ Return(t)
    /\ UNCHANGED <<hub, core, refs, io_mutex, flying, reads, errors>>

-----------------------------------------------------------------------------
(* skel_probe, skel_disconnect, skel_pre_reset, skel_post_reset,           *)
(* skel_suspend: what the core calls, one at a time                        *)

\* kzalloc and the initialisations.
ProbeAlloc ==
    /\ hub = "unbound"
    /\ hub' = "probe"
    /\ epOn' = TRUE
    /\ kref' = 1 /\ interface' = TRUE
    /\ limit_sem' = WritesInFlight
    /\ ongoing_read' = FALSE /\ filled' = 0 /\ copied' = 0
    /\ errors' = "ok"
    /\ UNCHANGED <<minor, intfdata, pm, io_mutex, flying, rurb, pc, locals>>

\* No memory, no endpoints or no minor: kref_put frees what there is.
ProbeFail ==
    /\ hub = "probe"
    /\ hub' = "unbound"
    /\ kref' = kref - 1
    /\ UNCHANGED <<core, interface, pm, io_mutex, writes, reads, errors, pc, locals>>

ProbeRegister ==
    /\ hub = "probe"
    /\ hub' = "bound"
    /\ intfdata' = TRUE /\ minor' = TRUE
    /\ UNCHANGED <<epOn, refs, io_mutex, writes, reads, errors, pc, locals>>

\* The core, before it calls skel_disconnect.
Unplug ==
    /\ hub = "bound"
    /\ hub' = "disc_data"
    /\ FlushEndpoints
    /\ epOn' = FALSE
    /\ UNCHANGED <<minor, intfdata, refs, io_mutex, pc, locals>>

DisconnectData ==
    /\ hub = "disc_data"
    /\ hub' = "disc_minor"
    /\ intfdata' = FALSE
    /\ UNCHANGED <<epOn, minor, refs, io_mutex, writes, reads, errors, pc, locals>>

\* usb_deregister_dev waits for the opens under way.
DisconnectMinor ==
    /\ hub = "disc_minor"
    /\ \A t \in Tasks : pc[t] # "open_get"
    /\ hub' = "disc_lock"
    /\ minor' = FALSE
    /\ UNCHANGED <<epOn, intfdata, refs, io_mutex, writes, reads, errors, pc, locals>>

\* Under io_mutex: prevent more I/O from starting.
DisconnectLock ==
    /\ hub = "disc_lock"
    /\ ~ io_mutex
    /\ hub' = "disc_kill"
    /\ interface' = FALSE
    /\ UNCHANGED <<core, kref, pm, io_mutex, writes, reads, errors, pc, locals>>

DisconnectKill ==
    /\ hub = "disc_kill"
    /\ hub' = "disc_put"
    /\ KillWrites
    /\ UNCHANGED <<core, refs, io_mutex, reads, pc, locals>>

\* kref_put; the core then drops the autopm references that are left.
DisconnectPut ==
    /\ hub = "disc_put"
    /\ hub' = "gone"
    /\ kref' = kref - 1
    /\ pm' = 0
    /\ UNCHANGED <<core, interface, io_mutex, writes, reads, errors, pc, locals>>

\* The next device; this one's structure has been freed.
Replug ==
    /\ hub = "gone"
    /\ kref = 0
    /\ hub' = "unbound"
    /\ UNCHANGED <<core, refs, io_mutex, writes, reads, errors, pc, locals>>

Reset ==
    /\ hub = "bound"
    /\ hub' = "rst_lock"
    /\ UNCHANGED <<core, refs, io_mutex, writes, reads, errors, pc, locals>>

\* skel_pre_reset keeps io_mutex until skel_post_reset.
PreResetLock ==
    /\ hub = "rst_lock"
    /\ Lock
    /\ hub' = "rst_draw"
    /\ UNCHANGED <<core, refs, writes, reads, errors, pc, locals>>

PreResetDraw ==
    /\ hub = "rst_draw"
    /\ KillWrites
    /\ hub' = "rst_kill"
    /\ UNCHANGED <<core, refs, io_mutex, reads, pc, locals>>

\* Mutant: skel_pre_reset does not keep io_mutex.
PreResetUnlocks ==
    /\ hub = "rst_kill"
    /\ KillRead
    /\ Unlock
    /\ hub' = "rst_post"
    /\ UNCHANGED <<core, refs, writes, pc, locals>>

PreResetKill ==
    /\ hub = "rst_kill"
    /\ KillRead
    /\ hub' = "rst_post"
    /\ UNCHANGED <<core, refs, io_mutex, writes, pc, locals>>

\* dev->errors = -EPIPE without err_lock.
skel_post_reset ==
    /\ hub = "rst_post"
    /\ hub' = "bound"
    /\ errors' = "pipe"
    /\ Unlock
    /\ UNCHANGED <<core, refs, writes, reads, pc, locals>>

\* The core suspends an idle device, or any once all tasks are frozen.
Suspend ==
    /\ hub = "bound"
    /\ \A t \in Tasks : pc[t] \in {"closed", "open"}
    /\ hub' = "susp_draw"
    /\ UNCHANGED <<core, refs, io_mutex, writes, reads, errors, pc, locals>>

SuspendDraw ==
    /\ hub = "susp_draw"
    /\ KillWrites
    /\ hub' = "susp_kill"
    /\ UNCHANGED <<core, refs, io_mutex, reads, pc, locals>>

SuspendKill ==
    /\ hub = "susp_kill"
    /\ KillRead
    /\ hub' = "suspended"
    /\ UNCHANGED <<core, refs, io_mutex, writes, pc, locals>>

skel_resume ==
    /\ hub = "suspended"
    /\ hub' = "bound"
    /\ UNCHANGED <<core, refs, io_mutex, writes, reads, errors, pc, locals>>

-----------------------------------------------------------------------------

\* What a thread asks for, or what a signal or O_NONBLOCK make it do.
Ask(t) ==
    \/ OpenFind(t) \/ ReadCall(t) \/ WriteCall(t) \/ FlushCall(t)
    \/ ReleaseCall(t) \/ GiveUp(t) \/ ReadGiveUp(t)

\* Steps that wait for io_mutex, for limit_sem or for err_lock.
Acquire(t) ==
    \/ ReadLock(t) \/ ReadGone(t) \/ ReadRetry(t)
    \/ WriteDown(t) \/ WriteErr(t) \/ WriteGone(t) \/ WriteSubmit(t)
    \/ WriteRefused(t) \/ WriteAllocFails(t)
    \/ FlushLock(t) \/ FlushDraw(t) \/ FlushKill(t) \/ FlushErr(t)
    \/ ReleasePm(t)

\* The other steps of a call.
Proceed(t) ==
    \/ OpenFail(t) \/ OpenGet(t) \/ ReleasePut(t)
    \/ ReadWoken(t) \/ ReadErr(t) \/ ReadClear(t) \/ ReadStart(t)
    \/ ReadStartFails(t) \/ ReadData(t)
    \/ WriteClear(t) \/ WriteReport(t) \/ WriteUp(t)

TaskStep(t) == hub \notin HubFrozen /\ (Ask(t) \/ Acquire(t) \/ Proceed(t))

\* What the core decides to do, and the steps of what it has begun.
HubStart == ProbeAlloc \/ Unplug \/ Replug \/ Reset \/ Suspend

HubStep ==
    \/ ProbeFail \/ ProbeRegister
    \/ DisconnectData \/ DisconnectMinor \/ DisconnectLock \/ DisconnectKill
    \/ DisconnectPut
    \/ PreResetLock \/ PreResetDraw \/ PreResetKill \/ skel_post_reset
    \/ SuspendDraw \/ SuspendKill \/ skel_resume

UrbDone == \E st \in {"ok"} \cup Faults : ReadDone(st) \/ WriteDone(st)

Next == HubStart \/ HubStep \/ UrbDone \/ \E t \in Tasks : TaskStep(t)

Spec == Init /\ [][Next]_vars

(***************************************************************************)
(* Threads and the core's worker are scheduled.  The waiters of io_mutex   *)
(* and limit_sem queue in order, so nobody is overtaken for ever.  The     *)
(* device owes no answer: no URB need ever complete by itself.             *)
(***************************************************************************)
Fairness ==
    /\ SF_vars(HubStep)
    /\ \A t \in Tasks : /\ WF_vars(hub \notin HubFrozen /\ Proceed(t))
                        /\ SF_vars(hub \notin HubFrozen /\ Acquire(t))

FairSpec == Spec /\ Fairness

-----------------------------------------------------------------------------
(* Properties *)

Holding(S) == {t \in Tasks : pc[t] \in S}

\* Threads whose file is open.
Files == {t \in Tasks : pc[t] \notin {"closed", "open_get"}}

(***************************************************************************)
(* "limiting the number of writes in progress" (usb-skeleton.c:54): every  *)
(* path of skel_write, its error paths and the kills by flush, reset,      *)
(* suspend and disconnect included, gives its slot of limit_sem back       *)
(* exactly once, from the call or from the callback.  Likewise the         *)
(* autosuspend count of an interface that is still there is the number of  *)
(* open files.                                                             *)
(***************************************************************************)
LimitConserved ==
    /\ hub # "unbound" /\ kref > 0 =>
          limit_sem + flying + Cardinality(Holding(LimitPCs)) = WritesInFlight
    /\ interface /\ kref > 0 => pm = Cardinality(Files \ Holding({"rel_put"}))

(***************************************************************************)
(* dev->kref counts the files and the binding, so nobody reaches a struct  *)
(* usb_skel that skel_delete has freed: no thread inside a call, no opener *)
(* that has found dev and not yet counted itself, no URB in flight, and    *)
(* not the core, whatever the order of close and unplug.                   *)
(***************************************************************************)
NoUseAfterFree ==
    /\ Holding(PCs \ {"closed"}) # {} => kref > 0
    /\ flying > 0 \/ rurb > 0 => kref > 0
    /\ hub \notin {"unbound", "gone"} => kref > 0

(***************************************************************************)
(* The last reference goes: once the device is gone and every file closed, *)
(* the structure is freed.                                                 *)
(***************************************************************************)
NoLeak ==
    hub \in {"gone", "unbound"} /\ Holding(PCs \ {"closed"}) = {} => kref = 0

(***************************************************************************)
(* "this lock makes sure we don't submit URBs to gone devices"             *)
(* (usb-skeleton.c:425): once skel_disconnect has cleared dev->interface   *)
(* no URB is in flight, although disconnect kills only the write URBs.     *)
(* "we are sure no URBs are active" (usb-skeleton.c:651): nor is one       *)
(* between skel_pre_reset and skel_post_reset.                             *)
(***************************************************************************)
NoUrbOnGoneDevice == ~ interface \/ hub = "rst_post" => flying = 0 /\ rurb = 0

(***************************************************************************)
(* "if IO is under way, we must not touch things" (usb-skeleton.c:251): a  *)
(* thread that looks at the buffer, or refills it, does so with io_mutex,  *)
(* alone, while bulk_in_urb is not in flight; and there is never more      *)
(* copied than was filled, so "available" does not wrap around.            *)
(***************************************************************************)
BufferOwned ==
    /\ Cardinality(Holding(MutexPCs)) <= 1
    /\ Holding({"r_err", "r_clear", "r_data"}) # {} =>
          rurb = 0 /\ ~ ongoing_read /\ copied <= filled
    /\ rurb > 0 <=> ongoing_read

(***************************************************************************)
(* "synchronize I/O with disconnect" (usb-skeleton.c:67): a thread that    *)
(* is about to evaluate &dev->interface->dev still has an interface.       *)
(***************************************************************************)
InterfaceAlive == Holding({"w_oops"}) # {} => interface

(***************************************************************************)
(* "to preserve notifications about reset" and "no locking needed"         *)
(* (usb-skeleton.c:396, 651): the -EPIPE of a reset is not cleared by a    *)
(* call that has loaded, and reports, another value.                       *)
(***************************************************************************)
ResetNotified ==
    [][\A t \in Tasks :
          pc[t] = "w_clear" /\ pc'[t] = "w_up" /\ errors = "pipe"
            => rv[t] = "pipe"]_vars

(***************************************************************************)
(* skel_disconnect gets through although a reader may sleep with io_mutex  *)
(* in its hands, waiting for a device that never answers.                  *)
(***************************************************************************)
DisconnectCompletes == hub = "disc_data" ~> hub = "gone"

(***************************************************************************)
(* Unplugging the device lets every call return: readers that wait for     *)
(* data and writers that wait for a slot are not left behind.              *)
(***************************************************************************)
CallsReturn ==
    \A t \in Tasks :
        (hub = "disc_data" /\ pc[t] # "closed")
            ~> pc[t] \in {"open", "closed"}
=============================================================================
