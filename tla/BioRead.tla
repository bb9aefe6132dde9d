------------------------------ MODULE BioRead ------------------------------
(***************************************************************************)
(* Reading the first page of the block device, fs/block_page_read/read.c:  *)
(* example_read submits a bio and sleeps on a bit wait queue until         *)
(* example_end_io, which runs when the device has finished, copies the     *)
(* page to the global buffer and wakes it.                                 *)
(*                                                                         *)
(* private_page, private_bio and buffer are global and unprotected, so the *)
(* steps are the accesses to them.  The n-th call of example_read          *)
(* allocates page n and, if it submits one, bio n; no page is ever freed.  *)
(* A page holds the block once a bio has filled it and something else      *)
(* before.                                                                 *)
(***************************************************************************)
EXTENDS Integers

CONSTANTS Tasks,     \* threads that read the file
          MaxReads,  \* number of calls of example_read (bound)
          MaxLen,    \* largest len a caller asks for (bound)
          IoErrors   \* may a bio end without BIO_UPTODATE?

ASSUME ConstantsAssumption ==
    /\ MaxReads \in Nat /\ MaxLen \in Nat
    /\ IoErrors \in BOOLEAN

VARIABLES private_page,  \* page number, 0 for NULL
          private_bio,   \* bio number, 0 for NULL
          buffer,        \* "zero", "block", or "stale" page content
          filled,        \* pages that a bio has filled with the block
          bio,           \* where each bio is
          bio_page,      \* the page added to each bio
          waitq,         \* tasks queued for update_state and not woken yet
          calls,         \* calls of example_read so far
          pc,            \* control point of each task
          call,          \* the number of its call
          pos            \* its file offset, *pp

endio  == <<buffer, filled, bio>>
vars   == <<private_page, private_bio, endio, bio_page, waitq, calls, pc, call,
            pos>>

Reads == 1 .. MaxReads

\* Only the first FileLen bytes of the page are readable.
FileLen == 3

min(a, b) == IF a < b THEN a ELSE b

-----------------------------------------------------------------------------

Init ==
    /\ private_page = 0 /\ private_bio = 0
    /\ buffer = "zero" /\ filled = {}
    /\ bio = [k \in Reads |-> "none"]
    /\ bio_page = [k \in Reads |-> 0]
    /\ waitq = {} /\ calls = 0
    /\ pc = [t \in Tasks |-> "idle"]
    /\ call = [t \in Tasks |-> 0]
    /\ pos = [t \in Tasks |-> 0]

Goto(t, l) == pc' = [pc EXCEPT ![t] = l]

BioTo(k, from, to) == bio[k] = from /\ bio' = [bio EXCEPT ![k] = to]

-----------------------------------------------------------------------------
(* example_read *)

\* private_page = alloc_page()
ReadCall(t) ==
    /\ pc[t] = "idle" /\ calls < MaxReads
    /\ calls' = calls + 1
    /\ call' = [call EXCEPT ![t] = calls + 1]
    /\ private_page' = calls + 1
    /\ Goto(t, "test")
    /\ UNCHANGED <<private_bio, endio, bio_page, waitq, pos>>

\* There is a bio already: no wait.
ReadBusy(t) ==
    /\ pc[t] = "test" /\ private_bio # 0
    /\ Goto(t, "copy")
    /\ UNCHANGED <<private_page, private_bio, endio, bio_page, waitq, calls, call,
                   pos>>

ReadTest(t) ==
    /\ pc[t] = "test" /\ private_bio = 0
    /\ Goto(t, "alloc")
    /\ UNCHANGED <<private_page, private_bio, endio, bio_page, waitq, calls, call,
                   pos>>

\* private_bio = bio_alloc(), which may sleep.
ReadAlloc(t) ==
    /\ pc[t] = "alloc"
    /\ private_bio' = call[t]
    /\ Goto(t, "submit")
    /\ UNCHANGED <<private_page, endio, bio_page, waitq, calls, call, pos>>

\* The page is whatever private_page is by now.
ReadSubmit(t) ==
    /\ pc[t] = "submit"
    /\ bio_page' = [bio_page EXCEPT ![call[t]] = private_page]
    /\ BioTo(call[t], "none", "inflight")
    /\ Goto(t, "prepare")
    /\ UNCHANGED <<private_page, private_bio, buffer, filled, waitq, calls, call,
                   pos>>

\* prepare_to_wait(): no condition is tested before schedule().
ReadPrepare(t) ==
    /\ pc[t] = "prepare"
    /\ waitq' = waitq \cup {t}
    /\ Goto(t, "sleep")
    /\ UNCHANGED <<private_page, private_bio, endio, bio_page, calls, call, pos>>

\* schedule() returns once the task has been woken; finish_wait().
ReadWoken(t) ==
    /\ pc[t] = "sleep" /\ t \notin waitq
    /\ Goto(t, "woken")
    /\ UNCHANGED <<private_page, private_bio, endio, bio_page, waitq, calls, call,
                   pos>>

\* copy_to_user() from the start of buffer; the offset moves on.
ReadCopy(t) ==
    /\ pc[t] \in {"copy", "woken"}
    /\ \E len \in 0 .. MaxLen :
          pos' = [pos EXCEPT ![t] = IF @ > FileLen THEN @
                                    ELSE @ + min(len, FileLen - @)]
    /\ Goto(t, "idle")
    /\ call' = [call EXCEPT ![t] = 0]
    /\ UNCHANGED <<private_page, private_bio, endio, bio_page, waitq, calls>>

-----------------------------------------------------------------------------
(* The device, and example_end_io *)

DeviceDone(k) ==
    /\ BioTo(k, "inflight", "show")
    /\ filled' = filled \cup {bio_page[k]}
    /\ UNCHANGED <<private_page, private_bio, buffer, bio_page, waitq, calls, pc,
                   call, pos>>

\* example_end_io returns at once, with no wake-up, if the bio failed.
DeviceError(k) ==
    /\ IoErrors
    /\ BioTo(k, "inflight", "failed")
    /\ UNCHANGED <<private_page, private_bio, buffer, filled, bio_page, waitq,
                   calls, pc, call, pos>>

\* Mutant: the sleepers are woken before the page is copied.
WakeThenShow(k) ==
    /\ BioTo(k, "show", "put")
    /\ waitq' = {}
    /\ UNCHANGED <<private_page, private_bio, buffer, filled, bio_page, calls, pc,
                   call, pos>>

\* show_content() maps private_page, not the page of the bio.
show_content(k) ==
    /\ BioTo(k, "show", "put")
    /\ buffer' = IF private_page \in filled THEN "block" ELSE "stale"
    /\ UNCHANGED <<private_page, private_bio, filled, bio_page, waitq, calls, pc,
                   call, pos>>

EndPut(k) ==
    /\ BioTo(k, "put", "freed")
    /\ UNCHANGED <<private_page, private_bio, buffer, filled, bio_page, waitq,
                   calls, pc, call, pos>>

\* Mutant: private_bio keeps pointing at the bio that was freed.
EndKeepsBio(k) ==
    /\ BioTo(k, "freed", "wake")
    /\ UNCHANGED <<private_page, private_bio, buffer, filled, bio_page, waitq,
                   calls, pc, call, pos>>

EndClear(k) ==
    /\ BioTo(k, "freed", "wake")
    /\ private_bio' = 0
    /\ UNCHANGED <<private_page, buffer, filled, bio_page, waitq, calls, pc, call,
                   pos>>

\* Mutant: nobody is woken.
EndNoWake(k) ==
    /\ BioTo(k, "wake", "end")
    /\ UNCHANGED <<private_page, private_bio, buffer, filled, bio_page, waitq,
                   calls, pc, call, pos>>

\* wake_up_bit(): every task in the queue.
EndWake(k) ==
    /\ BioTo(k, "wake", "end")
    /\ waitq' = {}
    /\ UNCHANGED <<private_page, private_bio, buffer, filled, bio_page, calls, pc,
                   call, pos>>

-----------------------------------------------------------------------------

example_read(t) ==
    \/ ReadBusy(t) \/ ReadTest(t) \/ ReadAlloc(t) \/ ReadSubmit(t)
    \/ ReadPrepare(t) \/ ReadWoken(t) \/ ReadCopy(t)

example_end_io(k) ==
    show_content(k) \/ EndPut(k) \/ EndClear(k) \/ EndWake(k)

Next ==
    \/ \E t \in Tasks : ReadCall(t) \/ example_read(t)
    \/ \E k \in Reads : DeviceDone(k) \/ DeviceError(k) \/ example_end_io(k)

Spec == Init /\ [][Next]_vars

(***************************************************************************)
(* A task that can run runs, the device ends every bio it was given, and   *)
(* its interrupt handler goes on to its end.  Nobody is obliged to read.   *)
(***************************************************************************)
Fairness ==
    /\ \A t \in Tasks : WF_vars(example_read(t))
    /\ \A k \in Reads : /\ WF_vars(DeviceDone(k) \/ DeviceError(k))
                        /\ WF_vars(example_end_io(k))

FairSpec == Spec /\ Fairness

-----------------------------------------------------------------------------

(***************************************************************************)
(* "now we have been wake-up, and then we can do the copy" (read.c:101): a *)
(* reader that end_io has woken finds the block in the buffer, as long as  *)
(* calls of example_read do not overlap.  They must not: show_content maps *)
(* the page of whoever called last, filled or not.                         *)
(***************************************************************************)
LoneReaderSeesBlock ==
    [](\A t, u \in Tasks : t # u => pc[t] = "idle" \/ pc[u] = "idle")
        => [](\A t \in Tasks : pc[t] = "woken" => buffer = "block")

(***************************************************************************)
(* private_bio never points at a bio whose end_io has cleared it, however  *)
(* many readers have submitted one: a later reader takes no freed bio for  *)
(* one that is under way.                                                  *)
(***************************************************************************)
NoDanglingBio == private_bio # 0 => bio[private_bio] \notin {"wake", "end"}

(***************************************************************************)
(* A reader that is asleep when its bio succeeds is woken by it, whatever  *)
(* the other readers do meanwhile to the globals that they share.          *)
(***************************************************************************)
QueuedReaderWoken ==
    \A t \in Tasks :
        (pc[t] = "sleep" /\ bio[call[t]] \in {"show", "put", "freed", "wake"})
            ~> pc[t] # "sleep"

(***************************************************************************)
(* "sleep here, till the end bio wake up us" (read.c:99): every reader     *)
(* that goes to sleep is woken.                                            *)
(***************************************************************************)
SleeperWoken == \A t \in Tasks : pc[t] = "sleep" ~> pc[t] # "sleep"
=============================================================================
