----------------------------- MODULE CharBuffer -----------------------------
(***************************************************************************)
(* read, write and llseek of the character drivers.                        *)
(*                                                                         *)
(* mychar, my_wait, my_wait2 and multi_mem keep what is written in a       *)
(* buffer: writes append at wp, reads take what is between their position  *)
(* and wp, and my_wait makes a reader wait for more.  None of them locks,  *)
(* so each access to wp is a step of its own.  my_pci2, any, my_ioport and *)
(* my_ioport2 show the registers of a device, at the position of the file. *)
(*                                                                         *)
(* Each thread has a file of its own.  A length is a size_t: the           *)
(* difference of two pointers, when negative, is larger than any count.    *)
(***************************************************************************)
EXTENDS Integers, Sequences

CONSTANTS CDrivers,  \* the drivers to look at
          CThreads,  \* threads that use one
          BufSize,   \* end - start
          RegsLen,   \* length of the registers
          Bytes,     \* what is written
          MaxCount,  \* length of a write or read of the buffer (bound)
          MaxTaken   \* bytes accepted after which no write begins (bound)

Waiting   == {"my_wait", "my_wait2"}
Buffered  == {"mychar", "multi_mem"} \cup Waiting
Ports     == {"my_ioport", "my_ioport2"}
Registers == {"my_pci2", "any"} \cup Ports

ASSUME CharAssumption ==
    /\ CDrivers \subseteq Buffered \cup Registers
    /\ {BufSize, RegsLen, MaxCount, MaxTaken} \subseteq Nat \ {0}

VARIABLES cdrv,     \* the driver
          wp,       \* wp - start
          cbuf,     \* the buffer
          accepted, \* bytes for which a write has returned success
          cpc,      \* control point of each thread
          cpos,     \* position of its file, or of its pread
          clen,     \* count of its call, cut
          cval,     \* what it writes
          creg,     \* the wp it is about to store
          overlap,  \* two writes have been under way at once
          beyond,   \* a position has been put behind wp, or inside a word
          cfault    \* what has gone wrong

cmem  == <<wp, cbuf, accepted>>
cvars == <<cdrv, cmem, cpc, cpos, clen, cval, creg, overlap, beyond, cfault>>

CInit ==
    /\ cdrv \in CDrivers
    /\ wp = 0 /\ cbuf = [i \in 0 .. BufSize - 1 |-> "0"] /\ accepted = << >>
    /\ cpc = [t \in CThreads |-> "idle"] /\ cpos = [t \in CThreads |-> 0]
    /\ clen = [t \in CThreads |-> 0] /\ cval = [t \in CThreads |-> "0"]
    /\ creg = [t \in CThreads |-> 0]
    /\ overlap = FALSE /\ beyond = FALSE /\ cfault = {}

\* Nothing is known about a machine whose memory was overwritten.
CAt(t, ds, l) == cfault = {} /\ cdrv \in ds /\ cpc[t] = l
CGoto(t, l)   == cpc' = [cpc EXCEPT ![t] = l]
CSet(f, t, v) == [f EXCEPT ![t] = v]

\* min(count, (size_t) rest)
min_size(count, rest) == IF rest < 0 \/ count < rest THEN count ELSE rest

-----------------------------------------------------------------------------
(* Reading the buffer.                                                     *)

\* The length is cut at wp, and nothing is a read of 0 bytes.
read_cut(t, n) ==
    LET count == min_size(n, wp - cpos[t])
    IN  /\ clen' = CSet(clen, t, count)
        /\ CGoto(t, IF count = 0 THEN "idle" ELSE "r_copy")
        /\ UNCHANGED <<cdrv, cmem, cpos, cval, creg, overlap, beyond, cfault>>

mychar_read(t, n) == CAt(t, {"mychar"}, "idle") /\ read_cut(t, n)

\* A position behind wp is the end of the file.
multi_mem_read(t, n) ==
    CAt(t, {"multi_mem"}, "idle") /\ cpos[t] < wp /\ read_cut(t, n)

\* At the end of the buffer there is nothing to wait for.
wait_read(t, d, n) ==
    /\ CAt(t, {d}, "idle") /\ cpos[t] # BufSize
    /\ clen' = CSet(clen, t, n)
    /\ CGoto(t, IF wp = cpos[t] THEN "r_queue" ELSE "r_cut")
    /\ UNCHANGED <<cdrv, cmem, cpos, cval, creg, overlap, beyond, cfault>>

my_wait_read(t, n)  == wait_read(t, "my_wait", n)
my_wait2_read(t, n) == wait_read(t, "my_wait2", n)

\* Sleeps without another look at wp.
wait_blindly(t) ==
    /\ CAt(t, Waiting, "r_queue") /\ CGoto(t, "r_sleep")
    /\ UNCHANGED <<cdrv, cmem, cpos, clen, cval, creg, overlap, beyond, cfault>>

\* wait_event_interruptible: in the queue, then the condition, then asleep.
wait_event(t) ==
    /\ CAt(t, Waiting, "r_queue")
    /\ CGoto(t, IF wp # cpos[t] THEN "r_cut" ELSE "r_sleep")
    /\ UNCHANGED <<cdrv, cmem, cpos, clen, cval, creg, overlap, beyond, cfault>>

\* -ERESTARTSYS
wait_signal(t) ==
    /\ CAt(t, Waiting, "r_sleep") /\ CGoto(t, "idle") /\ clen' = CSet(clen, t, 0)
    /\ UNCHANGED <<cdrv, cmem, cpos, cval, creg, overlap, beyond, cfault>>

wait_cut(t) == CAt(t, Waiting, "r_cut") /\ read_cut(t, clen[t])

\* copy_to_user.  After a fault of the user's page the position stays.
read_copy(t) ==
    /\ CAt(t, Buffered, "r_copy") /\ CGoto(t, "idle") /\ clen' = CSet(clen, t, 0)
    /\ LET end == cpos[t] + clen[t]
       IN  \/ UNCHANGED <<cpos, cfault>>
           \/ /\ cpos' = CSet(cpos, t, end)
              /\ cfault' =
                   CASE end > BufSize -> {"outside"}
                     [] end > Len(accepted) -> {"unwritten"}
                     [] \E i \in cpos[t] .. end - 1 : cbuf[i] # accepted[i + 1]
                          -> {"wrong"}
                     [] OTHER -> {}
    /\ UNCHANGED <<cdrv, cmem, cval, creg, overlap, beyond>>

-----------------------------------------------------------------------------
(* Writing to it.                                                          *)

Writers == {t \in CThreads : cpc[t] \in {"w_copy", "w_load", "w_store"}}

\* Room left.
room == BufSize - wp

write_cut(t, d, n, b) ==
    /\ CAt(t, {d}, "idle") /\ Len(accepted) < MaxTaken
    /\ min_size(n, room) > 0
    /\ clen' = CSet(clen, t, min_size(n, room)) /\ cval' = CSet(cval, t, b)
    /\ CGoto(t, "w_copy")
    /\ overlap' = (overlap \/ Writers # {})
    /\ UNCHANGED <<cdrv, cmem, cpos, creg, beyond, cfault>>

mychar_write(t, n, b)    == write_cut(t, "mychar", n, b)
multi_mem_write(t, n, b) == write_cut(t, "multi_mem", n, b)
my_wait_write(t, n, b)   == write_cut(t, "my_wait", n, b)
my_wait2_write(t, n, b)  == write_cut(t, "my_wait2", n, b)

\* copy_from_user to wherever wp is now; it may stop in the middle.
write_copy(t) ==
    /\ CAt(t, Buffered, "w_copy")
    /\ \E done \in 0 .. clen[t] :
          /\ \/ done = clen[t] /\ CGoto(t, "w_load") /\ UNCHANGED <<clen, cval>>
             \/ /\ done < clen[t] /\ CGoto(t, "idle")
                /\ clen' = CSet(clen, t, 0) /\ cval' = CSet(cval, t, "0")
          /\ cbuf' = [i \in DOMAIN cbuf |->
                        IF i \in wp .. wp + done - 1 THEN cval[t] ELSE cbuf[i]]
          /\ cfault' = IF done > 0 /\ wp + done > BufSize THEN {"overrun"} ELSE {}
    /\ UNCHANGED <<cdrv, wp, accepted, cpos, creg, overlap, beyond>>

\* wp += count, a load and a store.
write_load(t) ==
    /\ CAt(t, Buffered, "w_load") /\ CGoto(t, "w_store")
    /\ accepted' = accepted \o [i \in 1 .. clen[t] |-> cval[t]]
    /\ creg' = CSet(creg, t, wp + clen[t])
    /\ UNCHANGED <<cdrv, wp, cbuf, cpos, clen, cval, overlap, beyond, cfault>>

write_store(t) ==
    /\ CAt(t, Buffered, "w_store") /\ wp' = creg[t]
    /\ clen' = CSet(clen, t, 0) /\ cval' = CSet(cval, t, "0")
    /\ creg' = CSet(creg, t, 0)
    /\ CGoto(t, IF cdrv \in Waiting THEN "w_wake" ELSE "idle")
    /\ UNCHANGED <<cdrv, cbuf, accepted, cpos, overlap, beyond, cfault>>

wake_up(t) ==
    /\ CAt(t, Waiting, "w_wake")
    /\ cpc' = [u \in CThreads |-> CASE u = t -> "idle"
                                    [] cpc[u] = "r_sleep" -> "r_queue"
                                    [] OTHER -> cpc[u]]
    /\ UNCHANGED <<cdrv, cmem, cpos, clen, cval, creg, overlap, beyond, cfault>>

-----------------------------------------------------------------------------
(* Registers, and positions.                                               *)

\* The transfer of count bytes at the position, in units of a word.
Transfer(t, count, word) ==
    /\ cpos' = CSet(cpos, t, cpos[t] + count)
    /\ cfault' = (IF cpos[t] + count > RegsLen THEN {"outside"} ELSE {})
                 \cup (IF count % word # 0 THEN {"word"} ELSE {})
    /\ UNCHANGED <<cdrv, cmem, cpc, clen, cval, creg, overlap, beyond>>

\* Reads and writes of my_pci2, and cr of any.
regs_transfer(t, d, n) ==
    /\ CAt(t, {d}, "idle") /\ cpos[t] < RegsLen
    /\ Transfer(t, min_size(n, RegsLen - cpos[t]), 1)

my_pci2_read(t, n)  == regs_transfer(t, "my_pci2", n)
my_pci2_write(t, n) == regs_transfer(t, "my_pci2", n)
cr(t, n)            == regs_transfer(t, "any", n)

\* Words of four bytes, as unsigned long is on a 32-bit machine; what was asked
\* for is a multiple, what is left of the ports may be none.
port_transfer(t, d, n) ==
    /\ CAt(t, {d}, "idle") /\ n % 4 = 0
    /\ Transfer(t, min_size(n, RegsLen - cpos[t]), 4)

my_ioport_read(t, n)  == port_transfer(t, "my_ioport", n)
my_ioport2_read(t, n) == port_transfer(t, "my_ioport2", n)

\* The new position, from the start, from here or from the end.
Seek_to(t, offset, origin, size) ==
    offset + (CASE origin = 0 -> 0 [] origin = 1 -> cpos[t] [] origin = 2 -> size)

multi_mem_llseek(t, offset, origin) ==
    /\ CAt(t, {"multi_mem"}, "idle")
    /\ Seek_to(t, offset, origin, BufSize) \in 0 .. BufSize
    /\ cpos' = CSet(cpos, t, Seek_to(t, offset, origin, BufSize))
    /\ UNCHANGED <<cdrv, cmem, cpc, clen, cval, creg, overlap, beyond, cfault>>

\* Here the end itself is refused.
my_pci2_llseek(t, offset, origin) ==
    /\ CAt(t, {"my_pci2"}, "idle")
    /\ Seek_to(t, offset, origin, RegsLen) \in 0 .. RegsLen - 1
    /\ cpos' = CSet(cpos, t, Seek_to(t, offset, origin, RegsLen))
    /\ UNCHANGED <<cdrv, cmem, cpc, clen, cval, creg, overlap, beyond, cfault>>

\* pread(2) and pwrite(2) come with any position.
Position(t, p) ==
    /\ CAt(t, Buffered \cup Registers, "idle") /\ cpos' = CSet(cpos, t, p)
    /\ beyond' = (beyond \/ IF cdrv \in Buffered THEN p > wp
                            ELSE p > RegsLen \/ p % 4 # 0)
    /\ UNCHANGED <<cdrv, cmem, cpc, clen, cval, creg, overlap, cfault>>

CNext == \E t \in CThreads :
    \/ wait_event(t) \/ wait_signal(t) \/ wait_cut(t) \/ read_copy(t)
    \/ write_copy(t) \/ write_load(t) \/ write_store(t) \/ wake_up(t)
    \/ \E n \in 1 .. MaxCount :
          \/ mychar_read(t, n) \/ multi_mem_read(t, n)
          \/ my_wait_read(t, n) \/ my_wait2_read(t, n)
          \/ \E b \in Bytes : \/ mychar_write(t, n, b) \/ multi_mem_write(t, n, b)
                              \/ my_wait_write(t, n, b) \/ my_wait2_write(t, n, b)
    \/ \E n \in 1 .. RegsLen :
          \/ my_pci2_read(t, n) \/ my_pci2_write(t, n) \/ cr(t, n)
          \/ my_ioport_read(t, n) \/ my_ioport2_read(t, n)
    \/ \E o \in {-1, 0, 1}, origin \in {0, 1, 2} :
          multi_mem_llseek(t, o, origin) \/ my_pci2_llseek(t, o, origin)
    \/ \E p \in 0 .. (IF cdrv \in Buffered THEN BufSize ELSE RegsLen) + 1 :
          Position(t, p)

CSpec == CInit /\ [][CNext]_cvars

-----------------------------------------------------------------------------

\* Without overlapping writes the buffer holds what was accepted, in order.
StreamKept ==
    ~overlap /\ Writers = {} =>
       /\ wp = Len(accepted) /\ wp <= BufSize
       /\ \A i \in 0 .. wp - 1 : cbuf[i] = accepted[i + 1]

\* What it takes for a transfer to leave the buffer or the registers, or to end
\* inside a word: writes that overlap, a position that the driver does not
\* compare with the end, or a port_size that is no whole number of words.
TransfersInside ==
    cfault # {} => \/ overlap
                   \/ beyond /\ cdrv \in {"mychar"} \cup Waiting \cup Ports
                   \/ cdrv \in Ports /\ RegsLen % 4 # 0

\* A reader is not asleep when there is something for it, unless the writer is
\* just about to wake it.
SleepersWoken ==
    \A t \in CThreads : cpc[t] = "r_sleep" /\ wp # cpos[t] =>
       \E u \in CThreads : cpc[u] = "w_wake"

\* Readers get what writers wrote, from inside the buffer, and are woken for it.
BufferSafe == StreamKept /\ TransfersInside /\ SleepersWoken
=============================================================================
