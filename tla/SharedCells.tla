---------------------------- MODULE SharedCells ----------------------------
(***************************************************************************)
(* Variables that the lessons share between callers without a lock: the    *)
(* key buffer of interrupt/like_irq.c, the text buffer of debug/my_proc.c  *)
(* (my_proc2.c is the same), the two counters of protect/my_atomic.c and   *)
(* the count of interrupt/irq_disable.c.                                   *)
(*                                                                         *)
(* An interrupt handler does not run twice at once, but it runs beside the *)
(* readers of a proc file, and those beside each other.  Each load and     *)
(* store of a shared variable is a step.                                   *)
(***************************************************************************)
EXTENDS Integers, FiniteSets

CONSTANTS SThreads,  \* readers and writers of the proc files
          KEY_BUF,   \* length of the key buffer
          MaxKeys,   \* interrupts (bound)
          BufIds,    \* addresses that kzalloc can return (bound)
          UintMod    \* values of an unsigned int

ASSUME SharedAssumption ==
    /\ {KEY_BUF, MaxKeys, UintMod} \subseteq Nat \ {0}
    /\ UintMod > MaxKeys
    /\ SThreads # {}
    /\ BufIds \cap {"NULL", "empty"} = {}

VARIABLES sdrv,      \* the driver
          spc,       \* control point of each thread
          key_buf, pos, nkeys, handler,      \* like_irq
          ki, shown, twice, late, refused, torn,
          ker_buf, alive, full, long, sptr,  \* my_proc
          odd, failed, kfaults,
          irqs, irq_sum, hreg,               \* my_atomic
          disable_count, sreg, depth, excess, \* irq_disable
          crossed    \* two calls have been under way at once

keyvars == <<key_buf, pos, nkeys, handler, ki, shown, twice, late, refused,
             torn>>
bufvars == <<ker_buf, alive, full, long, sptr, odd, failed, kfaults>>
cntvars == <<irqs, irq_sum, hreg, disable_count, sreg, depth, excess>>
svars   == <<sdrv, spc, keyvars, bufvars, cntvars, crossed>>

Idle == [at |-> 0, todo |-> {}]

SInit ==
    /\ sdrv \in {"like_irq", "my_proc", "my_atomic", "irq_disable"}
    /\ spc = [t \in SThreads |-> IF sdrv = "like_irq" THEN "init" ELSE "idle"]
    /\ key_buf = [i \in 0 .. KEY_BUF - 1 |-> 0] /\ pos = 0 /\ nkeys = 0
    /\ handler = Idle /\ ki = [t \in SThreads |-> 1]
    /\ shown = {} /\ twice = {} /\ late = {} /\ refused = {} /\ torn = FALSE
    /\ ker_buf = "NULL" /\ alive = {} /\ full = {} /\ long = {} /\ kfaults = {}
    /\ sptr = [t \in SThreads |-> "NULL"] /\ odd = FALSE /\ failed = FALSE
    /\ irqs = 0 /\ irq_sum = 0 /\ hreg = [h \in {"key", "mouse"} |-> Idle]
    /\ disable_count = 0 /\ sreg = [t \in SThreads |-> 0]
    /\ depth = 0 /\ excess = 0 /\ crossed = FALSE

\* Nothing is known about a machine whose memory was overwritten.
SAt(t, d, l) == kfaults = {} /\ sdrv = d /\ spc[t] = l
SGoto(t, l)  == spc' = [spc EXCEPT ![t] = l]
Enters(t, l) == /\ SGoto(t, l)
                /\ crossed' = (crossed \/ \E u \in SThreads : spc[u] # "idle")

-----------------------------------------------------------------------------
(* interrupt/like_irq.c.  Keys are numbered as they arrive.                *)

\* my_init has the interrupt already when it clears pos.
like_irq_pos ==
    /\ sdrv = "like_irq" /\ \A t \in SThreads : spc[t] = "init"
    /\ spc' = [t \in SThreads |-> "idle"]
    /\ pos' = 0 /\ torn' = (torn \/ handler # Idle)
    /\ UNCHANGED <<sdrv, key_buf, nkeys, handler, ki, shown, twice, late, refused, bufvars,
                   cntvars, crossed>>

\* A key is read.
key_service ==
    /\ sdrv = "like_irq" /\ handler = Idle /\ nkeys < MaxKeys
    /\ pos < KEY_BUF
    /\ nkeys' = nkeys + 1 /\ handler' = [at |-> pos, todo |-> {"byte", "pos"}]
    /\ UNCHANGED <<sdrv, spc, key_buf, pos, ki, shown, twice, late, refused, torn, bufvars,
                   cntvars, crossed>>

\* A key for which there is no room is another driver's (IRQ_NONE).
key_service_full ==
    /\ sdrv = "like_irq" /\ handler = Idle /\ nkeys < MaxKeys
    /\ pos >= KEY_BUF
    /\ nkeys' = nkeys + 1 /\ refused' = refused \cup {nkeys'}
    /\ UNCHANGED <<sdrv, spc, key_buf, pos, handler, ki, shown, twice, late, torn,
                   bufvars, cntvars, crossed>>

\* key_buf[pos++] = value: two stores, in the order the compiler likes.  A key
\* that comes after the last look at pos, when pos is to be cleared, is late.
key_store(what) ==
    /\ what \in handler.todo
    /\ handler' = IF handler.todo = {what} THEN Idle
                  ELSE [handler EXCEPT !.todo = @ \ {what}]
    /\ IF what = "byte"
       THEN /\ key_buf' = [key_buf EXCEPT ![handler.at] = nkeys]
            /\ UNCHANGED <<pos, late>>
       ELSE /\ pos' = handler.at + 1 /\ key_buf' = key_buf
            /\ late' = IF \E t \in SThreads : spc[t] \in {"init", "reset"}
                       THEN late \cup {nkeys} ELSE late
    /\ UNCHANGED <<sdrv, spc, nkeys, ki, shown, twice, refused, torn, bufvars,
                   cntvars, crossed>>

my_proc_call(t) ==
    /\ SAt(t, "like_irq", "idle") /\ Enters(t, "loop") /\ ki' = [ki EXCEPT ![t] = 1]
    /\ UNCHANGED <<sdrv, key_buf, pos, nkeys, handler, shown, twice, late, refused, torn,
                   bufvars, cntvars>>

\* Prints the key at ki; the handler may not have stored it yet.
my_proc_show(t) ==
    /\ ki' = [ki EXCEPT ![t] = @ + 1] /\ spc' = spc
    /\ shown' = shown \cup {key_buf[ki[t] - 1]}
    /\ twice' = twice \cup (shown \cap {key_buf[ki[t] - 1]})
    /\ torn' = (torn \/ ("byte" \in handler.todo /\ handler.at = ki[t] - 1))

\* Stops one key early.
my_proc_loop_short(t) ==
    /\ SAt(t, "like_irq", "loop")
    /\ IF ki[t] < pos THEN my_proc_show(t)
       ELSE SGoto(t, "reset") /\ UNCHANGED <<ki, shown, twice, torn>>
    /\ UNCHANGED <<sdrv, key_buf, pos, nkeys, handler, late, refused, bufvars, cntvars,
                   crossed>>

\* The loop reads pos again for each key.
my_proc_loop(t) ==
    /\ SAt(t, "like_irq", "loop")
    /\ IF ki[t] <= pos THEN my_proc_show(t)
       ELSE SGoto(t, "reset") /\ UNCHANGED <<ki, shown, twice, torn>>
    /\ UNCHANGED <<sdrv, key_buf, pos, nkeys, handler, late, refused, bufvars, cntvars,
                   crossed>>

\* pos = 0
my_proc_reset(t) ==
    /\ SAt(t, "like_irq", "reset") /\ SGoto(t, "idle") /\ pos' = 0
    /\ torn' = (torn \/ handler # Idle)
    /\ UNCHANGED <<sdrv, key_buf, nkeys, handler, ki, shown, twice, late, refused, bufvars,
                   cntvars, crossed>>

-----------------------------------------------------------------------------
(* debug/my_proc.c.                                                        *)

\* kfree, of NULL and of an empty allocation too.
kfree(p) ==
    /\ alive' = alive \ {p}
    /\ kfaults' = kfaults \cup
         (IF p \in BufIds \ alive THEN {"freed twice"} ELSE {})

proc_write(t) ==
    /\ SAt(t, "my_proc", "idle") /\ Enters(t, "alloc") /\ kfree(ker_buf)
    /\ UNCHANGED <<sdrv, keyvars, ker_buf, full, long, sptr, odd, failed, cntvars>>

\* kzalloc fails, or has an address that is free, or one that cannot be read
\* if nothing is to be written.
proc_write_alloc(t) ==
    /\ SAt(t, "my_proc", "alloc")
    /\ \/ ker_buf' = "NULL" /\ SGoto(t, "idle") /\ UNCHANGED <<alive, full, long, odd>>
       \/ /\ ker_buf' = "empty" /\ odd' = TRUE /\ SGoto(t, "copy")
          /\ UNCHANGED <<alive, full, long>>
       \/ /\ ker_buf' \in BufIds \ alive /\ alive' = alive \cup {ker_buf'}
          /\ full' = full \ {ker_buf'} /\ long' = long \ {ker_buf'}
          /\ SGoto(t, "copy") /\ odd' = odd
    /\ sptr' = [sptr EXCEPT ![t] = ker_buf']
    /\ UNCHANGED <<sdrv, keyvars, failed, kfaults, cntvars, crossed>>

\* A text as long as what the allocator has for it has no 0 at the end; and it
\* may be longer than a page, for nothing bounds count.
proc_write_copy(t) ==
    /\ SAt(t, "my_proc", "copy")
    /\ \/ /\ SGoto(t, "idle") /\ long' \in {long, long \cup ({sptr[t]} \cap BufIds)}
          /\ \/ UNCHANGED <<full, odd>>
             \/ full' = full \cup {sptr[t]} /\ odd' = TRUE
       \/ SGoto(t, "undo") /\ UNCHANGED <<full, long, odd>>
    /\ kfaults' = kfaults \cup
         (IF sptr[t] \in BufIds \ alive THEN {"written"} ELSE {})
    /\ UNCHANGED <<sdrv, keyvars, ker_buf, alive, sptr, failed, cntvars, crossed>>

\* -EFAULT; ker_buf goes on pointing at what was freed.
proc_write_undo(t) ==
    /\ SAt(t, "my_proc", "undo") /\ SGoto(t, "idle") /\ kfree(ker_buf)
    /\ failed' = TRUE
    /\ UNCHANGED <<sdrv, keyvars, ker_buf, full, long, sptr, odd, cntvars, crossed>>

\* Without a buffer the reader gets a text of the driver.
proc_read(t) ==
    /\ SAt(t, "my_proc", "idle") /\ ker_buf # "NULL" /\ Enters(t, "print")
    /\ sptr' = [sptr EXCEPT ![t] = ker_buf]
    /\ UNCHANGED <<sdrv, keyvars, ker_buf, alive, full, long, odd, failed, kfaults,
                   cntvars>>

\* sprintf into the page of the caller; nothing bounds what it prints.
proc_read_print(t) ==
    /\ SAt(t, "my_proc", "print") /\ SGoto(t, "idle")
    /\ kfaults' = kfaults \cup (IF sptr[t] \notin alive \ full THEN {"read"} ELSE {})
                         \cup (IF sptr[t] \in long THEN {"page overrun"} ELSE {})
    /\ UNCHANGED <<sdrv, keyvars, ker_buf, alive, full, long, sptr, odd, failed,
                   cntvars, crossed>>

\* remove_proc_entry waits for the calls.
my_proc_exit ==
    /\ \A t \in SThreads : SAt(t, "my_proc", "idle")
    /\ spc' = [t \in SThreads |-> "gone"] /\ kfree(ker_buf)
    /\ UNCHANGED <<sdrv, keyvars, ker_buf, full, long, sptr, odd, failed, cntvars, crossed>>

-----------------------------------------------------------------------------
(* protect/my_atomic.c and interrupt/irq_disable.c.                        *)

\* irqs++ of key_func and of mouse_func.
irqs_load(h) ==
    /\ sdrv = "my_atomic" /\ hreg[h] = Idle /\ nkeys < MaxKeys /\ nkeys' = nkeys + 1
    /\ hreg' = [hreg EXCEPT ![h] = [at |-> irqs + 1, todo |-> {"irqs", "irq_sum"}]]
    /\ crossed' = (crossed \/ \E g \in DOMAIN hreg : "irqs" \in hreg[g].todo)
    /\ UNCHANGED <<sdrv, spc, key_buf, pos, handler, ki, shown, twice, late, refused, torn,
                   bufvars, irqs, irq_sum, disable_count, sreg, depth, excess>>

irqs_store(h) ==
    /\ sdrv = "my_atomic" /\ "irqs" \in hreg[h].todo
    /\ irqs' = hreg[h].at /\ hreg' = [hreg EXCEPT ![h].todo = {"irq_sum"}]
    /\ UNCHANGED <<sdrv, spc, keyvars, bufvars, irq_sum, disable_count, sreg, depth, excess,
                   crossed>>

\* atomic_inc(&irq_sum), the end of both handlers.
atomic_inc(h) ==
    /\ sdrv = "my_atomic" /\ hreg[h].todo = {"irq_sum"}
    /\ irq_sum' = irq_sum + 1 /\ hreg' = [hreg EXCEPT ![h] = Idle]
    /\ UNCHANGED <<sdrv, spc, keyvars, bufvars, irqs, disable_count, sreg, depth, excess,
                   crossed>>

\* disable_irq.
proc_disable(t) ==
    /\ SAt(t, "irq_disable", "idle") /\ depth < MaxKeys /\ Enters(t, "inc")
    /\ depth' = depth + 1
    /\ UNCHANGED <<sdrv, keyvars, bufvars, irqs, irq_sum, hreg, disable_count, sreg,
                   excess>>

\* enable_irq warns, and does nothing, when the line is not disabled.
proc_enable(t) ==
    /\ SAt(t, "irq_disable", "idle") /\ excess < MaxKeys /\ Enters(t, "dec")
    /\ IF depth > 0 THEN depth' = depth - 1 /\ excess' = excess
                    ELSE depth' = depth /\ excess' = excess + 1
    /\ UNCHANGED <<sdrv, keyvars, bufvars, irqs, irq_sum, hreg, disable_count, sreg>>

\* disable_count++ and --, of an unsigned int: a load ...
count_load(t) ==
    /\ sdrv = "irq_disable" /\ spc[t] \in {"inc", "dec"}
    /\ sreg' = [sreg EXCEPT ![t] =
          (disable_count + (IF spc[t] = "inc" THEN 1 ELSE UintMod - 1)) % UintMod]
    /\ SGoto(t, "store")
    /\ UNCHANGED <<sdrv, keyvars, bufvars, irqs, irq_sum, hreg, disable_count, depth,
                   excess, crossed>>

\* ... and a store.
count_store(t) ==
    /\ SAt(t, "irq_disable", "store") /\ SGoto(t, "idle")
    /\ disable_count' = sreg[t] /\ sreg' = [sreg EXCEPT ![t] = 0]
    /\ UNCHANGED <<sdrv, keyvars, bufvars, irqs, irq_sum, hreg, depth, excess, crossed>>

-----------------------------------------------------------------------------

SNext ==
    \/ like_irq_pos \/ key_service \/ key_service_full \/ my_proc_exit
    \/ \E what \in {"byte", "pos"} : key_store(what)
    \/ \E h \in DOMAIN hreg : irqs_load(h) \/ irqs_store(h) \/ atomic_inc(h)
    \/ \E t \in SThreads :
          \/ my_proc_call(t) \/ my_proc_loop(t) \/ my_proc_reset(t)
          \/ proc_write(t) \/ proc_write_alloc(t) \/ proc_write_copy(t)
          \/ proc_write_undo(t) \/ proc_read(t) \/ proc_read_print(t)
          \/ proc_disable(t) \/ proc_enable(t) \/ count_load(t) \/ count_store(t)

SSpec == SInit /\ [][SNext]_svars

-----------------------------------------------------------------------------

\* like_irq.c: as long as calls do not overlap, and no call clears pos or
\* prints a place while the handler is at it, each key is shown or waits to be
\* shown, once, but for those that found the buffer full and those that came
\* between the last look at pos and the clearing of it.  However they race, pos
\* stays inside the buffer.
KeysShown ==
    /\ pos <= KEY_BUF
    /\ sdrv = "like_irq" /\ ~crossed /\ ~torn =>
          /\ twice = {}
          /\ handler = Idle => \A k \in 1 .. nkeys :
                \/ k \in shown \/ k \in late \/ k \in refused
                \/ \E i \in 0 .. pos - 1 : key_buf[i] = k

\* my_proc.c: memory that is not the driver's is touched only after calls that
\* overlap, after a copy that failed, or for a text that is empty or fills its
\* buffer; the page of a reader is overrun only after calls that overlap or when
\* the text that is stored is longer than a page; and only calls that overlap
\* leave memory behind.
TextOwned ==
    /\ kfaults \ {"page overrun"} # {} => crossed \/ failed \/ odd
    /\ "page overrun" \in kfaults => crossed \/ ker_buf \in long
    /\ sdrv = "my_proc" /\ ~crossed =>
          /\ Cardinality(alive) <= 1
          /\ (\A t \in SThreads : spc[t] = "gone") => alive = {}

\* my_atomic.c: the atomic sum is exact; the plain one is never more, and less
\* only if the two handlers have met.  irq_disable.c: the count is the depth of
\* the line, less the enables that were too many, unless calls have met.
CountsKept ==
    /\ sdrv = "my_atomic" /\ (\A h \in DOMAIN hreg : hreg[h] = Idle) =>
          irq_sum = nkeys /\ irqs <= irq_sum /\ (irqs = irq_sum \/ crossed)
    /\ sdrv = "irq_disable" /\ (\A t \in SThreads : spc[t] = "idle") /\ ~crossed =>
          disable_count = (depth + UintMod - excess) % UintMod

\* What the unlocked variables of the lessons are good for, and how they fail.
CellsSafe == KeysShown /\ TextOwned /\ CountsKept
=============================================================================
