-------------------------- MODULE SharedCellsProofs --------------------------
(***************************************************************************)
(* Proofs about the variables that the lessons share without a lock        *)
(* (module SharedCells).  The four drivers share no state, and the driver  *)
(* does not change, so each has an invariant of its own.                   *)
(***************************************************************************)
EXTENDS SharedCells, FiniteSetTheorems, TLAPS

KeyStep ==
    \/ like_irq_pos \/ key_service \/ key_service_full
    \/ \E what \in {"byte", "pos"} : key_store(what)
    \/ \E t \in SThreads : my_proc_call(t) \/ my_proc_loop(t) \/ my_proc_reset(t)

TextStep ==
    \/ my_proc_exit
    \/ \E t \in SThreads :
          \/ proc_write(t) \/ proc_write_alloc(t) \/ proc_write_copy(t)
          \/ proc_write_undo(t) \/ proc_read(t) \/ proc_read_print(t)

AtomicStep == \E h \in {"key", "mouse"} : irqs_load(h) \/ irqs_store(h) \/ atomic_inc(h)

LineStep ==
    \E t \in SThreads : \/ proc_disable(t) \/ proc_enable(t)
                        \/ count_load(t) \/ count_store(t)

\* What the drivers that do not run leave alone.
Quiet ==
    /\ sdrv \in {"like_irq", "my_proc", "my_atomic", "irq_disable"}
    /\ sdrv # "like_irq" => pos = 0 /\ handler = Idle
    /\ sdrv # "my_proc" => kfaults = {}
    /\ DOMAIN hreg = {"key", "mouse"}

LEMMA QuietInit == SInit => Quiet
  BY DEF SInit, Quiet

LEMMA WhichDriver ==
  ASSUME Quiet, SNext
  PROVE  /\ sdrv' = sdrv
         /\ \/ sdrv = "like_irq" /\ KeyStep
            \/ sdrv = "my_proc" /\ TextStep
            \/ sdrv = "my_atomic" /\ AtomicStep
            \/ sdrv = "irq_disable" /\ LineStep
<1>1. CASE \/ like_irq_pos \/ key_service \/ key_service_full
           \/ \E t \in SThreads : my_proc_call(t) \/ my_proc_loop(t) \/ my_proc_reset(t)
  BY <1>1 DEF KeyStep, like_irq_pos, key_service, key_service_full, my_proc_call, my_proc_loop,
              my_proc_reset, SAt
<1>2. ASSUME NEW what \in {"byte", "pos"}, key_store(what)
      PROVE  sdrv' = sdrv /\ sdrv = "like_irq" /\ KeyStep
  BY <1>2 DEF KeyStep, key_store, Quiet, Idle
<1>3. CASE my_proc_exit
  BY <1>3, SharedAssumption DEF TextStep, my_proc_exit, SAt
<1>4. CASE \E t \in SThreads :
              \/ proc_write(t) \/ proc_write_alloc(t) \/ proc_write_copy(t)
              \/ proc_write_undo(t) \/ proc_read(t) \/ proc_read_print(t)
  BY <1>4 DEF TextStep, proc_write, proc_write_alloc, proc_write_copy, proc_write_undo,
              proc_read, proc_read_print, SAt
<1>5. CASE \E h \in DOMAIN hreg : irqs_load(h) \/ irqs_store(h) \/ atomic_inc(h)
  BY <1>5 DEF AtomicStep, irqs_load, irqs_store, atomic_inc, Quiet
<1>6. CASE LineStep
  BY <1>6 DEF LineStep, proc_disable, proc_enable, count_load, count_store, SAt
<1> QED
  BY <1>1, <1>2, <1>3, <1>4, <1>5, <1>6 DEF SNext, LineStep

LEMMA QuietStep == Quiet /\ [SNext]_svars => Quiet'
<1>0. ASSUME Quiet, UNCHANGED svars PROVE Quiet'
  BY <1>0 DEF Quiet, svars, keyvars, bufvars, cntvars
<1> SUFFICES ASSUME Quiet, SNext PROVE Quiet'
  BY <1>0
<1> USE DEF keyvars, bufvars, cntvars
<1>1. CASE sdrv = "like_irq" /\ KeyStep
  <2>1. UNCHANGED <<sdrv, kfaults, hreg>>
    BY <1>1 DEF KeyStep, like_irq_pos, key_service, key_service_full, key_store,
                my_proc_call, my_proc_loop, my_proc_reset
  <2> QED
    BY <1>1, <2>1 DEF Quiet
<1>2. CASE sdrv = "my_proc" /\ TextStep
  <2>1. UNCHANGED <<sdrv, pos, handler, hreg>>
    BY <1>2 DEF TextStep, my_proc_exit, proc_write, proc_write_alloc, proc_write_copy,
                proc_write_undo, proc_read, proc_read_print
  <2> QED
    BY <1>2, <2>1 DEF Quiet
<1>3. CASE sdrv = "my_atomic" /\ AtomicStep
  BY <1>3 DEF Quiet, AtomicStep, irqs_load, irqs_store, atomic_inc
<1>4. CASE sdrv = "irq_disable" /\ LineStep
  <2>1. UNCHANGED <<sdrv, pos, handler, kfaults, hreg>>
    BY <1>4 DEF LineStep, proc_disable, proc_enable, count_load, count_store
  <2> QED
    BY <1>4, <2>1 DEF Quiet
<1> QED
  BY <1>1, <1>2, <1>3, <1>4, WhichDriver

LEMMA QuietAlways == SSpec => []Quiet
  BY QuietInit, QuietStep, PTL DEF SSpec

(***************************************************************************)
(* protect/my_atomic.c.  A handler between its load and its store has      *)
(* counted its interrupt in nkeys but not yet in irqs.                     *)
(***************************************************************************)
Busy(h)    == IF hreg[h] = Idle THEN 0 ELSE 1
Storing(h) == IF "irqs" \in hreg[h].todo THEN 1 ELSE 0
Stores     == Storing("key") + Storing("mouse")

AtomicInv ==
    sdrv = "my_atomic" =>
       /\ hreg \in [{"key", "mouse"} -> [at : Nat, todo : SUBSET {"irqs", "irq_sum"}]]
       /\ nkeys \in Nat /\ irqs \in Nat /\ irq_sum \in Nat
       /\ irq_sum + Busy("key") + Busy("mouse") = nkeys
       /\ irqs + Stores <= nkeys
       /\ \A h \in {"key", "mouse"} : Storing(h) = 1 => hreg[h].at + Stores <= nkeys + 1
       /\ ~ crossed => /\ irqs + Stores = nkeys /\ Stores <= 1
                       /\ \A h \in {"key", "mouse"} : Storing(h) = 1 =>
                             hreg[h].at = irqs + 1

LEMMA AtomicInit == SInit => AtomicInv
  BY DEF SInit, AtomicInv, Busy, Storing, Stores, Idle

LEMMA AtomicInvStep ==
  ASSUME Quiet, AtomicInv, [SNext]_svars
  PROVE  AtomicInv'
<1>0. CASE UNCHANGED svars
  BY <1>0 DEF AtomicInv, Busy, Storing, Stores, Idle, svars, keyvars, bufvars, cntvars
<1>1. CASE SNext /\ sdrv # "my_atomic"
  BY <1>1, WhichDriver DEF AtomicInv
<1>2. CASE sdrv = "my_atomic" /\ AtomicStep
  <2>1. PICK h \in {"key", "mouse"} : irqs_load(h) \/ irqs_store(h) \/ atomic_inc(h)
    BY <1>2 DEF AtomicStep
  <2>2. PICK g \in {"key", "mouse"} \ {h} :
           /\ \A f \in {"key", "mouse"} : f \in {g, h}
           /\ Stores = Storing(g) + Storing(h)
           /\ Stores' = Storing(g)' + Storing(h)'
           /\ Busy("key") + Busy("mouse") = Busy(g) + Busy(h)
           /\ (Busy("key") + Busy("mouse") = Busy(g) + Busy(h))'
    <3>1. CASE h = "key"
      BY <3>1 DEF Stores, Busy, Storing
    <3>2. CASE h = "mouse"
      BY <3>2 DEF Stores, Busy, Storing
    <3> QED
      BY <3>1, <3>2
  <2>3. /\ hreg \in [{"key", "mouse"} -> [at : Nat, todo : SUBSET {"irqs", "irq_sum"}]]
        /\ nkeys \in Nat /\ irqs \in Nat /\ irq_sum \in Nat
        /\ irq_sum + (Busy(g) + Busy(h)) = nkeys
        /\ Storing(g) \in {0, 1} /\ Busy(g) \in {0, 1}
    <3>1. Busy("key") \in {0, 1} /\ Busy("mouse") \in {0, 1}
      BY DEF Busy
    <3> QED
      BY <1>2, <2>2, <3>1 DEF AtomicInv, Busy, Storing
  <2>4. CASE irqs_load(h)
    <3>1. /\ hreg[h] = Idle /\ nkeys' = nkeys + 1
          /\ hreg'[h] = [at |-> irqs + 1, todo |-> {"irqs", "irq_sum"}]
          /\ hreg'[g] = hreg[g] /\ UNCHANGED <<irqs, irq_sum, sdrv>>
      BY <2>3, <2>4 DEF irqs_load
    <3>2. /\ hreg' \in [{"key", "mouse"} -> [at : Nat, todo : SUBSET {"irqs", "irq_sum"}]]
      BY <2>3, <2>4 DEF irqs_load
    <3>3. /\ Storing(h) = 0 /\ Storing(h)' = 1 /\ Busy(h) = 0 /\ Busy(h)' = 1
          /\ Storing(g)' = Storing(g) /\ Busy(g)' = Busy(g) /\ hreg'[h].at = irqs + 1
      BY <3>1 DEF Storing, Busy, Idle
    <3>4. ~ crossed' => ~ crossed /\ Storing(g) = 0
      <4>1. crossed' = (crossed \/ \E f \in DOMAIN hreg : "irqs" \in hreg[f].todo)
        BY <2>4 DEF irqs_load
      <4>2. g \in DOMAIN hreg
        BY <2>3
      <4>3. ~ crossed' => ~ crossed /\ "irqs" \notin hreg[g].todo
        BY <4>1, <4>2, Zenon
      <4> QED
        BY <4>3 DEF Storing
    <3>5. irq_sum' + Busy("key")' + Busy("mouse")' = nkeys'
      BY <2>2, <2>3, <3>1, <3>3 DEF Busy
    <3> QED
      BY <1>2, <2>2, <2>3, <3>1, <3>2, <3>3, <3>4, <3>5 DEF AtomicInv
  <2>5. CASE irqs_store(h)
    <3>1. /\ "irqs" \in hreg[h].todo /\ irqs' = hreg[h].at
          /\ hreg'[h].todo = {"irq_sum"} /\ hreg'[h].at = hreg[h].at
          /\ hreg'[g] = hreg[g] /\ UNCHANGED <<nkeys, irq_sum, sdrv, crossed>>
      BY <2>3, <2>5 DEF irqs_store, keyvars
    <3>2. /\ hreg' \in [{"key", "mouse"} -> [at : Nat, todo : SUBSET {"irqs", "irq_sum"}]]
      BY <2>3, <2>5 DEF irqs_store
    <3>3. /\ Storing(h) = 1 /\ Storing(h)' = 0 /\ Busy(h) = 1 /\ Busy(h)' = 1
          /\ Storing(g)' = Storing(g) /\ Busy(g)' = Busy(g)
      BY <3>1 DEF Storing, Busy, Idle
    <3>4. irqs' \in Nat
      BY <2>3, <3>1
    <3>5. irq_sum' + Busy("key")' + Busy("mouse")' = nkeys'
      BY <2>2, <2>3, <3>1, <3>3 DEF Busy
    <3> QED
      BY <1>2, <2>2, <2>3, <3>1, <3>2, <3>3, <3>4, <3>5 DEF AtomicInv
  <2>6. CASE atomic_inc(h)
    <3>1. /\ hreg[h].todo = {"irq_sum"} /\ hreg'[h] = Idle /\ hreg'[g] = hreg[g]
          /\ irq_sum' = irq_sum + 1 /\ UNCHANGED <<nkeys, irqs, sdrv, crossed>>
      BY <2>3, <2>6 DEF atomic_inc, keyvars
    <3>2. /\ hreg' \in [{"key", "mouse"} -> [at : Nat, todo : SUBSET {"irqs", "irq_sum"}]]
      BY <2>3, <2>6 DEF atomic_inc, Idle
    <3>3. /\ Storing(h) = 0 /\ Storing(h)' = 0 /\ Busy(h) = 1 /\ Busy(h)' = 0
          /\ Storing(g)' = Storing(g) /\ Busy(g)' = Busy(g)
      BY <3>1 DEF Storing, Busy, Idle
    <3>4. irq_sum' + Busy("key")' + Busy("mouse")' = nkeys'
      BY <2>2, <2>3, <3>1, <3>3 DEF Busy
    <3> QED
      BY <1>2, <2>2, <2>3, <3>1, <3>2, <3>3, <3>4 DEF AtomicInv
  <2> QED
    BY <2>1, <2>4, <2>5, <2>6
<1> QED
  BY <1>0, <1>1, <1>2, WhichDriver

(***************************************************************************)
(* interrupt/irq_disable.c.  The count is an unsigned int, the difference  *)
(* of depth and excess may be negative.                                    *)
(***************************************************************************)
Unsigned(d) == IF d >= 0 THEN d ELSE d + UintMod

LineInv ==
    sdrv = "irq_disable" =>
       /\ spc \in [SThreads -> {"idle", "inc", "dec", "store"}]
       /\ depth \in 0 .. MaxKeys /\ excess \in 0 .. MaxKeys
       /\ sreg \in [SThreads -> Int] /\ disable_count \in Int
       /\ ~ crossed =>
             /\ \A t, u \in SThreads : t # u => spc[t] = "idle" \/ spc[u] = "idle"
             /\ (\A t \in SThreads : spc[t] = "idle") =>
                   disable_count = Unsigned(depth - excess)
             /\ \A t \in SThreads :
                   /\ spc[t] = "inc" =>
                         disable_count = Unsigned(depth - excess - 1) /\ depth >= 1
                   /\ spc[t] = "dec" =>
                         /\ disable_count = Unsigned(depth - excess + 1)
                         /\ depth < MaxKeys \/ excess >= 1
                   /\ spc[t] = "store" => sreg[t] = Unsigned(depth - excess)

\* The remainder of what is less than twice the divisor.
LEMMA ModBy ==
  ASSUME NEW x \in Nat, NEW m \in Nat, x < m
  PROVE  x % m = x /\ (x + m) % m = x
  OBVIOUS

LEMMA UnsignedInc ==
  ASSUME NEW d \in Int, - UintMod < d, d + 1 < UintMod, UintMod \in Nat
  PROVE  (Unsigned(d) + 1) % UintMod = Unsigned(d + 1)
<1>1. CASE d >= 0
  BY <1>1, ModBy DEF Unsigned
<1>2. CASE d = -1
  BY <1>2, ModBy DEF Unsigned
<1>3. CASE d < -1
  BY <1>3, ModBy DEF Unsigned
<1> QED
  BY <1>1, <1>2, <1>3

LEMMA UnsignedDec ==
  ASSUME NEW d \in Int, - UintMod < d - 1, d < UintMod, UintMod \in Nat
  PROVE  (Unsigned(d) + (UintMod - 1)) % UintMod = Unsigned(d - 1)
<1>1. CASE d >= 1
  BY <1>1, ModBy DEF Unsigned
<1>2. CASE d = 0
  BY <1>2, ModBy DEF Unsigned
<1>3. CASE d < 0
  BY <1>3, ModBy DEF Unsigned
<1> QED
  BY <1>1, <1>2, <1>3

LEMMA LineInit == SInit => LineInv
  BY SharedAssumption DEF SInit, LineInv, Unsigned

LEMMA LineInvStep ==
  ASSUME Quiet, LineInv, [SNext]_svars
  PROVE  LineInv'
<1>0. CASE UNCHANGED svars
  BY <1>0 DEF LineInv, Unsigned, svars, keyvars, bufvars, cntvars
<1>1. CASE SNext /\ sdrv # "irq_disable"
  BY <1>1, WhichDriver DEF LineInv
<1>2. CASE sdrv = "irq_disable" /\ LineStep
  <2>1. PICK t \in SThreads : \/ proc_disable(t) \/ proc_enable(t)
                              \/ count_load(t) \/ count_store(t)
    BY <1>2 DEF LineStep
  <2>2. /\ spc \in [SThreads -> {"idle", "inc", "dec", "store"}]
        /\ depth \in 0 .. MaxKeys /\ excess \in 0 .. MaxKeys
        /\ sreg \in [SThreads -> Int] /\ disable_count \in Int
        /\ MaxKeys \in Nat /\ UintMod \in Nat /\ MaxKeys < UintMod
    BY <1>2, SharedAssumption DEF LineInv
  <2>3. CASE proc_disable(t) \/ proc_enable(t)
    <3>1. ~ crossed' => ~ crossed /\ \A u \in SThreads : spc[u] = "idle"
      <4>1. crossed' = (crossed \/ \E u \in SThreads : spc[u] # "idle")
        BY <2>3 DEF proc_disable, proc_enable, Enters
      <4> QED
        BY <4>1, Zenon
    <3>2. UNCHANGED <<sdrv, sreg, disable_count>>
      BY <2>3 DEF proc_disable, proc_enable
    <3>3. ~ crossed' => disable_count = Unsigned(depth - excess)
      BY <1>2, <3>1 DEF LineInv
    <3>4. CASE proc_disable(t)
      <4>1. /\ spc' = [spc EXCEPT ![t] = "inc"] /\ depth' = depth + 1 /\ depth < MaxKeys
            /\ excess' = excess
        BY <3>4 DEF proc_disable, Enters, SGoto
      <4>2. depth' - excess' - 1 = depth - excess
        BY <2>2, <4>1
      <4>3. depth' \in 0 .. MaxKeys /\ depth' >= 1
        BY <2>2, <4>1
      <4>4. spc' \in [SThreads -> {"idle", "inc", "dec", "store"}]
        BY <2>2, <4>1
      <4>5. \A u \in SThreads : spc'[u] = IF u = t THEN "inc" ELSE spc[u]
        BY <2>2, <4>1
      <4> QED
        BY <1>2, <2>2, <3>1, <3>2, <3>3, <4>1, <4>2, <4>3, <4>4, <4>5 DEF LineInv, Unsigned
    <3>5. CASE proc_enable(t)
      <4>1. /\ spc' = [spc EXCEPT ![t] = "dec"] /\ excess < MaxKeys
            /\ \/ depth > 0 /\ depth' = depth - 1 /\ excess' = excess
               \/ depth = 0 /\ depth' = depth /\ excess' = excess + 1
        BY <2>2, <3>5 DEF proc_enable, Enters, SGoto
      <4>2. depth' - excess' + 1 = depth - excess
        BY <2>2, <4>1
      <4>3. /\ depth' \in 0 .. MaxKeys /\ excess' \in 0 .. MaxKeys
            /\ depth' < MaxKeys \/ excess' >= 1
        BY <2>2, <4>1
      <4>4. spc' \in [SThreads -> {"idle", "inc", "dec", "store"}]
        BY <2>2, <4>1
      <4>5. \A u \in SThreads : spc'[u] = IF u = t THEN "dec" ELSE spc[u]
        BY <2>2, <4>1
      <4> QED
        BY <1>2, <2>2, <3>1, <3>2, <3>3, <4>2, <4>3, <4>4, <4>5 DEF LineInv, Unsigned
    <3> QED
      BY <2>3, <3>4, <3>5
  <2>4. CASE count_load(t)
    <3>1. /\ spc[t] \in {"inc", "dec"} /\ spc' = [spc EXCEPT ![t] = "store"]
          /\ sreg' = [sreg EXCEPT ![t] =
                (disable_count + (IF spc[t] = "inc" THEN 1 ELSE UintMod - 1)) % UintMod]
          /\ UNCHANGED <<sdrv, disable_count, depth, excess, crossed>>
      BY <2>4 DEF count_load, SGoto
    <3> DEFINE d == depth - excess
    <3>2. ~ crossed => sreg'[t] = Unsigned(d)
      <4> SUFFICES ASSUME ~ crossed PROVE sreg'[t] = Unsigned(d)
        OBVIOUS
      <4>0. d \in Int
        BY <2>2
      <4>1. CASE spc[t] = "inc"
        <5>1. disable_count = Unsigned(d - 1) /\ depth >= 1
          BY <1>2, <4>1 DEF LineInv
        <5>2. d - 1 \in Int /\ - UintMod < d - 1 /\ (d - 1) + 1 < UintMod /\ (d - 1) + 1 = d
          BY <2>2, <5>1
        <5>3. sreg'[t] = (disable_count + 1) % UintMod
          BY <2>2, <3>1, <4>1
        <5> HIDE DEF d
        <5>4. (Unsigned(d - 1) + 1) % UintMod = Unsigned((d - 1) + 1)
          BY <2>2, <5>2, UnsignedInc
        <5> QED
          BY <5>1, <5>2, <5>3, <5>4
      <4>2. CASE spc[t] = "dec"
        <5>1. disable_count = Unsigned(d + 1) /\ (depth < MaxKeys \/ excess >= 1)
          BY <1>2, <4>2 DEF LineInv
        <5>2. d + 1 \in Int /\ - UintMod < (d + 1) - 1 /\ d + 1 < UintMod /\ (d + 1) - 1 = d
          BY <2>2, <5>1
        <5>3. sreg'[t] = (disable_count + (UintMod - 1)) % UintMod
          BY <2>2, <3>1, <4>2
        <5> HIDE DEF d
        <5>4. (Unsigned(d + 1) + (UintMod - 1)) % UintMod = Unsigned((d + 1) - 1)
          BY <2>2, <5>2, UnsignedDec
        <5> QED
          BY <5>1, <5>2, <5>3, <5>4
      <4> QED
        BY <3>1, <4>1, <4>2
    <3>3. \A u \in SThreads : spc'[u] = IF u = t THEN "store" ELSE spc[u]
      BY <2>2, <3>1
    <3>4. /\ spc' \in [SThreads -> {"idle", "inc", "dec", "store"}]
          /\ \A u \in SThreads : u # t => sreg'[u] = sreg[u]
      BY <2>2, <3>1
    <3>5. ~ crossed => \A u \in SThreads : u # t => spc[u] = "idle"
      BY <1>2, <3>1 DEF LineInv
    <3>6. sreg' \in [SThreads -> Int]
      <4> DEFINE v == disable_count + (IF spc[t] = "inc" THEN 1 ELSE UintMod - 1)
      <4>1. v \in Int
        BY <2>2
      <4>2. sreg' = [sreg EXCEPT ![t] = v % UintMod]
        BY <3>1
      <4> HIDE DEF v
      <4>3. v % UintMod \in Int
        BY <2>2, <4>1
      <4> QED
        BY <2>2, <4>2, <4>3
    <3> QED
      BY <1>2, <2>2, <3>1, <3>2, <3>3, <3>4, <3>5, <3>6 DEF LineInv
  <2>5. CASE count_store(t)
    <3>1. /\ spc[t] = "store" /\ spc' = [spc EXCEPT ![t] = "idle"]
          /\ disable_count' = sreg[t] /\ sreg' = [sreg EXCEPT ![t] = 0]
          /\ UNCHANGED <<sdrv, depth, excess, crossed>>
      BY <2>5 DEF count_store, SAt, SGoto
    <3>2. ~ crossed => \A u \in SThreads : u # t => spc[u] = "idle"
      BY <1>2, <3>1 DEF LineInv
    <3>3. /\ \A u \in SThreads : spc'[u] = IF u = t THEN "idle" ELSE spc[u]
          /\ spc' \in [SThreads -> {"idle", "inc", "dec", "store"}]
          /\ sreg' \in [SThreads -> Int] /\ disable_count' \in Int
      BY <2>2, <3>1
    <3> QED
      BY <1>2, <2>2, <3>1, <3>2, <3>3 DEF LineInv
  <2> QED
    BY <2>1, <2>3, <2>4, <2>5
<1> QED
  BY <1>0, <1>1, <1>2, WhichDriver

(***************************************************************************)
(* The atomic sum of my_atomic.c is exact and the plain one is not, and    *)
(* the count of irq_disable.c is the depth of the line (CountsKept), for   *)
(* any number of interrupts and calls.                                     *)
(***************************************************************************)
LEMMA CountsRight == Quiet /\ AtomicInv /\ LineInv => CountsKept
<1> SUFFICES ASSUME Quiet, AtomicInv, LineInv PROVE CountsKept
  OBVIOUS
<1>1. ASSUME sdrv = "my_atomic", \A h \in DOMAIN hreg : hreg[h] = Idle
      PROVE  irq_sum = nkeys /\ irqs <= irq_sum /\ (irqs = irq_sum \/ crossed)
  BY <1>1 DEF Quiet, AtomicInv, Busy, Storing, Stores, Idle
<1>2. ASSUME sdrv = "irq_disable", \A t \in SThreads : spc[t] = "idle", ~ crossed
      PROVE  disable_count = (depth + UintMod - excess) % UintMod
  <2>1. /\ disable_count = Unsigned(depth - excess)
        /\ depth \in 0 .. MaxKeys /\ excess \in 0 .. MaxKeys
        /\ MaxKeys \in Nat /\ UintMod \in Nat /\ MaxKeys < UintMod
    BY <1>2, SharedAssumption DEF LineInv
  <2>2. CASE depth >= excess
    <3>1. depth - excess \in Nat /\ depth - excess < UintMod
      BY <2>1, <2>2
    <3>2. ((depth - excess) + UintMod) % UintMod = depth - excess
      BY <2>1, <3>1, ModBy
    <3>3. (depth - excess) + UintMod = depth + UintMod - excess
      BY <2>1
    <3> QED
      BY <2>1, <3>1, <3>2, <3>3 DEF Unsigned
  <2>3. CASE depth < excess
    <3>1. depth + UintMod - excess \in Nat /\ depth + UintMod - excess < UintMod
      BY <2>1, <2>3
    <3>2. (depth + UintMod - excess) % UintMod = depth + UintMod - excess
      BY <2>1, <3>1, ModBy
    <3>3. Unsigned(depth - excess) = depth + UintMod - excess
      BY <2>1, <2>3 DEF Unsigned
    <3> QED
      BY <2>1, <3>2, <3>3
  <2> QED
    BY <2>1, <2>2, <2>3
<1> QED
  BY <1>1, <1>2 DEF CountsKept

(***************************************************************************)
(* debug/my_proc.c.  While calls do not overlap, at most the buffer that   *)
(* ker_buf points at is allocated; it is, unless a copy has failed.        *)
(***************************************************************************)
Alone == \A t, u \in SThreads : t # u => spc[t] = "idle" \/ spc[u] = "idle"

TextInv ==
    sdrv = "my_proc" =>
       /\ spc \in [SThreads -> {"idle", "alloc", "copy", "undo", "print", "gone"}]
       /\ sptr \in [SThreads -> BufIds \cup {"NULL", "empty"}]
       /\ ker_buf \in BufIds \cup {"NULL", "empty"}
       /\ odd \in BOOLEAN /\ failed \in BOOLEAN /\ crossed \in BOOLEAN
       /\ (\E t \in SThreads : spc[t] = "gone") => \A t \in SThreads : spc[t] = "gone"
       /\ ~ odd => full = {} /\ ker_buf # "empty"
       /\ kfaults \ {"page overrun"} # {} => crossed \/ failed \/ odd
       /\ "page overrun" \in kfaults => crossed \/ ker_buf \in long
       /\ ~ crossed =>
             /\ Alone \/ \A t \in SThreads : spc[t] = "gone"
             /\ alive \subseteq {ker_buf} \cap BufIds
             /\ \A t \in SThreads : spc[t] \in {"alloc", "gone"} => alive = {}
             /\ \A t \in SThreads : spc[t] = "print" => sptr[t] = ker_buf
       /\ ~ crossed /\ ~ failed /\ ~ odd =>
             /\ (\A t \in SThreads : spc[t] \notin {"alloc", "gone"}) =>
                   ker_buf = "NULL" \/ ker_buf \in alive
             /\ \A t \in SThreads : spc[t] \in {"copy", "undo", "print"} =>
                   sptr[t] = ker_buf /\ ker_buf \in alive

LEMMA TextInit == SInit => TextInv
<1> SUFFICES ASSUME SInit, sdrv = "my_proc" PROVE TextInv
  BY DEF TextInv
<1>1. odd \in BOOLEAN /\ failed \in BOOLEAN /\ crossed \in BOOLEAN
  BY Zenon DEF SInit
<1>2. spc \in [SThreads -> {"idle", "alloc", "copy", "undo", "print", "gone"}]
  BY DEF SInit
<1> QED
  BY <1>1, <1>2 DEF SInit, TextInv, Alone

LEMMA TextInvStep ==
  ASSUME Quiet, TextInv, [SNext]_svars
  PROVE  TextInv'
<1>0. CASE UNCHANGED svars
  BY <1>0 DEF TextInv, Alone, svars, keyvars, bufvars, cntvars
<1>1. CASE SNext /\ sdrv # "my_proc"
  BY <1>1, WhichDriver DEF TextInv
<1>2. CASE sdrv = "my_proc" /\ TextStep
  <2>0. sdrv' = sdrv
    BY <1>2 DEF TextStep, my_proc_exit, proc_write, proc_write_alloc, proc_write_copy,
                proc_write_undo, proc_read, proc_read_print
  <2> USE <1>2, <2>0, SharedAssumption DEF TextInv, Alone, SAt, SGoto, Enters, kfree
  <2>1. CASE my_proc_exit
    BY <2>1 DEF my_proc_exit
  <2>2. ASSUME NEW t \in SThreads, proc_write(t) PROVE TextInv'
    BY <2>2 DEF proc_write
  <2>3. ASSUME NEW t \in SThreads, proc_write_alloc(t) PROVE TextInv'
    <3>1. /\ spc[t] = "alloc" /\ kfaults = {} /\ UNCHANGED <<failed, kfaults, crossed>>
          /\ sptr' = [sptr EXCEPT ![t] = ker_buf']
      BY <2>3 DEF proc_write_alloc
    <3>2. ~ crossed => alive = {} /\ \A u \in SThreads : u # t => spc[u] = "idle"
      BY <3>1
    <3>3. CASE ker_buf' = "NULL" /\ SGoto(t, "idle") /\ UNCHANGED <<alive, full, long, odd>>
      BY <3>1, <3>2, <3>3
    <3>4. CASE /\ ker_buf' = "empty" /\ odd' = TRUE /\ SGoto(t, "copy")
               /\ UNCHANGED <<alive, full, long>>
      BY <3>1, <3>2, <3>4
    <3>5. CASE /\ ker_buf' \in BufIds \ alive /\ alive' = alive \cup {ker_buf'}
               /\ full' = full \ {ker_buf'} /\ long' = long \ {ker_buf'}
               /\ SGoto(t, "copy") /\ odd' = odd
      BY <3>1, <3>2, <3>5
    <3> QED
      BY <2>3, <3>3, <3>4, <3>5 DEF proc_write_alloc
  <2>4. ASSUME NEW t \in SThreads, proc_write_copy(t) PROVE TextInv'
    <3>1. /\ spc[t] = "copy" /\ kfaults = {}
          /\ UNCHANGED <<ker_buf, alive, sptr, failed, crossed>>
          /\ kfaults' = IF sptr[t] \in BufIds \ alive THEN {"written"} ELSE {}
      BY <2>4 DEF proc_write_copy
    <3>2. PICK l \in {"idle", "undo"} : spc' = [spc EXCEPT ![t] = l]
      BY <2>4 DEF proc_write_copy
    <3>3. UNCHANGED <<full, odd>> \/ odd' = TRUE
      BY <2>4 DEF proc_write_copy
    <3>4. odd' \in BOOLEAN /\ (~ odd' => ~ odd /\ full' = {})
      BY <3>3
    <3>5. /\ kfaults' # {} => crossed \/ failed \/ odd
          /\ "page overrun" \notin kfaults'
      BY <3>1
    <3>6. ~ crossed => \A u \in SThreads : u # t => spc[u] = "idle"
      BY <3>1
    <3> QED
      BY <3>1, <3>2, <3>4, <3>5, <3>6
  <2>5. ASSUME NEW t \in SThreads, proc_write_undo(t) PROVE TextInv'
    BY <2>5 DEF proc_write_undo
  <2>6. ASSUME NEW t \in SThreads, proc_read(t) PROVE TextInv'
    BY <2>6 DEF proc_read
  <2>7. ASSUME NEW t \in SThreads, proc_read_print(t) PROVE TextInv'
    BY <2>7 DEF proc_read_print
  <2> QED
    BY <2>1, <2>2, <2>3, <2>4, <2>5, <2>6, <2>7 DEF TextStep
<1> QED
  BY <1>0, <1>1, <1>2, WhichDriver

LEMMA TextRight == Quiet /\ TextInv => TextOwned
<1> SUFFICES ASSUME Quiet, TextInv PROVE TextOwned
  OBVIOUS
<1>1. /\ kfaults \ {"page overrun"} # {} => crossed \/ failed \/ odd
      /\ "page overrun" \in kfaults => crossed \/ ker_buf \in long
  BY DEF Quiet, TextInv
<1>2. ASSUME sdrv = "my_proc", ~ crossed PROVE Cardinality(alive) <= 1
  <2>1. alive \subseteq {ker_buf}
    BY <1>2 DEF TextInv
  <2>2. IsFiniteSet({ker_buf}) /\ Cardinality({ker_buf}) = 1
    BY FS_Singleton
  <2> QED
    BY <2>1, <2>2, FS_Subset
<1>3. ASSUME sdrv = "my_proc", ~ crossed, \A t \in SThreads : spc[t] = "gone"
      PROVE  alive = {}
  BY <1>3, SharedAssumption DEF TextInv
<1> QED
  BY <1>1, <1>2, <1>3 DEF TextOwned

(***************************************************************************)
(* interrupt/like_irq.c.  The places before pos hold keys, but for the one *)
(* that the handler has still to store.                                    *)
(***************************************************************************)
KeyType ==
    /\ spc \in [SThreads -> {"init", "idle", "loop", "reset"}]
    /\ pos \in 0 .. KEY_BUF /\ nkeys \in Nat
    /\ key_buf \in [0 .. KEY_BUF - 1 -> Nat] /\ ki \in [SThreads -> Nat]
    /\ handler.at \in 0 .. KEY_BUF - 1 /\ handler.todo \subseteq {"byte", "pos"}
    /\ handler = Idle <=> handler.todo = {}
    /\ DOMAIN handler = {"at", "todo"}
    /\ torn \in BOOLEAN /\ crossed \in BOOLEAN

Holds(i) == i \in 0 .. pos - 1 /\ ~ ("byte" \in handler.todo /\ i = handler.at)

\* The handler's key is the newest, and is nowhere yet.
HandlerInv ==
    handler # Idle =>
       /\ nkeys >= 1 /\ nkeys \notin shown
       /\ handler.at = IF "pos" \in handler.todo THEN pos ELSE pos - 1
       /\ "byte" \notin handler.todo => key_buf[handler.at] = nkeys
       /\ \A i \in 0 .. KEY_BUF - 1 : Holds(i) => key_buf[i] # nkeys

\* Every key is somewhere, and no two places hold the same.
PlacesInv ==
    /\ \A i \in 0 .. KEY_BUF - 1 : Holds(i) => key_buf[i] \in 1 .. nkeys
    /\ \A i, j \in 0 .. KEY_BUF - 1 :
          Holds(i) /\ Holds(j) /\ i # j => key_buf[i] # key_buf[j]
    /\ shown \subseteq 1 .. nkeys /\ twice = {}
    /\ \A k \in 1 .. nkeys :
          \/ k = nkeys /\ handler # Idle
          \/ k \in shown \/ k \in late \/ k \in refused
          \/ \E i \in 0 .. KEY_BUF - 1 : Holds(i) /\ key_buf[i] = k

\* pos counts a key that is not in the buffer yet.
Counted == handler.todo = {"byte"}

\* A reader has shown the places before its own, and only those.
BehindShown ==
    \A t \in SThreads : spc[t] \in {"loop", "reset"} =>
       /\ ki[t] >= 1 /\ ki[t] - 1 <= pos
       /\ Counted => handler.at >= ki[t] - 1
       /\ \A i \in 0 .. KEY_BUF - 1 : Holds(i) /\ i < ki[t] - 1 => key_buf[i] \in shown

AheadNew ==
    \A t \in SThreads : spc[t] = "loop" => \A i \in 0 .. KEY_BUF - 1 :
       Holds(i) /\ i >= ki[t] - 1 => key_buf[i] \notin shown

\* What is in the buffer when pos is about to be cleared, and was not shown.
RestLate ==
    \A t \in SThreads : spc[t] = "reset" =>
       /\ \A i \in 0 .. KEY_BUF - 1 : Holds(i) /\ i >= ki[t] - 1 => key_buf[i] \in late
       /\ Counted => nkeys \in late

WaitingNew ==
    (\A t \in SThreads : spc[t] \notin {"loop", "reset"}) =>
       \A i \in 0 .. KEY_BUF - 1 : Holds(i) => key_buf[i] \notin shown

InitLate ==
    (\A t \in SThreads : spc[t] = "init") =>
       /\ \A i \in 0 .. KEY_BUF - 1 : Holds(i) => key_buf[i] \in late
       /\ Counted => nkeys \in late

ReaderInv == BehindShown /\ AheadNew /\ RestLate /\ WaitingNew /\ InitLate

KeyInv ==
    sdrv = "like_irq" =>
       /\ KeyType
       /\ (\E t \in SThreads : spc[t] = "init") => \A t \in SThreads : spc[t] = "init"
       /\ ~ crossed => Alone \/ \A t \in SThreads : spc[t] = "init"
       /\ ~ crossed /\ ~ torn => HandlerInv /\ PlacesInv /\ ReaderInv

LEMMA KeyInit == SInit => KeyInv
<1> SUFFICES ASSUME SInit, sdrv = "like_irq" PROVE KeyInv
  BY DEF KeyInv
<1> USE SharedAssumption
<1>1. torn \in BOOLEAN /\ crossed \in BOOLEAN
  BY Zenon DEF SInit
<1>2. KeyType
  BY <1>1 DEF SInit, KeyType, Idle
<1>3. HandlerInv /\ PlacesInv /\ ReaderInv
  BY DEF SInit, HandlerInv, PlacesInv, ReaderInv, BehindShown, AheadNew, RestLate,
         WaitingNew, InitLate, Counted, Holds, Idle
<1> QED
  BY <1>2, <1>3 DEF SInit, KeyInv

LEMMA KeyTypeStep ==
  ASSUME KeyInv, sdrv = "like_irq", KeyStep
  PROVE  /\ KeyType'
         /\ (\E t \in SThreads : spc'[t] = "init") => \A t \in SThreads : spc'[t] = "init"
         /\ ~ crossed' => ~ crossed /\ (Alone' \/ \A t \in SThreads : spc'[t] = "init")
         /\ ~ torn' => ~ torn
<1>1. /\ KeyType
      /\ (\E t \in SThreads : spc[t] = "init") => \A t \in SThreads : spc[t] = "init"
      /\ ~ crossed => Alone \/ \A t \in SThreads : spc[t] = "init"
  BY DEF KeyInv
<1> USE <1>1, SharedAssumption
    DEF KeyType, Alone, Idle, keyvars, bufvars, cntvars, SAt, SGoto, Enters
<1>2. CASE like_irq_pos
  BY <1>2 DEF like_irq_pos
<1>3. ASSUME key_service PROVE KeyType' /\ UNCHANGED <<spc, crossed, torn>>
  <2>1. /\ handler' = [at |-> pos, todo |-> {"byte", "pos"}] /\ pos < KEY_BUF
        /\ nkeys' = nkeys + 1 /\ UNCHANGED <<spc, key_buf, pos, ki, torn, crossed>>
    BY <1>3 DEF key_service
  <2>2. /\ handler'.at \in 0 .. KEY_BUF - 1 /\ handler'.todo = {"byte", "pos"}
        /\ DOMAIN handler' = {"at", "todo"}
    BY <2>1
  <2>3. "byte" \in handler'.todo /\ Idle.todo = {}
    BY <2>2
  <2>4. nkeys' \in Nat
    BY <2>1
  <2>5. handler' # Idle /\ handler'.todo # {}
    BY <2>3, Zenon
  <2> QED
    BY <2>1, <2>2, <2>3, <2>4, <2>5
<1>4. ASSUME NEW what \in {"byte", "pos"}, key_store(what)
      PROVE  /\ KeyType' /\ UNCHANGED <<spc, crossed, torn>>
  <2>1. /\ UNCHANGED <<spc, nkeys, ki, crossed, torn>> /\ what \in handler.todo
        /\ key_buf' = key_buf \/ key_buf' = [key_buf EXCEPT ![handler.at] = nkeys]
        /\ pos' = pos \/ pos' = handler.at + 1
    BY <1>4 DEF key_store
  <2>2. key_buf' \in [0 .. KEY_BUF - 1 -> Nat] /\ pos' \in 0 .. KEY_BUF
    <3>1. /\ handler.at \in 0 .. KEY_BUF - 1 /\ KEY_BUF \in Nat /\ pos \in 0 .. KEY_BUF
          /\ nkeys \in Nat /\ key_buf \in [0 .. KEY_BUF - 1 -> Nat]
      OBVIOUS
    <3> HIDE DEF KeyType
    <3>2. pos' \in 0 .. KEY_BUF
      BY <2>1, <3>1
    <3>3. key_buf' \in [0 .. KEY_BUF - 1 -> Nat]
      BY <2>1, <3>1
    <3> QED
      BY <3>2, <3>3
  <2>3. CASE handler' = Idle
    BY <2>1, <2>2, <2>3
  <2>4. CASE handler.todo # {what} /\ handler' = [handler EXCEPT !.todo = @ \ {what}]
    <3>1. /\ handler'.at = handler.at /\ handler'.todo = handler.todo \ {what}
          /\ DOMAIN handler' = {"at", "todo"}
      BY <2>4
    <3>2. handler'.todo # {}
      BY <2>1, <2>4, <3>1
    <3>3. handler' # Idle
      BY <3>2
    <3> QED
      BY <2>1, <2>2, <3>1, <3>2, <3>3
  <2> QED
    BY <1>4, <2>3, <2>4 DEF key_store
<1>5. ASSUME NEW t \in SThreads, my_proc_call(t)
      PROVE  /\ KeyType' /\ UNCHANGED torn
             /\ ~ crossed' => ~ crossed /\ Alone'
             /\ \A u \in SThreads : spc'[u] # "init"
  BY <1>5 DEF my_proc_call
<1>6. ASSUME NEW t \in SThreads, my_proc_loop(t)
      PROVE  /\ KeyType' /\ UNCHANGED crossed
             /\ ~ crossed' => Alone'
             /\ \A u \in SThreads : spc'[u] # "init"
             /\ ~ torn' => ~ torn
  <2>1. spc[t] = "loop" /\ UNCHANGED <<key_buf, pos, nkeys, handler, crossed>>
    BY <1>6 DEF my_proc_loop
  <2>4. my_proc_show(t) \/ (SGoto(t, "reset") /\ UNCHANGED <<ki, torn>>)
    BY <1>6, Zenon DEF my_proc_loop
  <2>2. CASE my_proc_show(t)
    <3>1. torn' \in BOOLEAN /\ (~ torn' => ~ torn)
      BY <2>2, Zenon DEF my_proc_show
    <3>2. spc' = spc /\ ki' = [ki EXCEPT ![t] = ki[t] + 1]
      BY <2>2 DEF my_proc_show
    <3>3. ki' \in [SThreads -> Nat]
      BY <3>2
    <3> QED
      BY <2>1, <3>1, <3>2, <3>3
  <2>3. CASE SGoto(t, "reset") /\ UNCHANGED <<ki, torn>>
    BY <2>1, <2>3
  <2> QED
    BY <2>2, <2>3, <2>4
<1>7. ASSUME NEW t \in SThreads, my_proc_reset(t)
      PROVE  /\ KeyType' /\ UNCHANGED crossed
             /\ ~ crossed' => Alone'
             /\ \A u \in SThreads : spc'[u] # "init"
             /\ ~ torn' => ~ torn
  BY <1>7 DEF my_proc_reset
<1>8. ASSUME key_service_full PROVE KeyType' /\ UNCHANGED <<spc, crossed, torn>>
  BY <1>8 DEF key_service_full
<1> QED
  BY <1>2, <1>3, <1>4, <1>5, <1>6, <1>7, <1>8 DEF KeyStep

\* What the order layer may take for granted.
KeyHyp == /\ sdrv = "like_irq" /\ KeyType /\ KeyType' /\ HandlerInv /\ PlacesInv /\ ReaderInv
          /\ Alone \/ \A t \in SThreads : spc[t] = "init"
          /\ (\E t \in SThreads : spc[t] = "init") => \A t \in SThreads : spc[t] = "init"
          /\ ~ torn'

Placed == HandlerInv /\ PlacesInv /\ ReaderInv

LEMMA PlacedInitPos == KeyHyp /\ like_irq_pos => Placed'
<1> SUFFICES ASSUME KeyHyp, like_irq_pos PROVE Placed'
  OBVIOUS
<1> USE DEF KeyHyp, KeyType, like_irq_pos
<1>1. /\ handler = Idle /\ pos' = 0 /\ \A t \in SThreads : spc[t] = "init" /\ spc'[t] = "idle"
      /\ UNCHANGED <<key_buf, nkeys, handler, ki, shown, twice, late, refused>>
  OBVIOUS
<1>2. \A i \in 0 .. KEY_BUF - 1 : ~ Holds(i)'
  BY <1>1 DEF Holds
<1> QED
  BY <1>1, <1>2 DEF Placed, HandlerInv, PlacesInv, ReaderInv, BehindShown, AheadNew,
                     RestLate, WaitingNew, InitLate, Counted, Idle

LEMMA PlacedService == KeyHyp /\ key_service => Placed'
<1> SUFFICES ASSUME KeyHyp, key_service PROVE Placed'
  OBVIOUS
<1> USE DEF KeyHyp, KeyType, key_service
<1>1. /\ handler = Idle /\ handler.todo = {} /\ nkeys' = nkeys + 1 /\ pos < KEY_BUF
      /\ handler'.at = pos /\ handler'.todo = {"byte", "pos"} /\ handler' # Idle
      /\ UNCHANGED <<spc, key_buf, pos, ki, shown, twice, late, refused>>
  BY DEF Idle
<1>2. \A i \in 0 .. KEY_BUF - 1 : Holds(i)' <=> Holds(i)
  BY <1>1 DEF Holds
<1>3. HandlerInv'
  BY <1>1, <1>2 DEF HandlerInv, PlacesInv
<1>4. PlacesInv'
  <2>1. 1 .. nkeys \subseteq 1 .. nkeys' /\ nkeys' \in Nat
    BY <1>1
  <2>2. \A k \in 1 .. nkeys' : k \in 1 .. nkeys \/ k = nkeys'
    BY <1>1
  <2> QED
    BY <1>1, <1>2, <2>1, <2>2 DEF PlacesInv
<1>5. ReaderInv'
  <2>1. ~ Counted'
    BY <1>1 DEF Counted
  <2>2. BehindShown'
    BY <1>1, <1>2, <2>1 DEF ReaderInv, BehindShown
  <2>3. AheadNew'
    BY <1>1, <1>2, <2>1 DEF ReaderInv, AheadNew
  <2>4. RestLate'
    BY <1>1, <1>2, <2>1 DEF ReaderInv, RestLate
  <2>5. WaitingNew'
    BY <1>1, <1>2, <2>1 DEF ReaderInv, WaitingNew
  <2>6. InitLate'
    BY <1>1, <1>2, <2>1 DEF ReaderInv, InitLate
  <2> QED
    BY <2>2, <2>3, <2>4, <2>5, <2>6 DEF ReaderInv
<1> QED
  BY <1>3, <1>4, <1>5 DEF Placed

LEMMA PlacedFull == KeyHyp /\ key_service_full => Placed'
<1> SUFFICES ASSUME KeyHyp, key_service_full PROVE Placed'
  OBVIOUS
<1> USE DEF KeyHyp, KeyType, key_service_full
<1>1. /\ handler = Idle /\ handler.todo = {} /\ nkeys' = nkeys + 1
      /\ refused' = refused \cup {nkeys'}
      /\ UNCHANGED <<spc, key_buf, pos, handler, ki, shown, twice, late>>
  BY DEF Idle
<1>2. \A i \in 0 .. KEY_BUF - 1 : Holds(i)' <=> Holds(i)
  BY <1>1 DEF Holds
<1>3. HandlerInv'
  BY <1>1 DEF HandlerInv
<1>4. PlacesInv'
  <2>1. 1 .. nkeys \subseteq 1 .. nkeys' /\ nkeys' \in Nat
    BY <1>1
  <2>2. \A k \in 1 .. nkeys' : k \in 1 .. nkeys \/ k \in refused'
    BY <1>1
  <2> QED
    BY <1>1, <1>2, <2>1, <2>2 DEF PlacesInv
<1>5. ReaderInv'
  <2>1. ~ Counted'
    BY <1>1 DEF Counted
  <2> QED
    BY <1>1, <1>2, <2>1 DEF ReaderInv, BehindShown, AheadNew, RestLate, WaitingNew, InitLate
<1> QED
  BY <1>3, <1>4, <1>5 DEF Placed

LEMMA PlacedByte == KeyHyp /\ key_store("byte") => Placed'
<1> SUFFICES ASSUME KeyHyp, key_store("byte") PROVE Placed'
  OBVIOUS
<1> USE DEF KeyHyp, KeyType
<1>1. /\ "byte" \in handler.todo /\ handler # Idle
      /\ key_buf' = [key_buf EXCEPT ![handler.at] = nkeys]
      /\ UNCHANGED <<spc, pos, nkeys, late, ki, shown, twice, refused>>
  BY DEF key_store, Idle
<1>2. /\ handler'.todo = handler.todo \ {"byte"}
      /\ handler' # Idle => handler'.at = handler.at
  BY DEF key_store, Idle
<1>3. \A i \in 0 .. KEY_BUF - 1 :
         key_buf'[i] = IF i = handler.at THEN nkeys ELSE key_buf[i]
  BY <1>1
<1>4. \A i \in 0 .. KEY_BUF - 1 :
         /\ Holds(i)' <=> Holds(i) \/ (i = handler.at /\ "pos" \notin handler.todo)
         /\ Holds(i) => i # handler.at
  BY <1>1, <1>2 DEF Holds, HandlerInv
<1>5. HandlerInv'
  BY <1>1, <1>2, <1>3, <1>4 DEF HandlerInv, Holds
<1>6. PlacesInv'
  <2>1. handler.at \in 0 .. KEY_BUF - 1 /\ nkeys \in 1 .. nkeys
    BY <1>1 DEF HandlerInv
  <2>2. \A i \in 0 .. KEY_BUF - 1 : Holds(i)' => key_buf'[i] \in 1 .. nkeys
    BY <1>3, <1>4, <2>1 DEF PlacesInv
  <2>3. \A i, j \in 0 .. KEY_BUF - 1 :
           Holds(i)' /\ Holds(j)' /\ i # j => key_buf'[i] # key_buf'[j]
    BY <1>1, <1>3, <1>4 DEF PlacesInv, HandlerInv
  <2>4. ASSUME NEW k \in 1 .. nkeys
        PROVE  \/ k = nkeys /\ handler' # Idle
               \/ k \in shown \/ k \in late \/ k \in refused
               \/ \E i \in 0 .. KEY_BUF - 1 : Holds(i)' /\ key_buf'[i] = k
    <3>1. CASE k = nkeys /\ handler' = Idle
      <4>1. "pos" \notin handler.todo
        BY <1>2, <3>1 DEF Idle
      <4>2. PICK i \in 0 .. KEY_BUF - 1 : i = handler.at
        BY <2>1
      <4> QED
        BY <1>3, <1>4, <3>1, <4>1, <4>2
    <3>2. CASE k # nkeys
      BY <1>3, <1>4, <3>2 DEF PlacesInv
    <3> QED
      BY <3>1, <3>2
  <2> QED
    BY <1>1, <2>2, <2>3, <2>4 DEF PlacesInv
<1>7. ReaderInv'
  <2>1. ~ Counted' /\ nkeys \notin shown
    BY <1>1, <1>2 DEF HandlerInv, Counted
  <2>2. "pos" \notin handler.todo => Counted
    BY <1>1 DEF Counted
  <2>3. BehindShown'
    BY <1>1, <1>3, <1>4, <2>1, <2>2 DEF ReaderInv, BehindShown
  <2>4. AheadNew'
    BY <1>1, <1>3, <1>4, <2>1 DEF ReaderInv, AheadNew
  <2>5. RestLate'
    BY <1>1, <1>3, <1>4, <2>1, <2>2 DEF ReaderInv, RestLate
  <2>6. WaitingNew'
    BY <1>1, <1>3, <1>4, <2>1 DEF ReaderInv, WaitingNew
  <2>7. InitLate'
    BY <1>1, <1>3, <1>4, <2>1, <2>2 DEF ReaderInv, InitLate
  <2> QED
    BY <2>3, <2>4, <2>5, <2>6, <2>7 DEF ReaderInv
<1> QED
  BY <1>5, <1>6, <1>7 DEF Placed

LEMMA PlacedPos == KeyHyp /\ key_store("pos") => Placed'
<1> SUFFICES ASSUME KeyHyp, key_store("pos") PROVE Placed'
  OBVIOUS
<1> USE DEF KeyHyp, KeyType
<1>1. /\ "pos" \in handler.todo /\ handler # Idle /\ handler.at = pos /\ pos' = pos + 1
      /\ UNCHANGED <<spc, key_buf, nkeys, ki, shown, twice, refused>>
      /\ late \subseteq late'
      /\ (\E t \in SThreads : spc[t] \in {"init", "reset"}) => nkeys \in late'
  BY DEF key_store, Idle, HandlerInv
<1>2. /\ handler'.todo = handler.todo \ {"pos"}
      /\ handler' # Idle => handler'.at = handler.at
  BY DEF key_store, Idle
<1>3. \A i \in 0 .. KEY_BUF - 1 :
         Holds(i)' <=> Holds(i) \/ (i = handler.at /\ "byte" \notin handler.todo)
  BY <1>1, <1>2 DEF Holds
<1>4. HandlerInv'
  BY <1>1, <1>2, <1>3 DEF HandlerInv, Holds
<1>5. PlacesInv'
  BY <1>1, <1>2, <1>3 DEF PlacesInv, HandlerInv, Holds
<1>6. ReaderInv'
  <2>1. nkeys \notin shown /\ ("byte" \notin handler.todo => key_buf[handler.at] = nkeys)
    BY <1>1 DEF HandlerInv
  <2>2. Counted' => handler'.at = pos
    BY <1>1, <1>2 DEF Idle, Counted
  <2>3. BehindShown'
    BY <1>1, <1>3, <2>1, <2>2 DEF ReaderInv, BehindShown
  <2>4. AheadNew'
    BY <1>1, <1>3, <2>1 DEF ReaderInv, AheadNew
  <2>5. RestLate'
    BY <1>1, <1>3, <2>1 DEF ReaderInv, RestLate
  <2>6. WaitingNew'
    BY <1>1, <1>3, <2>1 DEF ReaderInv, WaitingNew
  <2>7. InitLate'
    BY <1>1, <1>3, <2>1, SharedAssumption DEF ReaderInv, InitLate
  <2> QED
    BY <2>3, <2>4, <2>5, <2>6, <2>7 DEF ReaderInv
<1> QED
  BY <1>4, <1>5, <1>6 DEF Placed

LEMMA PlacedCall ==
  ASSUME NEW t \in SThreads, KeyHyp, my_proc_call(t), ~ crossed' PROVE Placed'
<1> USE DEF KeyHyp, KeyType
<1>0. KEY_BUF \in Nat /\ ki[t] \in Nat /\ pos \in Nat /\ handler.at \in Nat
  BY SharedAssumption
<1>1. /\ spc' = [spc EXCEPT ![t] = "loop"] /\ ki' = [ki EXCEPT ![t] = 1]
      /\ UNCHANGED <<key_buf, pos, nkeys, handler, shown, twice, late, refused>>
  BY DEF my_proc_call, Enters, SGoto
<1>2. \A u \in SThreads : spc[u] = "idle"
  BY DEF my_proc_call, Enters
<1>3. \A i \in 0 .. KEY_BUF - 1 : Holds(i)' <=> Holds(i)
  BY <1>1 DEF Holds
<1>4. HandlerInv' /\ PlacesInv'
  BY <1>1, <1>3 DEF HandlerInv, PlacesInv
<1>5. Counted' <=> Counted
  BY <1>1 DEF Counted
<1>6. \A u \in SThreads : spc'[u] = (IF u = t THEN "loop" ELSE "idle")
  BY <1>1, <1>2
<1>7. ki'[t] = 1 /\ pos' \in Nat /\ handler'.at \in Nat
  BY <1>1
<1>8. BehindShown'
  <2>1. /\ ki'[t] >= 1 /\ ki'[t] - 1 <= pos' /\ handler'.at >= ki'[t] - 1
        /\ \A i \in 0 .. KEY_BUF - 1 : ~ (i < ki'[t] - 1)
    <3> HIDE DEF KeyHyp
    <3> QED
      BY <1>0, <1>7
  <2> QED
    BY <1>6, <2>1 DEF BehindShown
<1>9. AheadNew' /\ RestLate' /\ WaitingNew' /\ InitLate'
  BY <1>1, <1>2, <1>3, <1>6, <1>7
     DEF AheadNew, RestLate, WaitingNew, InitLate, ReaderInv
<1> QED
  BY <1>4, <1>8, <1>9 DEF Placed, ReaderInv

LEMMA PlacedShow ==
  ASSUME NEW t \in SThreads, KeyHyp, my_proc_loop(t), ki[t] <= pos PROVE Placed'
<1> USE DEF KeyHyp, KeyType
<1>0. KEY_BUF \in Nat /\ ki[t] \in Nat /\ pos \in Nat /\ handler.at \in Nat
  BY SharedAssumption
<1> DEFINE p == ki[t] - 1
<1>1. /\ spc[t] = "loop" /\ my_proc_show(t)
      /\ UNCHANGED <<key_buf, pos, nkeys, handler, late, refused>>
  BY DEF my_proc_loop, SAt
<1>2. spc' = spc /\ ki' = [ki EXCEPT ![t] = ki[t] + 1] /\ shown' = shown \cup {key_buf[p]}
      /\ twice' = twice \cup (shown \cap {key_buf[p]})
  BY <1>1 DEF my_proc_show
<1>3. ~ ("byte" \in handler.todo /\ handler.at = p)
  BY <1>1, Zenon DEF my_proc_show
<1>4. p \in 0 .. KEY_BUF - 1 /\ p \in 0 .. pos - 1
  <2>1. ki[t] >= 1 /\ pos <= KEY_BUF
    BY <1>0, <1>1 DEF ReaderInv, BehindShown
  <2> HIDE DEF KeyHyp
  <2> QED
    BY <1>0, <2>1
<1>5. Holds(p)
  BY <1>3, <1>4 DEF Holds
<1>6. \A i \in 0 .. KEY_BUF - 1 : Holds(i)' <=> Holds(i)
  BY <1>1 DEF Holds
<1>7. key_buf[p] \notin shown /\ key_buf[p] \in 1 .. nkeys
  BY <1>1, <1>4, <1>5 DEF ReaderInv, AheadNew, PlacesInv
<1>8. handler # Idle => key_buf[p] # nkeys
  BY <1>4, <1>5 DEF HandlerInv
<1> HIDE DEF p
<1>9. HandlerInv'
  BY <1>1, <1>2, <1>6, <1>8 DEF HandlerInv
<1>10. PlacesInv'
  <2>1. twice = {} /\ shown \subseteq 1 .. nkeys
    BY DEF PlacesInv
  <2>2. twice' = {} /\ shown' \subseteq 1 .. nkeys /\ shown \subseteq shown'
    <3> HIDE DEF KeyHyp
    <3> QED
      BY <1>2, <1>7, <2>1
  <2> QED
    BY <1>1, <1>6, <2>2 DEF PlacesInv
<1>11. \A u \in SThreads : u # t => spc[u] = "idle"
  BY <1>1 DEF Alone
<1>12. ki'[t] = ki[t] + 1 /\ p = ki[t] - 1 /\ ki[t] \in Nat
  BY <1>2 DEF p
<1>13. Counted' = Counted /\ (Counted => handler.at # p)
  BY <1>1, <1>3 DEF Counted
<1>14. /\ Counted => handler.at >= p
       /\ \A i \in 0 .. KEY_BUF - 1 : Holds(i) /\ i < p => key_buf[i] \in shown
       /\ \A i \in 0 .. KEY_BUF - 1 : Holds(i) /\ i >= p => key_buf[i] \notin shown
  BY <1>1, <1>12 DEF ReaderInv, BehindShown, AheadNew
<1>15. BehindShown'
  <2> SUFFICES /\ ki'[t] >= 1 /\ ki'[t] - 1 <= pos
               /\ Counted => handler.at >= ki'[t] - 1
               /\ \A i \in 0 .. KEY_BUF - 1 : Holds(i) /\ i < ki'[t] - 1
                     => key_buf[i] \in shown'
    BY <1>1, <1>2, <1>6, <1>11, <1>13 DEF BehindShown
  <2> HIDE DEF KeyHyp
  <2>1. ki'[t] >= 1 /\ ki'[t] - 1 <= pos
    BY <1>0, <1>12
  <2>2. Counted => handler.at >= ki'[t] - 1
    BY <1>0, <1>12, <1>13, <1>14
  <2>3. ASSUME NEW i \in 0 .. KEY_BUF - 1, Holds(i), i < ki'[t] - 1
        PROVE  key_buf[i] \in shown'
    BY <2>3, <1>0, <1>2, <1>12, <1>14
  <2> QED
    BY <2>1, <2>2, <2>3
<1>16. AheadNew'
  <2> SUFFICES ASSUME NEW i \in 0 .. KEY_BUF - 1, Holds(i), i >= ki'[t] - 1
               PROVE  key_buf[i] \notin shown'
    BY <1>1, <1>2, <1>6, <1>11 DEF AheadNew
  <2>1. i # p /\ i >= p
    <3> HIDE DEF KeyHyp
    <3> QED
      BY <1>0, <1>12
  <2>2. key_buf[i] # key_buf[p]
    BY <2>1, <1>4, <1>5 DEF PlacesInv
  <2> QED
    BY <2>1, <2>2, <1>2, <1>14
<1>17. RestLate' /\ WaitingNew' /\ InitLate'
  BY <1>1, <1>2, <1>11 DEF RestLate, WaitingNew, InitLate
<1> QED
  BY <1>9, <1>10, <1>15, <1>16, <1>17 DEF Placed, ReaderInv

LEMMA PlacedLeave ==
  ASSUME NEW t \in SThreads, KeyHyp, my_proc_loop(t), ~ (ki[t] <= pos) PROVE Placed'
<1> USE DEF KeyHyp, KeyType
<1>0. KEY_BUF \in Nat /\ ki[t] \in Nat /\ pos \in Nat /\ handler.at \in Nat
  BY SharedAssumption
<1>1. /\ spc[t] = "loop" /\ spc' = [spc EXCEPT ![t] = "reset"]
      /\ UNCHANGED <<key_buf, pos, nkeys, handler, late, ki, shown, twice, refused>>
  BY DEF my_proc_loop, SAt, SGoto
<1>2. \A i \in 0 .. KEY_BUF - 1 : Holds(i)' <=> Holds(i)
  BY <1>1 DEF Holds
<1>3. HandlerInv' /\ PlacesInv'
  BY <1>1, <1>2 DEF HandlerInv, PlacesInv
<1>4. ki[t] - 1 = pos
  <2>1. ki[t] - 1 <= pos
    BY <1>1 DEF ReaderInv, BehindShown
  <2> HIDE DEF KeyHyp
  <2> QED
    BY <1>0, <2>1
<1>5. \A u \in SThreads : spc'[u] = IF u = t THEN "reset" ELSE "idle"
  BY <1>1 DEF Alone
<1>6. ~ Counted
  <2> SUFFICES ASSUME Counted PROVE FALSE
    OBVIOUS
  <2>1. handler.at >= pos
    BY <1>1, <1>4 DEF ReaderInv, BehindShown
  <2>2. "pos" \notin handler.todo /\ handler # Idle
    BY DEF Counted, Idle
  <2>3. handler.at = pos - 1
    BY <2>2 DEF HandlerInv
  <2> QED
    BY <2>1, <2>3
<1>7. ~ Counted'
  BY <1>1, <1>6 DEF Counted
<1>8. BehindShown'
  BY <1>1, <1>2, <1>5, <1>7 DEF ReaderInv, BehindShown
<1>9. AheadNew' /\ WaitingNew' /\ InitLate'
  BY <1>5 DEF AheadNew, WaitingNew, InitLate
<1>10. RestLate'
  BY <1>1, <1>2, <1>4, <1>5, <1>7 DEF RestLate, Holds
<1> QED
  BY <1>3, <1>8, <1>9, <1>10 DEF Placed, ReaderInv

LEMMA PlacedReset ==
  ASSUME NEW t \in SThreads, KeyHyp, my_proc_reset(t) PROVE Placed'
<1> USE DEF KeyHyp, KeyType
<1>0. KEY_BUF \in Nat /\ ki[t] \in Nat /\ pos \in Nat /\ handler.at \in Nat
  BY SharedAssumption
<1>1. /\ spc[t] = "reset" /\ spc' = [spc EXCEPT ![t] = "idle"] /\ pos' = 0
      /\ UNCHANGED <<key_buf, nkeys, handler, late, ki, shown, twice, refused>>
  BY DEF my_proc_reset, SAt, SGoto
<1>2. handler = Idle
  BY Zenon DEF my_proc_reset
<1>3. \A i \in 0 .. KEY_BUF - 1 : ~ Holds(i)'
  BY <1>1 DEF Holds
<1>4. \A u \in SThreads : spc'[u] = "idle"
  BY <1>1 DEF Alone
<1>5. HandlerInv' /\ ReaderInv'
  BY <1>1, <1>2, <1>3, <1>4
     DEF HandlerInv, ReaderInv, BehindShown, AheadNew, RestLate, WaitingNew, InitLate
<1>6. \A k \in 1 .. nkeys : k \in shown \/ k \in late \/ k \in refused
  <2> SUFFICES ASSUME NEW k \in 1 .. nkeys, NEW i \in 0 .. KEY_BUF - 1,
                      Holds(i), key_buf[i] = k
               PROVE  k \in shown \/ k \in late \/ k \in refused
    BY <1>2 DEF PlacesInv
  <2>1. i < ki[t] - 1 => k \in shown
    BY <1>1 DEF ReaderInv, BehindShown
  <2>2. i >= ki[t] - 1 => k \in late
    BY <1>1 DEF ReaderInv, RestLate
  <2>3. i < ki[t] - 1 \/ i >= ki[t] - 1
    <3> HIDE DEF KeyHyp
    <3> QED
      BY <1>0
  <2> QED
    BY <2>1, <2>2, <2>3
<1>7. PlacesInv'
  BY <1>1, <1>3, <1>6 DEF PlacesInv
<1> QED
  BY <1>5, <1>7 DEF Placed

LEMMA KeyInvStep == Quiet /\ KeyInv /\ [SNext]_svars => KeyInv'
<1>0. ASSUME KeyInv, UNCHANGED svars PROVE KeyInv'
  BY <1>0 DEF KeyInv, KeyType, HandlerInv, PlacesInv, ReaderInv, BehindShown, AheadNew,
              RestLate, WaitingNew, InitLate, Counted, Holds, Alone,
              svars, keyvars, bufvars, cntvars
<1>1. ASSUME Quiet, KeyInv, SNext, sdrv = "like_irq" PROVE KeyInv'
  <2>1. sdrv' = sdrv /\ KeyStep
    BY <1>1, WhichDriver
  <2>2. /\ KeyType'
        /\ (\E t \in SThreads : spc'[t] = "init") => \A t \in SThreads : spc'[t] = "init"
        /\ ~ crossed' => ~ crossed /\ (Alone' \/ \A t \in SThreads : spc'[t] = "init")
        /\ ~ torn' => ~ torn
    BY <1>1, <2>1, KeyTypeStep
  <2>3. ASSUME ~ crossed', ~ torn' PROVE Placed'
    <3>1. KeyHyp
      BY <1>1, <2>2, <2>3 DEF KeyInv, KeyHyp
    <3>2. ASSUME NEW t \in SThreads, my_proc_loop(t) PROVE Placed'
      BY <3>1, <3>2, PlacedShow, PlacedLeave
    <3> QED
      BY <2>1, <2>3, <3>1, <3>2, PlacedInitPos, PlacedService, PlacedFull, PlacedByte,
         PlacedPos, PlacedCall, PlacedReset DEF KeyStep
  <2> QED
    BY <2>2, <2>3 DEF KeyInv, Placed
<1>2. ASSUME Quiet, SNext, sdrv # "like_irq" PROVE KeyInv'
  BY <1>2, WhichDriver DEF KeyInv
<1> QED
  BY <1>0, <1>1, <1>2

LEMMA KeysRight == Quiet /\ KeyInv => KeysShown
<1> SUFFICES ASSUME Quiet, KeyInv PROVE KeysShown
  OBVIOUS
<1>1. pos <= KEY_BUF
  BY SharedAssumption DEF Quiet, KeyInv, KeyType
<1>2. ASSUME sdrv = "like_irq", ~ crossed, ~ torn
      PROVE  /\ twice = {}
             /\ handler = Idle => \A k \in 1 .. nkeys :
                   \/ k \in shown \/ k \in late \/ k \in refused
                   \/ \E i \in 0 .. pos - 1 : key_buf[i] = k
  BY <1>2 DEF KeyInv, PlacesInv, Holds
<1> QED
  BY <1>1, <1>2 DEF KeysShown

(***************************************************************************)
(* The result.                                                             *)
(***************************************************************************)

\* What the unlocked variables of like_irq.c, my_proc.c, my_atomic.c and
\* irq_disable.c are good for, for any number of threads, keys and buffers and
\* any width of the unsigned count.
THEOREM CellsAreSafe == SSpec => []CellsSafe
<1>1. SInit => KeyInv /\ TextInv /\ AtomicInv /\ LineInv
  BY KeyInit, TextInit, AtomicInit, LineInit
<1>2. Quiet /\ (KeyInv /\ TextInv /\ AtomicInv /\ LineInv) /\ [SNext]_svars
         => (KeyInv /\ TextInv /\ AtomicInv /\ LineInv)'
  BY KeyInvStep, TextInvStep, AtomicInvStep, LineInvStep
<1>3. Quiet /\ KeyInv /\ TextInv /\ AtomicInv /\ LineInv => CellsSafe
  BY KeysRight, TextRight, CountsRight DEF CellsSafe
<1> QED
  BY <1>1, <1>2, <1>3, QuietAlways, PTL DEF SSpec
=============================================================================
