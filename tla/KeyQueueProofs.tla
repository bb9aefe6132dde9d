--------------------------- MODULE KeyQueueProofs ---------------------------
(***************************************************************************)
(* Proofs about the keyboard queue (module KeyQueue), for every number of  *)
(* CPUs, of keys and every request size.                                   *)
(*                                                                         *)
(* Six layers.  The life of the driver says who can run at all: at most    *)
(* one thread is in my_init or my_exit, readers only while the module is   *)
(* live, the handler only while struct mydev exists.  The lock layer adds  *)
(* who holds my_lock, and that no thread holds it on a CPU on which the    *)
(* handler runs.  The count layer relates key_count and key_list inside    *)
(* the critical sections.  The order layer compares the keys in the        *)
(* handler, on the list and in the readers' buffers, and the memory layer  *)
(* accounts for every item and buffer that is allocated.  The last layer   *)
(* shows that a read takes effect at once, when it computes how many keys  *)
(* it gets: the queue implements AtomicKeys.                               *)
(***************************************************************************)
EXTENDS KeyQueue, FiniteSetTheorems, SequenceTheorems, TLAPS

InInit == {"init_dev", "init_irq", "init_cdev"}

InExit == {"exit_irq", "exit_sync", "exit_lock", "exit_cdev", "exit_free",
           "exit_dev"}

PcOK ==
    /\ pc \in [Cpus -> PCs]
    /\ irqoff \in [Cpus -> BOOLEAN]
    /\ hcpu \in Cpus \cup {None}
    /\ hpc \in {"none", "alloc", "lock", "add", "count"}
    /\ mod \in {"unloaded", "loading", "live", "unloading"}

(***************************************************************************)
(* Layer 1: the life of the driver.                                        *)
(***************************************************************************)
ModOK ==
    /\ \A c \in Cpus : /\ pc[c] \in InInit => mod = "loading"
                       /\ pc[c] \in InExit => mod = "unloading"
                       /\ pc[c] \in InRead => mod = "live"
    /\ \A c, d \in Cpus :
          pc[c] \in InInit \cup InExit /\ pc[d] \in InInit \cup InExit => c = d

DevOK ==
    /\ mod = "unloaded" => ~ dev
    /\ mod \in {"live", "unloading"} => dev
    /\ \A c \in Cpus : /\ pc[c] = "init_dev" => ~ dev
                       /\ pc[c] \in {"init_irq", "init_cdev"} => dev
                       /\ pc[c] = "init_irq" => hcpu = None /\ ~ irq

HandlerOK ==
    /\ hcpu # None => dev
    /\ irq => dev
    /\ cdev => mod \in {"live", "unloading"}
    /\ hcpu = None <=> hpc = "none"
    /\ \A c \in Cpus :
          /\ pc[c] \in InExit \ {"exit_irq"} => ~ irq
          /\ pc[c] \in {"exit_lock", "exit_cdev", "exit_free", "exit_dev"} =>
                hcpu = None
          /\ pc[c] \in {"exit_free", "exit_dev"} => ~ cdev

LifeInv == PcOK /\ ModOK /\ DevOK /\ HandlerOK

LEMMA LifeInit == Init => LifeInv
  BY ConstantsAssumption
     DEF Init, LifeInv, PcOK, ModOK, DevOK, HandlerOK, InInit, InExit, PCs, InRead,
         ReadLocked, ExitLocked

LEMMA PcStep == LifeInv /\ [Next]_vars => PcOK'
<1> SUFFICES ASSUME LifeInv, Next PROVE PcOK'
  BY DEF LifeInv, PcOK, vars, driver, queue, handler, thread
<1> USE ConstantsAssumption
    DEF LifeInv, PcOK, InInit, InExit,
        PCs, InRead, ReadLocked, ExitLocked, driver, queue, handler, thread
<1>A. ASSUME NEW c \in Cpus,
             Calls(c) \/ IrqEnter(c) \/ Locks(c) \/ my_init(c) \/ my_read(c)
                \/ my_exit(c)
      PROVE  PcOK'
  <2>1. CASE Insmod(c)
    BY <2>1 DEF Insmod, At, Goto
  <2>2. CASE ReadCall(c)
    BY <2>2 DEF ReadCall, At, Goto
  <2>3. CASE Rmmod(c)
    BY <2>3 DEF Rmmod, At, Goto
  <2>4. CASE IrqEnter(c)
    BY <2>4 DEF IrqEnter
  <2>5. CASE ReadLock(c)
    BY <2>5 DEF ReadLock, At, Goto, SpinLock
  <2>6. CASE ExitLock(c)
    BY <2>6 DEF ExitLock, At, Goto, SpinLock
  <2>7. CASE InitDev(c)
    BY <2>7 DEF InitDev, At, Goto
  <2>8. CASE InitFail(c)
    BY <2>8 DEF InitFail, At, Goto
  <2>9. CASE InitIrq(c)
    BY <2>9 DEF InitIrq, At, Goto
  <2>10. CASE InitCdev(c)
    BY <2>10 DEF InitCdev, At, Goto
  <2>11. CASE ReadIrqSave(c)
    BY <2>11 DEF ReadIrqSave, At, Goto
  <2>12. CASE ReadEmpty(c)
    BY <2>12 DEF ReadEmpty, At, Return, Goto, SpinUnlock, IrqRestore, min
  <2>13. CASE ReadMin(c)
    BY <2>13 DEF ReadMin, At, Goto, min
  <2>14. CASE ReadNoMem(c)
    BY <2>14 DEF ReadNoMem, At, Return, Goto, SpinUnlock, IrqRestore
  <2>15. CASE ReadAlloc(c)
    BY <2>15 DEF ReadAlloc, At, Goto
  <2>16. CASE ReadTake(c)
    BY <2>16 DEF ReadTake, At, Goto
  <2>17. CASE ReadTaken(c)
    BY <2>17 DEF ReadTaken, At, Goto
  <2>18. CASE ReadSub(c)
    BY <2>18 DEF ReadSub, At, Goto, SpinUnlock, IrqRestore
  <2>19. CASE ReadCopy(c)
    BY <2>19 DEF ReadCopy, At, Return, Goto
  <2>20. CASE ExitIrq(c)
    BY <2>20 DEF ExitIrq, At, Goto
  <2>21. CASE ExitSync(c)
    BY <2>21 DEF ExitSync, At, Goto
  <2>22. CASE ExitCdev(c)
    BY <2>22 DEF ExitCdev, At, Goto
  <2>23. CASE ExitFree(c)
    BY <2>23 DEF ExitFree, At, Goto, SpinUnlock
  <2>24. CASE ExitDev(c)
    BY <2>24 DEF ExitDev, At, Goto
  <2> QED
    BY <1>A, <2>1, <2>2, <2>3, <2>4, <2>5, <2>6, <2>7, <2>8,
       <2>9, <2>10, <2>11, <2>12, <2>13, <2>14, <2>15, <2>16,
       <2>17, <2>18, <2>19, <2>20, <2>21, <2>22, <2>23, <2>24
       DEF Calls, Locks, my_init, my_read, my_exit
<1>1. CASE KeyPress
  BY <1>1 DEF KeyPress
<1>2. CASE KeyNoMem
  BY <1>2 DEF KeyNoMem
<1>3. CASE KeyAlloc
  BY <1>3 DEF KeyAlloc
<1>4. CASE KeyLock
  BY <1>4 DEF KeyLock, SpinLock
<1>5. CASE KeyAdd
  BY <1>5 DEF KeyAdd
<1>6. CASE KeyCount
  BY <1>6 DEF KeyCount, SpinUnlock
<1> QED
  BY <1>A, <1>1, <1>2, <1>3, <1>4, <1>5, <1>6 DEF Next, key_func

LEMMA ModStep == LifeInv /\ [Next]_vars => ModOK'
<1> SUFFICES ASSUME LifeInv, Next PROVE ModOK'
  BY DEF LifeInv, PcOK, ModOK, vars, driver, queue, handler, thread
<1> USE ConstantsAssumption
    DEF LifeInv, PcOK, ModOK, HandlerOK, InInit, InExit,
        PCs, InRead, ReadLocked, ExitLocked, driver, queue, handler, thread
<1>A. ASSUME NEW c \in Cpus,
             Calls(c) \/ IrqEnter(c) \/ Locks(c) \/ my_init(c) \/ my_read(c)
                \/ my_exit(c)
      PROVE  ModOK'
  <2>1. CASE Insmod(c)
    BY <2>1 DEF Insmod, At, Goto
  <2>2. CASE ReadCall(c)
    BY <2>2 DEF ReadCall, At, Goto
  <2>3. CASE Rmmod(c)
    BY <2>3 DEF Rmmod, At, Goto
  <2>4. CASE IrqEnter(c)
    BY <2>4 DEF IrqEnter
  <2>5. CASE ReadLock(c)
    BY <2>5 DEF ReadLock, At, Goto, SpinLock
  <2>6. CASE ExitLock(c)
    BY <2>6 DEF ExitLock, At, Goto, SpinLock
  <2>7. CASE InitDev(c)
    BY <2>7 DEF InitDev, At, Goto
  <2>8. CASE InitFail(c)
    BY <2>8 DEF InitFail, At, Goto
  <2>9. CASE InitIrq(c)
    BY <2>9 DEF InitIrq, At, Goto
  <2>10. CASE InitCdev(c)
    BY <2>10 DEF InitCdev, At, Goto
  <2>11. CASE ReadIrqSave(c)
    BY <2>11 DEF ReadIrqSave, At, Goto
  <2>12. CASE ReadEmpty(c)
    BY <2>12 DEF ReadEmpty, At, Return, Goto, SpinUnlock, IrqRestore, min
  <2>13. CASE ReadMin(c)
    BY <2>13 DEF ReadMin, At, Goto, min
  <2>14. CASE ReadNoMem(c)
    BY <2>14 DEF ReadNoMem, At, Return, Goto, SpinUnlock, IrqRestore
  <2>15. CASE ReadAlloc(c)
    BY <2>15 DEF ReadAlloc, At, Goto
  <2>16. CASE ReadTake(c)
    BY <2>16 DEF ReadTake, At, Goto
  <2>17. CASE ReadTaken(c)
    BY <2>17 DEF ReadTaken, At, Goto
  <2>18. CASE ReadSub(c)
    BY <2>18 DEF ReadSub, At, Goto, SpinUnlock, IrqRestore
  <2>19. CASE ReadCopy(c)
    BY <2>19 DEF ReadCopy, At, Return, Goto
  <2>20. CASE ExitIrq(c)
    BY <2>20 DEF ExitIrq, At, Goto
  <2>21. CASE ExitSync(c)
    BY <2>21 DEF ExitSync, At, Goto
  <2>22. CASE ExitCdev(c)
    BY <2>22 DEF ExitCdev, At, Goto
  <2>23. CASE ExitFree(c)
    BY <2>23 DEF ExitFree, At, Goto, SpinUnlock
  <2>24. CASE ExitDev(c)
    BY <2>24 DEF ExitDev, At, Goto
  <2> QED
    BY <1>A, <2>1, <2>2, <2>3, <2>4, <2>5, <2>6, <2>7, <2>8,
       <2>9, <2>10, <2>11, <2>12, <2>13, <2>14, <2>15, <2>16,
       <2>17, <2>18, <2>19, <2>20, <2>21, <2>22, <2>23, <2>24
       DEF Calls, Locks, my_init, my_read, my_exit
<1>1. CASE KeyPress
  BY <1>1 DEF KeyPress
<1>2. CASE KeyNoMem
  BY <1>2 DEF KeyNoMem
<1>3. CASE KeyAlloc
  BY <1>3 DEF KeyAlloc
<1>4. CASE KeyLock
  BY <1>4 DEF KeyLock, SpinLock
<1>5. CASE KeyAdd
  BY <1>5 DEF KeyAdd
<1>6. CASE KeyCount
  BY <1>6 DEF KeyCount, SpinUnlock
<1> QED
  BY <1>A, <1>1, <1>2, <1>3, <1>4, <1>5, <1>6 DEF Next, key_func

LEMMA DevStep == LifeInv /\ [Next]_vars => DevOK'
<1> SUFFICES ASSUME LifeInv, Next PROVE DevOK'
  BY DEF LifeInv, PcOK, DevOK, vars, driver, queue, handler, thread
<1> USE ConstantsAssumption
    DEF LifeInv, PcOK, ModOK, DevOK, HandlerOK, InInit, InExit,
        PCs, InRead, ReadLocked, ExitLocked, driver, queue, handler, thread
<1>A. ASSUME NEW c \in Cpus,
             Calls(c) \/ IrqEnter(c) \/ Locks(c) \/ my_init(c) \/ my_read(c)
                \/ my_exit(c)
      PROVE  DevOK'
  <2>1. CASE Insmod(c)
    BY <2>1 DEF Insmod, At, Goto
  <2>2. CASE ReadCall(c)
    BY <2>2 DEF ReadCall, At, Goto
  <2>3. CASE Rmmod(c)
    BY <2>3 DEF Rmmod, At, Goto
  <2>4. CASE IrqEnter(c)
    BY <2>4 DEF IrqEnter
  <2>5. CASE ReadLock(c)
    BY <2>5 DEF ReadLock, At, Goto, SpinLock
  <2>6. CASE ExitLock(c)
    BY <2>6 DEF ExitLock, At, Goto, SpinLock
  <2>7. CASE InitDev(c)
    BY <2>7 DEF InitDev, At, Goto
  <2>8. CASE InitFail(c)
    BY <2>8 DEF InitFail, At, Goto
  <2>9. CASE InitIrq(c)
    BY <2>9 DEF InitIrq, At, Goto
  <2>10. CASE InitCdev(c)
    BY <2>10 DEF InitCdev, At, Goto
  <2>11. CASE ReadIrqSave(c)
    BY <2>11 DEF ReadIrqSave, At, Goto
  <2>12. CASE ReadEmpty(c)
    BY <2>12 DEF ReadEmpty, At, Return, Goto, SpinUnlock, IrqRestore, min
  <2>13. CASE ReadMin(c)
    BY <2>13 DEF ReadMin, At, Goto, min
  <2>14. CASE ReadNoMem(c)
    BY <2>14 DEF ReadNoMem, At, Return, Goto, SpinUnlock, IrqRestore
  <2>15. CASE ReadAlloc(c)
    BY <2>15 DEF ReadAlloc, At, Goto
  <2>16. CASE ReadTake(c)
    BY <2>16 DEF ReadTake, At, Goto
  <2>17. CASE ReadTaken(c)
    BY <2>17 DEF ReadTaken, At, Goto
  <2>18. CASE ReadSub(c)
    BY <2>18 DEF ReadSub, At, Goto, SpinUnlock, IrqRestore
  <2>19. CASE ReadCopy(c)
    BY <2>19 DEF ReadCopy, At, Return, Goto
  <2>20. CASE ExitIrq(c)
    BY <2>20 DEF ExitIrq, At, Goto
  <2>21. CASE ExitSync(c)
    BY <2>21 DEF ExitSync, At, Goto
  <2>22. CASE ExitCdev(c)
    BY <2>22 DEF ExitCdev, At, Goto
  <2>23. CASE ExitFree(c)
    BY <2>23 DEF ExitFree, At, Goto, SpinUnlock
  <2>24. CASE ExitDev(c)
    BY <2>24 DEF ExitDev, At, Goto
  <2> QED
    BY <1>A, <2>1, <2>2, <2>3, <2>4, <2>5, <2>6, <2>7, <2>8,
       <2>9, <2>10, <2>11, <2>12, <2>13, <2>14, <2>15, <2>16,
       <2>17, <2>18, <2>19, <2>20, <2>21, <2>22, <2>23, <2>24
       DEF Calls, Locks, my_init, my_read, my_exit
<1>1. CASE KeyPress
  BY <1>1 DEF KeyPress
<1>2. CASE KeyNoMem
  BY <1>2 DEF KeyNoMem
<1>3. CASE KeyAlloc
  BY <1>3 DEF KeyAlloc
<1>4. CASE KeyLock
  BY <1>4 DEF KeyLock, SpinLock
<1>5. CASE KeyAdd
  BY <1>5 DEF KeyAdd
<1>6. CASE KeyCount
  BY <1>6 DEF KeyCount, SpinUnlock
<1> QED
  BY <1>A, <1>1, <1>2, <1>3, <1>4, <1>5, <1>6 DEF Next, key_func

LEMMA HandlerStep == LifeInv /\ [Next]_vars => HandlerOK'
<1> SUFFICES ASSUME LifeInv, Next PROVE HandlerOK'
  BY DEF LifeInv, PcOK, HandlerOK, vars, driver, queue, handler, thread
<1> USE ConstantsAssumption
    DEF LifeInv, PcOK, ModOK, DevOK, HandlerOK, InInit, InExit,
        PCs, InRead, ReadLocked, ExitLocked, driver, queue, handler, thread
<1>A. ASSUME NEW c \in Cpus,
             Calls(c) \/ IrqEnter(c) \/ Locks(c) \/ my_init(c) \/ my_read(c)
                \/ my_exit(c)
      PROVE  HandlerOK'
  <2>1. CASE Insmod(c)
    BY <2>1 DEF Insmod, At, Goto
  <2>2. CASE ReadCall(c)
    BY <2>2 DEF ReadCall, At, Goto
  <2>3. CASE Rmmod(c)
    BY <2>3 DEF Rmmod, At, Goto
  <2>4. CASE IrqEnter(c)
    BY <2>4 DEF IrqEnter
  <2>5. CASE ReadLock(c)
    BY <2>5 DEF ReadLock, At, Goto, SpinLock
  <2>6. CASE ExitLock(c)
    BY <2>6 DEF ExitLock, At, Goto, SpinLock
  <2>7. CASE InitDev(c)
    BY <2>7 DEF InitDev, At, Goto
  <2>8. CASE InitFail(c)
    BY <2>8 DEF InitFail, At, Goto
  <2>9. CASE InitIrq(c)
    BY <2>9 DEF InitIrq, At, Goto
  <2>10. CASE InitCdev(c)
    BY <2>10 DEF InitCdev, At, Goto
  <2>11. CASE ReadIrqSave(c)
    BY <2>11 DEF ReadIrqSave, At, Goto
  <2>12. CASE ReadEmpty(c)
    BY <2>12 DEF ReadEmpty, At, Return, Goto, SpinUnlock, IrqRestore, min
  <2>13. CASE ReadMin(c)
    BY <2>13 DEF ReadMin, At, Goto, min
  <2>14. CASE ReadNoMem(c)
    BY <2>14 DEF ReadNoMem, At, Return, Goto, SpinUnlock, IrqRestore
  <2>15. CASE ReadAlloc(c)
    BY <2>15 DEF ReadAlloc, At, Goto
  <2>16. CASE ReadTake(c)
    BY <2>16 DEF ReadTake, At, Goto
  <2>17. CASE ReadTaken(c)
    BY <2>17 DEF ReadTaken, At, Goto
  <2>18. CASE ReadSub(c)
    BY <2>18 DEF ReadSub, At, Goto, SpinUnlock, IrqRestore
  <2>19. CASE ReadCopy(c)
    BY <2>19 DEF ReadCopy, At, Return, Goto
  <2>20. CASE ExitIrq(c)
    BY <2>20 DEF ExitIrq, At, Goto
  <2>21. CASE ExitSync(c)
    BY <2>21 DEF ExitSync, At, Goto
  <2>22. CASE ExitCdev(c)
    BY <2>22 DEF ExitCdev, At, Goto
  <2>23. CASE ExitFree(c)
    BY <2>23 DEF ExitFree, At, Goto, SpinUnlock
  <2>24. CASE ExitDev(c)
    BY <2>24 DEF ExitDev, At, Goto
  <2> QED
    BY <1>A, <2>1, <2>2, <2>3, <2>4, <2>5, <2>6, <2>7, <2>8,
       <2>9, <2>10, <2>11, <2>12, <2>13, <2>14, <2>15, <2>16,
       <2>17, <2>18, <2>19, <2>20, <2>21, <2>22, <2>23, <2>24
       DEF Calls, Locks, my_init, my_read, my_exit
<1>1. CASE KeyPress
  BY <1>1 DEF KeyPress
<1>2. CASE KeyNoMem
  BY <1>2 DEF KeyNoMem
<1>3. CASE KeyAlloc
  BY <1>3 DEF KeyAlloc
<1>4. CASE KeyLock
  BY <1>4 DEF KeyLock, SpinLock
<1>5. CASE KeyAdd
  BY <1>5 DEF KeyAdd
<1>6. CASE KeyCount
  BY <1>6 DEF KeyCount, SpinUnlock
<1> QED
  BY <1>A, <1>1, <1>2, <1>3, <1>4, <1>5, <1>6 DEF Next, key_func

(***************************************************************************)
(* Layer 1 holds in every behaviour: load, unload, reads and interrupts    *)
(* may interleave as they like.                                            *)
(***************************************************************************)
LEMMA LifeAlways == Spec => []LifeInv
<1>1. LifeInv /\ [Next]_vars => LifeInv'
  BY PcStep, ModStep, DevStep, HandlerStep DEF LifeInv
<1> QED
  BY <1>1, LifeInit, PTL DEF Spec

(***************************************************************************)
(* Neither my_read nor key_func uses struct mydev after it has been freed  *)
(* (NoUseAfterFree), for any number of CPUs and keys: free_irq() waits for *)
(* the handler, and an open file keeps the module loaded.                  *)
(***************************************************************************)
THEOREM LifetimeCorrect == Spec => []NoUseAfterFree
<1>1. LifeInv => NoUseAfterFree
  BY DEF LifeInv, PcOK, ModOK, DevOK, HandlerOK, NoUseAfterFree, InInit, InExit,
         InRead, ReadLocked, ExitLocked
<1> QED
  BY <1>1, LifeAlways, PTL

(***************************************************************************)
(* Layer 2: the lock.  A reader asks for it with its interrupts disabled,  *)
(* so the handler is not, and will not be, on its CPU.                     *)
(***************************************************************************)
Holding == ReadLocked \cup ExitLocked

LockOK ==
    /\ my_lock \in Cpus \cup {None}
    /\ \A c \in Cpus : irqoff[c] => hcpu # c
    /\ \A c \in Cpus : pc[c] \in ReadLocked \cup {"read_lock"} => irqoff[c]
    /\ \A c \in Cpus : pc[c] \in Holding => my_lock = c
    /\ hpc \in {"add", "count"} => my_lock = hcpu
    /\ my_lock # None => \/ pc[my_lock] \in Holding
                         \/ hcpu = my_lock /\ hpc \in {"add", "count"}

LEMMA LockInit == Init => LockOK
  BY ConstantsAssumption
     DEF Init, LockOK, Holding, ReadLocked, ExitLocked

LEMMA LockStep == LifeInv /\ LockOK /\ [Next]_vars => LockOK'
<1> SUFFICES ASSUME LifeInv, LockOK, Next PROVE LockOK'
  BY DEF LockOK, vars, driver, queue, handler, thread
<1> USE ConstantsAssumption
    DEF LifeInv, PcOK, ModOK, DevOK, HandlerOK, LockOK, Holding, InInit, InExit,
        PCs, InRead, ReadLocked, ExitLocked, driver, queue, handler, thread
<1>A. ASSUME NEW c \in Cpus,
             Calls(c) \/ IrqEnter(c) \/ Locks(c) \/ my_init(c) \/ my_read(c)
                \/ my_exit(c)
      PROVE  LockOK'
  <2>1. CASE Insmod(c)
    BY <2>1 DEF Insmod, At, Goto
  <2>2. CASE ReadCall(c)
    BY <2>2 DEF ReadCall, At, Goto
  <2>3. CASE Rmmod(c)
    BY <2>3 DEF Rmmod, At, Goto
  <2>4. CASE IrqEnter(c)
    BY <2>4 DEF IrqEnter
  <2>5. CASE ReadLock(c)
    BY <2>5 DEF ReadLock, At, Goto, SpinLock
  <2>6. CASE ExitLock(c)
    BY <2>6 DEF ExitLock, At, Goto, SpinLock
  <2>7. CASE InitDev(c)
    BY <2>7 DEF InitDev, At, Goto
  <2>8. CASE InitFail(c)
    BY <2>8 DEF InitFail, At, Goto
  <2>9. CASE InitIrq(c)
    BY <2>9 DEF InitIrq, At, Goto
  <2>10. CASE InitCdev(c)
    BY <2>10 DEF InitCdev, At, Goto
  <2>11. CASE ReadIrqSave(c)
    BY <2>11 DEF ReadIrqSave, At, Goto
  <2>12. CASE ReadEmpty(c)
    BY <2>12 DEF ReadEmpty, At, Return, Goto, SpinUnlock, IrqRestore, min
  <2>13. CASE ReadMin(c)
    BY <2>13 DEF ReadMin, At, Goto, min
  <2>14. CASE ReadNoMem(c)
    BY <2>14 DEF ReadNoMem, At, Return, Goto, SpinUnlock, IrqRestore
  <2>15. CASE ReadAlloc(c)
    BY <2>15 DEF ReadAlloc, At, Goto
  <2>16. CASE ReadTake(c)
    BY <2>16 DEF ReadTake, At, Goto
  <2>17. CASE ReadTaken(c)
    BY <2>17 DEF ReadTaken, At, Goto
  <2>18. CASE ReadSub(c)
    BY <2>18 DEF ReadSub, At, Goto, SpinUnlock, IrqRestore
  <2>19. CASE ReadCopy(c)
    BY <2>19 DEF ReadCopy, At, Return, Goto
  <2>20. CASE ExitIrq(c)
    BY <2>20 DEF ExitIrq, At, Goto
  <2>21. CASE ExitSync(c)
    BY <2>21 DEF ExitSync, At, Goto
  <2>22. CASE ExitCdev(c)
    BY <2>22 DEF ExitCdev, At, Goto
  <2>23. CASE ExitFree(c)
    BY <2>23 DEF ExitFree, At, Goto, SpinUnlock
  <2>24. CASE ExitDev(c)
    BY <2>24 DEF ExitDev, At, Goto
  <2> QED
    BY <1>A, <2>1, <2>2, <2>3, <2>4, <2>5, <2>6, <2>7, <2>8,
       <2>9, <2>10, <2>11, <2>12, <2>13, <2>14, <2>15, <2>16,
       <2>17, <2>18, <2>19, <2>20, <2>21, <2>22, <2>23, <2>24
       DEF Calls, Locks, my_init, my_read, my_exit
<1>1. CASE KeyPress
  BY <1>1 DEF KeyPress
<1>2. CASE KeyNoMem
  BY <1>2 DEF KeyNoMem
<1>3. CASE KeyAlloc
  BY <1>3 DEF KeyAlloc
<1>4. CASE KeyLock
  BY <1>4 DEF KeyLock, SpinLock
<1>5. CASE KeyAdd
  BY <1>5 DEF KeyAdd
<1>6. CASE KeyCount
  BY <1>6 DEF KeyCount, SpinUnlock
<1> QED
  BY <1>A, <1>1, <1>2, <1>3, <1>4, <1>5, <1>6 DEF Next, key_func

LEMMA LockAlways == Spec => []LockOK
  BY LockInit, LockStep, LifeAlways, PTL DEF Spec

(***************************************************************************)
(* key_func never spins on a lock held by the thread it interrupted        *)
(* (NoSelfDeadlock): spin_lock_irqsave() in my_read and the order of       *)
(* free_irq() and spin_lock() in my_exit suffice.                          *)
(***************************************************************************)
THEOREM NoDeadlockOnLock == Spec => []NoSelfDeadlock
<1>1. LifeInv /\ LockOK => NoSelfDeadlock
  BY ConstantsAssumption
     DEF LifeInv, PcOK, HandlerOK, LockOK, NoSelfDeadlock, Holding, ReadLocked,
         ExitLocked
<1> QED
  BY <1>1, LifeAlways, LockAlways, PTL

(***************************************************************************)
(* Layer 3: the count.                                                     *)
(***************************************************************************)
ListOK ==
    /\ key_list \in Seq(Nat) /\ key_count \in Nat
    /\ pending \in Nat /\ tmp \in Nat /\ presses \in Nat
    /\ count \in [Cpus -> Nat] /\ kbuf \in [Cpus -> Seq(Nat)]

CountOK ==
    /\ hpc = "count" => Len(key_list) = key_count + 1
    /\ \A c \in Cpus :
          /\ pc[c] \in {"read_loop", "read_sub"} =>
                key_count = Len(key_list) + Len(kbuf[c])
          /\ pc[c] \in {"read_alloc", "read_loop", "read_sub"} =>
                count[c] <= key_count
          /\ pc[c] = "read_loop" => Len(kbuf[c]) <= count[c]
          /\ pc[c] = "read_sub" => Len(kbuf[c]) = count[c]
          /\ pc[c] \notin {"read_loop", "read_sub", "read_copy"} =>
                kbuf[c] = << >>
    /\ dev /\ hpc # "count"
         /\ (\A c \in Cpus : pc[c] \notin {"read_loop", "read_sub", "exit_dev"})
         => key_count = Len(key_list)

LEMMA CountInit == Init => ListOK /\ CountOK
  BY DEF Init, ListOK, CountOK

LEMMA ListStep == LifeInv /\ ListOK /\ CountOK /\ [Next]_vars => ListOK'
<1> SUFFICES ASSUME LifeInv, ListOK, CountOK, Next PROVE ListOK'
  BY DEF ListOK, vars, driver, queue, handler, thread
<1> USE ConstantsAssumption
    DEF LifeInv, PcOK, ListOK, CountOK, InInit, InExit,
        PCs, InRead, ReadLocked, ExitLocked, driver, queue, handler, thread
<1>A. ASSUME NEW c \in Cpus,
             Calls(c) \/ IrqEnter(c) \/ Locks(c) \/ my_init(c) \/ my_read(c)
                \/ my_exit(c)
      PROVE  ListOK'
  <2>1. CASE Insmod(c)
    BY <2>1 DEF Insmod, At, Goto
  <2>2. CASE ReadCall(c)
    BY <2>2 DEF ReadCall, At, Goto
  <2>3. CASE Rmmod(c)
    BY <2>3 DEF Rmmod, At, Goto
  <2>4. CASE IrqEnter(c)
    BY <2>4 DEF IrqEnter
  <2>5. CASE ReadLock(c)
    BY <2>5 DEF ReadLock, At, Goto, SpinLock
  <2>6. CASE ExitLock(c)
    BY <2>6 DEF ExitLock, At, Goto, SpinLock
  <2>7. CASE InitDev(c)
    BY <2>7 DEF InitDev, At, Goto
  <2>8. CASE InitFail(c)
    BY <2>8 DEF InitFail, At, Goto
  <2>9. CASE InitIrq(c)
    BY <2>9 DEF InitIrq, At, Goto
  <2>10. CASE InitCdev(c)
    BY <2>10 DEF InitCdev, At, Goto
  <2>11. CASE ReadIrqSave(c)
    BY <2>11 DEF ReadIrqSave, At, Goto
  <2>12. CASE ReadEmpty(c)
    BY <2>12 DEF ReadEmpty, At, Return, Goto, SpinUnlock, IrqRestore, min
  <2>13. CASE ReadMin(c)
    BY <2>13 DEF ReadMin, At, Goto, min
  <2>14. CASE ReadNoMem(c)
    BY <2>14 DEF ReadNoMem, At, Return, Goto, SpinUnlock, IrqRestore
  <2>15. CASE ReadAlloc(c)
    BY <2>15 DEF ReadAlloc, At, Goto
  <2>16. CASE ReadTake(c)
    <3>1. Head(key_list) \in Nat /\ Tail(key_list) \in Seq(Nat)
      BY <2>16 DEF ReadTake
    <3>2. kbuf[c] \in Seq(Nat)
      OBVIOUS
    <3>3. Append(kbuf[c], Head(key_list)) \in Seq(Nat)
      BY <3>1, <3>2
    <3>4. kbuf' \in [Cpus -> Seq(Nat)] /\ key_list' \in Seq(Nat)
      BY <2>16, <3>1, <3>3 DEF ReadTake
    <3> QED
      BY <2>16, <3>4 DEF ReadTake
  <2>17. CASE ReadTaken(c)
    BY <2>17 DEF ReadTaken, At, Goto
  <2>18. CASE ReadSub(c)
    BY <2>18 DEF ReadSub, At, Goto, SpinUnlock, IrqRestore
  <2>19. CASE ReadCopy(c)
    BY <2>19 DEF ReadCopy, At, Return, Goto
  <2>20. CASE ExitIrq(c)
    BY <2>20 DEF ExitIrq, At, Goto
  <2>21. CASE ExitSync(c)
    BY <2>21 DEF ExitSync, At, Goto
  <2>22. CASE ExitCdev(c)
    BY <2>22 DEF ExitCdev, At, Goto
  <2>23. CASE ExitFree(c)
    <3>1. key_list' = << >> \/ key_list' = key_list
      BY <2>23 DEF ExitFree
    <3>2. << >> \in Seq(Nat) /\ key_list \in Seq(Nat)
      <4> HIDE DEF LifeInv, PcOK, CountOK
      <4> QED
        OBVIOUS
    <3>3. key_list' \in Seq(Nat)
      BY <3>1, <3>2
    <3> QED
      BY <2>23, <3>3 DEF ExitFree
  <2>24. CASE ExitDev(c)
    BY <2>24 DEF ExitDev, At, Goto
  <2> QED
    BY <1>A, <2>1, <2>2, <2>3, <2>4, <2>5, <2>6, <2>7, <2>8,
       <2>9, <2>10, <2>11, <2>12, <2>13, <2>14, <2>15, <2>16,
       <2>17, <2>18, <2>19, <2>20, <2>21, <2>22, <2>23, <2>24
       DEF Calls, Locks, my_init, my_read, my_exit
<1>1. CASE KeyPress
  BY <1>1 DEF KeyPress
<1>2. CASE KeyNoMem
  BY <1>2 DEF KeyNoMem
<1>3. CASE KeyAlloc
  BY <1>3 DEF KeyAlloc
<1>4. CASE KeyLock
  BY <1>4 DEF KeyLock, SpinLock
<1>5. CASE KeyAdd
  BY <1>5 DEF KeyAdd
<1>6. CASE KeyCount
  BY <1>6 DEF KeyCount, SpinUnlock
<1> QED
  BY <1>A, <1>1, <1>2, <1>3, <1>4, <1>5, <1>6 DEF Next, key_func

LEMMA CountStep == LifeInv /\ LockOK /\ ListOK /\ CountOK /\ [Next]_vars => CountOK'
<1> SUFFICES ASSUME LifeInv, LockOK, ListOK, CountOK, Next PROVE CountOK'
  BY DEF CountOK, vars, driver, queue, handler, thread
<1> USE ConstantsAssumption
    DEF LifeInv, PcOK, ModOK, DevOK, HandlerOK, LockOK, Holding, ListOK, CountOK, InInit, InExit,
        PCs, InRead, ReadLocked, ExitLocked, driver, queue, handler, thread
<1>A. ASSUME NEW c \in Cpus,
             Calls(c) \/ IrqEnter(c) \/ Locks(c) \/ my_init(c) \/ my_read(c)
                \/ my_exit(c)
      PROVE  CountOK'
  <2>1. CASE Insmod(c)
    BY <2>1 DEF Insmod, At, Goto
  <2>2. CASE ReadCall(c)
    <3>1. /\ pc[c] = "idle" /\ pc' = [pc EXCEPT ![c] = "read_irqsave"]
          /\ UNCHANGED <<kbuf, key_list, key_count, hpc, dev>>
          /\ \A d \in Cpus : d # c => count'[d] = count[d]
      BY <2>2 DEF ReadCall, At, Goto
    <3> HIDE DEF LifeInv, ModOK, DevOK, HandlerOK, LockOK
    <3> QED
      BY <3>1 DEF LifeInv
  <2>3. CASE Rmmod(c)
    BY <2>3 DEF Rmmod, At, Goto
  <2>4. CASE IrqEnter(c)
    BY <2>4 DEF IrqEnter
  <2>5. CASE ReadLock(c)
    BY <2>5 DEF ReadLock, At, Goto, SpinLock
  <2>6. CASE ExitLock(c)
    BY <2>6 DEF ExitLock, At, Goto, SpinLock
  <2>7. CASE InitDev(c)
    BY <2>7 DEF InitDev, At, Goto
  <2>8. CASE InitFail(c)
    BY <2>8 DEF InitFail, At, Goto
  <2>9. CASE InitIrq(c)
    BY <2>9 DEF InitIrq, At, Goto
  <2>10. CASE InitCdev(c)
    BY <2>10 DEF InitCdev, At, Goto
  <2>11. CASE ReadIrqSave(c)
    BY <2>11 DEF ReadIrqSave, At, Goto
  <2>12. CASE ReadEmpty(c)
    BY <2>12 DEF ReadEmpty, At, Return, Goto, SpinUnlock, IrqRestore, min
  <2>13. CASE ReadMin(c)
    BY <2>13 DEF ReadMin, At, Goto, min
  <2>14. CASE ReadNoMem(c)
    BY <2>14 DEF ReadNoMem, At, Return, Goto, SpinUnlock, IrqRestore
  <2>15. CASE ReadAlloc(c)
    <3>1. /\ pc[c] = "read_alloc" /\ pc' = [pc EXCEPT ![c] = "read_loop"]
          /\ UNCHANGED <<count, kbuf, key_list, key_count, hpc, dev>>
      BY <2>15 DEF ReadAlloc, At, Goto
    <3>2. /\ dev /\ hpc # "count"
          /\ \A d \in Cpus : pc[d] \notin {"read_loop", "read_sub", "exit_dev"}
      BY <3>1
    <3>3. /\ key_count = Len(key_list) /\ kbuf[c] = << >>
          /\ count[c] <= key_count /\ count[c] \in Nat
      BY <3>1, <3>2
    <3>4. \A d \in Cpus : pc'[d] \in {"read_loop", "read_sub"} => d = c
      BY <3>1, <3>2
    <3> HIDE DEF LifeInv, PcOK, ModOK, DevOK, HandlerOK, LockOK
    <3> QED
      BY <3>1, <3>2, <3>3, <3>4 DEF PcOK, LifeInv
  <2>16. CASE ReadTake(c)
    <3>1. /\ pc[c] = "read_loop" /\ hpc # "count"
          /\ Len(key_list') = Len(key_list) - 1
          /\ UNCHANGED <<pc, count, key_count, hpc>>
      BY <2>16 DEF ReadTake, At
    <3>2. /\ Len(kbuf'[c]) = Len(kbuf[c]) + 1
          /\ Len(kbuf[c]) \in Nat /\ Len(kbuf[c]) < count[c]
      BY <2>16 DEF ReadTake, At
    <3>3. \A d \in Cpus : d # c =>
             kbuf'[d] = kbuf[d] /\ pc[d] \notin {"read_loop", "read_sub"}
      BY <2>16, <3>1 DEF ReadTake
    <3>4. /\ Len(key_list) \in Nat /\ key_count \in Nat /\ count[c] \in Nat
          /\ key_count = Len(key_list) + Len(kbuf[c]) /\ count[c] <= key_count
      BY <3>1
    <3>5. /\ key_count = Len(key_list') + Len(kbuf'[c])
          /\ Len(kbuf'[c]) <= count[c] /\ count[c] <= key_count
      BY <3>1, <3>2, <3>4
    <3> HIDE DEF LifeInv, PcOK, ModOK, DevOK, HandlerOK, LockOK, ListOK
    <3> QED
      BY <3>1, <3>3, <3>5
  <2>17. CASE ReadTaken(c)
    BY <2>17 DEF ReadTaken, At, Goto
  <2>18. CASE ReadSub(c)
    BY <2>18 DEF ReadSub, At, Goto, SpinUnlock, IrqRestore
  <2>19. CASE ReadCopy(c)
    BY <2>19 DEF ReadCopy, At, Return, Goto
  <2>20. CASE ExitIrq(c)
    BY <2>20 DEF ExitIrq, At, Goto
  <2>21. CASE ExitSync(c)
    BY <2>21 DEF ExitSync, At, Goto
  <2>22. CASE ExitCdev(c)
    BY <2>22 DEF ExitCdev, At, Goto
  <2>23. CASE ExitFree(c)
    BY <2>23 DEF ExitFree, At, Goto, SpinUnlock
  <2>24. CASE ExitDev(c)
    BY <2>24 DEF ExitDev, At, Goto
  <2> QED
    BY <1>A, <2>1, <2>2, <2>3, <2>4, <2>5, <2>6, <2>7, <2>8,
       <2>9, <2>10, <2>11, <2>12, <2>13, <2>14, <2>15, <2>16,
       <2>17, <2>18, <2>19, <2>20, <2>21, <2>22, <2>23, <2>24
       DEF Calls, Locks, my_init, my_read, my_exit
<1>1. CASE KeyPress
  BY <1>1 DEF KeyPress
<1>2. CASE KeyNoMem
  BY <1>2 DEF KeyNoMem
<1>3. CASE KeyAlloc
  BY <1>3 DEF KeyAlloc
<1>4. CASE KeyLock
  BY <1>4 DEF KeyLock, SpinLock
<1>5. CASE KeyAdd
  BY <1>5 DEF KeyAdd
<1>6. CASE KeyCount
  BY <1>6 DEF KeyCount, SpinUnlock
<1> QED
  BY <1>A, <1>1, <1>2, <1>3, <1>4, <1>5, <1>6 DEF Next, key_func

LEMMA CountAlways == Spec => [](ListOK /\ CountOK)
  BY CountInit, ListStep, CountStep, LifeAlways, LockAlways, PTL DEF Spec

(***************************************************************************)
(* key_count is the length of key_list whenever the lock is free, and the  *)
(* loop of my_read never runs off the list (CountMatchesList).             *)
(***************************************************************************)
THEOREM CountCorrect == Spec => []CountMatchesList
<1>1. LifeInv /\ LockOK /\ ListOK /\ CountOK => CountMatchesList
  <2> SUFFICES ASSUME LifeInv, LockOK, ListOK, CountOK PROVE CountMatchesList
    OBVIOUS
  <2>1. my_lock = None =>
           /\ hpc # "count"
           /\ \A c \in Cpus : pc[c] \notin {"read_loop", "read_sub"}
    BY ConstantsAssumption
       DEF LifeInv, HandlerOK, LockOK, Holding, ReadLocked
  <2>2. ASSUME NEW c \in Cpus, pc[c] = "read_loop"
        PROVE  count[c] - Len(kbuf[c]) <= Len(key_list)
    BY <2>2 DEF ListOK, CountOK
  <2> QED
    BY <2>1, <2>2 DEF CountOK, CountMatchesList
<1> QED
  BY <1>1, LifeAlways, LockAlways, CountAlways, PTL

(***************************************************************************)
(* Layer 4: the order of the keys.  A key is older than another if its     *)
(* number is smaller; what waits in the handler is younger than all that   *)
(* is queued, and that is younger than all that the readers hold.          *)
(***************************************************************************)
Below(s, k) == \A i \in 1 .. Len(s) : s[i] < k

Younger(k) == Below(key_list, k) /\ \A c \in Cpus : Below(kbuf[c], k)

Queueing == hpc \in {"lock", "add"}

OrderOK ==
    /\ \A i, j \in 1 .. Len(key_list) : i < j => key_list[i] < key_list[j]
    /\ \A c \in Cpus : \A j \in 1 .. Len(key_list) : Below(kbuf[c], key_list[j])
    /\ \A c, d \in Cpus : c # d =>
          \A i \in 1 .. Len(kbuf[c]), j \in 1 .. Len(kbuf[d]) :
             kbuf[c][i] # kbuf[d][j]
    /\ Younger(presses + 1) /\ pending <= presses /\ tmp <= presses
    /\ pending # 0 => Younger(pending)
    /\ hpc = "alloc" => pending # 0
    /\ Queueing => Younger(tmp)
    /\ Queueing /\ pending # 0 => tmp < pending

LEMMA OrderInit == Init => OrderOK
  BY DEF Init, OrderOK, Younger, Below, Queueing

\* Only the keys and where they are matter to the order.
LEMMA OrderKept ==
  ASSUME OrderOK, UNCHANGED <<key_list, kbuf, presses, pending, hpc, tmp>>
  PROVE  OrderOK'
  BY DEF OrderOK, Younger, Below, Queueing

\* A call of my_read that returns gives up what it had in kbuf.
LEMMA OrderReturn ==
  ASSUME OrderOK, ListOK, NEW c \in Cpus, Return(c),
         UNCHANGED <<key_list, presses, pending, hpc, tmp>>
  PROVE  OrderOK'
<1>1. kbuf' \in [Cpus -> Seq(Nat)] /\ Len(kbuf'[c]) = 0
  BY DEF Return, ListOK
<1>2. \A d \in Cpus : d # c => kbuf'[d] = kbuf[d]
  BY DEF Return, ListOK
<1>3. \A k : Below(kbuf'[c], k)
  BY <1>1 DEF Below
<1>4. \A k : \A d \in Cpus : Below(kbuf[d], k) => Below(kbuf'[d], k)
  BY <1>2, <1>3
<1>5. \A d, e \in Cpus : d # e =>
         \A i \in 1 .. Len(kbuf'[d]), j \in 1 .. Len(kbuf'[e]) :
            kbuf'[d][i] # kbuf'[e][j]
  <2> TAKE d, e \in Cpus
  <2> HAVE d # e
  <2>1. CASE d = c \/ e = c
    <3>1. Len(kbuf'[d]) = 0 \/ Len(kbuf'[e]) = 0
      BY <1>1, <2>1
    <3>2. 1 .. Len(kbuf'[d]) = {} \/ 1 .. Len(kbuf'[e]) = {}
      BY <3>1
    <3> QED
      BY <3>2, Zenon
  <2>2. CASE d # c /\ e # c
    <3>1. kbuf'[d] = kbuf[d] /\ kbuf'[e] = kbuf[e]
      BY <1>2, <2>2
    <3> QED
      BY <3>1 DEF OrderOK
  <2> QED
    BY <2>1, <2>2
<1>6. /\ Younger(presses + 1)' /\ (pending # 0 => Younger(pending))'
      /\ (Queueing => Younger(tmp))'
  BY <1>4 DEF OrderOK, Younger, Queueing, Below
<1>7. \A d \in Cpus : \A j \in 1 .. Len(key_list') : Below(kbuf'[d], key_list'[j])
  BY <1>4 DEF OrderOK
<1> QED
  BY <1>5, <1>6, <1>7 DEF OrderOK, Queueing, Below

\* The list is emptied, by my_init or by my_exit.
LEMMA OrderEmptied ==
  ASSUME OrderOK, key_list' = << >>,
         UNCHANGED <<kbuf, presses, pending, hpc, tmp>>
  PROVE  OrderOK'
  BY DEF OrderOK, Younger, Below, Queueing

\* The head of the list is younger than what the readers hold, and older than
\* the rest of the list.
LEMMA OrderTake ==
  ASSUME OrderOK, ListOK, ListOK', NEW c \in Cpus, ReadTake(c)
  PROVE  OrderOK'
<1> DEFINE h == key_list[1]
           n == Len(kbuf[c])
<1>1. /\ key_list \in Seq(Nat) /\ Len(key_list) \in Nat /\ Len(key_list) >= 1
      /\ key_list' = Tail(key_list) /\ Head(key_list) = h
      /\ UNCHANGED <<presses, pending, hpc, tmp>>
  BY DEF ReadTake, ListOK, handler
<1>2. /\ Len(key_list') = Len(key_list) - 1
      /\ \A i \in 1 .. Len(key_list') : key_list'[i] = key_list[i + 1]
  BY <1>1
<1>3. kbuf[c] \in Seq(Nat) /\ n \in Nat /\ kbuf'[c] = Append(kbuf[c], h)
  BY <1>1 DEF ReadTake, ListOK
<1>4. /\ Len(kbuf'[c]) = n + 1 /\ kbuf'[c][n + 1] = h
      /\ \A i \in 1 .. n : kbuf'[c][i] = kbuf[c][i]
  BY <1>3
<1>5. \A d \in Cpus : d # c => kbuf'[d] = kbuf[d]
  BY DEF ReadTake, ListOK
<1>6. /\ \A k \in 1 .. Len(key_list) : k # 1 => h < key_list[k]
      /\ \A d \in Cpus : Below(kbuf[d], h)
      /\ h < presses + 1 /\ (pending # 0 => h < pending)
      /\ (Queueing => h < tmp)
  BY <1>1 DEF OrderOK, Younger, Below
<1>7. \A i, j \in 1 .. Len(key_list') : i < j => key_list'[i] < key_list'[j]
  BY <1>1, <1>2 DEF OrderOK
<1>8. ASSUME NEW d \in Cpus, NEW j \in 1 .. Len(key_list')
      PROVE  Below(kbuf'[d], key_list'[j])
  <2>1. /\ j + 1 \in 1 .. Len(key_list) /\ h < key_list[j + 1]
        /\ key_list'[j] = key_list[j + 1] /\ Below(kbuf[d], key_list[j + 1])
    BY <1>1, <1>2, <1>6, <1>8 DEF OrderOK
  <2>2. CASE d = c
    BY <2>1, <2>2, <1>3, <1>4 DEF Below
  <2>3. CASE d # c
    BY <2>1, <2>3, <1>5
  <2> QED
    BY <2>2, <2>3
<1>9. ASSUME NEW d \in Cpus, NEW e \in Cpus, d # e,
             NEW i \in 1 .. Len(kbuf'[d]), NEW j \in 1 .. Len(kbuf'[e])
      PROVE  kbuf'[d][i] # kbuf'[e][j]
  <2>1. kbuf[d] \in Seq(Nat) /\ kbuf[e] \in Seq(Nat)
    BY DEF ListOK
  <2>2. CASE d = c
    BY <2>1, <2>2, <1>3, <1>4, <1>5, <1>6, <1>9, SMTT(30) DEF OrderOK, Below
  <2>3. CASE e = c
    BY <2>1, <2>3, <1>3, <1>4, <1>5, <1>6, <1>9, SMTT(30) DEF OrderOK, Below
  <2>4. CASE d # c /\ e # c
    BY <2>4, <1>5, <1>9 DEF OrderOK
  <2> QED
    BY <2>2, <2>3, <2>4
<1>10. ASSUME NEW k \in Nat, Younger(k), h < k
       PROVE  Below(key_list', k) /\ \A d \in Cpus : Below(kbuf'[d], k)
  <2>1. Below(key_list', k)
    BY <1>1, <1>2, <1>10 DEF Younger, Below
  <2>2. Below(kbuf'[c], k)
    BY <1>3, <1>4, <1>10 DEF Younger, Below
  <2>3. \A d \in Cpus : d # c => Below(kbuf'[d], k)
    BY <1>5, <1>10 DEF Younger, Below
  <2> QED
    BY <2>1, <2>2, <2>3
<1>11. /\ Below(key_list', presses + 1)
       /\ \A d \in Cpus : Below(kbuf'[d], presses + 1)
  BY <1>6, <1>10 DEF OrderOK, ListOK
<1>12. pending # 0 => /\ Below(key_list', pending)
                      /\ \A d \in Cpus : Below(kbuf'[d], pending)
  BY <1>6, <1>10 DEF OrderOK, ListOK
<1>13. Queueing => Below(key_list', tmp) /\ \A d \in Cpus : Below(kbuf'[d], tmp)
  BY <1>6, <1>10 DEF OrderOK, ListOK
<1> HIDE DEF h, n
<1>14. /\ Younger(presses + 1)' /\ (pending # 0 => Younger(pending))'
       /\ (Queueing => Younger(tmp))'
  BY <1>1, <1>11, <1>12, <1>13 DEF Younger, Queueing, Below
<1> QED
  BY <1>1, <1>7, <1>8, <1>9, <1>14 DEF OrderOK, Queueing, Below

\* list_add_tail() of a key that is younger than all others.
LEMMA OrderAdd ==
  ASSUME OrderOK, ListOK, KeyAdd
  PROVE  OrderOK'
<1>1. /\ key_list \in Seq(Nat) /\ tmp \in Nat /\ Queueing /\ ~ Queueing'
      /\ hpc' = "count" /\ key_list' = Append(key_list, tmp)
      /\ UNCHANGED <<presses, pending, tmp, kbuf>>
  BY DEF KeyAdd, ListOK, Queueing, thread
<1>2. /\ Len(key_list) \in Nat /\ Len(key_list') = Len(key_list) + 1
      /\ key_list'[Len(key_list) + 1] = tmp
      /\ \A i \in 1 .. Len(key_list) : key_list'[i] = key_list[i]
  BY <1>1
<1>3. Younger(tmp) /\ (pending # 0 => tmp < pending) /\ tmp < presses + 1
  BY <1>1 DEF OrderOK, ListOK
<1>4. \A i, j \in 1 .. Len(key_list') : i < j => key_list'[i] < key_list'[j]
  BY <1>1, <1>2, <1>3 DEF OrderOK, Younger, Below
<1>5. \A c \in Cpus : \A j \in 1 .. Len(key_list') : Below(kbuf[c], key_list'[j])
  BY <1>1, <1>2, <1>3 DEF OrderOK, Younger
<1>6. Younger(presses + 1)' /\ (pending # 0 => Younger(pending))'
  BY <1>1, <1>2, <1>3 DEF OrderOK, Younger, Below
<1> QED
  BY <1>1, <1>4, <1>5, <1>6 DEF OrderOK, Below

LEMMA OrderStep == ListOK /\ ListOK' /\ OrderOK /\ [Next]_vars => OrderOK'
<1> SUFFICES ASSUME ListOK, ListOK', OrderOK, Next PROVE OrderOK'
  BY OrderKept DEF vars, driver, queue, handler, thread
<1> USE DEF driver, queue, handler, thread
<1>A. ASSUME NEW c \in Cpus,
             Calls(c) \/ IrqEnter(c) \/ Locks(c) \/ my_init(c) \/ my_read(c)
                \/ my_exit(c)
      PROVE  OrderOK'
  <2>1. CASE Calls(c)
    BY <2>1, OrderKept DEF Calls, Insmod, ReadCall, Rmmod
  <2>2. CASE Locks(c)
    BY <2>2, OrderKept DEF Locks, ReadLock, ExitLock
  <2>3. CASE IrqEnter(c)
    BY <2>3 DEF IrqEnter, OrderOK, Younger, Below, Queueing
  <2>4. CASE InitDev(c)
    BY <2>4, OrderEmptied DEF InitDev
  <2>5. CASE InitFail(c) \/ InitIrq(c) \/ InitCdev(c)
    BY <2>5, OrderKept DEF InitFail, InitIrq, InitCdev
  <2>6. CASE ReadIrqSave(c) \/ ReadMin(c) \/ ReadAlloc(c) \/ ReadTaken(c) \/ ReadSub(c)
    BY <2>6, OrderKept DEF ReadIrqSave, ReadMin, ReadAlloc, ReadTaken, ReadSub
  <2>7. CASE ReadEmpty(c) \/ ReadNoMem(c) \/ ReadCopy(c)
    BY <2>7, OrderReturn DEF ReadEmpty, ReadNoMem, ReadCopy
  <2>8. CASE ReadTake(c)
    BY <2>8, OrderTake
  <2>9. CASE ExitIrq(c)
    <3>1. UNCHANGED <<key_list, kbuf, presses, hpc, tmp>>
      BY <2>9 DEF ExitIrq
    <3>2. pending' = pending \/ (pending' = 0 /\ hpc # "alloc")
      BY <2>9 DEF ExitIrq
    <3>3. pending' <= presses
      BY <3>2 DEF OrderOK, ListOK
    <3> QED
      BY <3>1, <3>2, <3>3 DEF OrderOK, Younger, Below, Queueing
  <2>10. CASE ExitSync(c) \/ ExitCdev(c) \/ ExitDev(c)
    BY <2>10, OrderKept DEF ExitSync, ExitCdev, ExitDev
  <2>11. CASE ExitFree(c)
    BY <2>11, OrderKept, OrderEmptied DEF ExitFree
  <2> QED
    BY <1>A, <2>1, <2>2, <2>3, <2>4, <2>5, <2>6, <2>7, <2>8, <2>9, <2>10, <2>11
       DEF my_init, my_read, my_exit
<1>1. CASE KeyPress
  <2>1. /\ presses' = presses + 1 /\ pending' = presses + 1 /\ presses \in Nat
        /\ UNCHANGED <<key_list, kbuf, hpc, tmp>>
    BY <1>1 DEF KeyPress, ListOK
  <2>2. Younger(presses + 1) /\ tmp <= presses /\ tmp \in Nat
    BY DEF OrderOK, ListOK
  <2>3. Younger(presses + 1)'
    <3>1. \A c \in Cpus : \A i \in 1 .. Len(kbuf[c]) : kbuf[c][i] \in Nat
      BY DEF ListOK
    <3>2. \A i \in 1 .. Len(key_list) : key_list[i] \in Nat
      BY DEF ListOK
    <3> QED
      BY <2>1, <2>2, <3>1, <3>2 DEF Younger, Below
  <2> QED
    BY <2>1, <2>2, <2>3 DEF OrderOK, Younger, Below, Queueing
<1>2. CASE KeyNoMem
  BY <1>2 DEF KeyNoMem, OrderOK, ListOK, Younger, Below, Queueing
<1>3. CASE KeyAlloc
  BY <1>3 DEF KeyAlloc, OrderOK, ListOK, Younger, Below, Queueing
<1>4. CASE KeyLock
  BY <1>4 DEF KeyLock, OrderOK, Younger, Below, Queueing
<1>5. CASE KeyAdd
  BY <1>5, OrderAdd
<1>6. CASE KeyCount
  BY <1>6 DEF KeyCount, OrderOK, ListOK, Younger, Below, Queueing
<1> QED
  BY <1>A, <1>1, <1>2, <1>3, <1>4, <1>5, <1>6 DEF Next, key_func

LEMMA OrderAlways == Spec => []OrderOK
  BY OrderInit, OrderStep, CountAlways, PTL DEF Spec

(***************************************************************************)
(* Every key that key_func queues is read at most once, and the readers    *)
(* take the keys in the order in which they were pressed (KeysOnce),       *)
(* however many readers and interrupts there are.                          *)
(***************************************************************************)
THEOREM KeysReadInOrder == Spec => []KeysOnce
<1>1. ListOK /\ OrderOK => KeysOnce
  BY DEF ListOK, OrderOK, KeysOnce, Keys, Below
<1> QED
  BY <1>1, OrderAlways, CountAlways, PTL

(***************************************************************************)
(* Layer 5: the memory.  What is allocated is the items on the list, the   *)
(* one the handler is about to add, and a kernel buffer for every reader   *)
(* between its kmalloc() and its kfree().                                  *)
(***************************************************************************)
Buffers == {c \in Cpus : pc[c] \in {"read_loop", "read_sub", "read_copy"}}

NewItem == IF Queueing THEN 1 ELSE 0

HeapOK ==
    /\ heap = Len(key_list) + Cardinality(Buffers) + NewItem
    /\ ~ dev => key_list = << >>
    /\ \A c \in Cpus : pc[c] \in {"init_irq", "exit_dev"} => key_list = << >>

LEMMA HeapInit == Init => HeapOK
<1> SUFFICES ASSUME Init PROVE HeapOK
  OBVIOUS
<1>1. Buffers = {}
  BY DEF Init, Buffers
<1>2. Cardinality(Buffers) = 0
  BY <1>1, FS_EmptySet
<1> QED
  BY <1>2 DEF Init, HeapOK, NewItem, Queueing

LEMMA BuffersFinite == IsFiniteSet(Buffers) /\ Cardinality(Buffers) \in Nat
<1>1. Buffers \subseteq Cpus
  BY DEF Buffers
<1>2. IsFiniteSet(Buffers)
  BY <1>1, ConstantsAssumption, FS_Subset
<1> QED
  BY <1>2, FS_CardinalityType

\* A thread that moves without allocating or freeing its buffer, and without
\* a change to the list.
LEMMA HeapMove ==
  ASSUME PcOK, HeapOK, NEW c \in Cpus, NEW l, Goto(c, l),
         c \in Buffers <=> l \in {"read_loop", "read_sub", "read_copy"},
         l \in {"init_irq", "exit_dev"} => key_list = << >>,
         ~ dev' => key_list = << >>,
         UNCHANGED <<key_list, heap, hpc>>
  PROVE  HeapOK'
<1>1. Buffers' = Buffers
  BY DEF PcOK, Buffers, Goto
<1>2. \A d \in Cpus : pc'[d] \in {"init_irq", "exit_dev"} => key_list = << >>
  BY DEF PcOK, Goto, HeapOK
<1> QED
  BY <1>1, <1>2 DEF HeapOK, NewItem, Queueing

\* A step that moves no thread: what is allocated goes on the list or is the
\* handler's new item.
LEMMA HeapStay ==
  ASSUME HeapOK, UNCHANGED <<pc, dev>>,
         \/ dev /\ (\A c \in Cpus : pc[c] \notin {"init_irq", "exit_dev"})
         \/ key_list' = key_list,
         NEW n \in Int, heap' = heap + n,
         Len(key_list') + NewItem' = Len(key_list) + NewItem + n,
         Len(key_list) \in Nat, Len(key_list') \in Nat
  PROVE  HeapOK'
<1>1. Buffers' = Buffers
  BY DEF Buffers
<1>2. Cardinality(Buffers) \in Nat
  BY BuffersFinite
<1>3. NewItem \in Nat /\ NewItem' \in Nat
  BY DEF NewItem
<1>4. heap' = Len(key_list') + Cardinality(Buffers) + NewItem'
  <2> DEFINE b == Cardinality(Buffers)
             x == NewItem
             y == NewItem'
             k == Len(key_list)
             m == Len(key_list')
  <2>1. heap = k + b + x /\ m + y = k + x + n /\ heap' = heap + n
    BY DEF HeapOK
  <2>2. b \in Nat /\ x \in Nat /\ y \in Nat /\ k \in Nat /\ m \in Nat
    BY <1>2, <1>3
  <2> HIDE DEF b, x, y, k, m
  <2>3. heap' = m + b + y
    BY <2>1, <2>2
  <2> QED
    BY <2>3 DEF b, y, m
<1>5. heap' = Len(key_list') + Cardinality(Buffers') + NewItem'
  BY <1>1, <1>4
<1> QED
  BY <1>5 DEF HeapOK

LEMMA HeapStep ==
  ASSUME LifeInv, LockOK, ListOK, CountOK, HeapOK, ListOK', [Next]_vars
  PROVE  HeapOK'
<1>0. CASE UNCHANGED vars
  BY <1>0 DEF vars, driver, queue, handler, thread, HeapOK, Buffers, NewItem, Queueing
<1> SUFFICES ASSUME Next PROVE HeapOK'
  BY <1>0
<1> USE DEF driver, queue, handler, thread
<1>T. PcOK /\ key_list \in Seq(Nat) /\ Len(key_list) \in Nat /\ Len(key_list') \in Nat
  BY DEF LifeInv, ListOK
<1>D. ASSUME NEW c \in Cpus, pc[c] \in InRead PROVE dev
  BY <1>D DEF LifeInv, ModOK, DevOK
<1>A. ASSUME NEW c \in Cpus,
             Calls(c) \/ IrqEnter(c) \/ Locks(c) \/ my_init(c) \/ my_read(c)
                \/ my_exit(c)
      PROVE  HeapOK'
  <2>1. CASE Calls(c)
    BY <2>1, <1>T, HeapMove
       DEF Calls, Insmod, ReadCall, Rmmod, At, Buffers, HeapOK
  <2>2. CASE Locks(c)
    BY <2>2, <1>T, HeapMove DEF Locks, ReadLock, ExitLock, At, Buffers, HeapOK
  <2>3. CASE IrqEnter(c)
    BY <2>3 DEF IrqEnter, LifeInv, HandlerOK, HeapOK, Buffers, NewItem, Queueing
  <2>4. CASE InitDev(c)
    <3>1. key_list = << >>
      BY <2>4 DEF InitDev, At, LifeInv, DevOK, HeapOK
    <3> QED
      BY <2>4, <3>1, <1>T, HeapMove DEF InitDev, At, Buffers
  <2>5. CASE InitFail(c)
    <3>1. key_list = << >>
      BY <2>5 DEF InitFail, At, LifeInv, DevOK, HeapOK
    <3> QED
      BY <2>5, <3>1, <1>T, HeapMove DEF InitFail, At, Buffers
  <2>6. CASE InitIrq(c) \/ InitCdev(c)
    BY <2>6, <1>T, HeapMove DEF InitIrq, InitCdev, At, Buffers, HeapOK
  <2>7. CASE ReadIrqSave(c) \/ ReadMin(c) \/ ReadTaken(c) \/ ReadSub(c)
    BY <2>7, <1>T, HeapMove
       DEF ReadIrqSave, ReadMin, ReadTaken, ReadSub, At, Buffers, HeapOK
  <2>8. CASE ReadEmpty(c) \/ ReadNoMem(c)
    BY <2>8, <1>T, HeapMove DEF ReadEmpty, ReadNoMem, Return, At, Buffers, HeapOK
  <2>9. CASE ReadAlloc(c)
    <3>1. /\ c \notin Buffers /\ Buffers' = Buffers \cup {c}
          /\ UNCHANGED <<dev, key_list, hpc>> /\ heap' = heap + 1
      BY <2>9, <1>T DEF ReadAlloc, At, Goto, PcOK, Buffers
    <3>2. Cardinality(Buffers') = Cardinality(Buffers) + 1
      BY <3>1, BuffersFinite, FS_AddElement
    <3>3. \A d \in Cpus : pc'[d] \in {"init_irq", "exit_dev"} => key_list = << >>
      BY <2>9, <1>T DEF ReadAlloc, Goto, PcOK, HeapOK
    <3>4. NewItem' = NewItem /\ NewItem \in Nat /\ Cardinality(Buffers) \in Nat
      BY <3>1, BuffersFinite DEF NewItem, Queueing
    <3> QED
      BY <3>1, <3>2, <3>3, <3>4, <1>T DEF HeapOK
  <2>10. CASE ReadTake(c)
    <3>1. /\ dev /\ pc[c] \in InRead
          /\ UNCHANGED <<pc, dev, hpc>> /\ heap' = heap + -1
          /\ Len(key_list') = Len(key_list) - 1
      BY <2>10, <1>D, <1>T DEF ReadTake, At, InRead, ReadLocked, HeapOK
    <3>2. \A d \in Cpus : pc[d] \notin {"init_irq", "exit_dev"}
      BY <3>1 DEF LifeInv, ModOK, InInit, InExit
    <3>3. NewItem' = NewItem /\ NewItem \in Nat
      BY <3>1 DEF NewItem, Queueing
    <3> QED
      BY <3>1, <3>2, <3>3, <1>T, HeapStay
  <2>11. CASE ReadCopy(c)
    <3>1. /\ c \in Buffers /\ Buffers' = Buffers \ {c}
          /\ UNCHANGED <<dev, key_list, hpc>> /\ heap' = heap - 1
      BY <2>11, <1>T DEF ReadCopy, Return, At, Goto, PcOK, Buffers
    <3>2. Cardinality(Buffers') = Cardinality(Buffers) - 1
      BY <3>1, BuffersFinite, FS_RemoveElement
    <3>3. \A d \in Cpus : pc'[d] \in {"init_irq", "exit_dev"} => key_list = << >>
      BY <2>11, <1>T DEF ReadCopy, Return, Goto, PcOK, HeapOK
    <3>4. NewItem' = NewItem /\ NewItem \in Nat /\ Cardinality(Buffers) \in Nat
      BY <3>1, BuffersFinite DEF NewItem, Queueing
    <3> QED
      BY <3>1, <3>2, <3>3, <3>4, <1>T DEF HeapOK
  <2>12. CASE ExitIrq(c) \/ ExitSync(c) \/ ExitCdev(c)
    BY <2>12, <1>T, HeapMove DEF ExitIrq, ExitSync, ExitCdev, At, Buffers, HeapOK
  <2>13. CASE ExitFree(c)
    <3>1. /\ pc[c] = "exit_free" /\ c \notin Buffers /\ UNCHANGED <<dev, hpc>>
          /\ Goto(c, "exit_dev")
      BY <2>13 DEF ExitFree, At, Buffers
    <3>2. /\ mod = "unloading" /\ dev
          /\ \A d \in Cpus : pc[d] \notin {"init_irq", "read_loop", "read_sub", "exit_dev"}
      BY <3>1 DEF LifeInv, ModOK, DevOK, InInit, InExit, InRead, ReadLocked
    <3>3. hpc # "count"
      BY <3>1 DEF LifeInv, HandlerOK
    <3>4. key_count = Len(key_list)
      BY <3>2, <3>3 DEF CountOK
    <3>5. CASE key_count = 0
      <4>0. key_list = << >>
        BY <3>4, <3>5, <1>T, EmptySeq
      <4>1. key_list = << >> /\ UNCHANGED <<key_list, heap>>
        BY <4>0, <3>5, <2>13 DEF ExitFree
      <4> QED
        BY <4>1, <3>1, <1>T, HeapMove DEF Buffers
    <3>6. CASE key_count # 0
      <4>1. key_list' = << >> /\ heap' = heap - Len(key_list)
        BY <2>13, <3>6 DEF ExitFree
      <4>2. Buffers' = Buffers /\ NewItem' = NewItem /\ Len(key_list') = 0
        BY <3>1, <4>1, <1>T DEF Buffers, Goto, PcOK, NewItem, Queueing
      <4>3. NewItem \in Nat /\ Cardinality(Buffers) \in Nat
        BY BuffersFinite DEF NewItem
      <4>4. heap' = Cardinality(Buffers) + NewItem
        BY <4>1, <4>3, <1>T DEF HeapOK
      <4>5. heap' = Len(key_list') + Cardinality(Buffers') + NewItem'
        BY <4>2, <4>3, <4>4
      <4> QED
        BY <4>1, <4>5 DEF HeapOK
    <3> QED
      BY <3>5, <3>6
  <2>14. CASE ExitDev(c)
    <3>1. key_list = << >>
      BY <2>14 DEF ExitDev, At, HeapOK
    <3> QED
      BY <2>14, <3>1, <1>T, HeapMove DEF ExitDev, At, Buffers
  <2> QED
    BY <1>A, <2>1, <2>2, <2>3, <2>4, <2>5, <2>6, <2>7, <2>8, <2>9, <2>10, <2>11,
       <2>12, <2>13, <2>14
       DEF my_init, my_read, my_exit
<1>1. CASE KeyPress \/ KeyNoMem \/ KeyLock \/ KeyCount
  BY <1>1 DEF KeyPress, KeyNoMem, KeyLock, KeyCount, HeapOK, Buffers, NewItem, Queueing
<1>2. CASE KeyAlloc
  <2>1. NewItem' = 1 /\ NewItem = 0
    BY <1>2 DEF KeyAlloc, NewItem, Queueing
  <2> QED
    BY <1>2, <2>1, <1>T, HeapStay DEF KeyAlloc
<1>3. CASE KeyAdd
  <2>1. NewItem' = 0 /\ NewItem = 1
    BY <1>3 DEF KeyAdd, NewItem, Queueing
  <2>2. hcpu # None
    BY <1>3 DEF KeyAdd, LifeInv, HandlerOK
  <2>3. dev /\ \A c \in Cpus : pc[c] \notin {"init_irq", "exit_dev"}
    BY <2>2 DEF LifeInv, DevOK, HandlerOK
  <2>4. Len(key_list') = Len(key_list) + 1
    BY <1>3, <1>T DEF KeyAdd, ListOK
  <2>5. heap' = heap + 0 /\ UNCHANGED <<pc, dev>>
    <3>1. UNCHANGED <<heap, pc, dev>>
      BY <1>3 DEF KeyAdd
    <3>2. heap \in Int
      BY BuffersFinite, <1>T, <2>1 DEF HeapOK
    <3> QED
      BY <3>1, <3>2
  <2> QED
    BY <2>1, <2>3, <2>4, <2>5, <1>T, HeapStay
<1> QED
  BY <1>A, <1>1, <1>2, <1>3 DEF Next, key_func

LEMMA HeapAlways == Spec => []HeapOK
<1>1. LifeInv /\ LockOK /\ ListOK /\ CountOK /\ HeapOK /\ ListOK' /\ [Next]_vars => HeapOK'
  BY HeapStep
<1> QED
  BY <1>1, HeapInit, LifeAlways, LockAlways, CountAlways, PTL DEF Spec

(***************************************************************************)
(* Once struct mydev has been freed nothing is allocated any more          *)
(* (NoLeak): my_exit looks at key_count only, and that suffices; every     *)
(* path of my_read frees its kernel buffer.                                *)
(***************************************************************************)
THEOREM NothingLeaked == Spec => []NoLeak
<1>1. ASSUME LifeInv, HeapOK, ~ dev PROVE heap = 0
  <2>1. Buffers = {}
    BY <1>1 DEF LifeInv, ModOK, DevOK, Buffers, InRead, ReadLocked
  <2>2. Cardinality(Buffers) = 0
    BY <2>1, FS_EmptySet
  <2>3. NewItem = 0
    BY <1>1 DEF LifeInv, HandlerOK, NewItem, Queueing
  <2> QED
    BY <1>1, <2>2, <2>3 DEF HeapOK
<1>2. LifeInv /\ HeapOK => NoLeak
  BY <1>1 DEF NoLeak
<1> QED
  BY <1>2, LifeAlways, HeapAlways, PTL
(***************************************************************************)
(* Layer 6: the queue as its readers see it.  A reader takes its keys when *)
(* my_read computes min(count, key_count); from then on the keys at the    *)
(* head of the list that it has not copied yet are reserved for it.        *)
(***************************************************************************)
QueueInv == LifeInv /\ LockOK /\ ListOK /\ CountOK /\ OrderOK /\ HeapOK

LEMMA QueueAlways == Spec => []QueueInv
  BY LifeAlways, LockAlways, CountAlways, OrderAlways, HeapAlways, PTL DEF QueueInv

Looping == {"read_alloc", "read_loop"}

\* Only the holder of the lock has anything reserved, and that is on the list.
LeftOK ==
    \A c \in Cpus :
        /\ Left(c) \in 0 .. Len(key_list)
        /\ pc[c] \in Looping => my_lock = c
        /\ pc[c] \notin Looping => Left(c) = 0
        /\ pc[c] = "read_alloc" => kbuf[c] = << >> /\ Left(c) = count[c]
        /\ pc[c] = "read_loop" => Left(c) = count[c] - Len(kbuf[c])

\* Before the loop the reader that holds the lock finds the counter right.
LEMMA CountAtRest ==
    ASSUME QueueInv, NEW c \in Cpus, pc[c] \in {"read_min", "read_alloc"}
    PROVE  key_count = Len(key_list) /\ my_lock = c
<1> USE DEF QueueInv
<1>1. my_lock = c /\ my_lock # None /\ hcpu # c
  BY ConstantsAssumption DEF LockOK, Holding, ReadLocked
<1>2. hpc # "count"
  BY <1>1 DEF LockOK
<1>3. \A d \in Cpus : pc[d] \notin {"read_loop", "read_sub", "exit_dev"}
  BY <1>1 DEF LockOK, LifeInv, ModOK, Holding, ReadLocked, InRead, InExit
<1>4. dev
  BY DEF LifeInv, ModOK, DevOK, InRead, ReadLocked
<1> QED
  BY <1>1, <1>2, <1>3, <1>4 DEF CountOK

LEMMA LeftIsThere == QueueInv => LeftOK
<1> SUFFICES ASSUME QueueInv, NEW c \in Cpus
             PROVE  /\ Left(c) \in 0 .. Len(key_list)
                    /\ pc[c] \in Looping => my_lock = c
                    /\ pc[c] \notin Looping => Left(c) = 0
                    /\ pc[c] = "read_alloc" => kbuf[c] = << >> /\ Left(c) = count[c]
                    /\ pc[c] = "read_loop" => Left(c) = count[c] - Len(kbuf[c])
  BY DEF LeftOK
<1> USE DEF QueueInv
<1>1. key_list \in Seq(Nat) /\ Len(key_list) \in Nat /\ count[c] \in Nat
      /\ kbuf[c] \in Seq(Nat) /\ Len(kbuf[c]) \in Nat
  BY DEF ListOK
<1>2. pc[c] \in Looping => my_lock = c
  BY DEF LockOK, Looping, Holding, ReadLocked
<1>3. CASE pc[c] = "read_alloc"
  <2>1. kbuf[c] = << >> /\ count[c] <= key_count
    BY <1>3 DEF CountOK
  <2>2. key_count = Len(key_list)
    BY <1>3, CountAtRest
  <2> QED
    BY <1>1, <1>2, <1>3, <2>1, <2>2 DEF Left, Looping
<1>4. CASE pc[c] = "read_loop"
  <2>1. /\ key_count = Len(key_list) + Len(kbuf[c]) /\ count[c] <= key_count
        /\ Len(kbuf[c]) <= count[c]
    BY <1>4 DEF CountOK
  <2> QED
    BY <1>1, <1>2, <1>4, <2>1 DEF Left, Looping
<1>5. CASE pc[c] \notin Looping
  BY <1>1, <1>2, <1>5 DEF Left, Looping
<1> QED
  BY <1>3, <1>4, <1>5 DEF Looping

ReservedOK ==
    /\ Reserved \in 0 .. Len(key_list)
    /\ \A c \in Cpus : Left(c) # 0 => Reserved = Left(c)
    /\ (\A c \in Cpus : Left(c) = 0) => Reserved = 0
    /\ \A c \in Cpus : my_lock = c => Reserved = Left(c)

LEMMA ReservedIsLeft == QueueInv => ReservedOK
<1> SUFFICES ASSUME QueueInv PROVE ReservedOK
  OBVIOUS
<1>1. \A c \in Cpus : /\ Left(c) \in 0 .. Len(key_list)
                      /\ Left(c) # 0 => my_lock = c
  BY LeftIsThere DEF LeftOK
<1>2. key_list \in Seq(Nat) /\ Len(key_list) \in Nat
  BY DEF QueueInv, ListOK
<1> QED
  BY <1>1, <1>2 DEF Reserved, ReservedOK

\* With nothing reserved the readers see what there is.
AsIs ==
    /\ (\A c \in Cpus : Left(c) = 0) => AbsQueue = key_list
    /\ \A c \in Cpus : Left(c) = 0 => AbsGot[c] = kbuf[c]

LEMMA SeenAsIs == QueueInv => AsIs
<1> SUFFICES ASSUME QueueInv PROVE AsIs
  OBVIOUS
<1>1. key_list \in Seq(Nat) /\ kbuf \in [Cpus -> Seq(Nat)]
  BY DEF QueueInv, ListOK
<1>2. ASSUME \A c \in Cpus : Left(c) = 0 PROVE AbsQueue = key_list
  <2>1. Reserved + 1 = 1
    BY <1>2, ReservedIsLeft DEF ReservedOK
  <2> QED
    BY <1>1, <2>1, SubSeqFull DEF AbsQueue
<1>3. ASSUME NEW c \in Cpus, Left(c) = 0 PROVE AbsGot[c] = kbuf[c]
  <2>1. AbsGot[c] = kbuf[c] \o SubSeq(key_list, 1, 0)
    BY <1>3 DEF AbsGot
  <2>2. SubSeq(key_list, 1, 0) = << >>
    BY SubSeqEmpty
  <2> QED
    BY <1>1, <2>1, <2>2, ConcatEmptySeq
<1> QED
  BY <1>2, <1>3 DEF AsIs

Seen == <<AbsQueue, AbsCall, AbsWant, AbsGot>>

\* A step that moves no key changes nothing for the queue or the readers.
LEMMA KeysStay ==
    ASSUME QueueInv, QueueInv', key_list' = key_list, kbuf' = kbuf,
           \A c \in Cpus : Left(c)' = Left(c)
    PROVE  AbsQueue' = AbsQueue /\ AbsGot' = AbsGot
<1>1. Reserved' = Reserved
  <2>1. ReservedOK /\ ReservedOK'
    BY ReservedIsLeft, PTL
  <2> QED
    BY <2>1 DEF ReservedOK
<1> QED
  BY <1>1 DEF AbsQueue, AbsGot

LEMMA NotSeen ==
    ASSUME QueueInv, QueueInv', key_list' = key_list, kbuf' = kbuf,
           \A c \in Cpus : /\ Left(c)' = Left(c) /\ Kind(pc[c])' = Kind(pc[c])
                           /\ Kind(pc[c]) = "asked" => count'[c] = count[c]
    PROVE  UNCHANGED Seen
<1>1. AbsCall' = AbsCall /\ AbsWant' = AbsWant
  BY DEF AbsCall, AbsWant
<1> QED
  BY <1>1, KeysStay DEF Seen

\* Nor is a thread that goes on to a control point of the same kind.
LEMMA GoesOn ==
    ASSUME QueueInv, QueueInv', NEW c \in Cpus, NEW l,
           pc' = [pc EXCEPT ![c] = l], UNCHANGED <<key_list, kbuf, count>>,
           Kind(l) = Kind(pc[c]), Left(c) = 0, l \notin Looping
    PROVE  UNCHANGED Seen
<1>1. pc \in [Cpus -> PCs]
  BY DEF QueueInv, LifeInv, PcOK
<1>2. ASSUME NEW d \in Cpus
      PROVE  Left(d)' = Left(d) /\ Kind(pc[d])' = Kind(pc[d])
  <2>1. CASE d = c
    <3>1. pc'[d] = l
      BY <1>1, <2>1
    <3> QED
      BY <2>1, <3>1 DEF Left, Looping
  <2>2. CASE d # c
    BY <1>1, <2>2 DEF Left
  <2> QED
    BY <2>1, <2>2
<1> QED
  BY <1>2, NotSeen

LEMMA HandlerNotSeen ==
    ASSUME QueueInv, QueueInv',
           UNCHANGED <<key_list, kbuf, count, pc>>
    PROVE  UNCHANGED Seen
<1>1. \A c \in Cpus : Left(c)' = Left(c) /\ Kind(pc[c])' = Kind(pc[c])
  BY DEF Left
<1> QED
  BY <1>1, NotSeen

LEMMA InitNotSeen ==
    ASSUME QueueInv, QueueInv', NEW c \in Cpus, my_init(c)
    PROVE  UNCHANGED Seen
<1>1. pc[c] \in InInit /\ Left(c) = 0
  BY DEF my_init, InitDev, InitFail, InitIrq, InitCdev, At, InInit, Left
<1>2. key_list' = key_list
  <2>1. InitDev(c) => key_list = << >> /\ key_list' = << >>
    BY DEF InitDev, At, QueueInv, LifeInv, DevOK, HeapOK
  <2> QED
    BY <2>1 DEF my_init, InitFail, InitIrq, InitCdev, queue
<1>3. PICK l \in {"init_irq", "init_cdev", "idle"} : pc' = [pc EXCEPT ![c] = l]
  BY DEF my_init, InitDev, InitFail, InitIrq, InitCdev, Goto
<1>4. UNCHANGED <<kbuf, count>>
  BY DEF my_init, InitDev, InitFail, InitIrq, InitCdev
<1>5. Kind(l) = Kind(pc[c]) /\ l \notin Looping
  BY <1>1 DEF Kind, Looping, InInit
<1> QED
  BY <1>1, <1>2, <1>3, <1>4, <1>5, GoesOn

LEMMA ExitSeen ==
    ASSUME QueueInv, QueueInv', NEW c \in Cpus, my_exit(c) \/ ExitLock(c)
    PROVE  Atomic!Forget \/ UNCHANGED Seen
<1>1. pc[c] \in InExit /\ Left(c) = 0
  BY DEF my_exit, ExitIrq, ExitSync, ExitLock, ExitCdev, ExitFree, ExitDev, At,
         InExit, Left
<1>2. PICK l \in InExit \cup {"idle"} : pc' = [pc EXCEPT ![c] = l]
  BY DEF my_exit, ExitIrq, ExitSync, ExitLock, ExitCdev, ExitFree, ExitDev, Goto,
         InExit
<1>3. UNCHANGED <<kbuf, count>>
  BY DEF my_exit, ExitIrq, ExitSync, ExitLock, ExitCdev, ExitFree, ExitDev
<1>4. Kind(l) = Kind(pc[c]) /\ l \notin Looping
  BY <1>1 DEF Kind, Looping, InExit
<1>5. CASE key_list' = key_list
  BY <1>1, <1>2, <1>3, <1>4, <1>5, GoesOn
<1>6. CASE key_list' # key_list
  <2>1. key_list' = << >>
    BY <1>6 DEF my_exit, ExitIrq, ExitSync, ExitLock, ExitCdev, ExitFree, ExitDev, queue
  <2>2. pc \in [Cpus -> PCs]
    BY DEF QueueInv, LifeInv, PcOK
  <2>3. \A d \in Cpus : pc[d] \notin InRead /\ pc'[d] \notin InRead
    <3>1. mod = "unloading"
      BY <1>1 DEF QueueInv, LifeInv, ModOK
    <3>2. \A d \in Cpus : pc[d] \notin InRead
      BY <3>1 DEF QueueInv, LifeInv, ModOK
    <3> QED
      BY <1>2, <2>2, <3>2 DEF InExit, InRead, ReadLocked
  <2>4. \A d \in Cpus : /\ Kind(pc[d]) = "idle" /\ Kind(pc[d])' = "idle"
                        /\ Left(d) = 0 /\ Left(d)' = 0
    BY <2>3 DEF Kind, Left, InRead, ReadLocked
  <2>5. AsIs /\ AsIs'
    BY SeenAsIs, PTL
  <2>6. AbsQueue' = << >>
    BY <2>1, <2>4, <2>5 DEF AsIs
  <2>7. AbsGot' = AbsGot
    <3>1. \A d \in Cpus : AbsGot[d] = kbuf[d] /\ AbsGot'[d] = kbuf[d]
      BY <1>3, <2>4, <2>5 DEF AsIs
    <3>2. AbsGot = [d \in Cpus |-> AbsGot[d]] /\ AbsGot' = [d \in Cpus |-> AbsGot'[d]]
      BY DEF AbsGot
    <3> QED
      BY <3>1, <3>2
  <2>8. AbsCall' = AbsCall /\ AbsWant' = AbsWant /\ \A d \in Cpus : AbsCall[d] = "idle"
    BY <2>4 DEF AbsCall, AbsWant
  <2> QED
    BY <2>6, <2>7, <2>8 DEF Atomic!Forget
<1> QED
  BY <1>5, <1>6

\* What the others see of a thread that goes on.
LEMMA CallGoesOn ==
    ASSUME QueueInv, NEW c \in Cpus, NEW l, NEW n,
           pc' = [pc EXCEPT ![c] = l], count' = [count EXCEPT ![c] = n]
    PROVE  /\ pc'[c] = l /\ \A d \in Cpus \ {c} : pc'[d] = pc[d]
           /\ count'[c] = n /\ \A d \in Cpus \ {c} : count'[d] = count[d]
           /\ AbsCall' = [AbsCall EXCEPT ![c] = Kind(l)]
           /\ AbsWant' = [AbsWant EXCEPT ![c] = IF Kind(l) = "asked" THEN n ELSE 0]
<1>1. pc \in [Cpus -> PCs] /\ count \in [Cpus -> Nat]
  BY DEF QueueInv, LifeInv, PcOK, ListOK
<1>2. /\ pc'[c] = l /\ \A d \in Cpus \ {c} : pc'[d] = pc[d]
      /\ count'[c] = n /\ \A d \in Cpus \ {c} : count'[d] = count[d]
  BY <1>1
<1>3. \A d \in Cpus : Kind(pc'[d]) = IF d = c THEN Kind(l) ELSE Kind(pc[d])
  BY <1>2
<1>4. AbsCall' = [AbsCall EXCEPT ![c] = Kind(l)]
  <2>1. AbsCall' = [d \in Cpus |-> Kind(pc'[d])]
    BY DEF AbsCall
  <2>2. AbsCall' = [d \in Cpus |-> IF d = c THEN Kind(l) ELSE Kind(pc[d])]
    BY <1>3, <2>1
  <2> QED
    BY <2>2 DEF AbsCall
<1>5. AbsWant' = [AbsWant EXCEPT ![c] = IF Kind(l) = "asked" THEN n ELSE 0]
  <2>1. AbsWant' = [d \in Cpus |-> IF Kind(pc'[d]) = "asked" THEN count'[d] ELSE 0]
    BY DEF AbsWant
  <2>2. \A d \in Cpus : (IF Kind(pc'[d]) = "asked" THEN count'[d] ELSE 0) =
                           IF d = c THEN IF Kind(l) = "asked" THEN n ELSE 0
                           ELSE IF Kind(pc[d]) = "asked" THEN count[d] ELSE 0
    BY <1>2, <1>3
  <2>3. AbsWant' = [d \in Cpus |->
                       IF d = c THEN IF Kind(l) = "asked" THEN n ELSE 0
                       ELSE IF Kind(pc[d]) = "asked" THEN count[d] ELSE 0]
    BY <2>1, <2>2
  <2> QED
    BY <2>3 DEF AbsWant
<1> QED
  BY <1>2, <1>4, <1>5

\* A call that returns.
LEMMA CallReturns ==
    ASSUME QueueInv, NEW c \in Cpus,
           pc' = [pc EXCEPT ![c] = "idle"], count' = [count EXCEPT ![c] = 0]
    PROVE  /\ pc'[c] = "idle" /\ \A d \in Cpus \ {c} : pc'[d] = pc[d]
           /\ \A d \in Cpus \ {c} : count'[d] = count[d]
           /\ AbsCall' = [AbsCall EXCEPT ![c] = "idle"]
           /\ AbsWant' = [AbsWant EXCEPT ![c] = 0]
<1>1. Kind("idle") = "idle"
  BY DEF Kind
<1>2. /\ pc'[c] = "idle" /\ \A d \in Cpus \ {c} : pc'[d] = pc[d]
      /\ \A d \in Cpus \ {c} : count'[d] = count[d]
      /\ AbsCall' = [AbsCall EXCEPT ![c] = Kind("idle")]
      /\ AbsWant' = [AbsWant EXCEPT ![c] = IF Kind("idle") = "asked" THEN 0 ELSE 0]
  BY CallGoesOn
<1> QED
  BY <1>1, <1>2

LEMMA AskSeen ==
    ASSUME QueueInv, QueueInv', NEW c \in Cpus, ReadCall(c)
    PROVE  Atomic!Ask(c)
<1>1. /\ pc[c] = "idle" /\ pc' = [pc EXCEPT ![c] = "read_irqsave"]
      /\ key_list' = key_list /\ kbuf' = kbuf
  BY DEF ReadCall, At, Goto, queue
<1>2. PICK n \in Nat : count' = [count EXCEPT ![c] = n]
  <2>1. PICK n \in 0 .. MaxCount : count' = [count EXCEPT ![c] = n]
    BY DEF ReadCall
  <2>2. n \in Nat
    BY ConstantsAssumption
  <2> QED
    BY <2>1, <2>2
<1>3. /\ pc'[c] = "read_irqsave" /\ \A d \in Cpus \ {c} : pc'[d] = pc[d]
      /\ \A d \in Cpus \ {c} : count'[d] = count[d]
      /\ AbsCall' = [AbsCall EXCEPT ![c] = "asked"]
      /\ AbsWant' = [AbsWant EXCEPT ![c] = n]
  <2>1. Kind("read_irqsave") = "asked"
    BY DEF Kind
  <2> QED
    BY <1>1, <1>2, <2>1, CallGoesOn
<1>4. \A d \in Cpus : Left(d)' = Left(d)
  BY <1>1, <1>3 DEF Left
<1>5. AbsQueue' = AbsQueue /\ AbsGot' = AbsGot
  BY <1>1, <1>4, KeysStay
<1>6. AbsCall[c] = "idle" /\ AbsWant'[c] = n
  BY <1>1, <1>3 DEF AbsCall, AbsWant, Kind
<1> QED
  BY <1>3, <1>5, <1>6 DEF Atomic!Ask

\* What a reader with the lock finds before its loop.
LEMMA AtMin ==
    ASSUME QueueInv, NEW c \in Cpus, pc[c] = "read_min"
    PROVE  /\ my_lock = c /\ kbuf[c] = << >> /\ count[c] \in Nat
           /\ \A d \in Cpus : pc[d] \notin Looping /\ Left(d) = 0
           /\ AbsQueue = key_list /\ AbsCall[c] = "asked" /\ AbsWant[c] = count[c]
           /\ key_count = Len(key_list) /\ Len(key_list) \in Nat
           /\ Atomic!Share(c) = min(count[c], key_count)
<1>1. key_count = Len(key_list) /\ my_lock = c
  BY CountAtRest
<1>2. kbuf[c] = << >> /\ count[c] \in Nat /\ Len(key_list) \in Nat
  <2>1. kbuf[c] = << >>
    BY DEF QueueInv, CountOK
  <2> QED
    BY <2>1 DEF QueueInv, ListOK
<1>3. \A d \in Cpus : pc[d] \notin Looping /\ Left(d) = 0
  BY <1>1, LeftIsThere DEF LeftOK, Looping
<1>4. AbsQueue = key_list
  BY <1>3, SeenAsIs DEF AsIs
<1>5. AbsCall[c] = "asked" /\ AbsWant[c] = count[c]
  BY DEF AbsCall, AbsWant, Kind
<1>6. Atomic!Share(c) = min(count[c], key_count)
  BY <1>1, <1>4, <1>5 DEF Atomic!Share, min
<1> QED
  BY <1>1, <1>2, <1>3, <1>4, <1>5, <1>6

LEMMA EmptySeen ==
    ASSUME QueueInv, QueueInv', NEW c \in Cpus, ReadEmpty(c)
    PROVE  Atomic!Empty(c)
<1>1. /\ pc[c] = "read_min" /\ pc' = [pc EXCEPT ![c] = "idle"]
      /\ key_list' = key_list /\ min(count[c], key_count) = 0
      /\ kbuf' = [kbuf EXCEPT ![c] = << >>] /\ count' = [count EXCEPT ![c] = 0]
  BY DEF ReadEmpty, At, Goto, Return
<1>2. kbuf' = kbuf /\ \A d \in Cpus \ {c} : count'[d] = count[d]
  BY <1>1, AtMin DEF QueueInv, ListOK
<1>3. /\ pc'[c] = "idle" /\ \A d \in Cpus \ {c} : pc'[d] = pc[d]
      /\ AbsCall' = [AbsCall EXCEPT ![c] = "idle"]
      /\ AbsWant' = [AbsWant EXCEPT ![c] = 0]
  BY <1>1, CallReturns
<1>4. \A d \in Cpus : Left(d)' = Left(d)
  BY <1>1, <1>2, <1>3 DEF Left
<1>5. AbsQueue' = AbsQueue /\ AbsGot' = AbsGot
  BY <1>1, <1>2, <1>4, KeysStay
<1> QED
  BY <1>1, <1>3, <1>5, AtMin DEF Atomic!Empty

LEMMA TakeSeen ==
    ASSUME QueueInv, QueueInv', NEW c \in Cpus, ReadMin(c)
    PROVE  Atomic!Take(c)
<1> DEFINE n == min(count[c], key_count)
<1>1. /\ pc[c] = "read_min" /\ pc' = [pc EXCEPT ![c] = "read_alloc"]
      /\ key_list' = key_list /\ kbuf' = kbuf /\ n # 0
      /\ count' = [count EXCEPT ![c] = n] /\ my_lock' = my_lock
  BY DEF ReadMin, At, Goto, queue
<1>2. count'[c] = n /\ \A d \in Cpus \ {c} : count'[d] = count[d]
  BY <1>1 DEF QueueInv, ListOK
<1>3. /\ pc'[c] = "read_alloc" /\ \A d \in Cpus \ {c} : pc'[d] = pc[d]
      /\ AbsCall' = [AbsCall EXCEPT ![c] = "holding"]
      /\ AbsWant' = [AbsWant EXCEPT ![c] = 0]
  <2>1. Kind("read_alloc") = "holding"
    BY DEF Kind
  <2> HIDE DEF n
  <2> QED
    BY <1>1, <2>1, CallGoesOn
<1>4. Left(c)' = n /\ \A d \in Cpus \ {c} : Left(d) = 0 /\ Left(d)' = 0
  <2>1. LeftOK'
    BY LeftIsThere, PTL
  <2>2. Left(c)' = n
    BY <1>2, <1>3, <2>1 DEF LeftOK
  <2>3. \A d \in Cpus \ {c} : pc'[d] \notin Looping /\ Left(d) = 0
    BY <1>1, <1>3, AtMin
  <2> QED
    BY <2>1, <2>2, <2>3 DEF LeftOK
<1>5. AbsQueue' = SubSeq(AbsQueue, n + 1, Len(AbsQueue))
  <2>1. Reserved' = n
    <3>1. ReservedOK'
      BY ReservedIsLeft, PTL
    <3>2. my_lock' = c
      BY <1>1, AtMin
    <3> QED
      BY <1>4, <3>1, <3>2 DEF ReservedOK
  <2> QED
    BY <1>1, <2>1, AtMin DEF AbsQueue
<1>6. AbsGot' = [AbsGot EXCEPT ![c] = SubSeq(AbsQueue, 1, n)]
  <2>1. key_list \in Seq(Nat) /\ n \in 0 .. Len(key_list)
    BY <1>1, AtMin DEF QueueInv, ListOK, min
  <2>2. SubSeq(key_list, 1, n) \in Seq(Nat)
    BY <2>1, SubSeqProperties, ElementOfSeq
  <2>3. << >> \o SubSeq(key_list, 1, n) = SubSeq(AbsQueue, 1, n)
    BY <1>1, <2>2, AtMin, ConcatEmptySeq
  <2>4. kbuf'[c] \o SubSeq(key_list', 1, Left(c)') = SubSeq(AbsQueue, 1, n)
    BY <1>1, <1>4, <2>3, AtMin
  <2>5. \A d \in Cpus \ {c} : kbuf'[d] \o SubSeq(key_list', 1, Left(d)') =
                              kbuf[d] \o SubSeq(key_list, 1, Left(d))
    BY <1>1, <1>4
  <2> QED
    BY <2>4, <2>5 DEF AbsGot
<1>7. \A q \in Cpus : AbsCall[q] # "holding"
  BY <1>1, AtMin DEF AbsCall, Kind, Looping
<1>8. AbsCall[c] = "asked" /\ Atomic!Share(c) = n
  BY <1>1, AtMin
<1> HIDE DEF n
<1> QED
  BY <1>1, <1>3, <1>5, <1>6, <1>7, <1>8 DEF Atomic!Take

LEMMA GiveBackSeen ==
    ASSUME QueueInv, QueueInv', NEW c \in Cpus, ReadNoMem(c)
    PROVE  Atomic!GiveBack(c)
<1>1. /\ pc[c] = "read_alloc" /\ pc' = [pc EXCEPT ![c] = "idle"]
      /\ key_list' = key_list
      /\ kbuf' = [kbuf EXCEPT ![c] = << >>] /\ count' = [count EXCEPT ![c] = 0]
  BY DEF ReadNoMem, At, Goto, Return
<1>2. /\ \A d \in Cpus \ {c} : count'[d] = count[d] /\ kbuf'[d] = kbuf[d]
      /\ key_list \in Seq(Nat) /\ kbuf'[c] = << >>
  BY <1>1 DEF QueueInv, ListOK
<1>3. /\ pc'[c] = "idle" /\ \A d \in Cpus \ {c} : pc'[d] = pc[d]
      /\ AbsCall' = [AbsCall EXCEPT ![c] = "idle"]
      /\ AbsWant' = [AbsWant EXCEPT ![c] = 0]
  BY <1>1, CallReturns
<1>4. LeftOK /\ LeftOK' /\ ReservedOK /\ AsIs /\ AsIs'
  BY LeftIsThere, ReservedIsLeft, SeenAsIs, PTL
<1>5. /\ my_lock = c /\ kbuf[c] = << >> /\ Left(c) \in 0 .. Len(key_list)
      /\ Reserved = Left(c)
  BY <1>1, <1>4 DEF LeftOK, ReservedOK, Looping
<1>6. \A d \in Cpus \ {c} : pc[d] \notin Looping /\ Left(d) = 0
  BY <1>4, <1>5 DEF LeftOK
<1>7. \A d \in Cpus : Left(d)' = 0
  BY <1>3, <1>4, <1>6 DEF LeftOK, Looping
<1>8. AbsQueue' = AbsGot[c] \o AbsQueue
  <2>1. AbsQueue' = key_list
    BY <1>1, <1>4, <1>7 DEF AsIs
  <2>2. SubSeq(key_list, 1, Left(c)) \in Seq(Nat)
    BY <1>2, <1>5, SubSeqProperties, ElementOfSeq
  <2>3. AbsGot[c] = SubSeq(key_list, 1, Left(c))
    BY <1>5, <2>2, ConcatEmptySeq DEF AbsGot
  <2>4. /\ 1 \in 1 .. Len(key_list) + 1 /\ Left(c) \in 1 - 1 .. Len(key_list)
        /\ Len(key_list) \in Left(c) .. Len(key_list)
    BY <1>2, <1>5
  <2>5. SubSeq(key_list, 1, Left(c)) \o SubSeq(key_list, Left(c) + 1, Len(key_list))
           = SubSeq(key_list, 1, Len(key_list))
    BY <1>2, <2>4, ConcatAdjacentSubSeq
  <2>6. SubSeq(key_list, 1, Len(key_list)) = key_list
    BY <1>2, SubSeqFull
  <2> QED
    BY <1>5, <2>1, <2>3, <2>5, <2>6 DEF AbsQueue
<1>9. AbsGot' = [AbsGot EXCEPT ![c] = << >>]
  <2>1. AbsGot'[c] = << >>
    BY <1>2, <1>4, <1>7 DEF AsIs
  <2>2. \A d \in Cpus \ {c} : AbsGot'[d] = AbsGot[d]
    BY <1>2, <1>4, <1>6, <1>7 DEF AsIs
  <2>3. AbsGot' = [d \in Cpus |-> AbsGot'[d]] /\ AbsGot = [d \in Cpus |-> AbsGot[d]]
    BY DEF AbsGot
  <2> QED
    BY <2>1, <2>2, <2>3
<1>10. AbsCall[c] = "holding"
  BY <1>1 DEF AbsCall, Kind
<1>11. AbsWant' = AbsWant
  BY <1>1, <1>3 DEF AbsWant, Kind
<1> QED
  BY <1>3, <1>8, <1>9, <1>10, <1>11 DEF Atomic!GiveBack

LEMMA KeepSeen ==
    ASSUME QueueInv, QueueInv', NEW c \in Cpus, ReadAlloc(c)
    PROVE  Atomic!Keep(c)
<1>1. /\ pc[c] = "read_alloc" /\ pc' = [pc EXCEPT ![c] = "read_loop"]
      /\ UNCHANGED <<key_list, kbuf, count>>
  BY DEF ReadAlloc, At, Goto, queue
<1>2. /\ pc'[c] = "read_loop" /\ \A d \in Cpus \ {c} : pc'[d] = pc[d]
      /\ AbsCall' = [AbsCall EXCEPT ![c] = "given"]
      /\ AbsWant' = [AbsWant EXCEPT ![c] = 0]
  <2>1. Kind("read_loop") = "given"
    BY DEF Kind
  <2>2. count' = [count EXCEPT ![c] = count[c]]
    BY <1>1 DEF QueueInv, ListOK
  <2> QED
    BY <1>1, <2>1, <2>2, CallGoesOn
<1>3. \A d \in Cpus : Left(d)' = Left(d)
  BY <1>1, <1>2 DEF Left
<1>4. AbsQueue' = AbsQueue /\ AbsGot' = AbsGot
  BY <1>1, <1>3, KeysStay
<1>5. AbsCall[c] = "holding" /\ AbsWant' = AbsWant
  BY <1>1, <1>2 DEF AbsCall, AbsWant, Kind
<1> QED
  BY <1>2, <1>4, <1>5 DEF Atomic!Keep

LEMMA DeliverSeen ==
    ASSUME QueueInv, QueueInv', NEW c \in Cpus, ReadCopy(c)
    PROVE  Atomic!Deliver(c)
<1>1. /\ pc[c] = "read_copy" /\ pc' = [pc EXCEPT ![c] = "idle"]
      /\ key_list' = key_list
      /\ kbuf' = [kbuf EXCEPT ![c] = << >>] /\ count' = [count EXCEPT ![c] = 0]
  BY DEF ReadCopy, At, Goto, Return, queue
<1>2. /\ \A d \in Cpus \ {c} : count'[d] = count[d] /\ kbuf'[d] = kbuf[d]
      /\ kbuf'[c] = << >>
  BY <1>1 DEF QueueInv, ListOK
<1>3. /\ pc'[c] = "idle" /\ \A d \in Cpus \ {c} : pc'[d] = pc[d]
      /\ AbsCall' = [AbsCall EXCEPT ![c] = "idle"]
      /\ AbsWant' = [AbsWant EXCEPT ![c] = 0]
  BY <1>1, CallReturns
<1>4. Left(c)' = 0 /\ \A d \in Cpus : Left(d)' = Left(d)
  BY <1>1, <1>2, <1>3 DEF Left
<1>5. ReservedOK /\ ReservedOK' /\ AsIs'
  BY ReservedIsLeft, SeenAsIs, PTL
<1>6. AbsQueue' = AbsQueue
  <2>1. Reserved' = Reserved
    BY <1>4, <1>5 DEF ReservedOK
  <2> QED
    BY <1>1, <2>1 DEF AbsQueue
<1>7. AbsGot' = [AbsGot EXCEPT ![c] = << >>]
  <2>1. AbsGot'[c] = << >>
    BY <1>2, <1>4, <1>5 DEF AsIs
  <2>2. \A d \in Cpus \ {c} : kbuf'[d] \o SubSeq(key_list', 1, Left(d)') =
                              kbuf[d] \o SubSeq(key_list, 1, Left(d))
    BY <1>1, <1>2, <1>4
  <2> QED
    BY <2>1, <2>2 DEF AbsGot
<1>8. AbsCall[c] = "given" /\ AbsWant' = AbsWant
  BY <1>1, <1>3 DEF AbsCall, AbsWant, Kind
<1> QED
  BY <1>3, <1>6, <1>7, <1>8 DEF Atomic!Deliver

LEMMA PutSeen ==
    ASSUME QueueInv, QueueInv', KeyAdd
    PROVE  Atomic!Put
<1>1. /\ hpc = "add" /\ key_list' = Append(key_list, tmp)
      /\ UNCHANGED <<pc, count, kbuf>>
  BY DEF KeyAdd, thread
<1>2. key_list \in Seq(Nat) /\ tmp \in Nat /\ key_list' \in Seq(Nat)
  BY DEF QueueInv, ListOK
<1>3. LeftOK /\ LeftOK' /\ AsIs /\ AsIs'
  BY LeftIsThere, SeenAsIs, PTL
<1>4. \A c \in Cpus : pc[c] \notin Looping
  <2> SUFFICES ASSUME NEW c \in Cpus, pc[c] \in Looping PROVE FALSE
    OBVIOUS
  <2>1. my_lock = c /\ my_lock = hcpu
    BY <1>1, <1>3 DEF LeftOK, QueueInv, LockOK
  <2>2. hcpu # c
    BY DEF QueueInv, LockOK, Looping, ReadLocked
  <2> QED
    BY <2>1, <2>2
<1>5. \A c \in Cpus : Left(c) = 0 /\ Left(c)' = 0
  BY <1>1, <1>3, <1>4 DEF LeftOK
<1>6. AbsQueue = key_list /\ AbsQueue' = Append(key_list, tmp)
  BY <1>1, <1>3, <1>5 DEF AsIs
<1>7. \A c \in Cpus : AbsGot[c] = kbuf[c] /\ AbsGot'[c] = kbuf[c]
  BY <1>1, <1>3, <1>5 DEF AsIs
<1>8. AbsGot' = AbsGot
  <2>1. AbsGot' = [d \in Cpus |-> AbsGot'[d]] /\ AbsGot = [d \in Cpus |-> AbsGot[d]]
    BY DEF AbsGot
  <2> QED
    BY <1>7, <2>1
<1>9. Atomic!Newest(tmp)
  BY <1>1, <1>6, <1>7
     DEF QueueInv, OrderOK, Queueing, Younger, Below, Atomic!Newest
<1>10. AbsCall' = AbsCall /\ AbsWant' = AbsWant
  BY <1>1 DEF AbsCall, AbsWant
<1>11. /\ Len(AbsQueue') = Len(AbsQueue) + 1
       /\ AbsQueue'[Len(AbsQueue')] = tmp
  BY <1>2, <1>6, AppendProperties
<1> QED
  BY <1>6, <1>8, <1>9, <1>10, <1>11 DEF Atomic!Put

LEMMA KeysConcat ==
    ASSUME NEW s \in Seq(Nat), NEW t \in Seq(Nat), NEW u \in Seq(Nat)
    PROVE  (s \o t) \o u = s \o (t \o u)
  BY ConcatAssociative, SMTT(30)

LEMMA TailSub ==
    ASSUME NEW s \in Seq(Nat), s # << >>, NEW m \in 1 .. Len(s),
           NEW n \in m - 1 .. Len(s) - 1
    PROVE  SubSeq(Tail(s), m, n) = SubSeq(s, m + 1, n + 1)
<1>1. /\ Tail(s) \in Seq(Nat) /\ Len(Tail(s)) = Len(s) - 1 /\ Len(s) \in Nat
      /\ \A i \in 1 .. Len(s) - 1 : Tail(s)[i] = s[i + 1] /\ Tail(s)[i] \in Nat
  BY HeadTailProperties, ElementOfSeq
<1> DEFINE t == SubSeq(Tail(s), m, n)
           u == SubSeq(s, m + 1, n + 1)
<1>2. m \in Int /\ n \in Int /\ \A i \in m .. n : Tail(s)[i] \in Nat
  BY <1>1
<1>3. /\ t \in Seq(Nat) /\ Len(t) = (IF m <= n THEN n - m + 1 ELSE 0)
      /\ \A i \in 1 .. n - m + 1 : t[i] = Tail(s)[m + i - 1]
  BY <1>2, SubSeqProperties
<1>4. m + 1 \in Int /\ n + 1 \in Int /\ \A i \in m + 1 .. n + 1 : s[i] \in Nat
  BY <1>1, ElementOfSeq
<1>5. /\ u \in Seq(Nat) /\ Len(u) = (IF m + 1 <= n + 1 THEN (n + 1) - (m + 1) + 1 ELSE 0)
      /\ \A i \in 1 .. (n + 1) - (m + 1) + 1 : u[i] = s[(m + 1) + i - 1]
  BY <1>4, SubSeqProperties
<1> HIDE DEF t, u
<1>6. Len(t) = Len(u) /\ \A i \in 1 .. Len(t) : t[i] = u[i]
  <2>1. Len(t) = Len(u) /\ Len(t) = n - m + 1
    <3>1. /\ Len(t) = (IF m <= n THEN n - m + 1 ELSE 0)
          /\ Len(u) = (IF m + 1 <= n + 1 THEN (n + 1) - (m + 1) + 1 ELSE 0)
      BY <1>3, <1>5, Zenon
    <3>2. m \in Int /\ n \in Int /\ m - 1 <= n
      BY <1>1
    <3> QED
      BY <3>1, <3>2
  <2>2. ASSUME NEW i \in 1 .. n - m + 1 PROVE t[i] = u[i]
    <3>0. i \in 1 .. (n + 1) - (m + 1) + 1
      BY <1>1
    <3>1. t[i] = Tail(s)[m + i - 1] /\ u[i] = s[(m + 1) + i - 1]
      BY <1>3, <1>5, <3>0, Zenon
    <3>2. m + i - 1 \in 1 .. Len(s) - 1 /\ (m + i - 1) + 1 = (m + 1) + i - 1
      BY <1>1
    <3> QED
      BY <1>1, <3>1, <3>2
  <2> QED
    BY <2>1, <2>2
<1>7. t = u
  BY <1>3, <1>5, <1>6, SeqEqual
<1> QED
  BY <1>7 DEF t, u

\* A key that moves from the list to the buffer was the reader's already.
LEMMA LoopNotSeen ==
    ASSUME QueueInv, QueueInv', NEW c \in Cpus, ReadTake(c)
    PROVE  UNCHANGED Seen
<1> DEFINE n == Left(c)
<1>1. /\ pc[c] = "read_loop" /\ pc' = pc /\ count' = count /\ my_lock' = my_lock
      /\ key_list # << >> /\ key_list' = Tail(key_list)
      /\ kbuf' = [kbuf EXCEPT ![c] = Append(@, Head(key_list))]
      /\ Len(kbuf[c]) < count[c]
  BY DEF ReadTake, At
<1>2. /\ key_list \in Seq(Nat) /\ kbuf[c] \in Seq(Nat) /\ count[c] \in Nat
      /\ kbuf'[c] = Append(kbuf[c], Head(key_list)) /\ Len(key_list) \in Nat
      /\ \A d \in Cpus \ {c} : kbuf'[d] = kbuf[d]
  BY <1>1 DEF QueueInv, ListOK
<1>3. LeftOK /\ LeftOK' /\ ReservedOK /\ ReservedOK' /\ AsIs /\ AsIs'
  BY LeftIsThere, ReservedIsLeft, SeenAsIs, PTL
<1>4. /\ my_lock = c /\ n = count[c] - Len(kbuf[c]) /\ n \in 1 .. Len(key_list)
      /\ Left(c)' = count[c] - Len(kbuf'[c])
  BY <1>1, <1>2, <1>3 DEF LeftOK, Looping
<1>5. Left(c)' = n - 1
  <2>1. Len(kbuf'[c]) = Len(kbuf[c]) + 1
    BY <1>1, <1>2, HeadTailProperties, AppendProperties
  <2> QED
    BY <1>2, <1>4, <2>1
<1>6. Reserved = n /\ Reserved' = n - 1
  BY <1>1, <1>3, <1>4, <1>5 DEF ReservedOK
<1>7. \A d \in Cpus \ {c} : Left(d) = 0 /\ Left(d)' = 0
  BY <1>1, <1>3, <1>4 DEF LeftOK
<1> HIDE DEF n
<1>8. /\ Head(key_list) \in Nat /\ Tail(key_list) \in Seq(Nat)
      /\ Len(Tail(key_list)) = Len(key_list) - 1 /\ Head(key_list) = key_list[1]
      /\ \A i \in 1 .. Len(key_list) - 1 : Tail(key_list)[i] = key_list[i + 1]
  BY <1>1, <1>2, HeadTailProperties
<1>9. AbsQueue' = AbsQueue
  <2>1. /\ n \in 1 .. Len(key_list) /\ Len(key_list) - 1 \in n - 1 .. Len(key_list) - 1
        /\ (Len(key_list) - 1) + 1 = Len(key_list) /\ (n - 1) + 1 = n
    BY <1>2, <1>4
  <2>2. SubSeq(Tail(key_list), n, Len(key_list) - 1) =
           SubSeq(key_list, n + 1, Len(key_list))
    BY <1>1, <1>2, <2>1, TailSub
  <2>3. AbsQueue' = SubSeq(Tail(key_list), n, Len(key_list) - 1)
    BY <1>1, <1>6, <1>8, <2>1 DEF AbsQueue
  <2> QED
    BY <1>6, <2>2, <2>3 DEF AbsQueue
<1>10. AbsGot' = AbsGot
  <2> DEFINE h == <<Head(key_list)>>
             t == SubSeq(key_list, 2, n)
  <2>1. SubSeq(Tail(key_list), 1, n - 1) = t
    <3>1. 1 \in 1 .. Len(key_list) /\ n - 1 \in 1 - 1 .. Len(key_list) - 1
          /\ 1 + 1 = 2 /\ (n - 1) + 1 = n
      BY <1>2, <1>4
    <3> QED
      BY <1>1, <1>2, <3>1, TailSub
  <2>2. SubSeq(key_list, 1, n) = h \o t
    <3>1. 1 \in 1 .. Len(key_list) /\ n \in 1 .. Len(key_list) /\ 1 + 1 = 2
      BY <1>2, <1>4
    <3> QED
      BY <1>2, <1>8, <3>1, SubSeqRecursiveFirst
  <2>3. h \in Seq(Nat) /\ t \in Seq(Nat) /\ Append(kbuf[c], Head(key_list)) = kbuf[c] \o h
    <3>1. t \in Seq(Nat)
      BY <1>2, <1>4, SubSeqProperties, ElementOfSeq
    <3>2. h \in Seq(Nat)
      BY <1>8
    <3>3. Append(kbuf[c], Head(key_list)) = kbuf[c] \o <<Head(key_list)>>
      BY <1>2, <1>8, AppendIsConcat
    <3> QED
      BY <3>1, <3>2, <3>3
  <2> HIDE DEF h, t
  <2>4. (kbuf[c] \o h) \o t = kbuf[c] \o (h \o t)
    <3>1. kbuf[c] \in Seq(Nat) /\ h \in Seq(Nat) /\ t \in Seq(Nat)
      BY <1>2, <2>3
    <3> QED
      BY <3>1, KeysConcat
  <2>5. AbsGot[c] = kbuf[c] \o (h \o t)
    BY <2>2 DEF AbsGot, n
  <2>6. AbsGot'[c] = (kbuf[c] \o h) \o t
    BY <1>1, <1>2, <1>5, <2>1, <2>3 DEF AbsGot
  <2>7. AbsGot'[c] = AbsGot[c]
    BY <2>4, <2>5, <2>6
  <2>8. \A d \in Cpus \ {c} : AbsGot'[d] = AbsGot[d]
    BY <1>2, <1>3, <1>7 DEF AsIs
  <2>9. AbsGot' = [d \in Cpus |-> AbsGot'[d]] /\ AbsGot = [d \in Cpus |-> AbsGot[d]]
    BY DEF AbsGot
  <2> QED
    BY <2>7, <2>8, <2>9
<1>11. AbsCall' = AbsCall /\ AbsWant' = AbsWant
  BY <1>1 DEF AbsCall, AbsWant
<1> QED
  BY <1>9, <1>10, <1>11 DEF Seen

\* The other steps of a reader.
LEMMA ReadNotSeen ==
    ASSUME QueueInv, QueueInv', NEW c \in Cpus,
           ReadIrqSave(c) \/ ReadLock(c) \/ ReadTaken(c) \/ ReadSub(c)
    PROVE  UNCHANGED Seen
<1>1. UNCHANGED <<key_list, kbuf, count>>
  BY DEF ReadIrqSave, ReadLock, ReadTaken, ReadSub, queue
<1>2. PICK l : /\ pc' = [pc EXCEPT ![c] = l] /\ l \notin Looping
               /\ Kind(l) = Kind(pc[c])
  <2>1. ReadIrqSave(c) \/ ReadLock(c) =>
           \E l \in {"read_lock", "read_min"} :
               /\ pc' = [pc EXCEPT ![c] = l]
               /\ pc[c] \in {"read_irqsave", "read_lock"}
    BY DEF ReadIrqSave, ReadLock, At, Goto
  <2>2. ReadTaken(c) \/ ReadSub(c) =>
           \E l \in {"read_sub", "read_copy"} :
               /\ pc' = [pc EXCEPT ![c] = l]
               /\ pc[c] \in {"read_loop", "read_sub"}
    BY DEF ReadTaken, ReadSub, At, Goto
  <2>3. \A l \in {"read_lock", "read_min", "read_irqsave"} :
           Kind(l) = "asked" /\ l \notin Looping
    BY DEF Kind, Looping
  <2>4. \A l \in {"read_sub", "read_copy"} : l \notin Looping
    BY DEF Looping
  <2>5. \A l \in {"read_loop", "read_sub", "read_copy"} : Kind(l) = "given"
    BY DEF Kind
  <2>6. CASE ReadIrqSave(c) \/ ReadLock(c)
    BY <2>1, <2>3, <2>6
  <2>7. CASE ReadTaken(c) \/ ReadSub(c)
    BY <2>2, <2>4, <2>5, <2>7
  <2> QED
    BY <2>6, <2>7
<1>3. Left(c) = 0
  <2>1. CASE ReadTaken(c)
    <3>1. pc[c] = "read_loop" /\ Len(kbuf[c]) = count[c]
      BY <2>1 DEF ReadTaken, At
    <3> QED
      BY <3>1, LeftIsThere DEF LeftOK, QueueInv, ListOK
  <2>2. CASE ~ ReadTaken(c)
    BY <2>2 DEF ReadIrqSave, ReadLock, ReadSub, At, Left
  <2> QED
    BY <2>1, <2>2
<1> QED
  BY <1>1, <1>2, <1>3, GoesOn

LEMMA SeenStep == QueueInv /\ QueueInv' /\ [Next]_vars => [Atomic!Next]_Seen
<1> SUFFICES ASSUME QueueInv, QueueInv', [Next]_vars
             PROVE  Atomic!Next \/ UNCHANGED Seen
  OBVIOUS
<1>1. CASE UNCHANGED vars
  BY <1>1, HandlerNotSeen DEF vars, queue, thread
<1>2. CASE KeyPress \/ key_func
  <2>1. CASE KeyAdd
    BY <2>1, PutSeen DEF Atomic!Next
  <2>2. CASE KeyPress \/ KeyNoMem \/ KeyAlloc \/ KeyLock \/ KeyCount
    <3>1. UNCHANGED <<key_list, kbuf, count, pc>>
      BY <2>2 DEF KeyPress, KeyNoMem, KeyAlloc, KeyLock, KeyCount, queue, thread
    <3> QED
      BY <3>1, HandlerNotSeen
  <2> QED
    BY <1>2, <2>1, <2>2 DEF key_func
<1>3. ASSUME NEW c \in Cpus, Calls(c) \/ IrqEnter(c)
      PROVE  Atomic!Next \/ UNCHANGED Seen
  <2>1. CASE ReadCall(c)
    BY <2>1, AskSeen DEF Atomic!Next
  <2>2. CASE IrqEnter(c)
    <3>1. UNCHANGED <<key_list, kbuf, count, pc>>
      BY <2>2 DEF IrqEnter, queue, thread
    <3> QED
      BY <3>1, HandlerNotSeen
  <2>3. CASE Insmod(c) \/ Rmmod(c)
    <3>1. UNCHANGED <<key_list, kbuf, count>> /\ pc[c] = "idle"
      BY <2>3 DEF Insmod, Rmmod, At, queue
    <3>2. PICK l \in {"init_dev", "exit_irq"} : pc' = [pc EXCEPT ![c] = l]
      BY <2>3 DEF Insmod, Rmmod, Goto
    <3>3. Kind(l) = Kind(pc[c]) /\ l \notin Looping /\ Left(c) = 0
      BY <3>1 DEF Kind, Looping, Left
    <3> QED
      BY <3>1, <3>2, <3>3, GoesOn
  <2> QED
    BY <1>3, <2>1, <2>2, <2>3 DEF Calls
<1>4. ASSUME NEW c \in Cpus, Locks(c) \/ my_init(c) \/ my_exit(c)
      PROVE  Atomic!Next \/ UNCHANGED Seen
  BY <1>4, InitNotSeen, ExitSeen, ReadNotSeen DEF Locks, Atomic!Next
<1>5. ASSUME NEW c \in Cpus, my_read(c)
      PROVE  Atomic!Next \/ UNCHANGED Seen
  BY <1>5, EmptySeen, TakeSeen, GiveBackSeen, KeepSeen, DeliverSeen, LoopNotSeen,
     ReadNotSeen DEF my_read, Atomic!Next
<1> QED
  BY <1>1, <1>2, <1>3, <1>4, <1>5 DEF Next

(***************************************************************************)
(* my_read, key_func and my_exit implement a queue whose reads are atomic  *)
(* (ImplementsAtomicKeys), for any number of CPUs, keys and any request:   *)
(* a read gets the oldest min(count, key_count) keys of one moment, a read *)
(* that fails leaves them all, and no key is lost otherwise until the      *)
(* module is unloaded.                                                     *)
(***************************************************************************)
THEOREM QueueImplementsAtomicKeys == Spec => ImplementsAtomicKeys
<1>1. Init => Atomic!Init
  <2> SUFFICES ASSUME Init PROVE Atomic!Init
    OBVIOUS
  <2>1. Reserved + 1 = 1 /\ \A c \in Cpus : Left(c) = 0 /\ Kind(pc[c]) = "idle"
    BY ConstantsAssumption DEF Init, Reserved, Left, Kind
  <2>2. SubSeq(key_list, 1, 0) = << >> /\ Len(key_list) = 0
    BY SubSeqEmpty DEF Init
  <2>3. AbsQueue = << >>
    BY <2>1, <2>2 DEF AbsQueue
  <2>4. AbsCall = [c \in Cpus |-> "idle"] /\ AbsWant = [c \in Cpus |-> 0]
    BY <2>1 DEF AbsCall, AbsWant
  <2>5. AbsGot = [c \in Cpus |-> << >>]
    <3>1. << >> \o << >> = << >>
      OBVIOUS
    <3>2. \A c \in Cpus : kbuf[c] \o SubSeq(key_list, 1, Left(c)) = << >>
      BY <2>1, <2>2, <3>1 DEF Init
    <3> QED
      BY <3>2 DEF AbsGot
  <2> QED
    BY <2>3, <2>4, <2>5 DEF Atomic!Init
<1>2. Seen = Atomic!avars
  BY DEF Seen, Atomic!avars
<1>3. QueueInv /\ QueueInv' /\ [Next]_vars => [Atomic!Next]_(Atomic!avars)
  BY <1>2, SeenStep DEF Seen, Atomic!avars
<1> QED
  BY <1>1, <1>3, QueueAlways, PTL DEF Spec, ImplementsAtomicKeys, Atomic!Spec
=============================================================================
