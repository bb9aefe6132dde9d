----------------------------- MODULE UsbSkelProofs -----------------------------
(***************************************************************************)
(* Proofs about the USB skeleton driver (module UsbSkel), for every number *)
(* of threads, of write slots and every buffer and request size.           *)
(*                                                                         *)
(* The invariant has one part for each thing that keeps the driver in      *)
(* order.  Who may be where: io_mutex has one owner, the core included,    *)
(* and a frozen task stands still.  What the states of the core mean: when *)
(* a minor can be opened, when endpoints take URBs, when the interface is  *)
(* set.  Then what is counted: slots of limit_sem, references, autosuspend.*)
(* And the buffer of bulk_in_urb, which its URB or the owner of io_mutex   *)
(* may touch.                                                              *)
(***************************************************************************)
EXTENDS UsbSkel, FiniteSetTheorems, TLAPS

TypeOK ==
    /\ hub \in HubPCs
    /\ epOn \in BOOLEAN /\ minor \in BOOLEAN /\ intfdata \in BOOLEAN
    /\ interface \in BOOLEAN /\ kref \in Int /\ pm \in Int
    /\ io_mutex \in BOOLEAN
    /\ limit_sem \in Int /\ flying \in Nat
    /\ rurb \in Nat /\ ongoing_read \in BOOLEAN /\ filled \in Nat /\ copied \in Nat
    /\ errors \in Status
    /\ pc \in [Tasks -> PCs]
    /\ count \in [Tasks -> Nat]
    /\ rv \in [Tasks -> Status]

\* The owner of io_mutex, a thread or the core between pre_reset and post_reset.
MutexOK ==
    /\ hub \in HubMutex => io_mutex
    /\ \A t \in Tasks : pc[t] \in MutexPCs => io_mutex /\ hub \notin HubMutex
    /\ \A t, u \in Tasks : pc[t] \in MutexPCs /\ pc[u] \in MutexPCs => t = u

FrozenOK == hub \in HubFrozen => \A t \in Tasks : pc[t] \in {"closed", "open"}

\* States of the core in which the device is bound and undisturbed by unplug.
HubBound == {"bound", "rst_lock"} \cup HubMutex \cup HubFrozen

\* Until usb_deregister_dev has returned somebody may be inside skel_open.
HubMinor == {"disc_data", "disc_minor"} \cup HubBound

\* Before it is registered nobody has opened the device, and after it was
\* deregistered nobody is about to.
OpenOK ==
    /\ minor => hub \in HubMinor
    /\ \A t \in Tasks : /\ pc[t] = "open_get" => hub \in HubMinor
                        /\ hub \in {"unbound", "probe"} => pc[t] = "closed"

\* URBs are in flight only while the core lets the endpoints take them, and
\* none between pre_reset and post_reset.
UrbOK ==
    /\ epOn => hub \in {"unbound", "probe"} \cup HubBound
    /\ flying > 0 \/ rurb > 0 => epOn /\ hub \in HubBound
    /\ hub \in {"rst_kill", "rst_post"} => flying = 0
    /\ hub = "rst_post" => rurb = 0
    /\ ~ interface => hub \in {"unbound", "disc_kill", "disc_put", "gone"}
    /\ hub \in {"disc_kill", "disc_put", "gone"} => ~ interface

\* Threads inside an open file, and those that have not dropped their
\* autosuspend reference, as sets of control points.
FilePCs == PCs \ {"closed", "open_get"}
PmPCs   == PCs \ {"closed", "open_get", "rel_put"}

\* A slot of limit_sem is free, with a writer, or with a URB.
SlotOK ==
    hub # "unbound" =>
        limit_sem + flying + Cardinality(Holding(LimitPCs)) = WritesInFlight

\* Each open file has a reference, and so has the interface while it is bound.
KrefOK ==
    kref = Cardinality(Holding(FilePCs))
           + (IF hub \in {"unbound", "gone"} THEN 0 ELSE 1)

PmOK ==
    /\ interface => pm = Cardinality(Holding(PmPCs))
    /\ hub \in {"unbound", "probe", "gone"} => pm = 0

Reading == {"r_lock", "r_retry", "r_wait", "r_err", "r_clear", "r_data"}

\* A read asks for at least one byte, and while bulk_in_urb is in flight
\* nothing of what it will bring has been copied.
BufferOK ==
    /\ \A t \in Tasks : pc[t] \in Reading => count[t] > 0
    /\ rurb > 0 <=> ongoing_read
    /\ rurb > 0 => copied = 0
    /\ copied <= filled
    /\ \A t \in Tasks : pc[t] \in {"r_err", "r_clear", "r_data"} => rurb = 0

IInv ==
    /\ TypeOK
    /\ MutexOK /\ FrozenOK /\ OpenOK /\ UrbOK
    /\ SlotOK /\ KrefOK /\ PmOK
    /\ BufferOK

-----------------------------------------------------------------------------
(***************************************************************************)
(* Sets of threads at some control points, and how a step changes their    *)
(* number.                                                                 *)
(***************************************************************************)

LEMMA HoldingFinite ==
  ASSUME NEW S
  PROVE  IsFiniteSet(Holding(S)) /\ Cardinality(Holding(S)) \in Nat
  BY UsbAssumption, FS_Subset, FS_CardinalityType DEF Holding

LEMMA HoldingEmpty ==
  ASSUME NEW S
  PROVE  Cardinality(Holding(S)) = 0 <=> \A t \in Tasks : pc[t] \notin S
<1>1. Cardinality(Holding(S)) = 0 <=> Holding(S) = {}
  BY HoldingFinite, FS_EmptySet
<1> QED
  BY <1>1 DEF Holding

LEMMA HoldingStays ==
  ASSUME NEW S, pc \in [Tasks -> PCs], NEW t \in Tasks, NEW l \in PCs, Goto(t, l),
         pc[t] \in S <=> l \in S
  PROVE  Holding(S)' = Holding(S)
  BY DEF Holding, Goto

LEMMA HoldingGrows ==
  ASSUME NEW S, pc \in [Tasks -> PCs], NEW t \in Tasks, NEW l \in PCs, Goto(t, l),
         pc[t] \notin S, l \in S
  PROVE  Cardinality(Holding(S)') = Cardinality(Holding(S)) + 1
<1>1. Holding(S)' = Holding(S) \cup {t} /\ t \notin Holding(S)
  BY DEF Holding, Goto
<1> QED
  BY <1>1, HoldingFinite, FS_AddElement

LEMMA HoldingShrinks ==
  ASSUME NEW S, pc \in [Tasks -> PCs], NEW t \in Tasks, NEW l \in PCs, Goto(t, l),
         pc[t] \in S, l \notin S
  PROVE  Cardinality(Holding(S)') = Cardinality(Holding(S)) - 1
<1>1. Holding(S)' = Holding(S) \ {t} /\ t \in Holding(S)
  BY DEF Holding, Goto
<1> QED
  BY <1>1, HoldingFinite, FS_RemoveElement

LEMMA HoldingSame ==
  ASSUME NEW S, pc' = pc
  PROVE  Holding(S)' = Holding(S)
  BY DEF Holding

-----------------------------------------------------------------------------
(***************************************************************************)
(* Initial states.                                                         *)
(***************************************************************************)

LEMMA InitInv == Init => IInv
<1> SUFFICES ASSUME Init PROVE IInv
  OBVIOUS
<1> USE UsbAssumption DEF Init
<1>1. TypeOK
  <2>1. pc \in [Tasks -> PCs] /\ rv \in [Tasks -> Status] /\ hub \in HubPCs /\ errors \in Status
    BY DEF Status, PCs, HubPCs
  <2>2. count \in [Tasks -> Nat]
    OBVIOUS
  <2>3. epOn \in BOOLEAN /\ minor \in BOOLEAN /\ intfdata \in BOOLEAN /\ interface \in BOOLEAN
        /\ io_mutex \in BOOLEAN /\ ongoing_read \in BOOLEAN
    OBVIOUS
  <2>4. kref \in Int /\ pm \in Int /\ limit_sem \in Int /\ flying \in Nat /\ rurb \in Nat
        /\ filled \in Nat /\ copied \in Nat
    OBVIOUS
  <2> QED
    BY <2>1, <2>2, <2>3, <2>4 DEF TypeOK
<1>2. MutexOK /\ FrozenOK /\ OpenOK /\ UrbOK /\ BufferOK
  BY DEF MutexOK, FrozenOK, OpenOK, UrbOK, BufferOK, MutexPCs, HubMutex, HubFrozen,
         Reading
<1>3. Holding(FilePCs) = {} /\ Holding(PmPCs) = {}
  BY DEF Holding, FilePCs, PmPCs
<1>4. SlotOK /\ KrefOK /\ PmOK
  BY <1>3, FS_EmptySet DEF SlotOK, KrefOK, PmOK
<1> QED
  BY <1>1, <1>2, <1>4 DEF IInv

-----------------------------------------------------------------------------
(***************************************************************************)
(* Where threads and the core may be.                                      *)
(***************************************************************************)

LEMMA TypeStep == IInv /\ [Next]_vars => TypeOK'
<1> SUFFICES ASSUME IInv, Next PROVE TypeOK'
  BY DEF IInv, TypeOK, MutexOK, FrozenOK, OpenOK, UrbOK, vars,
         core, refs, reads, writes, locals
<1> USE UsbAssumption
    DEF IInv, TypeOK, Status, Faults, PCs, MutexPCs, LimitPCs, HubPCs, HubMutex, HubFrozen,
        core, refs, reads, writes, locals
<1>1. ASSUME NEW t \in Tasks, hub \notin HubFrozen,
             Ask(t) \/ Acquire(t) \/ Proceed(t)
      PROVE  TypeOK'
  <2>1. CASE OpenFind(t)
    BY <2>1 DEF OpenFind, Goto
  <2>2. CASE ReadCall(t)
    BY <2>2 DEF ReadCall, Goto
  <2>3. CASE WriteCall(t)
    BY <2>3 DEF WriteCall, Goto
  <2>4. CASE FlushCall(t)
    BY <2>4 DEF FlushCall, Goto
  <2>5. CASE ReleaseCall(t)
    BY <2>5 DEF ReleaseCall, Goto
  <2>6. CASE GiveUp(t)
    BY <2>6 DEF GiveUp, Return, Goto
  <2>7. CASE ReadGiveUp(t)
    <3>1. io_mutex' \in BOOLEAN
      BY <2>7 DEF ReadGiveUp, Unlock
    <3>2. /\ pc' = [pc EXCEPT ![t] = "open"] /\ count' = [count EXCEPT ![t] = 0]
          /\ rv' = [rv EXCEPT ![t] = "ok"]
      BY <2>7 DEF ReadGiveUp, Return, Goto
    <3>3. pc' \in [Tasks -> PCs] /\ count' \in [Tasks -> Nat] /\ rv' \in [Tasks -> Status]
      BY <3>2
    <3> QED
      BY <2>7, <3>1, <3>3 DEF ReadGiveUp
  <2>8. CASE ReadLock(t)
    BY <2>8 DEF ReadLock, Lock, Goto
  <2>9. CASE ReadGone(t)
    BY <2>9 DEF ReadGone, Return, Goto
  <2>10. CASE ReadRetry(t)
    BY <2>10 DEF ReadRetry, ErrLockFree, Goto
  <2>11. CASE WriteDown(t)
    BY <2>11 DEF WriteDown, Goto
  <2>12. CASE WriteErr(t)
    BY <2>12 DEF WriteErr, ErrLockFree, Goto
  <2>13. CASE WriteGone(t)
    BY <2>13 DEF WriteGone, Goto
  <2>14. CASE WriteSubmit(t)
    BY <2>14 DEF WriteSubmit, CanSubmit, Return, Goto
  <2>15. CASE WriteRefused(t)
    BY <2>15 DEF WriteRefused, Goto
  <2>16. CASE WriteAllocFails(t)
    BY <2>16 DEF WriteAllocFails, Goto
  <2>17. CASE FlushLock(t)
    BY <2>17 DEF FlushLock, Lock, Goto
  <2>18. CASE FlushDraw(t)
    BY <2>18 DEF FlushDraw, KillWrites, Goto, ErrLockFree, Record
  <2>19. CASE FlushKill(t)
    BY <2>19 DEF FlushKill, KillRead, Goto, ErrLockFree, Record
  <2>20. CASE FlushErr(t)
    BY <2>20 DEF FlushErr, ErrLockFree, Unlock, Return, Goto
  <2>21. CASE ReleasePm(t)
    BY <2>21 DEF ReleasePm, Goto
  <2>22. CASE OpenFail(t)
    BY <2>22 DEF OpenFail, Goto
  <2>23. CASE OpenGet(t)
    BY <2>23 DEF OpenGet, Goto
  <2>24. CASE ReleasePut(t)
    BY <2>24 DEF ReleasePut, Goto
  <2>25. CASE ReadWoken(t)
    BY <2>25 DEF ReadWoken, Goto
  <2>26. CASE ReadErr(t)
    BY <2>26 DEF ReadErr, Goto
  <2>27. CASE ReadClear(t)
    BY <2>27 DEF ReadClear, Unlock, Return, Goto
  <2>28. CASE ReadStart(t)
    BY <2>28 DEF ReadStart, available, skel_do_read_io, Goto, CanSubmit, min
  <2>29. CASE ReadStartFails(t)
    BY <2>29 DEF ReadStartFails, available, skel_do_read_io, Unlock, Return,
                 CanSubmit, min, Goto
  <2>30. CASE ReadData(t)
    <3>1. count[t] \in Nat /\ available \in Int
      BY DEF available
    <3>2. filled' \in Nat /\ copied' \in Nat /\ rurb' \in Nat /\ ongoing_read' \in BOOLEAN
      BY <2>30, <3>1 DEF ReadData, skel_do_read_io, min
    <3> QED
      BY <2>30, <3>2 DEF ReadData, Unlock, Return, Goto
  <2>31. CASE WriteClear(t)
    BY <2>31 DEF WriteClear, Goto
  <2>32. CASE WriteReport(t)
    BY <2>32 DEF WriteReport, Goto
  <2>33. CASE WriteUp(t)
    BY <2>33 DEF WriteUp, Return, Goto
  <2> QED
    BY <1>1, <2>1, <2>2, <2>3, <2>4, <2>5, <2>6, <2>7, <2>8, <2>9, <2>10, <2>11,
       <2>12, <2>13, <2>14, <2>15, <2>16, <2>17, <2>18, <2>19, <2>20, <2>21,
       <2>22, <2>23, <2>24, <2>25, <2>26, <2>27, <2>28, <2>29, <2>30, <2>31,
       <2>32, <2>33
       DEF Ask, Acquire, Proceed
<1>2. ASSUME NEW st \in {"ok"} \cup Faults, ReadDone(st)
      PROVE  TypeOK'
  <2>1. errors' \in Status /\ filled' \in Nat
    BY <1>2 DEF ReadDone, Record
  <2> QED
    BY <1>2, <2>1 DEF ReadDone
<1>3. ASSUME NEW st \in {"ok"} \cup Faults, WriteDone(st)
      PROVE  TypeOK'
  BY <1>3 DEF WriteDone, ErrLockFree, Record
<1>4. CASE ProbeAlloc
  <2>1. errors' \in Status /\ hub' \in HubPCs
    BY <1>4 DEF ProbeAlloc
  <2>2. kref' \in Int /\ limit_sem' \in Int /\ filled' \in Nat /\ copied' \in Nat
    BY <1>4 DEF ProbeAlloc
  <2>3. epOn' \in BOOLEAN /\ interface' \in BOOLEAN /\ ongoing_read' \in BOOLEAN
    BY <1>4 DEF ProbeAlloc
  <2> QED
    BY <1>4, <2>1, <2>2, <2>3 DEF ProbeAlloc
<1>5. CASE Unplug
  <2>1. errors' \in Status /\ limit_sem' \in Int
    BY <1>5 DEF Unplug, FlushEndpoints, Record
  <2>2. ongoing_read' \in BOOLEAN
    BY <1>5 DEF Unplug, FlushEndpoints
  <2> QED
    BY <1>5, <2>1, <2>2 DEF Unplug, FlushEndpoints
<1>6. CASE Replug
  BY <1>6 DEF Replug
<1>7. CASE Reset
  BY <1>7 DEF Reset
<1>8. CASE Suspend
  BY <1>8 DEF Suspend
<1>9. CASE ProbeFail
  BY <1>9 DEF ProbeFail
<1>10. CASE ProbeRegister
  BY <1>10 DEF ProbeRegister
<1>11. CASE DisconnectData
  BY <1>11 DEF DisconnectData
<1>12. CASE DisconnectMinor
  BY <1>12 DEF DisconnectMinor
<1>13. CASE DisconnectLock
  BY <1>13 DEF DisconnectLock
<1>14. CASE DisconnectKill
  BY <1>14 DEF DisconnectKill, KillWrites, ErrLockFree, Record
<1>15. CASE DisconnectPut
  BY <1>15 DEF DisconnectPut
<1>16. CASE PreResetLock
  BY <1>16 DEF PreResetLock, Lock
<1>17. CASE PreResetDraw
  BY <1>17 DEF PreResetDraw, KillWrites, ErrLockFree, Record
<1>18. CASE PreResetKill
  BY <1>18 DEF PreResetKill, KillRead, ErrLockFree, Record
<1>19. CASE skel_post_reset
  BY <1>19 DEF skel_post_reset, Unlock
<1>20. CASE SuspendDraw
  BY <1>20 DEF SuspendDraw, KillWrites, ErrLockFree, Record
<1>21. CASE SuspendKill
  BY <1>21 DEF SuspendKill, KillRead, ErrLockFree, Record
<1>22. CASE skel_resume
  BY <1>22 DEF skel_resume
<1> QED
  BY <1>1, <1>2, <1>3, <1>4, <1>5, <1>6, <1>7, <1>8, <1>9, <1>10, <1>11, <1>12,
     <1>13, <1>14, <1>15, <1>16, <1>17, <1>18, <1>19, <1>20, <1>21, <1>22
     DEF Next, TaskStep, HubStart, HubStep, UrbDone

LEMMA MutexStep == IInv /\ [Next]_vars => MutexOK'
<1> SUFFICES ASSUME IInv, Next PROVE MutexOK'
  BY DEF IInv, TypeOK, MutexOK, FrozenOK, OpenOK, UrbOK, vars,
         core, refs, reads, writes, locals
<1> USE DEF IInv, TypeOK, MutexOK, FrozenOK, OpenOK, PCs, MutexPCs, LimitPCs, HubPCs, HubMutex, HubFrozen,
        core, refs, reads, writes, locals
<1>1. ASSUME NEW t \in Tasks, hub \notin HubFrozen,
             Ask(t) \/ Acquire(t) \/ Proceed(t)
      PROVE  MutexOK'
  <2>1. CASE OpenFind(t)
    BY <2>1 DEF OpenFind, Goto
  <2>2. CASE ReadCall(t)
    BY <2>2 DEF ReadCall, Goto
  <2>3. CASE WriteCall(t)
    BY <2>3 DEF WriteCall, Goto
  <2>4. CASE FlushCall(t)
    BY <2>4 DEF FlushCall, Goto
  <2>5. CASE ReleaseCall(t)
    BY <2>5 DEF ReleaseCall, Goto
  <2>6. CASE GiveUp(t)
    BY <2>6 DEF GiveUp, Return, Goto
  <2>7. CASE ReadGiveUp(t)
    BY <2>7 DEF ReadGiveUp, Unlock, Return, Goto
  <2>8. CASE ReadLock(t)
    BY <2>8 DEF ReadLock, Lock, Goto
  <2>9. CASE ReadGone(t)
    BY <2>9 DEF ReadGone, Return, Goto
  <2>10. CASE ReadRetry(t)
    BY <2>10 DEF ReadRetry, ErrLockFree, Goto
  <2>11. CASE WriteDown(t)
    BY <2>11 DEF WriteDown, Goto
  <2>12. CASE WriteErr(t)
    BY <2>12 DEF WriteErr, ErrLockFree, Goto
  <2>13. CASE WriteGone(t)
    BY <2>13 DEF WriteGone, Goto
  <2>14. CASE WriteSubmit(t)
    BY <2>14 DEF WriteSubmit, CanSubmit, Return, Goto
  <2>15. CASE WriteRefused(t)
    BY <2>15 DEF WriteRefused, Goto
  <2>16. CASE WriteAllocFails(t)
    BY <2>16 DEF WriteAllocFails, Goto
  <2>17. CASE FlushLock(t)
    BY <2>17 DEF FlushLock, Lock, Goto
  <2>18. CASE FlushDraw(t)
    BY <2>18 DEF FlushDraw, KillWrites, Goto, ErrLockFree, Record
  <2>19. CASE FlushKill(t)
    BY <2>19 DEF FlushKill, KillRead, Goto, ErrLockFree, Record
  <2>20. CASE FlushErr(t)
    BY <2>20 DEF FlushErr, ErrLockFree, Unlock, Return, Goto
  <2>21. CASE ReleasePm(t)
    BY <2>21 DEF ReleasePm, Goto
  <2>22. CASE OpenFail(t)
    BY <2>22 DEF OpenFail, Goto
  <2>23. CASE OpenGet(t)
    BY <2>23 DEF OpenGet, Goto
  <2>24. CASE ReleasePut(t)
    BY <2>24 DEF ReleasePut, Goto
  <2>25. CASE ReadWoken(t)
    BY <2>25 DEF ReadWoken, Goto
  <2>26. CASE ReadErr(t)
    BY <2>26 DEF ReadErr, Goto
  <2>27. CASE ReadClear(t)
    BY <2>27 DEF ReadClear, Unlock, Return, Goto
  <2>28. CASE ReadStart(t)
    BY <2>28 DEF ReadStart, available, skel_do_read_io, Goto, CanSubmit, min
  <2>29. CASE ReadStartFails(t)
    BY <2>29 DEF ReadStartFails, available, skel_do_read_io, Unlock, Return,
                 CanSubmit, min, Goto
  <2>30. CASE ReadData(t)
    BY <2>30 DEF ReadData, available, skel_do_read_io, Unlock, Return, CanSubmit,
                 min, Goto
  <2>31. CASE WriteClear(t)
    BY <2>31 DEF WriteClear, Goto
  <2>32. CASE WriteReport(t)
    BY <2>32 DEF WriteReport, Goto
  <2>33. CASE WriteUp(t)
    BY <2>33 DEF WriteUp, Return, Goto
  <2> QED
    BY <1>1, <2>1, <2>2, <2>3, <2>4, <2>5, <2>6, <2>7, <2>8, <2>9, <2>10, <2>11,
       <2>12, <2>13, <2>14, <2>15, <2>16, <2>17, <2>18, <2>19, <2>20, <2>21,
       <2>22, <2>23, <2>24, <2>25, <2>26, <2>27, <2>28, <2>29, <2>30, <2>31,
       <2>32, <2>33
       DEF Ask, Acquire, Proceed
<1>2. ASSUME NEW st \in {"ok"} \cup Faults, ReadDone(st)
      PROVE  MutexOK'
  BY <1>2 DEF ReadDone, ErrLockFree, Record
<1>3. ASSUME NEW st \in {"ok"} \cup Faults, WriteDone(st)
      PROVE  MutexOK'
  BY <1>3 DEF WriteDone, ErrLockFree, Record
<1>4. CASE ProbeAlloc
  BY <1>4 DEF ProbeAlloc
<1>5. CASE Unplug
  BY <1>5 DEF Unplug, FlushEndpoints, ErrLockFree, Record
<1>6. CASE Replug
  BY <1>6 DEF Replug
<1>7. CASE Reset
  BY <1>7 DEF Reset
<1>8. CASE Suspend
  BY <1>8 DEF Suspend
<1>9. CASE ProbeFail
  BY <1>9 DEF ProbeFail
<1>10. CASE ProbeRegister
  BY <1>10 DEF ProbeRegister
<1>11. CASE DisconnectData
  BY <1>11 DEF DisconnectData
<1>12. CASE DisconnectMinor
  BY <1>12 DEF DisconnectMinor
<1>13. CASE DisconnectLock
  BY <1>13 DEF DisconnectLock
<1>14. CASE DisconnectKill
  BY <1>14 DEF DisconnectKill, KillWrites, ErrLockFree, Record
<1>15. CASE DisconnectPut
  BY <1>15 DEF DisconnectPut
<1>16. CASE PreResetLock
  BY <1>16 DEF PreResetLock, Lock
<1>17. CASE PreResetDraw
  BY <1>17 DEF PreResetDraw, KillWrites, ErrLockFree, Record
<1>18. CASE PreResetKill
  BY <1>18 DEF PreResetKill, KillRead, ErrLockFree, Record
<1>19. CASE skel_post_reset
  BY <1>19 DEF skel_post_reset, Unlock
<1>20. CASE SuspendDraw
  BY <1>20 DEF SuspendDraw, KillWrites, ErrLockFree, Record
<1>21. CASE SuspendKill
  BY <1>21 DEF SuspendKill, KillRead, ErrLockFree, Record
<1>22. CASE skel_resume
  BY <1>22 DEF skel_resume
<1> QED
  BY <1>1, <1>2, <1>3, <1>4, <1>5, <1>6, <1>7, <1>8, <1>9, <1>10, <1>11, <1>12,
     <1>13, <1>14, <1>15, <1>16, <1>17, <1>18, <1>19, <1>20, <1>21, <1>22
     DEF Next, TaskStep, HubStart, HubStep, UrbDone

LEMMA OpenStep == IInv /\ [Next]_vars => FrozenOK' /\ OpenOK'
<1> SUFFICES ASSUME IInv, Next PROVE FrozenOK' /\ OpenOK'
  BY DEF IInv, TypeOK, MutexOK, FrozenOK, OpenOK, UrbOK, vars,
         core, refs, reads, writes, locals
<1> USE DEF IInv, TypeOK, FrozenOK, OpenOK, HubBound, HubMinor, PCs, MutexPCs, LimitPCs, HubPCs, HubMutex, HubFrozen,
        core, refs, reads, writes, locals
<1>1. ASSUME NEW t \in Tasks, hub \notin HubFrozen,
             Ask(t) \/ Acquire(t) \/ Proceed(t)
      PROVE  FrozenOK' /\ OpenOK'
  <2>1. CASE OpenFind(t)
    BY <2>1, <1>1 DEF OpenFind, Goto
  <2>2. CASE ReadCall(t)
    BY <2>2, <1>1 DEF ReadCall, Goto
  <2>3. CASE WriteCall(t)
    BY <2>3, <1>1 DEF WriteCall, Goto
  <2>4. CASE FlushCall(t)
    BY <2>4, <1>1 DEF FlushCall, Goto
  <2>5. CASE ReleaseCall(t)
    BY <2>5, <1>1 DEF ReleaseCall, Goto
  <2>6. CASE GiveUp(t)
    BY <2>6, <1>1 DEF GiveUp, Return, Goto
  <2>7. CASE ReadGiveUp(t)
    BY <2>7, <1>1 DEF ReadGiveUp, Unlock, Return, Goto
  <2>8. CASE ReadLock(t)
    BY <2>8, <1>1 DEF ReadLock, Lock, Goto
  <2>9. CASE ReadGone(t)
    BY <2>9, <1>1 DEF ReadGone, Return, Goto
  <2>10. CASE ReadRetry(t)
    BY <2>10, <1>1 DEF ReadRetry, ErrLockFree, Goto
  <2>11. CASE WriteDown(t)
    BY <2>11, <1>1 DEF WriteDown, Goto
  <2>12. CASE WriteErr(t)
    BY <2>12, <1>1 DEF WriteErr, ErrLockFree, Goto
  <2>13. CASE WriteGone(t)
    BY <2>13, <1>1 DEF WriteGone, Goto
  <2>14. CASE WriteSubmit(t)
    BY <2>14, <1>1 DEF WriteSubmit, CanSubmit, Return, Goto
  <2>15. CASE WriteRefused(t)
    BY <2>15, <1>1 DEF WriteRefused, Goto
  <2>16. CASE WriteAllocFails(t)
    BY <2>16, <1>1 DEF WriteAllocFails, Goto
  <2>17. CASE FlushLock(t)
    BY <2>17, <1>1 DEF FlushLock, Lock, Goto
  <2>18. CASE FlushDraw(t)
    BY <2>18, <1>1 DEF FlushDraw, KillWrites, Goto, ErrLockFree, Record
  <2>19. CASE FlushKill(t)
    BY <2>19, <1>1 DEF FlushKill, KillRead, Goto, ErrLockFree, Record
  <2>20. CASE FlushErr(t)
    BY <2>20, <1>1 DEF FlushErr, ErrLockFree, Unlock, Return, Goto
  <2>21. CASE ReleasePm(t)
    BY <2>21, <1>1 DEF ReleasePm, Goto
  <2>22. CASE OpenFail(t)
    BY <2>22, <1>1 DEF OpenFail, Goto
  <2>23. CASE OpenGet(t)
    BY <2>23, <1>1 DEF OpenGet, Goto
  <2>24. CASE ReleasePut(t)
    BY <2>24, <1>1 DEF ReleasePut, Goto
  <2>25. CASE ReadWoken(t)
    BY <2>25, <1>1 DEF ReadWoken, Goto
  <2>26. CASE ReadErr(t)
    BY <2>26, <1>1 DEF ReadErr, Goto
  <2>27. CASE ReadClear(t)
    BY <2>27, <1>1 DEF ReadClear, Unlock, Return, Goto
  <2>28. CASE ReadStart(t)
    BY <2>28, <1>1 DEF ReadStart, available, skel_do_read_io, Goto, CanSubmit, min
  <2>29. CASE ReadStartFails(t)
    BY <2>29, <1>1 DEF ReadStartFails, available, skel_do_read_io, Unlock, Return,
                       CanSubmit, min, Goto
  <2>30. CASE ReadData(t)
    BY <2>30, <1>1 DEF ReadData, available, skel_do_read_io, Unlock, Return,
                       CanSubmit, min, Goto
  <2>31. CASE WriteClear(t)
    BY <2>31, <1>1 DEF WriteClear, Goto
  <2>32. CASE WriteReport(t)
    BY <2>32, <1>1 DEF WriteReport, Goto
  <2>33. CASE WriteUp(t)
    BY <2>33, <1>1 DEF WriteUp, Return, Goto
  <2> QED
    BY <1>1, <2>1, <2>2, <2>3, <2>4, <2>5, <2>6, <2>7, <2>8, <2>9, <2>10, <2>11,
       <2>12, <2>13, <2>14, <2>15, <2>16, <2>17, <2>18, <2>19, <2>20, <2>21,
       <2>22, <2>23, <2>24, <2>25, <2>26, <2>27, <2>28, <2>29, <2>30, <2>31,
       <2>32, <2>33
       DEF Ask, Acquire, Proceed
<1>2. ASSUME NEW st \in {"ok"} \cup Faults, ReadDone(st)
      PROVE  FrozenOK' /\ OpenOK'
  BY <1>2 DEF ReadDone, ErrLockFree, Record
<1>3. ASSUME NEW st \in {"ok"} \cup Faults, WriteDone(st)
      PROVE  FrozenOK' /\ OpenOK'
  BY <1>3 DEF WriteDone, ErrLockFree, Record
<1>4. CASE ProbeAlloc
  BY <1>4 DEF ProbeAlloc
<1>5. CASE Unplug
  BY <1>5 DEF Unplug, FlushEndpoints, ErrLockFree, Record
<1>6. CASE Replug
  <2>1. \A t \in Tasks : pc[t] \notin FilePCs
    BY <1>6, HoldingEmpty, HoldingFinite DEF Replug, KrefOK
  <2> QED
    BY <1>6, <2>1 DEF Replug, FilePCs
<1>7. CASE Reset
  BY <1>7 DEF Reset
<1>8. CASE Suspend
  BY <1>8 DEF Suspend
<1>9. CASE ProbeFail
  BY <1>9 DEF ProbeFail
<1>10. CASE ProbeRegister
  BY <1>10 DEF ProbeRegister
<1>11. CASE DisconnectData
  BY <1>11 DEF DisconnectData
<1>12. CASE DisconnectMinor
  BY <1>12 DEF DisconnectMinor
<1>13. CASE DisconnectLock
  BY <1>13 DEF DisconnectLock
<1>14. CASE DisconnectKill
  BY <1>14 DEF DisconnectKill, KillWrites, ErrLockFree, Record
<1>15. CASE DisconnectPut
  BY <1>15 DEF DisconnectPut
<1>16. CASE PreResetLock
  BY <1>16 DEF PreResetLock, Lock
<1>17. CASE PreResetDraw
  BY <1>17 DEF PreResetDraw, KillWrites, ErrLockFree, Record
<1>18. CASE PreResetKill
  BY <1>18 DEF PreResetKill, KillRead, ErrLockFree, Record
<1>19. CASE skel_post_reset
  BY <1>19 DEF skel_post_reset, Unlock
<1>20. CASE SuspendDraw
  BY <1>20 DEF SuspendDraw, KillWrites, ErrLockFree, Record
<1>21. CASE SuspendKill
  BY <1>21 DEF SuspendKill, KillRead, ErrLockFree, Record
<1>22. CASE skel_resume
  BY <1>22 DEF skel_resume
<1> QED
  BY <1>1, <1>2, <1>3, <1>4, <1>5, <1>6, <1>7, <1>8, <1>9, <1>10, <1>11, <1>12,
     <1>13, <1>14, <1>15, <1>16, <1>17, <1>18, <1>19, <1>20, <1>21, <1>22
     DEF Next, TaskStep, HubStart, HubStep, UrbDone

LEMMA UrbStep == IInv /\ [Next]_vars => UrbOK'
<1> SUFFICES ASSUME IInv, Next PROVE UrbOK'
  BY DEF IInv, TypeOK, MutexOK, FrozenOK, OpenOK, UrbOK, vars,
         core, refs, reads, writes, locals
<1> USE DEF IInv, TypeOK, MutexOK, FrozenOK, OpenOK, UrbOK, HubBound, HubMinor, PCs, MutexPCs, LimitPCs, HubPCs, HubMutex, HubFrozen,
        core, refs, reads, writes, locals
<1>1. ASSUME NEW t \in Tasks, hub \notin HubFrozen,
             Ask(t) \/ Acquire(t) \/ Proceed(t)
      PROVE  UrbOK'
  <2>1. CASE OpenFind(t)
    BY <2>1 DEF OpenFind, Goto
  <2>2. CASE ReadCall(t)
    BY <2>2 DEF ReadCall, Goto
  <2>3. CASE WriteCall(t)
    BY <2>3 DEF WriteCall, Goto
  <2>4. CASE FlushCall(t)
    BY <2>4 DEF FlushCall, Goto
  <2>5. CASE ReleaseCall(t)
    BY <2>5 DEF ReleaseCall, Goto
  <2>6. CASE GiveUp(t)
    BY <2>6 DEF GiveUp, Return, Goto
  <2>7. CASE ReadGiveUp(t)
    BY <2>7 DEF ReadGiveUp, Unlock, Return, Goto
  <2>8. CASE ReadLock(t)
    BY <2>8 DEF ReadLock, Lock, Goto
  <2>9. CASE ReadGone(t)
    BY <2>9 DEF ReadGone, Return, Goto
  <2>10. CASE ReadRetry(t)
    BY <2>10 DEF ReadRetry, ErrLockFree, Goto
  <2>11. CASE WriteDown(t)
    BY <2>11 DEF WriteDown, Goto
  <2>12. CASE WriteErr(t)
    BY <2>12 DEF WriteErr, ErrLockFree, Goto
  <2>13. CASE WriteGone(t)
    BY <2>13 DEF WriteGone, Goto
  <2>14. CASE WriteSubmit(t)
    BY <2>14 DEF WriteSubmit, CanSubmit, Return, Goto
  <2>15. CASE WriteRefused(t)
    BY <2>15 DEF WriteRefused, Goto
  <2>16. CASE WriteAllocFails(t)
    BY <2>16 DEF WriteAllocFails, Goto
  <2>17. CASE FlushLock(t)
    BY <2>17 DEF FlushLock, Lock, Goto
  <2>18. CASE FlushDraw(t)
    BY <2>18 DEF FlushDraw, KillWrites, Goto, ErrLockFree, Record
  <2>19. CASE FlushKill(t)
    BY <2>19 DEF FlushKill, KillRead, Goto, ErrLockFree, Record
  <2>20. CASE FlushErr(t)
    BY <2>20 DEF FlushErr, ErrLockFree, Unlock, Return, Goto
  <2>21. CASE ReleasePm(t)
    BY <2>21 DEF ReleasePm, Goto
  <2>22. CASE OpenFail(t)
    BY <2>22 DEF OpenFail, Goto
  <2>23. CASE OpenGet(t)
    BY <2>23 DEF OpenGet, Goto
  <2>24. CASE ReleasePut(t)
    BY <2>24 DEF ReleasePut, Goto
  <2>25. CASE ReadWoken(t)
    BY <2>25 DEF ReadWoken, Goto
  <2>26. CASE ReadErr(t)
    BY <2>26 DEF ReadErr, Goto
  <2>27. CASE ReadClear(t)
    BY <2>27 DEF ReadClear, Unlock, Return, Goto
  <2>28. CASE ReadStart(t)
    BY <2>28 DEF ReadStart, available, skel_do_read_io, Goto, CanSubmit, min
  <2>29. CASE ReadStartFails(t)
    BY <2>29 DEF ReadStartFails, available, skel_do_read_io, Unlock, Return,
                 CanSubmit, min, Goto
  <2>30. CASE ReadData(t)
    BY <2>30 DEF ReadData, available, skel_do_read_io, Unlock, Return, CanSubmit,
                 min, Goto
  <2>31. CASE WriteClear(t)
    BY <2>31 DEF WriteClear, Goto
  <2>32. CASE WriteReport(t)
    BY <2>32 DEF WriteReport, Goto
  <2>33. CASE WriteUp(t)
    BY <2>33 DEF WriteUp, Return, Goto
  <2> QED
    BY <1>1, <2>1, <2>2, <2>3, <2>4, <2>5, <2>6, <2>7, <2>8, <2>9, <2>10, <2>11,
       <2>12, <2>13, <2>14, <2>15, <2>16, <2>17, <2>18, <2>19, <2>20, <2>21,
       <2>22, <2>23, <2>24, <2>25, <2>26, <2>27, <2>28, <2>29, <2>30, <2>31,
       <2>32, <2>33
       DEF Ask, Acquire, Proceed
<1>2. ASSUME NEW st \in {"ok"} \cup Faults, ReadDone(st)
      PROVE  UrbOK'
  BY <1>2 DEF ReadDone, ErrLockFree, Record
<1>3. ASSUME NEW st \in {"ok"} \cup Faults, WriteDone(st)
      PROVE  UrbOK'
  BY <1>3 DEF WriteDone, ErrLockFree, Record
<1>4. CASE ProbeAlloc
  BY <1>4 DEF ProbeAlloc
<1>5. CASE Unplug
  BY <1>5 DEF Unplug, FlushEndpoints, ErrLockFree, Record
<1>6. CASE Replug
  BY <1>6 DEF Replug
<1>7. CASE Reset
  BY <1>7 DEF Reset
<1>8. CASE Suspend
  BY <1>8 DEF Suspend
<1>9. CASE ProbeFail
  BY <1>9 DEF ProbeFail
<1>10. CASE ProbeRegister
  BY <1>10 DEF ProbeRegister
<1>11. CASE DisconnectData
  BY <1>11 DEF DisconnectData
<1>12. CASE DisconnectMinor
  BY <1>12 DEF DisconnectMinor
<1>13. CASE DisconnectLock
  BY <1>13 DEF DisconnectLock
<1>14. CASE DisconnectKill
  BY <1>14 DEF DisconnectKill, KillWrites, ErrLockFree, Record
<1>15. CASE DisconnectPut
  BY <1>15 DEF DisconnectPut
<1>16. CASE PreResetLock
  BY <1>16 DEF PreResetLock, Lock
<1>17. CASE PreResetDraw
  BY <1>17 DEF PreResetDraw, KillWrites, ErrLockFree, Record
<1>18. CASE PreResetKill
  BY <1>18 DEF PreResetKill, KillRead, ErrLockFree, Record
<1>19. CASE skel_post_reset
  BY <1>19 DEF skel_post_reset, Unlock
<1>20. CASE SuspendDraw
  BY <1>20 DEF SuspendDraw, KillWrites, ErrLockFree, Record
<1>21. CASE SuspendKill
  BY <1>21 DEF SuspendKill, KillRead, ErrLockFree, Record
<1>22. CASE skel_resume
  BY <1>22 DEF skel_resume
<1> QED
  BY <1>1, <1>2, <1>3, <1>4, <1>5, <1>6, <1>7, <1>8, <1>9, <1>10, <1>11, <1>12,
     <1>13, <1>14, <1>15, <1>16, <1>17, <1>18, <1>19, <1>20, <1>21, <1>22
     DEF Next, TaskStep, HubStart, HubStep, UrbDone

-----------------------------------------------------------------------------
(***************************************************************************)
(* References: FilePCs are left and entered together with kref.            *)
(***************************************************************************)

LEMMA FilesStay ==
  ASSUME IInv, NEW t \in Tasks, NEW l \in FilePCs, pc[t] \in FilePCs, Goto(t, l),
         hub' = hub, kref' = kref
  PROVE  KrefOK'
<1>1. Holding(FilePCs)' = Holding(FilePCs)
  BY HoldingStays DEF IInv, TypeOK, FilePCs
<1> QED
  BY <1>1 DEF IInv, KrefOK

LEMMA FilesSame ==
  ASSUME IInv, pc' = pc, hub' = hub, kref' = kref
  PROVE  KrefOK'
  BY HoldingSame DEF IInv, KrefOK

LEMMA KrefStep == IInv /\ [Next]_vars => KrefOK'
<1> SUFFICES ASSUME IInv, Next PROVE KrefOK'
  BY HoldingSame DEF IInv, KrefOK, vars,
         core, refs, reads, writes, locals
<1> USE DEF IInv, TypeOK, FilePCs, PCs, MutexPCs, LimitPCs, HubPCs, HubMutex, HubFrozen,
        core, refs, reads, writes, locals
<1>1. ASSUME NEW t \in Tasks, hub \notin HubFrozen,
             Ask(t) \/ Acquire(t) \/ Proceed(t)
      PROVE  KrefOK'
  <2>1. CASE OpenFind(t)
    <3>1. Holding(FilePCs)' = Holding(FilePCs)
      BY <2>1, HoldingStays DEF OpenFind
    <3> QED
      BY <2>1, <3>1 DEF OpenFind, KrefOK
  <2>2. CASE ReadCall(t)
    BY <2>2, FilesStay DEF ReadCall
  <2>3. CASE WriteCall(t)
    BY <2>3, FilesStay DEF WriteCall
  <2>4. CASE FlushCall(t)
    BY <2>4, FilesStay DEF FlushCall
  <2>5. CASE ReleaseCall(t)
    BY <2>5, FilesStay DEF ReleaseCall
  <2>6. CASE GiveUp(t)
    BY <2>6, FilesStay DEF GiveUp, Return
  <2>7. CASE ReadGiveUp(t)
    BY <2>7, FilesStay DEF ReadGiveUp, Return
  <2>8. CASE ReadLock(t)
    BY <2>8, FilesStay DEF ReadLock
  <2>9. CASE ReadGone(t)
    BY <2>9, FilesStay DEF ReadGone, Return
  <2>10. CASE ReadRetry(t)
    BY <2>10, FilesStay DEF ReadRetry
  <2>11. CASE WriteDown(t)
    BY <2>11, FilesStay DEF WriteDown
  <2>12. CASE WriteErr(t)
    BY <2>12, FilesStay DEF WriteErr
  <2>13. CASE WriteGone(t)
    BY <2>13, FilesStay DEF WriteGone
  <2>14. CASE WriteSubmit(t)
    BY <2>14, FilesStay DEF WriteSubmit, CanSubmit, Return
  <2>15. CASE WriteRefused(t)
    BY <2>15, FilesStay DEF WriteRefused
  <2>16. CASE WriteAllocFails(t)
    BY <2>16, FilesStay DEF WriteAllocFails
  <2>17. CASE FlushLock(t)
    BY <2>17, FilesStay DEF FlushLock
  <2>18. CASE FlushDraw(t)
    BY <2>18, FilesStay DEF FlushDraw, KillWrites
  <2>19. CASE FlushKill(t)
    BY <2>19, FilesStay DEF FlushKill, KillRead
  <2>20. CASE FlushErr(t)
    BY <2>20, FilesStay DEF FlushErr, Return
  <2>21. CASE ReleasePm(t)
    BY <2>21, FilesStay DEF ReleasePm
  <2>22. CASE OpenFail(t)
    <3>1. Holding(FilePCs)' = Holding(FilePCs)
      BY <2>22, HoldingStays DEF OpenFail
    <3> QED
      BY <2>22, <3>1 DEF OpenFail, KrefOK
  <2>23. CASE OpenGet(t)
    <3>1. Cardinality(Holding(FilePCs)') = Cardinality(Holding(FilePCs)) + 1
      BY <2>23, HoldingGrows DEF OpenGet
    <3> QED
      BY <2>23, <3>1, HoldingFinite DEF OpenGet, KrefOK
  <2>24. CASE ReleasePut(t)
    <3>1. Cardinality(Holding(FilePCs)') = Cardinality(Holding(FilePCs)) - 1
      BY <2>24, HoldingShrinks DEF ReleasePut
    <3> QED
      BY <2>24, <3>1, HoldingFinite DEF ReleasePut, KrefOK
  <2>25. CASE ReadWoken(t)
    BY <2>25, FilesStay DEF ReadWoken
  <2>26. CASE ReadErr(t)
    BY <2>26, FilesStay DEF ReadErr
  <2>27. CASE ReadClear(t)
    BY <2>27, FilesStay DEF ReadClear, Return
  <2>28. CASE ReadStart(t)
    BY <2>28, FilesStay DEF ReadStart, available, skel_do_read_io, CanSubmit, min
  <2>29. CASE ReadStartFails(t)
    BY <2>29, FilesStay DEF ReadStartFails, available, skel_do_read_io, Return,
                            CanSubmit, min
  <2>30. CASE ReadData(t)
    BY <2>30, FilesStay DEF ReadData, available, skel_do_read_io, Return,
                            CanSubmit, min
  <2>31. CASE WriteClear(t)
    BY <2>31, FilesStay DEF WriteClear
  <2>32. CASE WriteReport(t)
    BY <2>32, FilesStay DEF WriteReport
  <2>33. CASE WriteUp(t)
    BY <2>33, FilesStay DEF WriteUp, Return
  <2> QED
    BY <1>1, <2>1, <2>2, <2>3, <2>4, <2>5, <2>6, <2>7, <2>8, <2>9, <2>10, <2>11,
       <2>12, <2>13, <2>14, <2>15, <2>16, <2>17, <2>18, <2>19, <2>20, <2>21,
       <2>22, <2>23, <2>24, <2>25, <2>26, <2>27, <2>28, <2>29, <2>30, <2>31,
       <2>32, <2>33
       DEF Ask, Acquire, Proceed
<1>2. ASSUME NEW st \in {"ok"} \cup Faults, ReadDone(st)
      PROVE  KrefOK'
  BY <1>2, FilesSame DEF ReadDone
<1>3. ASSUME NEW st \in {"ok"} \cup Faults, WriteDone(st)
      PROVE  KrefOK'
  BY <1>3, FilesSame DEF WriteDone
<1>4. CASE ProbeAlloc
  <2>1. Holding(FilePCs)' = {}
    BY <1>4 DEF ProbeAlloc, OpenOK, Holding
  <2> QED
    BY <1>4, <2>1, FS_EmptySet DEF ProbeAlloc, KrefOK
<1>5. CASE Unplug
  BY <1>5, HoldingSame DEF Unplug, KrefOK
<1>6. CASE Replug
  BY <1>6, HoldingSame DEF Replug, KrefOK
<1>7. CASE Reset
  BY <1>7, HoldingSame DEF Reset, KrefOK
<1>8. CASE Suspend
  BY <1>8, HoldingSame DEF Suspend, KrefOK
<1>9. CASE ProbeFail
  BY <1>9, HoldingSame, HoldingFinite DEF ProbeFail, KrefOK
<1>10. CASE ProbeRegister
  BY <1>10, HoldingSame DEF ProbeRegister, KrefOK
<1>11. CASE DisconnectData
  BY <1>11, HoldingSame DEF DisconnectData, KrefOK
<1>12. CASE DisconnectMinor
  BY <1>12, HoldingSame DEF DisconnectMinor, KrefOK
<1>13. CASE DisconnectLock
  BY <1>13, HoldingSame DEF DisconnectLock, KrefOK
<1>14. CASE DisconnectKill
  BY <1>14, HoldingSame DEF DisconnectKill, KrefOK
<1>15. CASE DisconnectPut
  BY <1>15, HoldingSame, HoldingFinite DEF DisconnectPut, KrefOK
<1>16. CASE PreResetLock
  BY <1>16, HoldingSame DEF PreResetLock, KrefOK
<1>17. CASE PreResetDraw
  BY <1>17, HoldingSame DEF PreResetDraw, KrefOK
<1>18. CASE PreResetKill
  BY <1>18, HoldingSame DEF PreResetKill, KrefOK
<1>19. CASE skel_post_reset
  BY <1>19, HoldingSame DEF skel_post_reset, KrefOK
<1>20. CASE SuspendDraw
  BY <1>20, HoldingSame DEF SuspendDraw, KrefOK
<1>21. CASE SuspendKill
  BY <1>21, HoldingSame DEF SuspendKill, KrefOK
<1>22. CASE skel_resume
  BY <1>22, HoldingSame DEF skel_resume, KrefOK
<1> QED
  BY <1>1, <1>2, <1>3, <1>4, <1>5, <1>6, <1>7, <1>8, <1>9, <1>10, <1>11, <1>12,
     <1>13, <1>14, <1>15, <1>16, <1>17, <1>18, <1>19, <1>20, <1>21, <1>22
     DEF Next, TaskStep, HubStart, HubStep, UrbDone

-----------------------------------------------------------------------------
(***************************************************************************)
(* Slots of limit_sem.                                                     *)
(***************************************************************************)

LEMMA SlotsStay ==
  ASSUME IInv, NEW t \in Tasks, NEW l \in PCs, pc[t] \in LimitPCs <=> l \in LimitPCs,
         Goto(t, l), hub' = hub, limit_sem' = limit_sem, flying' = flying
  PROVE  SlotOK'
<1>1. Holding(LimitPCs)' = Holding(LimitPCs)
  BY HoldingStays DEF IInv, TypeOK
<1> QED
  BY <1>1 DEF IInv, SlotOK

\* A step of the core or a completion: what flies comes down into limit_sem.
LEMMA SlotsSame ==
  ASSUME IInv, pc' = pc, hub # "unbound", limit_sem' + flying' = limit_sem + flying,
         limit_sem' \in Int, flying' \in Int
  PROVE  SlotOK'
<1>1. Holding(LimitPCs)' = Holding(LimitPCs)
  BY HoldingSame
<1>2. Cardinality(Holding(LimitPCs)) \in Nat
  BY HoldingFinite
<1> QED
  BY <1>1, <1>2 DEF IInv, TypeOK, SlotOK

LEMMA SlotStep == IInv /\ [Next]_vars => SlotOK'
<1> SUFFICES ASSUME IInv, Next PROVE SlotOK'
  BY HoldingSame DEF IInv, SlotOK, vars,
         core, refs, reads, writes, locals
<1> USE UsbAssumption DEF IInv, TypeOK, PCs, MutexPCs, LimitPCs, HubPCs, HubMutex, HubFrozen,
        core, refs, reads, writes, locals
<1>a. flying > 0 \/ rurb > 0 => hub # "unbound"
  BY DEF UrbOK, HubBound
<1>1. ASSUME NEW t \in Tasks, hub \notin HubFrozen,
             Ask(t) \/ Acquire(t) \/ Proceed(t)
      PROVE  SlotOK'
  <2>1. CASE OpenFind(t)
    BY <2>1, SlotsStay DEF OpenFind
  <2>2. CASE ReadCall(t)
    BY <2>2, SlotsStay DEF ReadCall
  <2>3. CASE WriteCall(t)
    BY <2>3, SlotsStay DEF WriteCall
  <2>4. CASE FlushCall(t)
    BY <2>4, SlotsStay DEF FlushCall
  <2>5. CASE ReleaseCall(t)
    BY <2>5, SlotsStay DEF ReleaseCall
  <2>6. CASE GiveUp(t)
    BY <2>6, SlotsStay DEF GiveUp, Return
  <2>7. CASE ReadGiveUp(t)
    BY <2>7, SlotsStay DEF ReadGiveUp, Return
  <2>8. CASE ReadLock(t)
    BY <2>8, SlotsStay DEF ReadLock
  <2>9. CASE ReadGone(t)
    BY <2>9, SlotsStay DEF ReadGone, Return
  <2>10. CASE ReadRetry(t)
    BY <2>10, SlotsStay DEF ReadRetry
  <2>11. CASE WriteDown(t)
    <3>1. Cardinality(Holding(LimitPCs)') = Cardinality(Holding(LimitPCs)) + 1
      BY <2>11, HoldingGrows DEF WriteDown
    <3> QED
      BY <2>11, <3>1, HoldingFinite DEF WriteDown, SlotOK
  <2>12. CASE WriteErr(t)
    BY <2>12, SlotsStay DEF WriteErr
  <2>13. CASE WriteGone(t)
    BY <2>13, SlotsStay DEF WriteGone
  <2>14. CASE WriteSubmit(t)
    <3>1. Cardinality(Holding(LimitPCs)') = Cardinality(Holding(LimitPCs)) - 1
      BY <2>14, HoldingShrinks DEF WriteSubmit, Return
    <3> QED
      BY <2>14, <3>1, HoldingFinite DEF WriteSubmit, SlotOK
  <2>15. CASE WriteRefused(t)
    BY <2>15, SlotsStay DEF WriteRefused
  <2>16. CASE WriteAllocFails(t)
    BY <2>16, SlotsStay DEF WriteAllocFails
  <2>17. CASE FlushLock(t)
    BY <2>17, SlotsStay DEF FlushLock
  <2>18. CASE FlushDraw(t)
    <3>1. Holding(LimitPCs)' = Holding(LimitPCs)
      BY <2>18, HoldingStays DEF FlushDraw
    <3> QED
      BY <2>18, <3>1, HoldingFinite DEF FlushDraw, KillWrites, SlotOK
  <2>19. CASE FlushKill(t)
    BY <2>19, SlotsStay DEF FlushKill, KillRead
  <2>20. CASE FlushErr(t)
    BY <2>20, SlotsStay DEF FlushErr, Return
  <2>21. CASE ReleasePm(t)
    BY <2>21, SlotsStay DEF ReleasePm
  <2>22. CASE OpenFail(t)
    BY <2>22, SlotsStay DEF OpenFail
  <2>23. CASE OpenGet(t)
    BY <2>23, SlotsStay DEF OpenGet
  <2>24. CASE ReleasePut(t)
    BY <2>24, SlotsStay DEF ReleasePut
  <2>25. CASE ReadWoken(t)
    BY <2>25, SlotsStay DEF ReadWoken
  <2>26. CASE ReadErr(t)
    BY <2>26, SlotsStay DEF ReadErr
  <2>27. CASE ReadClear(t)
    BY <2>27, SlotsStay DEF ReadClear, Return
  <2>28. CASE ReadStart(t)
    BY <2>28, SlotsStay DEF ReadStart, available, skel_do_read_io, CanSubmit, min
  <2>29. CASE ReadStartFails(t)
    BY <2>29, SlotsStay DEF ReadStartFails, available, skel_do_read_io, Return,
                            CanSubmit, min
  <2>30. CASE ReadData(t)
    BY <2>30, SlotsStay DEF ReadData, available, skel_do_read_io, Return,
                            CanSubmit, min
  <2>31. CASE WriteClear(t)
    BY <2>31, SlotsStay DEF WriteClear
  <2>32. CASE WriteReport(t)
    BY <2>32, SlotsStay DEF WriteReport
  <2>33. CASE WriteUp(t)
    <3>1. Cardinality(Holding(LimitPCs)') = Cardinality(Holding(LimitPCs)) - 1
      BY <2>33, HoldingShrinks DEF WriteUp, Return
    <3> QED
      BY <2>33, <3>1, HoldingFinite DEF WriteUp, SlotOK
  <2> QED
    BY <1>1, <2>1, <2>2, <2>3, <2>4, <2>5, <2>6, <2>7, <2>8, <2>9, <2>10, <2>11,
       <2>12, <2>13, <2>14, <2>15, <2>16, <2>17, <2>18, <2>19, <2>20, <2>21,
       <2>22, <2>23, <2>24, <2>25, <2>26, <2>27, <2>28, <2>29, <2>30, <2>31,
       <2>32, <2>33
       DEF Ask, Acquire, Proceed
<1>2. ASSUME NEW st \in {"ok"} \cup Faults, ReadDone(st)
      PROVE  SlotOK'
  BY <1>2, SlotsSame, <1>a DEF ReadDone
<1>3. ASSUME NEW st \in {"ok"} \cup Faults, WriteDone(st)
      PROVE  SlotOK'
  BY <1>3, SlotsSame, <1>a DEF WriteDone
<1>4. CASE ProbeAlloc
  <2>1. Holding(LimitPCs)' = {}
    BY <1>4 DEF ProbeAlloc, OpenOK, Holding
  <2> QED
    BY <1>4, <2>1, <1>a, FS_EmptySet DEF ProbeAlloc, SlotOK
<1>5. CASE Unplug
  BY <1>5, SlotsSame DEF Unplug, FlushEndpoints
<1>6. CASE Replug
  BY <1>6 DEF Replug, SlotOK
<1>7. CASE Reset
  BY <1>7, SlotsSame DEF Reset
<1>8. CASE Suspend
  BY <1>8, SlotsSame DEF Suspend
<1>9. CASE ProbeFail
  BY <1>9 DEF ProbeFail, SlotOK
<1>10. CASE ProbeRegister
  BY <1>10, SlotsSame DEF ProbeRegister
<1>11. CASE DisconnectData
  BY <1>11, SlotsSame DEF DisconnectData
<1>12. CASE DisconnectMinor
  BY <1>12, SlotsSame DEF DisconnectMinor
<1>13. CASE DisconnectLock
  BY <1>13, SlotsSame DEF DisconnectLock
<1>14. CASE DisconnectKill
  BY <1>14, SlotsSame DEF DisconnectKill, KillWrites
<1>15. CASE DisconnectPut
  BY <1>15, SlotsSame DEF DisconnectPut
<1>16. CASE PreResetLock
  BY <1>16, SlotsSame DEF PreResetLock
<1>17. CASE PreResetDraw
  BY <1>17, SlotsSame DEF PreResetDraw, KillWrites
<1>18. CASE PreResetKill
  BY <1>18, SlotsSame DEF PreResetKill, KillRead
<1>19. CASE skel_post_reset
  BY <1>19, SlotsSame DEF skel_post_reset
<1>20. CASE SuspendDraw
  BY <1>20, SlotsSame DEF SuspendDraw, KillWrites
<1>21. CASE SuspendKill
  BY <1>21, SlotsSame DEF SuspendKill, KillRead
<1>22. CASE skel_resume
  BY <1>22, SlotsSame DEF skel_resume
<1> QED
  BY <1>1, <1>2, <1>3, <1>4, <1>5, <1>6, <1>7, <1>8, <1>9, <1>10, <1>11, <1>12,
     <1>13, <1>14, <1>15, <1>16, <1>17, <1>18, <1>19, <1>20, <1>21, <1>22
     DEF Next, TaskStep, HubStart, HubStep, UrbDone

-----------------------------------------------------------------------------
(***************************************************************************)
(* The autosuspend count.                                                  *)
(***************************************************************************)

LEMMA PmStay ==
  ASSUME IInv, NEW t \in Tasks, NEW l \in PCs, pc[t] \in PmPCs <=> l \in PmPCs,
         Goto(t, l), hub' = hub, interface' = interface, pm' = pm
  PROVE  PmOK'
<1>1. Holding(PmPCs)' = Holding(PmPCs)
  BY HoldingStays DEF IInv, TypeOK
<1> QED
  BY <1>1 DEF IInv, PmOK

LEMMA PmStep == IInv /\ [Next]_vars => PmOK'
<1> SUFFICES ASSUME IInv, Next PROVE PmOK'
  BY HoldingSame DEF IInv, PmOK, vars,
         core, refs, reads, writes, locals
<1> USE DEF IInv, TypeOK, PmPCs, PCs, MutexPCs, LimitPCs, HubPCs, HubMutex, HubFrozen,
        core, refs, reads, writes, locals
<1>1. ASSUME NEW t \in Tasks, hub \notin HubFrozen,
             Ask(t) \/ Acquire(t) \/ Proceed(t)
      PROVE  PmOK'
  <2>1. CASE OpenFind(t)
    BY <2>1, PmStay DEF OpenFind
  <2>2. CASE ReadCall(t)
    BY <2>2, PmStay DEF ReadCall
  <2>3. CASE WriteCall(t)
    BY <2>3, PmStay DEF WriteCall
  <2>4. CASE FlushCall(t)
    BY <2>4, PmStay DEF FlushCall
  <2>5. CASE ReleaseCall(t)
    BY <2>5, PmStay DEF ReleaseCall
  <2>6. CASE GiveUp(t)
    BY <2>6, PmStay DEF GiveUp, Return
  <2>7. CASE ReadGiveUp(t)
    BY <2>7, PmStay DEF ReadGiveUp, Return
  <2>8. CASE ReadLock(t)
    BY <2>8, PmStay DEF ReadLock
  <2>9. CASE ReadGone(t)
    BY <2>9, PmStay DEF ReadGone, Return
  <2>10. CASE ReadRetry(t)
    BY <2>10, PmStay DEF ReadRetry
  <2>11. CASE WriteDown(t)
    BY <2>11, PmStay DEF WriteDown
  <2>12. CASE WriteErr(t)
    BY <2>12, PmStay DEF WriteErr
  <2>13. CASE WriteGone(t)
    BY <2>13, PmStay DEF WriteGone
  <2>14. CASE WriteSubmit(t)
    BY <2>14, PmStay DEF WriteSubmit, CanSubmit, Return
  <2>15. CASE WriteRefused(t)
    BY <2>15, PmStay DEF WriteRefused
  <2>16. CASE WriteAllocFails(t)
    BY <2>16, PmStay DEF WriteAllocFails
  <2>17. CASE FlushLock(t)
    BY <2>17, PmStay DEF FlushLock
  <2>18. CASE FlushDraw(t)
    BY <2>18, PmStay DEF FlushDraw, KillWrites
  <2>19. CASE FlushKill(t)
    BY <2>19, PmStay DEF FlushKill, KillRead
  <2>20. CASE FlushErr(t)
    BY <2>20, PmStay DEF FlushErr, Return
  <2>21. CASE ReleasePm(t)
    <3>1. Cardinality(Holding(PmPCs)') = Cardinality(Holding(PmPCs)) - 1
      BY <2>21, HoldingShrinks DEF ReleasePm
    <3>2. hub \notin {"unbound", "probe"} /\ (hub = "gone" => ~ interface)
      BY <2>21 DEF ReleasePm, OpenOK, UrbOK
    <3> QED
      BY <2>21, <3>1, <3>2, HoldingFinite DEF ReleasePm, PmOK
  <2>22. CASE OpenFail(t)
    BY <2>22, PmStay DEF OpenFail
  <2>23. CASE OpenGet(t)
    <3>1. Cardinality(Holding(PmPCs)') = Cardinality(Holding(PmPCs)) + 1
      BY <2>23, HoldingGrows DEF OpenGet
    <3>2. hub \in HubMinor
      BY <2>23 DEF OpenGet, OpenOK
    <3> QED
      BY <2>23, <3>1, <3>2, HoldingFinite DEF OpenGet, PmOK, HubMinor, HubBound
  <2>24. CASE ReleasePut(t)
    BY <2>24, PmStay DEF ReleasePut
  <2>25. CASE ReadWoken(t)
    BY <2>25, PmStay DEF ReadWoken
  <2>26. CASE ReadErr(t)
    BY <2>26, PmStay DEF ReadErr
  <2>27. CASE ReadClear(t)
    BY <2>27, PmStay DEF ReadClear, Return
  <2>28. CASE ReadStart(t)
    BY <2>28, PmStay DEF ReadStart, available, skel_do_read_io, CanSubmit, min
  <2>29. CASE ReadStartFails(t)
    BY <2>29, PmStay DEF ReadStartFails, available, skel_do_read_io, Return,
                         CanSubmit, min
  <2>30. CASE ReadData(t)
    BY <2>30, PmStay DEF ReadData, available, skel_do_read_io, Return, CanSubmit,
                         min
  <2>31. CASE WriteClear(t)
    BY <2>31, PmStay DEF WriteClear
  <2>32. CASE WriteReport(t)
    BY <2>32, PmStay DEF WriteReport
  <2>33. CASE WriteUp(t)
    BY <2>33, PmStay DEF WriteUp, Return
  <2> QED
    BY <1>1, <2>1, <2>2, <2>3, <2>4, <2>5, <2>6, <2>7, <2>8, <2>9, <2>10, <2>11,
       <2>12, <2>13, <2>14, <2>15, <2>16, <2>17, <2>18, <2>19, <2>20, <2>21,
       <2>22, <2>23, <2>24, <2>25, <2>26, <2>27, <2>28, <2>29, <2>30, <2>31,
       <2>32, <2>33
       DEF Ask, Acquire, Proceed
<1>2. ASSUME NEW st \in {"ok"} \cup Faults, ReadDone(st)
      PROVE  PmOK'
  BY <1>2, HoldingSame DEF ReadDone, PmOK
<1>3. ASSUME NEW st \in {"ok"} \cup Faults, WriteDone(st)
      PROVE  PmOK'
  BY <1>3, HoldingSame DEF WriteDone, PmOK
<1>4. CASE ProbeAlloc
  <2>1. Holding(PmPCs)' = {}
    BY <1>4 DEF ProbeAlloc, OpenOK, Holding
  <2> QED
    BY <1>4, <2>1, FS_EmptySet DEF ProbeAlloc, PmOK
<1>5. CASE Unplug
  BY <1>5, HoldingSame DEF Unplug, PmOK
<1>6. CASE Replug
  BY <1>6, HoldingSame DEF Replug, PmOK
<1>7. CASE Reset
  BY <1>7, HoldingSame DEF Reset, PmOK
<1>8. CASE Suspend
  BY <1>8, HoldingSame DEF Suspend, PmOK
<1>9. CASE ProbeFail
  BY <1>9, HoldingSame DEF ProbeFail, PmOK
<1>10. CASE ProbeRegister
  BY <1>10, HoldingSame DEF ProbeRegister, PmOK
<1>11. CASE DisconnectData
  BY <1>11, HoldingSame DEF DisconnectData, PmOK
<1>12. CASE DisconnectMinor
  BY <1>12, HoldingSame DEF DisconnectMinor, PmOK
<1>13. CASE DisconnectLock
  BY <1>13, HoldingSame DEF DisconnectLock, PmOK
<1>14. CASE DisconnectKill
  BY <1>14, HoldingSame DEF DisconnectKill, PmOK
<1>15. CASE DisconnectPut
  BY <1>15, HoldingSame DEF DisconnectPut, PmOK, UrbOK
<1>16. CASE PreResetLock
  BY <1>16, HoldingSame DEF PreResetLock, PmOK
<1>17. CASE PreResetDraw
  BY <1>17, HoldingSame DEF PreResetDraw, PmOK
<1>18. CASE PreResetKill
  BY <1>18, HoldingSame DEF PreResetKill, PmOK
<1>19. CASE skel_post_reset
  BY <1>19, HoldingSame DEF skel_post_reset, PmOK
<1>20. CASE SuspendDraw
  BY <1>20, HoldingSame DEF SuspendDraw, PmOK
<1>21. CASE SuspendKill
  BY <1>21, HoldingSame DEF SuspendKill, PmOK
<1>22. CASE skel_resume
  BY <1>22, HoldingSame DEF skel_resume, PmOK
<1> QED
  BY <1>1, <1>2, <1>3, <1>4, <1>5, <1>6, <1>7, <1>8, <1>9, <1>10, <1>11, <1>12,
     <1>13, <1>14, <1>15, <1>16, <1>17, <1>18, <1>19, <1>20, <1>21, <1>22
     DEF Next, TaskStep, HubStart, HubStep, UrbDone

-----------------------------------------------------------------------------
(***************************************************************************)
(* The buffer of bulk_in_urb.                                              *)
(***************************************************************************)

LEMMA BufferStep == IInv /\ [Next]_vars => BufferOK'
<1> SUFFICES ASSUME IInv, Next PROVE BufferOK'
  BY DEF IInv, BufferOK, vars, core, refs, reads, writes, locals
<1> USE UsbAssumption DEF IInv, TypeOK, MutexOK, BufferOK, Reading, MutexPCs, LimitPCs,
        HubMutex, core, refs, reads, writes, locals
<1>1. ASSUME NEW t \in Tasks, hub \notin HubFrozen,
             Ask(t) \/ Acquire(t) \/ Proceed(t)
      PROVE  BufferOK'
  <2>1. CASE OpenFind(t)
    BY <2>1 DEF OpenFind, Goto
  <2>2. CASE ReadCall(t)
    BY <2>2 DEF ReadCall, Goto
  <2>3. CASE WriteCall(t)
    BY <2>3 DEF WriteCall, Goto
  <2>4. CASE FlushCall(t)
    BY <2>4 DEF FlushCall, Goto
  <2>5. CASE ReleaseCall(t)
    BY <2>5 DEF ReleaseCall, Goto
  <2>6. CASE GiveUp(t)
    BY <2>6 DEF GiveUp, Return, Goto
  <2>7. CASE ReadGiveUp(t)
    BY <2>7 DEF ReadGiveUp, Unlock, Return, Goto
  <2>8. CASE ReadLock(t)
    BY <2>8 DEF ReadLock, Lock, Goto
  <2>9. CASE ReadGone(t)
    BY <2>9 DEF ReadGone, Return, Goto
  <2>10. CASE ReadRetry(t)
    BY <2>10 DEF ReadRetry, ErrLockFree, Goto
  <2>11. CASE WriteDown(t)
    BY <2>11 DEF WriteDown, Goto
  <2>12. CASE WriteErr(t)
    BY <2>12 DEF WriteErr, ErrLockFree, Goto
  <2>13. CASE WriteGone(t)
    BY <2>13 DEF WriteGone, Goto
  <2>14. CASE WriteSubmit(t)
    BY <2>14 DEF WriteSubmit, CanSubmit, Return, Goto
  <2>15. CASE WriteRefused(t)
    BY <2>15 DEF WriteRefused, Goto
  <2>16. CASE WriteAllocFails(t)
    BY <2>16 DEF WriteAllocFails, Goto
  <2>17. CASE FlushLock(t)
    BY <2>17 DEF FlushLock, Lock, Goto
  <2>18. CASE FlushDraw(t)
    BY <2>18 DEF FlushDraw, KillWrites, Goto, ErrLockFree, Record
  <2>19. CASE FlushKill(t)
    <3>1. ~ (ongoing_read /\ rurb = 0)
      BY DEF BufferOK
    <3>2. ~ ongoing_read'
      BY <2>19, <3>1, Zenon DEF FlushKill, KillRead
    <3>3. rurb' = 0 /\ filled' = filled /\ copied' = copied
      BY <2>19 DEF FlushKill, KillRead
    <3> QED
      BY <2>19, <3>2, <3>3 DEF FlushKill, Goto
  <2>20. CASE FlushErr(t)
    BY <2>20 DEF FlushErr, ErrLockFree, Unlock, Return, Goto
  <2>21. CASE ReleasePm(t)
    BY <2>21 DEF ReleasePm, Goto
  <2>22. CASE OpenFail(t)
    BY <2>22 DEF OpenFail, Goto
  <2>23. CASE OpenGet(t)
    BY <2>23 DEF OpenGet, Goto
  <2>24. CASE ReleasePut(t)
    BY <2>24 DEF ReleasePut, Goto
  <2>25. CASE ReadWoken(t)
    BY <2>25 DEF ReadWoken, Goto
  <2>26. CASE ReadErr(t)
    BY <2>26 DEF ReadErr, Goto
  <2>27. CASE ReadClear(t)
    BY <2>27 DEF ReadClear, Unlock, Return, Goto
  <2>28. CASE ReadStart(t)
    BY <2>28 DEF ReadStart, available, skel_do_read_io, Goto, CanSubmit, min
  <2>29. CASE ReadStartFails(t)
    BY <2>29 DEF ReadStartFails, available, skel_do_read_io, Unlock, Return,
                 CanSubmit, min, Goto
  <2>30. CASE ReadData(t)
    BY <2>30 DEF ReadData, available, skel_do_read_io, Unlock, Return, CanSubmit,
                 min, Goto
  <2>31. CASE WriteClear(t)
    BY <2>31 DEF WriteClear, Goto
  <2>32. CASE WriteReport(t)
    BY <2>32 DEF WriteReport, Goto
  <2>33. CASE WriteUp(t)
    BY <2>33 DEF WriteUp, Return, Goto
  <2> QED
    BY <1>1, <2>1, <2>2, <2>3, <2>4, <2>5, <2>6, <2>7, <2>8, <2>9, <2>10, <2>11,
       <2>12, <2>13, <2>14, <2>15, <2>16, <2>17, <2>18, <2>19, <2>20, <2>21,
       <2>22, <2>23, <2>24, <2>25, <2>26, <2>27, <2>28, <2>29, <2>30, <2>31,
       <2>32, <2>33
       DEF Ask, Acquire, Proceed
<1>2. ASSUME NEW st \in {"ok"} \cup Faults, ReadDone(st)
      PROVE  BufferOK'
  BY <1>2 DEF ReadDone, ErrLockFree, Record
<1>3. ASSUME NEW st \in {"ok"} \cup Faults, WriteDone(st)
      PROVE  BufferOK'
  BY <1>3 DEF WriteDone, ErrLockFree, Record
<1>4. CASE ProbeAlloc
  <2>1. rurb' = 0 /\ ~ ongoing_read'
    BY <1>4 DEF ProbeAlloc, UrbOK, HubBound, HubFrozen
  <2> QED
    BY <1>4, <2>1 DEF ProbeAlloc
<1>5. CASE Unplug
  <2>1. ~ (ongoing_read /\ rurb = 0)
    BY DEF BufferOK
  <2>2. ~ ongoing_read'
    BY <1>5, <2>1, Zenon DEF Unplug, FlushEndpoints
  <2>3. rurb' = 0 /\ filled' = filled /\ copied' = copied
    BY <1>5 DEF Unplug, FlushEndpoints
  <2> QED
    BY <1>5, <2>2, <2>3 DEF Unplug
<1>6. CASE Replug
  BY <1>6 DEF Replug
<1>7. CASE Reset
  BY <1>7 DEF Reset
<1>8. CASE Suspend
  BY <1>8 DEF Suspend
<1>9. CASE ProbeFail
  BY <1>9 DEF ProbeFail
<1>10. CASE ProbeRegister
  BY <1>10 DEF ProbeRegister
<1>11. CASE DisconnectData
  BY <1>11 DEF DisconnectData
<1>12. CASE DisconnectMinor
  BY <1>12 DEF DisconnectMinor
<1>13. CASE DisconnectLock
  BY <1>13 DEF DisconnectLock
<1>14. CASE DisconnectKill
  BY <1>14 DEF DisconnectKill, KillWrites, ErrLockFree, Record
<1>15. CASE DisconnectPut
  BY <1>15 DEF DisconnectPut
<1>16. CASE PreResetLock
  BY <1>16 DEF PreResetLock, Lock
<1>17. CASE PreResetDraw
  BY <1>17 DEF PreResetDraw, KillWrites, ErrLockFree, Record
<1>18. CASE PreResetKill
  <2>1. ~ (ongoing_read /\ rurb = 0)
    BY DEF BufferOK
  <2>2. ~ ongoing_read'
    BY <1>18, <2>1, Zenon DEF PreResetKill, KillRead
  <2>3. rurb' = 0 /\ filled' = filled /\ copied' = copied
    BY <1>18 DEF PreResetKill, KillRead
  <2> QED
    BY <1>18, <2>2, <2>3 DEF PreResetKill
<1>19. CASE skel_post_reset
  BY <1>19 DEF skel_post_reset, Unlock
<1>20. CASE SuspendDraw
  BY <1>20 DEF SuspendDraw, KillWrites, ErrLockFree, Record
<1>21. CASE SuspendKill
  <2>1. ~ (ongoing_read /\ rurb = 0)
    BY DEF BufferOK
  <2>2. ~ ongoing_read'
    BY <1>21, <2>1, Zenon DEF SuspendKill, KillRead
  <2>3. rurb' = 0 /\ filled' = filled /\ copied' = copied
    BY <1>21 DEF SuspendKill, KillRead
  <2> QED
    BY <1>21, <2>2, <2>3 DEF SuspendKill
<1>22. CASE skel_resume
  BY <1>22 DEF skel_resume
<1> QED
  BY <1>1, <1>2, <1>3, <1>4, <1>5, <1>6, <1>7, <1>8, <1>9, <1>10, <1>11, <1>12,
     <1>13, <1>14, <1>15, <1>16, <1>17, <1>18, <1>19, <1>20, <1>21, <1>22
     DEF Next, TaskStep, HubStart, HubStep, UrbDone

-----------------------------------------------------------------------------
(***************************************************************************)
(* The theorems.                                                           *)
(***************************************************************************)

LEMMA Invariance == Spec => []IInv
<1>1. IInv /\ [Next]_vars => IInv'
  BY TypeStep, MutexStep, OpenStep, UrbStep, SlotStep, KrefStep, PmStep, BufferStep
     DEF IInv
<1> QED
  BY <1>1, InitInv, PTL DEF Spec

(***************************************************************************)
(* Every slot of limit_sem taken by skel_write is given back once, by the  *)
(* call, by the callback or by a kill, and usb_autopm_get and _put match,  *)
(* for any number of threads and of slots.                                 *)
(***************************************************************************)
THEOREM SlotsConserved == Spec => []LimitConserved
<1>1. IInv => LimitConserved
  <2> SUFFICES ASSUME IInv PROVE LimitConserved
    OBVIOUS
  <2>1. Files \ Holding({"rel_put"}) = Holding(PmPCs)
    BY DEF Files, Holding, PmPCs, IInv, TypeOK
  <2> QED
    BY <2>1 DEF LimitConserved, IInv, SlotOK, PmOK
<1> QED
  BY <1>1, Invariance, PTL

(***************************************************************************)
(* skel_delete frees the structure only when no thread, no URB and not the *)
(* core can reach it, in whatever order files are closed and the device is *)
(* unplugged.                                                              *)
(***************************************************************************)
THEOREM LifetimeCorrect == Spec => []NoUseAfterFree
<1>1. IInv => NoUseAfterFree
  <2> SUFFICES ASSUME IInv PROVE NoUseAfterFree
    OBVIOUS
  <2> USE DEF IInv
  <2>1. Cardinality(Holding(FilePCs)) \in Nat
    BY HoldingFinite
  <2>2. hub \notin {"unbound", "gone"} => kref > 0
    BY <2>1 DEF KrefOK
  <2>3. ASSUME NEW t \in Tasks, pc[t] # "closed"
        PROVE  kref > 0
    <3>1. CASE pc[t] = "open_get"
      BY <2>2, <3>1 DEF OpenOK, HubMinor, HubBound, HubMutex, HubFrozen
    <3>2. CASE pc[t] # "open_get"
      <4>1. pc[t] \in FilePCs
        BY <2>3, <3>2 DEF TypeOK, FilePCs
      <4>2. Cardinality(Holding(FilePCs)) # 0
        BY <4>1, HoldingEmpty
      <4> QED
        BY <2>1, <4>2 DEF KrefOK
    <3> QED
      BY <3>1, <3>2
  <2>4. flying > 0 \/ rurb > 0 => kref > 0
    BY <2>2 DEF UrbOK, HubBound, HubMutex, HubFrozen
  <2> QED
    BY <2>2, <2>3, <2>4 DEF NoUseAfterFree, Holding
<1> QED
  BY <1>1, Invariance, PTL

(***************************************************************************)
(* The structure is freed when the device is gone and all files closed.    *)
(***************************************************************************)
THEOREM NothingLeaked == Spec => []NoLeak
<1>1. IInv => NoLeak
  <2> SUFFICES ASSUME IInv, hub \in {"gone", "unbound"}, Holding(PCs \ {"closed"}) = {}
               PROVE  kref = 0
    BY DEF NoLeak
  <2>1. \A t \in Tasks : pc[t] \notin FilePCs
    BY DEF Holding, FilePCs
  <2> QED
    BY <2>1, HoldingEmpty DEF IInv, KrefOK
<1> QED
  BY <1>1, Invariance, PTL

(***************************************************************************)
(* No URB is in flight once the interface is cleared, nor between          *)
(* skel_pre_reset and skel_post_reset.                                     *)
(***************************************************************************)
THEOREM GoneDeviceQuiet == Spec => []NoUrbOnGoneDevice
<1>1. IInv => NoUrbOnGoneDevice
  BY DEF IInv, TypeOK, UrbOK, HubBound, HubMutex, HubFrozen, NoUrbOnGoneDevice
<1> QED
  BY <1>1, Invariance, PTL

(***************************************************************************)
(* The buffer belongs to the URB or to the one thread with io_mutex, and   *)
(* what has been copied never exceeds what was filled.                     *)
(***************************************************************************)
THEOREM BufferExclusive == Spec => []BufferOwned
<1>1. IInv => BufferOwned
  <2> SUFFICES ASSUME IInv PROVE BufferOwned
    OBVIOUS
  <2>1. Cardinality(Holding(MutexPCs)) <= 1
    <3>1. CASE Holding(MutexPCs) = {}
      BY <3>1, FS_EmptySet
    <3>2. ASSUME NEW t \in Holding(MutexPCs)
          PROVE  Cardinality(Holding(MutexPCs)) = 1
      <4>1. Holding(MutexPCs) = {t}
        BY DEF IInv, MutexOK, Holding
      <4> QED
        BY <4>1, FS_Singleton
    <3> QED
      BY <3>1, <3>2
  <2> QED
    BY <2>1 DEF IInv, TypeOK, BufferOK, BufferOwned, Holding
<1> QED
  BY <1>1, Invariance, PTL
=============================================================================
