----------------------------- MODULE PipeProofs -----------------------------
(***************************************************************************)
(* Proofs about the pipe driver (module Pipe), for every number of         *)
(* threads, every buffer length from 2 on and every request size.          *)
(*                                                                         *)
(* The argument goes in four layers.  Mutual exclusion needs only sem and  *)
(* pc.  The ring invariant then needs mutual exclusion: a thread between   *)
(* its loop test and the advance of its pointer is the only one that moves *)
(* a pointer.  The wake-up invariants need both, and so does the content   *)
(* of the ring, from which the refinement of FifoChannel follows.          *)
(***************************************************************************)
EXTENDS Pipe, SequenceTheorems, TLAPS

(***************************************************************************)
(* Layer 1: the semaphore.                                                 *)
(***************************************************************************)
PcOK == pc \in [Procs -> PCs] /\ sem \in Nat

SemInv == PcOK /\ SemaphoreBalanced

LEMMA SemInvInit == Init => SemInv
  BY DEF Init, SemInv, PcOK, SemaphoreBalanced, PCs, Locked, Waiting,
         ReadLocked, WriteLocked, IoctlLocked

(***************************************************************************)
(* What an action may do to pc and sem: stay on the same side of the       *)
(* semaphore, take it, or give it back.                                    *)
(***************************************************************************)
LEMMA SemStay ==
  ASSUME SemInv, NEW p \in Procs, NEW l \in PCs,
         pc[p] \in Locked <=> l \in Locked,
         Goto(p, l), sem' = sem
  PROVE  SemInv'
  BY DEF SemInv, PcOK, SemaphoreBalanced, Goto

LEMMA SemTake ==
  ASSUME SemInv, NEW p \in Procs, NEW l \in Locked,
         pc[p] \notin Locked, sem > 0,
         Goto(p, l), sem' = sem - 1
  PROVE  SemInv'
  BY DEF SemInv, PcOK, SemaphoreBalanced, Goto, PCs

LEMMA SemGive ==
  ASSUME SemInv, NEW p \in Procs, NEW l \in PCs \ Locked,
         pc[p] \in Locked,
         Goto(p, l), Up
  PROVE  SemInv'
  BY DEF SemInv, PcOK, SemaphoreBalanced, Goto, Up, PCs

LEMMA SemInvStep == SemInv /\ [Next]_vars => SemInv'
<1> SUFFICES ASSUME SemInv, Next PROVE SemInv'
  BY DEF SemInv, PcOK, SemaphoreBalanced, vars
<1> PICK p \in Procs :
       \/ Calls(p) \/ Downs(p) \/ ReadStep(p) \/ WriteStep(p) \/ IoctlStep(p)
       \/ Interrupted(p)
  BY DEF Next
<1> USE DEF PCs, Locked, Waiting, ReadLocked, WriteLocked, IoctlLocked
<1>1. CASE ReadCall(p)
  BY <1>1, SemStay DEF ReadCall
<1>2. CASE WriteCall(p)
  BY <1>2, SemStay DEF WriteCall
<1>3. CASE IoctlCall(p)
  BY <1>3, SemStay DEF IoctlCall
<1>4. CASE ReadReady(p)
  BY <1>4, SemStay DEF ReadReady
<1>5. CASE WriteReady(p)
  BY <1>5, SemStay DEF WriteReady
<1>6. CASE ReadPrepare(p)
  BY <1>6, SemStay DEF ReadPrepare
<1>7. CASE WritePrepare(p)
  BY <1>7, SemStay DEF WritePrepare
<1>8. CASE ReadLoad(p)
  BY <1>8, SemStay DEF ReadLoad
<1>9. CASE WriteLoad(p)
  BY <1>9, SemStay DEF WriteLoad
<1>10. CASE ReadCheck(p)
  BY <1>10, SemStay DEF ReadCheck
<1>11. CASE WriteCheck(p)
  BY <1>11, SemStay DEF WriteCheck
<1>12. CASE ReadAwake(p)
  BY <1>12, SemStay DEF ReadAwake
<1>13. CASE WriteAwake(p)
  BY <1>13, SemStay DEF WriteAwake
<1>14. CASE ReadCopy(p)
  BY <1>14, SemStay DEF ReadCopy
<1>15. CASE WriteCopy(p)
  BY <1>15, SemStay DEF WriteCopy
<1>16. CASE ReadAdvance(p)
  BY <1>16, SemStay DEF ReadAdvance
<1>17. CASE WriteAdvance(p)
  BY <1>17, SemStay DEF WriteAdvance
<1>18. CASE ReadWake(p)
  BY <1>18, SemStay DEF ReadWake, Return
<1>19. CASE WriteWake(p)
  BY <1>19, SemStay DEF WriteWake, Return
<1>20. CASE IoctlResetWp(p)
  BY <1>20, SemStay DEF IoctlResetWp
<1>21. CASE Interrupted(p)
  BY <1>21, SemStay DEF Interrupted, Return
<1>22. CASE ReadDown(p)
  BY <1>22, SemTake DEF ReadDown, Down
<1>23. CASE WriteDown(p)
  BY <1>23, SemTake DEF WriteDown, Down
<1>24. CASE IoctlDown(p)
  BY <1>24, SemTake DEF IoctlDown, Down
<1>25. CASE ReadEmpty(p)
  BY <1>25, SemGive DEF ReadEmpty
<1>26. CASE WriteFull(p)
  BY <1>26, SemGive DEF WriteFull
<1>27. CASE ReadFault(p)
  BY <1>27, SemGive DEF ReadFault, Return
<1>28. CASE WriteFault(p)
  BY <1>28, SemGive DEF WriteFault, Return
<1>29. CASE ReadWrap(p)
  BY <1>29, SemGive DEF ReadWrap
<1>30. CASE WriteWrap(p)
  BY <1>30, SemGive DEF WriteWrap
<1>31. CASE IoctlResetRp(p)
  BY <1>31, SemGive DEF IoctlResetRp, Return
<1> QED
  BY <1>1, <1>2, <1>3, <1>4, <1>5, <1>6, <1>7, <1>8, <1>9, <1>10, <1>11,
     <1>12, <1>13, <1>14, <1>15, <1>16, <1>17, <1>18, <1>19, <1>20, <1>21,
     <1>22, <1>23, <1>24, <1>25, <1>26, <1>27, <1>28, <1>29, <1>30, <1>31
     DEF Calls, Downs, ReadStep, WriteStep, IoctlStep

(***************************************************************************)
(* Layer 2: the ring.  A pointer stands at the end of the buffer only      *)
(* until its owner wraps it; a slot stays free, whatever is going on; what *)
(* a call has computed or copied is still true when it advances.           *)
(***************************************************************************)
Filling == {"write_down", "write_test", "write_prep", "write_load",
            "write_check", "write_sleep", "write_copy", "write_adv"}

RingOK ==
    /\ rp = BufLen => \E p \in Procs : pc[p] = "read_wrap"
    /\ wp = BufLen => \E p \in Procs : pc[p] = "write_wrap"
    /\ Size <= BufLen - 1
    /\ CopyInBounds
    /\ \A p \in Procs : pc[p] \in Filling => Len(ubuf[p]) >= cnt[p]
    /\ \A p \in Procs : pc[p] = "ioctl_rp" => wp = 0

RingInv == TypeOK /\ RingOK

LEMMA RingInvInit == Init => RingInv
  BY ConstantsAssumption
     DEF Init, RingInv, TypeOK, RingOK, CopyInBounds, Size, Byte, PCs, Locked,
         Waiting, ReadLocked, WriteLocked, IoctlLocked, Filling

LEMMA TypeStep == SemInv /\ RingInv /\ [Next]_vars => TypeOK'
<1> SUFFICES ASSUME SemInv, RingInv, Next PROVE TypeOK'
  BY DEF RingInv, TypeOK, vars
<1> PICK p \in Procs :
       \/ Calls(p) \/ Downs(p) \/ ReadStep(p) \/ WriteStep(p) \/ IoctlStep(p)
       \/ Interrupted(p)
  BY DEF Next
<1> USE ConstantsAssumption
    DEF RingInv, TypeOK, PCs, Locked, Waiting, ReadLocked, WriteLocked,
        IoctlLocked
<1>1. CASE ReadCall(p)
  BY <1>1 DEF ReadCall, Goto, RingOK, CopyInBounds, Size, Filling
<1>2. CASE WriteCall(p)
  BY <1>2 DEF WriteCall, Goto, Byte, RingOK, CopyInBounds, Size, Filling
<1>3. CASE IoctlCall(p)
  BY <1>3 DEF IoctlCall, Goto, RingOK, CopyInBounds, Size, Filling
<1>4. CASE ReadDown(p)
  BY <1>4 DEF ReadDown, Down, Goto, RingOK, CopyInBounds, Size, Filling
<1>5. CASE WriteDown(p)
  BY <1>5 DEF WriteDown, Down, Goto, RingOK, CopyInBounds, Size, Filling
<1>6. CASE IoctlDown(p)
  BY <1>6 DEF IoctlDown, Down, Goto, RingOK, CopyInBounds, Size, Filling
<1>7. CASE ReadEmpty(p)
  BY <1>7 DEF ReadEmpty, Up, Goto, RingOK, CopyInBounds, Size, Filling
<1>8. CASE ReadReady(p)
  BY <1>8 DEF ReadReady, ReadChunk, min, Goto, RingOK, CopyInBounds, Size,
              Filling
<1>9. CASE ReadPrepare(p)
  BY <1>9 DEF ReadPrepare, Goto, RingOK, CopyInBounds, Size, Filling
<1>10. CASE ReadLoad(p)
  BY <1>10 DEF ReadLoad, Goto, RingOK, CopyInBounds, Size, Filling
<1>11. CASE ReadCheck(p)
  <2>1. readq' \subseteq Procs
    BY <1>11 DEF ReadCheck
  <2>2. pc' \in [Procs -> PCs]
    BY <1>11 DEF ReadCheck, Goto
  <2>3. seen' \in [Procs -> 0 .. BufLen]
    BY <1>11 DEF ReadCheck
  <2> QED
    BY <1>11, <2>1, <2>2, <2>3 DEF ReadCheck
<1>12. CASE ReadAwake(p)
  BY <1>12 DEF ReadAwake, Goto, RingOK, CopyInBounds, Size, Filling
<1>13. CASE ReadCopy(p)
  <2>1. \A i \in 1 .. cnt[p] : rp + i - 1 \in 0 .. BufLen - 1
    BY <1>13 DEF ReadCopy, RingOK, CopyInBounds
  <2>2. \A i \in 1 .. cnt[p] : buf[rp + i - 1] \in Byte
    BY <2>1
  <2>3. [i \in 1 .. cnt[p] |-> buf[rp + i - 1]] \in Seq(Byte)
    <3> HIDE DEF RingInv, TypeOK, Locked
    <3>1. cnt[p] \in Nat
      BY DEF RingInv, TypeOK
    <3> QED
      BY <2>2, <3>1
  <2> QED
    BY <1>13, <2>3 DEF ReadCopy, Goto
<1>14. CASE ReadFault(p)
  BY <1>14 DEF ReadFault, Up, Return, Goto, RingOK, CopyInBounds, Size, Filling
<1>15. CASE ReadAdvance(p)
  BY <1>15 DEF ReadAdvance, Goto, RingOK, CopyInBounds, Size, Filling
<1>16. CASE ReadWrap(p)
  BY <1>16 DEF ReadWrap, Up, Goto, RingOK, CopyInBounds, Size, Filling
<1>17. CASE ReadWake(p)
  BY <1>17 DEF ReadWake, Return, Goto, RingOK, CopyInBounds, Size, Filling
<1>18. CASE WriteFull(p)
  BY <1>18 DEF WriteFull, Up, Goto, RingOK, CopyInBounds, Size, Filling
<1>19. CASE WriteReady(p)
  BY <1>19 DEF WriteReady, WriteChunk, spacefree, min, Goto, RingOK,
               CopyInBounds, Size, Filling
<1>20. CASE WritePrepare(p)
  BY <1>20 DEF WritePrepare, Goto, RingOK, CopyInBounds, Size, Filling
<1>21. CASE WriteLoad(p)
  BY <1>21 DEF WriteLoad, Goto, RingOK, CopyInBounds, Size, Filling
<1>22. CASE WriteCheck(p)
  <2>1. writeq' \subseteq Procs
    BY <1>22 DEF WriteCheck
  <2>2. pc' \in [Procs -> PCs]
    BY <1>22 DEF WriteCheck, Goto
  <2>3. seen' \in [Procs -> 0 .. BufLen]
    BY <1>22 DEF WriteCheck
  <2> QED
    BY <1>22, <2>1, <2>2, <2>3 DEF WriteCheck
<1>23. CASE WriteAwake(p)
  BY <1>23 DEF WriteAwake, Goto, RingOK, CopyInBounds, Size, Filling
<1>24. CASE WriteCopy(p)
  BY <1>24 DEF WriteCopy, CopyIn, Goto, RingOK, CopyInBounds, Size, Filling
<1>25. CASE WriteFault(p)
  <2> PICK k \in 0 .. cnt[p] - 1 : buf' = CopyIn(p, k)
    BY <1>25 DEF WriteFault
  <2>1. buf' \in [0 .. BufLen - 1 -> Byte]
    BY <1>25 DEF WriteFault, CopyIn, RingOK, Filling, Byte
  <2> QED
    BY <1>25, <2>1 DEF WriteFault, Up, Return, Goto
<1>26. CASE WriteAdvance(p)
  BY <1>26 DEF WriteAdvance, Goto, RingOK, CopyInBounds, Size, Filling
<1>27. CASE WriteWrap(p)
  BY <1>27 DEF WriteWrap, Up, Goto, RingOK, CopyInBounds, Size, Filling
<1>28. CASE WriteWake(p)
  BY <1>28 DEF WriteWake, Return, Goto, RingOK, CopyInBounds, Size, Filling
<1>29. CASE IoctlResetWp(p)
  BY <1>29 DEF IoctlResetWp, Goto, RingOK, CopyInBounds, Size, Filling
<1>30. CASE IoctlResetRp(p)
  BY <1>30 DEF IoctlResetRp, Up, Return, Goto, RingOK, CopyInBounds, Size,
               Filling
<1>31. CASE Interrupted(p)
  BY <1>31 DEF Interrupted, Return, Goto, RingOK, CopyInBounds, Size, Filling
<1> QED
  BY <1>1, <1>2, <1>3, <1>4, <1>5, <1>6, <1>7, <1>8, <1>9, <1>10,
     <1>11, <1>12, <1>13, <1>14, <1>15, <1>16, <1>17, <1>18, <1>19, <1>20,
     <1>21, <1>22, <1>23, <1>24, <1>25, <1>26, <1>27, <1>28, <1>29, <1>30,
     <1>31
     DEF Calls, Downs, ReadStep, WriteStep, IoctlStep

LEMMA RingFrame ==
  ASSUME RingInv, NEW p \in Procs, NEW l, Goto(p, l), UNCHANGED <<wp, rp>>,
         \A q \in Procs : q # p => cnt'[q] = cnt[q] /\ ubuf'[q] = ubuf[q],
         pc[p] \notin {"read_wrap", "write_wrap"},
         l # "ioctl_rp",
         l \in {"read_copy", "read_adv"} =>
            cnt'[p] <= Size /\ rp + cnt'[p] <= BufLen,
         l \in {"write_copy", "write_adv"} =>
            cnt'[p] <= BufLen - 1 - Size /\ wp + cnt'[p] <= BufLen,
         l \in Filling => Len(ubuf'[p]) >= cnt'[p]
  PROVE  RingOK'
<1>1. /\ pc'[p] = l
      /\ \A q \in Procs : q # p => pc'[q] = pc[q]
  BY DEF Goto, RingInv, TypeOK
<1>2. Size' = Size
  BY DEF Size
<1>3. CopyInBounds'
  BY <1>1, <1>2 DEF CopyInBounds, RingInv, RingOK
<1> QED
  BY <1>1, <1>2, <1>3 DEF RingInv, RingOK

LEMMA RingMove ==
  ASSUME SemInv, RingInv, NEW p \in Procs, pc[p] \in Locked,
         NEW l \in {"read_wrap", "write_wrap", "read_wake", "write_wake",
                    "ioctl_rp", "idle"},
         Goto(p, l),
         \A q \in Procs : q # p => cnt'[q] = cnt[q] /\ ubuf'[q] = ubuf[q],
         rp' = BufLen => l = "read_wrap",
         wp' = BufLen => l = "write_wrap",
         l = "ioctl_rp" => wp' = 0,
         Size' <= BufLen - 1
  PROVE  RingOK'
<1>1. /\ pc'[p] = l
      /\ \A q \in Procs : q # p => pc'[q] = pc[q]
  BY DEF Goto, RingInv, TypeOK
<1>2. \A q \in Procs : q # p => pc'[q] \notin Locked
  BY <1>1 DEF SemInv, SemaphoreBalanced
<1>3. CopyInBounds'
  BY <1>1, <1>2 DEF CopyInBounds, Locked, ReadLocked, WriteLocked
<1>4. \A q \in Procs : pc'[q] \in Filling => Len(ubuf'[q]) >= cnt'[q]
  BY <1>1 DEF RingInv, RingOK, Filling
<1>5. \A q \in Procs : pc'[q] = "ioctl_rp" => wp' = 0
  BY <1>1, <1>2 DEF Locked, IoctlLocked
<1> QED
  BY <1>1, <1>3, <1>4, <1>5 DEF RingOK

LEMMA RingStep == SemInv /\ RingInv /\ TypeOK' /\ [Next]_vars => RingOK'
<1> SUFFICES ASSUME SemInv, RingInv, TypeOK', Next PROVE RingOK'
  BY DEF RingInv, RingOK, CopyInBounds, Size, vars
<1> PICK p \in Procs :
       \/ Calls(p) \/ Downs(p) \/ ReadStep(p) \/ WriteStep(p) \/ IoctlStep(p)
       \/ Interrupted(p)
  BY DEF Next
<1>1. CASE ReadCall(p)
  BY <1>1, RingFrame DEF ReadCall, Filling, RingInv, RingOK, TypeOK
<1>2. CASE WriteCall(p)
  <2>0. PICK n \in 0 .. MaxCount :
           /\ cnt' = [cnt EXCEPT ![p] = n]
           /\ \E s \in [1 .. n -> Data] : ubuf' = [ubuf EXCEPT ![p] = s]
    BY <1>2 DEF WriteCall
  <2>1. PICK s \in [1 .. n -> Data] : ubuf' = [ubuf EXCEPT ![p] = s]
    BY <2>0
  <2>2. Len(ubuf'[p]) >= cnt'[p]
    BY <2>0, <2>1, ConstantsAssumption DEF RingInv, TypeOK
  <2>3. \A q \in Procs : q # p => cnt'[q] = cnt[q] /\ ubuf'[q] = ubuf[q]
    BY <2>0, <2>1 DEF RingInv, TypeOK
  <2> QED
    BY <1>2, <2>2, <2>3, RingFrame DEF WriteCall
<1>3. CASE IoctlCall(p)
  BY <1>3, RingFrame DEF IoctlCall, Filling, RingInv, RingOK, TypeOK
<1>4. CASE ReadDown(p)
  BY <1>4, RingFrame DEF ReadDown, Down, Filling, RingInv, RingOK, TypeOK
<1>5. CASE WriteDown(p)
  BY <1>5, RingFrame DEF WriteDown, Down, Filling, RingInv, RingOK, TypeOK
<1>6. CASE IoctlDown(p)
  BY <1>6, RingFrame DEF IoctlDown, Down, Filling, RingInv, RingOK, TypeOK
<1>7. CASE ReadEmpty(p)
  BY <1>7, RingFrame DEF ReadEmpty, Filling, RingInv, RingOK, TypeOK
<1>8. CASE ReadReady(p)
  <2>1. rp # BufLen /\ wp # BufLen
    BY <1>8 DEF ReadReady, SemInv, SemaphoreBalanced, Locked, ReadLocked,
              WriteLocked, RingInv, RingOK
  <2>2. cnt'[p] = ReadChunk(cnt[p]) /\ cnt[p] \in Nat
    BY <1>8 DEF ReadReady, RingInv, TypeOK
  <2>3. cnt'[p] <= Size /\ rp + cnt'[p] <= BufLen
    BY <1>8, <2>1, <2>2, ConstantsAssumption
       DEF ReadReady, ReadChunk, min, Size, RingInv, TypeOK
  <2> QED
    BY <1>8, <2>3, RingFrame DEF ReadReady, RingInv, TypeOK, Filling
<1>9. CASE ReadPrepare(p)
  BY <1>9, RingFrame DEF ReadPrepare, Filling, RingInv, RingOK, TypeOK
<1>10. CASE ReadLoad(p)
  BY <1>10, RingFrame DEF ReadLoad, Filling, RingInv, RingOK, TypeOK
<1>11. CASE ReadCheck(p)
  BY <1>11, RingFrame DEF ReadCheck, Filling, RingInv, RingOK, TypeOK
<1>12. CASE ReadAwake(p)
  BY <1>12, RingFrame DEF ReadAwake, Filling, RingInv, RingOK, TypeOK
<1>13. CASE ReadCopy(p)
  <2>1. cnt[p] <= Size /\ rp + cnt[p] <= BufLen
    BY <1>13 DEF ReadCopy, RingInv, RingOK, CopyInBounds
  <2> QED
    BY <1>13, <2>1, RingFrame DEF ReadCopy, RingInv, TypeOK, Filling
<1>14. CASE ReadFault(p)
  BY <1>14, RingFrame DEF ReadFault, Return, Filling, RingInv, RingOK, TypeOK
<1>15. CASE ReadAdvance(p)
  <2>1. wp # BufLen
    BY <1>15 DEF ReadAdvance, SemInv, SemaphoreBalanced, Locked, ReadLocked,
              WriteLocked, IoctlLocked, RingInv, RingOK
  <2>2. /\ rp + cnt[p] <= BufLen /\ cnt[p] \in Nat
        /\ cnt[p] <= Size /\ Size \in 0 .. BufLen - 1
    BY <1>15, ConstantsAssumption
       DEF ReadAdvance, RingInv, RingOK, CopyInBounds, TypeOK, Size
  <2>3. Size' <= BufLen - 1
    BY <1>15, <2>1, <2>2, ConstantsAssumption
       DEF ReadAdvance, RingInv, TypeOK, Size
  <2> QED
    BY <1>15, <2>1, <2>2, <2>3, RingMove
       DEF ReadAdvance, Locked, ReadLocked, WriteLocked, IoctlLocked,
           RingInv, TypeOK
<1>16. CASE ReadWrap(p)
  <2>1. wp # BufLen
    BY <1>16 DEF ReadWrap, SemInv, SemaphoreBalanced, Locked, ReadLocked,
              WriteLocked, IoctlLocked, RingInv, RingOK
  <2>2. Size <= BufLen - 1
    BY <1>16, ConstantsAssumption
       DEF ReadWrap, RingInv, RingOK, CopyInBounds, TypeOK, Size
  <2>3. Size' <= BufLen - 1 /\ rp' # BufLen
    BY <1>16, <2>1, <2>2, ConstantsAssumption
       DEF ReadWrap, RingInv, TypeOK, Size
  <2> QED
    BY <1>16, <2>1, <2>2, <2>3, RingMove
       DEF ReadWrap, Locked, ReadLocked, WriteLocked, IoctlLocked, RingInv,
           TypeOK
<1>17. CASE ReadWake(p)
  BY <1>17, RingFrame DEF ReadWake, Return, Filling, RingInv, RingOK, TypeOK
<1>18. CASE WriteFull(p)
  BY <1>18, RingFrame DEF WriteFull, Filling, RingInv, RingOK, TypeOK
<1>19. CASE WriteReady(p)
  <2>1. rp # BufLen /\ wp # BufLen
    BY <1>19 DEF WriteReady, SemInv, SemaphoreBalanced, Locked, ReadLocked,
              WriteLocked, RingInv, RingOK
  <2>2. cnt'[p] = WriteChunk(cnt[p]) /\ cnt[p] \in Nat /\ Len(ubuf[p]) >= cnt[p]
    BY <1>19 DEF WriteReady, RingInv, RingOK, Filling, TypeOK
  <2>3. /\ cnt'[p] <= BufLen - 1 - Size /\ wp + cnt'[p] <= BufLen
        /\ cnt'[p] <= cnt[p]
    BY <1>19, <2>1, <2>2, ConstantsAssumption
       DEF WriteReady, WriteChunk, spacefree, min, Size, RingInv, TypeOK
  <2>4. cnt'[p] \in Nat /\ Len(ubuf[p]) \in Nat
    BY DEF TypeOK, RingInv
  <2>5. Len(ubuf'[p]) >= cnt'[p]
    BY <1>19, <2>2, <2>3, <2>4 DEF WriteReady
  <2> QED
    BY <1>19, <2>3, <2>5, RingFrame DEF WriteReady, RingInv, TypeOK
<1>20. CASE WritePrepare(p)
  BY <1>20, RingFrame DEF WritePrepare, Filling, RingInv, RingOK, TypeOK
<1>21. CASE WriteLoad(p)
  BY <1>21, RingFrame DEF WriteLoad, Filling, RingInv, RingOK, TypeOK
<1>22. CASE WriteCheck(p)
  BY <1>22, RingFrame DEF WriteCheck, Filling, RingInv, RingOK, TypeOK
<1>23. CASE WriteAwake(p)
  BY <1>23, RingFrame DEF WriteAwake, Filling, RingInv, RingOK, TypeOK
<1>24. CASE WriteCopy(p)
  <2>1. /\ cnt[p] <= BufLen - 1 - Size /\ wp + cnt[p] <= BufLen
        /\ Len(ubuf[p]) >= cnt[p]
    BY <1>24 DEF WriteCopy, RingInv, RingOK, CopyInBounds, Filling
  <2> QED
    BY <1>24, <2>1, RingFrame DEF WriteCopy, RingInv, TypeOK
<1>25. CASE WriteFault(p)
  BY <1>25, RingFrame DEF WriteFault, Return, Filling, RingInv, RingOK, TypeOK
<1>26. CASE WriteAdvance(p)
  <2>1. rp # BufLen
    BY <1>26 DEF WriteAdvance, SemInv, SemaphoreBalanced, Locked, ReadLocked,
              WriteLocked, IoctlLocked, RingInv, RingOK
  <2>2. /\ wp + cnt[p] <= BufLen /\ cnt[p] \in Nat
        /\ cnt[p] <= BufLen - 1 - Size
    BY <1>26, ConstantsAssumption
       DEF WriteAdvance, RingInv, RingOK, CopyInBounds, TypeOK, Size
  <2>3. Size' <= BufLen - 1
    BY <1>26, <2>1, <2>2, ConstantsAssumption
       DEF WriteAdvance, RingInv, TypeOK, Size
  <2> QED
    BY <1>26, <2>1, <2>2, <2>3, RingMove
       DEF WriteAdvance, Locked, ReadLocked, WriteLocked, IoctlLocked,
           RingInv, TypeOK
<1>27. CASE WriteWrap(p)
  <2>1. rp # BufLen
    BY <1>27 DEF WriteWrap, SemInv, SemaphoreBalanced, Locked, ReadLocked,
              WriteLocked, IoctlLocked, RingInv, RingOK
  <2>2. Size <= BufLen - 1
    BY <1>27, ConstantsAssumption
       DEF WriteWrap, RingInv, RingOK, CopyInBounds, TypeOK, Size
  <2>3. Size' <= BufLen - 1 /\ wp' # BufLen
    BY <1>27, <2>1, <2>2, ConstantsAssumption
       DEF WriteWrap, RingInv, TypeOK, Size
  <2> QED
    BY <1>27, <2>1, <2>2, <2>3, RingMove
       DEF WriteWrap, Locked, ReadLocked, WriteLocked, IoctlLocked, RingInv,
           TypeOK
<1>28. CASE WriteWake(p)
  BY <1>28, RingFrame DEF WriteWake, Return, Filling, RingInv, RingOK, TypeOK
<1>29. CASE IoctlResetWp(p)
  <2>1. rp # BufLen
    BY <1>29 DEF IoctlResetWp, SemInv, SemaphoreBalanced, Locked, ReadLocked,
              WriteLocked, IoctlLocked, RingInv, RingOK
  <2>2. rp \in 0 .. BufLen
    BY <1>29, ConstantsAssumption
       DEF IoctlResetWp, RingInv, RingOK, CopyInBounds, TypeOK, Size
  <2>3. Size' <= BufLen - 1 /\ wp' # BufLen
    BY <1>29, <2>1, <2>2, ConstantsAssumption
       DEF IoctlResetWp, RingInv, TypeOK, Size
  <2> QED
    BY <1>29, <2>1, <2>2, <2>3, RingMove
       DEF IoctlResetWp, Locked, ReadLocked, WriteLocked, IoctlLocked,
           RingInv, TypeOK
<1>30. CASE IoctlResetRp(p)
  <2>1. rp # BufLen
    BY <1>30 DEF IoctlResetRp, SemInv, SemaphoreBalanced, Locked, ReadLocked,
              WriteLocked, IoctlLocked, RingInv, RingOK
  <2>2. wp = 0
    BY <1>30, ConstantsAssumption
       DEF IoctlResetRp, RingInv, RingOK, CopyInBounds, TypeOK, Size
  <2>3. Size' <= BufLen - 1 /\ rp' # BufLen /\ wp' # BufLen
    BY <1>30, <2>1, <2>2, ConstantsAssumption
       DEF IoctlResetRp, RingInv, TypeOK, Size
  <2> QED
    BY <1>30, <2>1, <2>2, <2>3, RingMove
       DEF IoctlResetRp, Return, Locked, ReadLocked, WriteLocked,
           IoctlLocked, RingInv, TypeOK
<1>31. CASE Interrupted(p)
  <2>1. /\ Goto(p, "idle") /\ UNCHANGED <<wp, rp>>
        /\ pc[p] \notin {"read_wrap", "write_wrap"}
        /\ \A q \in Procs : q # p => cnt'[q] = cnt[q] /\ ubuf'[q] = ubuf[q]
    BY <1>31 DEF Interrupted, Return, RingInv, TypeOK
  <2> QED
    BY <2>1, RingFrame DEF Filling
<1> QED
  BY <1>1, <1>2, <1>3, <1>4, <1>5, <1>6, <1>7, <1>8, <1>9, <1>10,
     <1>11, <1>12, <1>13, <1>14, <1>15, <1>16, <1>17, <1>18, <1>19, <1>20,
     <1>21, <1>22, <1>23, <1>24, <1>25, <1>26, <1>27, <1>28, <1>29, <1>30,
     <1>31
     DEF Calls, Downs, ReadStep, WriteStep, IoctlStep

(***************************************************************************)
(* Layer 3: the wait queues.  A reader that has loaded wp and not yet rp   *)
(* may hold a stale value; then a writer is about to wake it, or a reset   *)
(* has moved wp and the pipe is empty.  The same holds for the writers as  *)
(* long as nobody resets.                                                  *)
(***************************************************************************)
WriterComing == \E q \in Procs : pc[q] \in {"write_wrap", "write_wake"}

ReaderWaitOK ==
    \A p \in readq :
        /\ pc[p] = "read_check" =>
              seen[p] = wp \/ WriterComing \/ (wp = 0 /\ (rp = 0 \/ Resetting))
        /\ pc[p] = "read_sleep" => Size = 0 \/ Resetting \/ WriterComing

ReaderComing == \E q \in Procs : pc[q] \in {"read_wrap", "read_wake"}

LEMMA WakeFrame ==
  ASSUME TypeOK, NEW p \in Procs, NEW l, Goto(p, l), UNCHANGED <<wp, rp>>
  PROVE  /\ Size' = Size
         /\ pc[p] \notin {"write_wrap", "write_wake"} =>
               (WriterComing => WriterComing')
         /\ pc[p] # "ioctl_rp" => (Resetting => Resetting')
         /\ pc[p] \notin {"read_wrap", "read_wake"} =>
               (ReaderComing => ReaderComing')
<1>1. Size' = Size
  BY DEF Size
<1>2. \A q \in Procs : q # p => pc'[q] = pc[q]
  BY DEF Goto, TypeOK
<1> QED
  BY <1>1, <1>2 DEF WriterComing, ReaderComing, Resetting

LEMMA ReaderWaitFrame ==
  ASSUME RingInv, ReaderWaitOK, NEW p \in Procs, NEW l, Goto(p, l),
         UNCHANGED <<wp, rp>>, readq' \subseteq readq \cup {p},
         \A q \in Procs : q # p => seen'[q] = seen[q],
         pc[p] \notin {"write_wrap", "write_wake", "ioctl_rp"},
         l = "read_check" => seen'[p] = wp,
         p \in readq' /\ l = "read_sleep" =>
            Size = 0 \/ Resetting \/ WriterComing
  PROVE  ReaderWaitOK'
<1>1. /\ Size' = Size
      /\ WriterComing => WriterComing'
      /\ Resetting => Resetting'
  BY WakeFrame DEF RingInv
<1>2. /\ pc'[p] = l
      /\ \A q \in Procs : q # p => pc'[q] = pc[q]
  BY DEF Goto, RingInv, TypeOK
<1>3. readq \subseteq Procs
  BY DEF RingInv, TypeOK
<1> QED
  BY <1>1, <1>2, <1>3 DEF ReaderWaitOK

LEMMA ReaderWaitStep ==
  SemInv /\ SemInv' /\ RingInv /\ RingInv' /\ ReaderWaitOK /\ [Next]_vars
    => ReaderWaitOK'
<1> SUFFICES ASSUME SemInv, SemInv', RingInv, RingInv', ReaderWaitOK, Next
             PROVE  ReaderWaitOK'
  BY DEF ReaderWaitOK, WriterComing, Resetting, Size, vars
<1> PICK p \in Procs :
       \/ Calls(p) \/ Downs(p) \/ ReadStep(p) \/ WriteStep(p) \/ IoctlStep(p)
       \/ Interrupted(p)
  BY DEF Next
<1>1. CASE ReadCall(p)
  BY <1>1, ReaderWaitFrame DEF ReadCall, RingInv, TypeOK
<1>2. CASE WriteCall(p)
  BY <1>2, ReaderWaitFrame DEF WriteCall, RingInv, TypeOK
<1>3. CASE IoctlCall(p)
  BY <1>3, ReaderWaitFrame DEF IoctlCall, RingInv, TypeOK
<1>4. CASE ReadDown(p)
  BY <1>4, ReaderWaitFrame DEF ReadDown, Down, RingInv, TypeOK
<1>5. CASE WriteDown(p)
  BY <1>5, ReaderWaitFrame DEF WriteDown, Down, RingInv, TypeOK
<1>6. CASE IoctlDown(p)
  BY <1>6, ReaderWaitFrame DEF IoctlDown, Down, RingInv, TypeOK
<1>7. CASE ReadEmpty(p)
  BY <1>7, ReaderWaitFrame DEF ReadEmpty, RingInv, TypeOK
<1>8. CASE ReadReady(p)
  BY <1>8, ReaderWaitFrame DEF ReadReady, RingInv, TypeOK
<1>9. CASE ReadPrepare(p)
  BY <1>9, ReaderWaitFrame DEF ReadPrepare, RingInv, TypeOK
<1>10. CASE ReadLoad(p)
  <2>1. /\ seen'[p] = wp
        /\ \A q \in Procs : q # p => seen'[q] = seen[q]
    BY <1>10 DEF ReadLoad, RingInv, TypeOK
  <2> QED
    BY <1>10, <2>1, ReaderWaitFrame DEF ReadLoad
<1>11. CASE ReadCheck(p)
  <2>1. PICK l \in {"read_down", "read_sleep"} :
           Goto(p, l) /\ (l = "read_sleep" => seen[p] = rp)
    BY <1>11 DEF ReadCheck
  <2>2. /\ UNCHANGED <<wp, rp>> /\ pc[p] = "read_check" /\ readq' \subseteq readq
        /\ \A q \in Procs : q # p => seen'[q] = seen[q]
    BY <1>11 DEF ReadCheck, RingInv, TypeOK
  <2>3. p \in readq /\ l = "read_sleep" => Size = 0 \/ Resetting \/ WriterComing
    BY <2>1, <2>2, ConstantsAssumption DEF ReaderWaitOK, Size, RingInv, TypeOK
  <2> QED
    BY <2>1, <2>2, <2>3, ReaderWaitFrame
<1>12. CASE ReadAwake(p)
  BY <1>12, ReaderWaitFrame DEF ReadAwake, RingInv, TypeOK
<1>13. CASE ReadCopy(p)
  BY <1>13, ReaderWaitFrame DEF ReadCopy, RingInv, TypeOK
<1>14. CASE ReadFault(p)
  BY <1>14, ReaderWaitFrame DEF ReadFault, Return, RingInv, TypeOK
<1>15. CASE ReadAdvance(p)
  <2>1. /\ UNCHANGED <<wp, readq, seen>> /\ rp' = rp + cnt[p]
        /\ pc[p] = "read_adv" /\ pc' = [pc EXCEPT ![p] = "read_wrap"]
    BY <1>15 DEF ReadAdvance, Goto
  <2>2. cnt[p] \in Nat /\ cnt[p] <= Size
    BY <2>1 DEF RingInv, RingOK, CopyInBounds, TypeOK
  <2>3. Size = 0 => rp' = rp /\ Size' = 0
    BY <2>1, <2>2 DEF Size, RingInv, TypeOK
  <2>4. ~ Resetting
    BY <2>1 DEF SemInv, SemaphoreBalanced, Resetting, Locked, ReadLocked,
                IoctlLocked
  <2>5. WriterComing => WriterComing'
    BY <2>1 DEF WriterComing, RingInv, TypeOK
  <2>6. wp = 0 /\ rp = 0 => Size = 0
    BY DEF Size
  <2>7. \A q \in readq :
           pc'[q] \in {"read_check", "read_sleep"} => pc'[q] = pc[q]
    BY <2>1 DEF RingInv, TypeOK
  <2> QED
    BY <2>1, <2>3, <2>4, <2>5, <2>6, <2>7 DEF ReaderWaitOK
<1>16. CASE ReadWrap(p)
  <2>1. /\ UNCHANGED <<wp, readq, seen>>
        /\ pc[p] = "read_wrap" /\ pc' = [pc EXCEPT ![p] = "read_wake"]
        /\ rp' = IF rp = BufLen THEN 0 ELSE rp
    BY <1>16 DEF ReadWrap, Goto
  <2>2. ~ Resetting /\ wp # BufLen
    BY <2>1 DEF SemInv, SemaphoreBalanced, Resetting, Locked, ReadLocked,
                WriteLocked, IoctlLocked, RingInv, RingOK
  <2>3. Size = 0 => Size' = 0
    BY <2>1, <2>2, ConstantsAssumption DEF Size, RingInv, TypeOK
  <2>4. WriterComing => WriterComing'
    BY <2>1 DEF WriterComing, RingInv, TypeOK
  <2>5. rp = 0 => rp' = 0
    BY <2>1
  <2>6. \A q \in readq :
           pc'[q] \in {"read_check", "read_sleep"} => pc'[q] = pc[q]
    BY <2>1 DEF RingInv, TypeOK
  <2> QED
    BY <2>1, <2>2, <2>3, <2>4, <2>5, <2>6 DEF ReaderWaitOK
<1>17. CASE ReadWake(p)
  BY <1>17, ReaderWaitFrame DEF ReadWake, Return, RingInv, TypeOK
<1>18. CASE WriteFull(p)
  BY <1>18, ReaderWaitFrame DEF WriteFull, RingInv, TypeOK
<1>19. CASE WriteReady(p)
  BY <1>19, ReaderWaitFrame DEF WriteReady, RingInv, TypeOK
<1>20. CASE WritePrepare(p)
  BY <1>20, ReaderWaitFrame DEF WritePrepare, RingInv, TypeOK
<1>21. CASE WriteLoad(p)
  BY <1>21, ReaderWaitFrame DEF WriteLoad, RingInv, TypeOK
<1>22. CASE WriteCheck(p)
  <2>1. PICK l \in {"write_down", "write_sleep"} : Goto(p, l)
    BY <1>22 DEF WriteCheck
  <2>2. /\ UNCHANGED <<wp, rp, readq>> /\ pc[p] = "write_check"
        /\ \A q \in Procs : q # p => seen'[q] = seen[q]
    BY <1>22 DEF WriteCheck, RingInv, TypeOK
  <2> QED
    BY <2>1, <2>2, ReaderWaitFrame
<1>23. CASE WriteAwake(p)
  BY <1>23, ReaderWaitFrame DEF WriteAwake, RingInv, TypeOK
<1>24. CASE WriteCopy(p)
  BY <1>24, ReaderWaitFrame DEF WriteCopy, RingInv, TypeOK
<1>25. CASE WriteFault(p)
  BY <1>25, ReaderWaitFrame DEF WriteFault, Return, RingInv, TypeOK
<1>26. CASE WriteAdvance(p)
  <2>1. /\ pc' = [pc EXCEPT ![p] = "write_wrap"] /\ UNCHANGED readq
    BY <1>26 DEF WriteAdvance, Goto
  <2>2. WriterComing'
    BY <2>1 DEF WriterComing, RingInv, TypeOK
  <2> QED
    BY <2>2 DEF ReaderWaitOK
<1>27. CASE WriteWrap(p)
  <2>1. /\ pc' = [pc EXCEPT ![p] = "write_wake"] /\ UNCHANGED readq
    BY <1>27 DEF WriteWrap, Goto
  <2>2. WriterComing'
    BY <2>1 DEF WriterComing, RingInv, TypeOK
  <2> QED
    BY <2>2 DEF ReaderWaitOK
<1>28. CASE WriteWake(p)
  BY <1>28 DEF WriteWake, ReaderWaitOK
<1>29. CASE IoctlResetWp(p)
  <2>1. Resetting'
    BY <1>29 DEF IoctlResetWp, Goto, Resetting, RingInv, TypeOK
  <2> QED
    BY <1>29, <2>1 DEF IoctlResetWp, ReaderWaitOK
<1>30. CASE IoctlResetRp(p)
  <2>1. wp' = 0 /\ rp' = 0
    BY <1>30 DEF IoctlResetRp, RingInv, RingOK
  <2>2. Size' = 0
    BY <2>1 DEF Size
  <2> QED
    BY <2>1, <2>2 DEF ReaderWaitOK
<1>31. CASE Interrupted(p)
  <2>1. /\ Goto(p, "idle") /\ UNCHANGED <<wp, rp>> /\ readq' \subseteq readq
        /\ pc[p] \notin {"write_wrap", "write_wake", "ioctl_rp"}
        /\ \A q \in Procs : q # p => seen'[q] = seen[q]
    BY <1>31 DEF Interrupted, Return, RingInv, TypeOK
  <2> QED
    BY <2>1, ReaderWaitFrame
<1> QED
  BY <1>1, <1>2, <1>3, <1>4, <1>5, <1>6, <1>7, <1>8, <1>9, <1>10,
     <1>11, <1>12, <1>13, <1>14, <1>15, <1>16, <1>17, <1>18, <1>19, <1>20,
     <1>21, <1>22, <1>23, <1>24, <1>25, <1>26, <1>27, <1>28, <1>29, <1>30,
     <1>31
     DEF Calls, Downs, ReadStep, WriteStep, IoctlStep

(***************************************************************************)
(* Without PIPE_RESET nobody is ever inside my_ioctl.                      *)
(***************************************************************************)
NoIoctl == \A p \in Procs : pc[p] \notin {"ioctl_down", "ioctl_wp", "ioctl_rp"}

WriterWaitOK ==
    /\ NoIoctl
    /\ \A p \in writeq :
        /\ pc[p] = "write_check" => seen[p] = rp \/ ReaderComing
        /\ pc[p] = "write_sleep" => Size = BufLen - 1 \/ ReaderComing


LEMMA WriterWaitFrame ==
  ASSUME RingInv, WriterWaitOK, NEW p \in Procs, NEW l, Goto(p, l),
         UNCHANGED <<wp, rp>>, writeq' \subseteq writeq \cup {p},
         \A q \in Procs : q # p => seen'[q] = seen[q],
         pc[p] \notin {"read_wrap", "read_wake"},
         l \notin {"ioctl_down", "ioctl_wp", "ioctl_rp"},
         l = "write_check" => seen'[p] = rp,
         p \in writeq' /\ l = "write_sleep" => Size = BufLen - 1 \/ ReaderComing
  PROVE  WriterWaitOK'
<1>1. Size' = Size /\ (ReaderComing => ReaderComing')
  BY WakeFrame DEF RingInv
<1>2. /\ pc'[p] = l
      /\ \A q \in Procs : q # p => pc'[q] = pc[q]
  BY DEF Goto, RingInv, TypeOK
<1>3. writeq \subseteq Procs
  BY DEF RingInv, TypeOK
<1>4. NoIoctl'
  BY <1>2 DEF NoIoctl, WriterWaitOK
<1> QED
  BY <1>1, <1>2, <1>3, <1>4 DEF WriterWaitOK

LEMMA WriterWaitStep ==
  ASSUME Resetters = {}
  PROVE  SemInv /\ SemInv' /\ RingInv /\ RingInv' /\ WriterWaitOK /\ [Next]_vars
           => WriterWaitOK'
<1> SUFFICES ASSUME SemInv, SemInv', RingInv, RingInv', WriterWaitOK, Next
             PROVE  WriterWaitOK'
  BY DEF WriterWaitOK, NoIoctl, ReaderComing, Size, vars
<1> PICK p \in Procs :
       \/ Calls(p) \/ Downs(p) \/ ReadStep(p) \/ WriteStep(p) \/ IoctlStep(p)
       \/ Interrupted(p)
  BY DEF Next
<1>1. CASE ReadCall(p)
  BY <1>1, WriterWaitFrame DEF ReadCall, RingInv, TypeOK
<1>2. CASE WriteCall(p)
  BY <1>2, WriterWaitFrame DEF WriteCall, RingInv, TypeOK
<1>3. CASE IoctlCall(p)
  BY <1>3 DEF IoctlCall
<1>4. CASE ReadDown(p)
  BY <1>4, WriterWaitFrame DEF ReadDown, Down, RingInv, TypeOK
<1>5. CASE WriteDown(p)
  BY <1>5, WriterWaitFrame DEF WriteDown, Down, RingInv, TypeOK
<1>6. CASE IoctlDown(p)
  BY <1>6 DEF IoctlDown, Down, WriterWaitOK, NoIoctl
<1>7. CASE ReadEmpty(p)
  BY <1>7, WriterWaitFrame DEF ReadEmpty, RingInv, TypeOK
<1>8. CASE ReadReady(p)
  BY <1>8, WriterWaitFrame DEF ReadReady, RingInv, TypeOK
<1>9. CASE ReadPrepare(p)
  BY <1>9, WriterWaitFrame DEF ReadPrepare, RingInv, TypeOK
<1>10. CASE ReadLoad(p)
  BY <1>10, WriterWaitFrame DEF ReadLoad, RingInv, TypeOK
<1>11. CASE ReadCheck(p)
  <2>1. PICK l \in {"read_down", "read_sleep"} : Goto(p, l)
    BY <1>11 DEF ReadCheck
  <2>2. /\ UNCHANGED <<wp, rp, writeq>> /\ pc[p] = "read_check"
        /\ \A q \in Procs : q # p => seen'[q] = seen[q]
    BY <1>11 DEF ReadCheck, RingInv, TypeOK
  <2> QED
    BY <2>1, <2>2, WriterWaitFrame
<1>12. CASE ReadAwake(p)
  BY <1>12, WriterWaitFrame DEF ReadAwake, RingInv, TypeOK
<1>13. CASE ReadCopy(p)
  BY <1>13, WriterWaitFrame DEF ReadCopy, RingInv, TypeOK
<1>14. CASE ReadFault(p)
  BY <1>14, WriterWaitFrame DEF ReadFault, Return, RingInv, TypeOK
<1>15. CASE ReadAdvance(p)
  <2>1. /\ pc' = [pc EXCEPT ![p] = "read_wrap"] /\ UNCHANGED writeq
    BY <1>15 DEF ReadAdvance, Goto
  <2>2. ReaderComing' /\ NoIoctl'
    BY <2>1 DEF ReaderComing, NoIoctl, WriterWaitOK, RingInv, TypeOK
  <2> QED
    BY <2>2 DEF WriterWaitOK
<1>16. CASE ReadWrap(p)
  <2>1. /\ pc' = [pc EXCEPT ![p] = "read_wake"] /\ UNCHANGED writeq
    BY <1>16 DEF ReadWrap, Goto
  <2>2. ReaderComing' /\ NoIoctl'
    BY <2>1 DEF ReaderComing, NoIoctl, WriterWaitOK, RingInv, TypeOK
  <2> QED
    BY <2>2 DEF WriterWaitOK
<1>17. CASE ReadWake(p)
  <2>1. NoIoctl' /\ writeq' = {}
    BY <1>17 DEF ReadWake, Return, Goto, NoIoctl, WriterWaitOK, RingInv, TypeOK
  <2> QED
    BY <2>1 DEF WriterWaitOK
<1>18. CASE WriteFull(p)
  BY <1>18, WriterWaitFrame DEF WriteFull, RingInv, TypeOK
<1>19. CASE WriteReady(p)
  BY <1>19, WriterWaitFrame DEF WriteReady, RingInv, TypeOK
<1>20. CASE WritePrepare(p)
  BY <1>20, WriterWaitFrame DEF WritePrepare, RingInv, TypeOK
<1>21. CASE WriteLoad(p)
  <2>1. /\ seen'[p] = rp
        /\ \A q \in Procs : q # p => seen'[q] = seen[q]
    BY <1>21 DEF WriteLoad, RingInv, TypeOK
  <2> QED
    BY <1>21, <2>1, WriterWaitFrame DEF WriteLoad
<1>22. CASE WriteCheck(p)
  <2>1. PICK l \in {"write_down", "write_sleep"} :
           Goto(p, l) /\ (l = "write_sleep" => spacefree(seen[p], wp) = 0)
    BY <1>22 DEF WriteCheck
  <2>2. /\ UNCHANGED <<wp, rp>> /\ pc[p] = "write_check"
        /\ writeq' \subseteq writeq
        /\ \A q \in Procs : q # p => seen'[q] = seen[q]
    BY <1>22 DEF WriteCheck, RingInv, TypeOK
  <2>3. seen[p] = rp /\ l = "write_sleep" => Size = BufLen - 1
    BY <2>1, ConstantsAssumption DEF Size, spacefree, RingInv, TypeOK
  <2>4. p \in writeq /\ l = "write_sleep" => Size = BufLen - 1 \/ ReaderComing
    BY <2>2, <2>3 DEF WriterWaitOK
  <2> QED
    BY <2>1, <2>2, <2>4, WriterWaitFrame
<1>23. CASE WriteAwake(p)
  BY <1>23, WriterWaitFrame DEF WriteAwake, RingInv, TypeOK
<1>24. CASE WriteCopy(p)
  BY <1>24, WriterWaitFrame DEF WriteCopy, RingInv, TypeOK
<1>25. CASE WriteFault(p)
  BY <1>25, WriterWaitFrame DEF WriteFault, Return, RingInv, TypeOK
<1>26. CASE WriteAdvance(p)
  <2>1. /\ UNCHANGED <<rp, writeq, seen>> /\ wp' = wp + cnt[p]
        /\ pc[p] = "write_adv" /\ pc' = [pc EXCEPT ![p] = "write_wrap"]
    BY <1>26 DEF WriteAdvance, Goto
  <2>2. cnt[p] \in Nat /\ cnt[p] <= BufLen - 1 - Size
    BY <2>1 DEF RingInv, RingOK, CopyInBounds, TypeOK
  <2>3. Size = BufLen - 1 => Size' = BufLen - 1
    <3>1. Size = BufLen - 1 => cnt[p] = 0
      BY <2>2, ConstantsAssumption
    <3> QED
      BY <2>1, <3>1 DEF Size, RingInv, TypeOK
  <2>4. (ReaderComing => ReaderComing') /\ NoIoctl'
    BY <2>1 DEF ReaderComing, NoIoctl, WriterWaitOK, RingInv, TypeOK
  <2>5. \A q \in writeq :
           pc'[q] \in {"write_check", "write_sleep"} => pc'[q] = pc[q]
    BY <2>1 DEF RingInv, TypeOK
  <2> QED
    BY <2>1, <2>3, <2>4, <2>5 DEF WriterWaitOK
<1>27. CASE WriteWrap(p)
  <2>1. /\ UNCHANGED <<rp, writeq, seen>>
        /\ pc[p] = "write_wrap" /\ pc' = [pc EXCEPT ![p] = "write_wake"]
        /\ wp' = IF wp = BufLen THEN 0 ELSE wp
    BY <1>27 DEF WriteWrap, Goto
  <2>2. rp # BufLen /\ Size <= BufLen - 1
    BY <2>1 DEF SemInv, SemaphoreBalanced, Locked, ReadLocked,
                WriteLocked, RingInv, RingOK
  <2>3. Size' = Size
    BY <2>1, <2>2, ConstantsAssumption DEF Size, RingInv, TypeOK
  <2>4. (ReaderComing => ReaderComing') /\ NoIoctl'
    BY <2>1 DEF ReaderComing, NoIoctl, WriterWaitOK, RingInv, TypeOK
  <2>5. \A q \in writeq :
           pc'[q] \in {"write_check", "write_sleep"} => pc'[q] = pc[q]
    BY <2>1 DEF RingInv, TypeOK
  <2> QED
    BY <2>1, <2>3, <2>4, <2>5 DEF WriterWaitOK
<1>28. CASE WriteWake(p)
  BY <1>28, WriterWaitFrame DEF WriteWake, Return, RingInv, TypeOK
<1>29. CASE IoctlResetWp(p)
  BY <1>29 DEF IoctlResetWp, WriterWaitOK, NoIoctl
<1>30. CASE IoctlResetRp(p)
  BY <1>30 DEF IoctlResetRp, WriterWaitOK, NoIoctl
<1>31. CASE Interrupted(p)
  <2>1. /\ Goto(p, "idle") /\ UNCHANGED <<wp, rp>> /\ writeq' \subseteq writeq
        /\ pc[p] \notin {"read_wrap", "read_wake"}
        /\ \A q \in Procs : q # p => seen'[q] = seen[q]
    BY <1>31 DEF Interrupted, Return, RingInv, TypeOK
  <2> QED
    BY <2>1, WriterWaitFrame
<1> QED
  BY <1>1, <1>2, <1>3, <1>4, <1>5, <1>6, <1>7, <1>8, <1>9, <1>10,
     <1>11, <1>12, <1>13, <1>14, <1>15, <1>16, <1>17, <1>18, <1>19, <1>20,
     <1>21, <1>22, <1>23, <1>24, <1>25, <1>26, <1>27, <1>28, <1>29, <1>30,
     <1>31
     DEF Calls, Downs, ReadStep, WriteStep, IoctlStep

(***************************************************************************)
(* Layer 4: the bytes.  The abstract channel holds Size bytes, and only    *)
(* the advance of a pointer and a reset change them.                       *)
(***************************************************************************)
ContentDescribed ==
    /\ Size \in 0 .. BufLen - 1
    /\ Content \in Seq(Byte)
    /\ Resetting => Content = << >> /\ Len(Content) = 0
    /\ ~ Resetting => /\ Len(Content) = Size
                      /\ \A i \in 1 .. Size : Content[i] = buf[Slot(i)]

LEMMA ContentLen == RingInv => ContentDescribed
<1> SUFFICES ASSUME RingInv PROVE ContentDescribed
  OBVIOUS
<1>1. Size \in 0 .. BufLen - 1
  BY ConstantsAssumption DEF RingInv, RingOK, TypeOK, Size
<1>2. \A i \in 1 .. Size : Slot(i) \in 0 .. BufLen - 1
  BY <1>1, ConstantsAssumption DEF RingInv, TypeOK, Size, Slot
<1>3. [i \in 1 .. Size |-> buf[Slot(i)]] \in Seq(Byte)
  BY <1>1, <1>2 DEF RingInv, TypeOK
<1> QED
  BY <1>1, <1>3 DEF Content, ContentDescribed

LEMMA ContentLenNext == RingInv' => ContentDescribed'
  BY ContentLen, PTL

\* The five steps that touch the buffer or a pointer.
LEMMA ReadAdvanceReceives ==
  ASSUME SemInv, RingInv, RingInv', NEW p \in Procs, ReadAdvance(p)
  PROVE  /\ ~ Resetting /\ ~ Resetting'
         /\ cnt[p] \in 0 .. Size
         /\ Size' = Size - cnt[p]
         /\ \A i \in 1 .. Size' : buf'[Slot(i)'] = buf[Slot(i + cnt[p])]
<1>1. /\ pc[p] = "read_adv" /\ pc' = [pc EXCEPT ![p] = "read_wrap"]
      /\ rp' = rp + cnt[p] /\ UNCHANGED <<buf, wp>>
  BY DEF ReadAdvance, Goto
<1>2. ~ Resetting /\ ~ Resetting'
  BY <1>1 DEF SemInv, SemaphoreBalanced, Resetting, Locked, ReadLocked,
              IoctlLocked, RingInv, TypeOK
<1>3. cnt[p] \in 0 .. Size /\ rp + cnt[p] <= BufLen
  BY <1>1, ConstantsAssumption DEF RingInv, RingOK, CopyInBounds, TypeOK, Size
<1>4. Size' = Size - cnt[p]
  <2> DEFINE n == cnt[p]
  <2>1. /\ n \in Nat /\ n <= Size /\ rp' = rp + n /\ wp' = wp
        /\ wp \in 0 .. BufLen /\ rp \in 0 .. BufLen /\ BufLen \in Nat
        /\ rp + n <= BufLen
    BY <1>1, <1>3, ContentLen, ConstantsAssumption
       DEF RingInv, TypeOK, ContentDescribed
  <2>2. wp >= rp => n <= wp - rp
    BY <2>1 DEF Size
  <2>3. wp >= rp <=> wp' >= rp'
    <3> HIDE DEF n
    <3> QED
      BY <2>1, <2>2
  <2>4. Size' = Size - n
    <3> HIDE DEF n
    <3> QED
      BY <2>1, <2>3 DEF Size
  <2> QED
    BY <2>4
<1>5. \A i \in 1 .. Size' : Slot(i)' = Slot(i + cnt[p])
  <2> DEFINE n == cnt[p]
  <2>1. rp \in 0 .. BufLen /\ n \in Nat /\ BufLen \in Nat /\ rp' = rp + n
    BY <1>1, <1>3, ConstantsAssumption DEF RingInv, RingOK, TypeOK
  <2>2. ASSUME NEW i \in Nat PROVE Slot(i)' = Slot(i + n)
    <3> HIDE DEF n
    <3> QED
      BY <2>1 DEF Slot
  <2>3. Size' \in Nat
    BY <1>3, <1>4, ContentLen DEF ContentDescribed
  <2> QED
    BY <2>2, <2>3
<1> QED
  BY <1>1, <1>2, <1>3, <1>4, <1>5

LEMMA WriteAdvanceSends ==
  ASSUME SemInv, RingInv, RingInv', NEW p \in Procs, WriteAdvance(p)
  PROVE  /\ ~ Resetting /\ ~ Resetting'
         /\ cnt[p] \in Nat
         /\ Size' = Size + cnt[p]
         /\ \A i \in 1 .. Size : buf'[Slot(i)'] = buf[Slot(i)]
         /\ \A i \in Size + 1 .. Size' : buf'[Slot(i)'] = buf[wp + i - Size - 1]
<1>1. /\ pc[p] = "write_adv" /\ pc' = [pc EXCEPT ![p] = "write_wrap"]
      /\ wp' = wp + cnt[p] /\ UNCHANGED <<buf, rp>>
  BY DEF WriteAdvance, Goto
<1>2. ~ Resetting /\ ~ Resetting' /\ rp # BufLen
  BY <1>1 DEF SemInv, SemaphoreBalanced, Resetting, Locked, WriteLocked,
              ReadLocked, IoctlLocked, RingInv, RingOK, TypeOK
<1>3. cnt[p] \in Nat /\ cnt[p] <= BufLen - 1 - Size /\ wp + cnt[p] <= BufLen
  BY <1>1, ConstantsAssumption DEF RingInv, RingOK, CopyInBounds, TypeOK, Size
<1> DEFINE n == cnt[p]
<1>n. wp \in 0 .. BufLen /\ rp \in 0 .. BufLen /\ n \in Nat /\ BufLen \in Nat
  BY <1>3, ConstantsAssumption DEF RingInv, TypeOK
<1>4. Size' = Size + n
  <2>1. n <= BufLen - 1 - Size /\ wp' = wp + n /\ rp' = rp
    BY <1>1, <1>3
  <2> HIDE DEF n
  <2> QED
    BY <2>1, <1>n DEF Size
<1>5. \A i \in 1 .. Size : Slot(i)' = Slot(i)
  BY <1>1 DEF Slot
<1>6. \A i \in Size + 1 .. Size' : Slot(i)' = wp + i - Size - 1
  <2>1. n <= BufLen - 1 - Size /\ wp + n <= BufLen /\ rp' = rp
    BY <1>1, <1>3
  <2> HIDE DEF n
  <2> QED
    BY <2>1, <1>2, <1>4, <1>n DEF Slot, Size
<1> QED
  BY <1>1, <1>2, <1>3, <1>4, <1>5, <1>6

LEMMA CopyKeepsContent ==
  ASSUME SemInv, RingInv, RingInv', NEW p \in Procs, NEW k \in Nat,
         pc[p] = "write_copy", buf' = CopyIn(p, k), UNCHANGED <<wp, rp>>,
         Resetting' <=> Resetting
  PROVE  Content' = Content
<1>1. rp # BufLen
  BY DEF SemInv, SemaphoreBalanced, Locked, WriteLocked, ReadLocked, RingInv,
         RingOK
<1>2. cnt[p] \in Nat /\ cnt[p] <= BufLen - 1 - Size /\ Size' = Size
  BY ConstantsAssumption DEF RingInv, RingOK, CopyInBounds, TypeOK, Size
<1>3. \A i \in 1 .. Size : /\ Slot(i) \in 0 .. BufLen - 1
                           /\ Slot(i) < wp \/ Slot(i) >= wp + cnt[p]
                           /\ Slot(i)' = Slot(i)
  BY <1>1, <1>2, ConstantsAssumption DEF RingInv, TypeOK, Slot, Size
<1>4. \A i \in 1 .. Size : buf'[Slot(i)'] = buf[Slot(i)]
  BY <1>3 DEF CopyIn
<1> QED
  BY <1>2, <1>4 DEF Content

LEMMA WrapKeepsContent ==
  ASSUME SemInv, RingInv, RingInv', NEW p \in Procs,
         ReadWrap(p) \/ WriteWrap(p)
  PROVE  Content' = Content
<1>1. UNCHANGED buf
  BY DEF ReadWrap, WriteWrap
<1>2. ~ Resetting /\ ~ Resetting'
  BY DEF ReadWrap, WriteWrap, Goto, SemInv, SemaphoreBalanced, Resetting,
         Locked, WriteLocked, ReadLocked, IoctlLocked, RingInv, TypeOK
<1>3. CASE ReadWrap(p)
  <2>1. wp # BufLen
    BY <1>3 DEF ReadWrap, SemInv, SemaphoreBalanced, Locked, ReadLocked,
                WriteLocked, RingInv, RingOK
  <2>2. Size' = Size /\ \A i \in 1 .. Size : Slot(i)' = Slot(i)
    BY <1>3, <2>1, ConstantsAssumption
       DEF ReadWrap, RingInv, TypeOK, Size, Slot
  <2> QED
    BY <1>1, <1>2, <2>2 DEF Content
<1>4. CASE WriteWrap(p)
  <2>1. rp # BufLen /\ Size <= BufLen - 1
    BY <1>4 DEF WriteWrap, SemInv, SemaphoreBalanced, Locked, ReadLocked,
                WriteLocked, RingInv, RingOK
  <2>2. Size' = Size /\ \A i \in 1 .. Size : Slot(i)' = Slot(i)
    BY <1>4, <2>1, ConstantsAssumption
       DEF WriteWrap, RingInv, TypeOK, Size, Slot
  <2> QED
    BY <1>1, <1>2, <2>2 DEF Content
<1> QED
  BY <1>3, <1>4

LEMMA ContentFrame ==
  ASSUME TypeOK, NEW p \in Procs, NEW l, Goto(p, l), UNCHANGED <<buf, wp, rp>>,
         pc[p] # "ioctl_rp", l # "ioctl_rp"
  PROVE  Content' = Content
<1>1. Resetting' <=> Resetting
  BY DEF Resetting, Goto, TypeOK
<1>2. Size' = Size /\ \A i \in 1 .. Size : Slot(i)' = Slot(i)
  BY DEF Size, Slot
<1> QED
  BY <1>1, <1>2 DEF Content

(***************************************************************************)
(* Every step of the driver is a step of the abstract channel, or leaves   *)
(* its bytes alone.                                                        *)
(***************************************************************************)
LEMMA ChannelStep ==
  SemInv /\ SemInv' /\ RingInv /\ RingInv' /\ [Next]_vars
    => [Channel!Next]_Content
<1> SUFFICES ASSUME SemInv, SemInv', RingInv, RingInv', Next
             PROVE  [Channel!Next]_Content
  BY DEF Content, Resetting, Size, Slot, vars
<1> PICK p \in Procs :
       \/ Calls(p) \/ Downs(p) \/ ReadStep(p) \/ WriteStep(p) \/ IoctlStep(p)
       \/ Interrupted(p)
  BY DEF Next
<1>1. CASE ReadCall(p)
  BY <1>1, ContentFrame DEF ReadCall, RingInv
<1>2. CASE WriteCall(p)
  BY <1>2, ContentFrame DEF WriteCall, RingInv
<1>3. CASE IoctlCall(p)
  BY <1>3, ContentFrame DEF IoctlCall, RingInv
<1>4. CASE ReadDown(p)
  BY <1>4, ContentFrame DEF ReadDown, Down, RingInv
<1>5. CASE WriteDown(p)
  BY <1>5, ContentFrame DEF WriteDown, Down, RingInv
<1>6. CASE IoctlDown(p)
  BY <1>6, ContentFrame DEF IoctlDown, Down, RingInv
<1>7. CASE ReadEmpty(p)
  BY <1>7, ContentFrame DEF ReadEmpty, RingInv
<1>8. CASE ReadReady(p)
  BY <1>8, ContentFrame DEF ReadReady, RingInv
<1>9. CASE ReadPrepare(p)
  BY <1>9, ContentFrame DEF ReadPrepare, RingInv
<1>10. CASE ReadLoad(p)
  BY <1>10, ContentFrame DEF ReadLoad, RingInv
<1>11. CASE ReadCheck(p)
  BY <1>11, ContentFrame DEF ReadCheck, RingInv
<1>12. CASE ReadAwake(p)
  BY <1>12, ContentFrame DEF ReadAwake, RingInv
<1>13. CASE ReadCopy(p)
  BY <1>13, ContentFrame DEF ReadCopy, RingInv
<1>14. CASE ReadFault(p)
  BY <1>14, ContentFrame DEF ReadFault, Return, RingInv
<1>15. CASE ReadAdvance(p)
  <2>1. /\ ~ Resetting /\ ~ Resetting' /\ cnt[p] \in 0 .. Size
        /\ Size' = Size - cnt[p]
        /\ \A i \in 1 .. Size' : buf'[Slot(i)'] = buf[Slot(i + cnt[p])]
    BY <1>15, ReadAdvanceReceives
  <2>2. /\ Len(Content) = Size /\ Len(Content') = Size' /\ Size \in Nat
        /\ \A i \in 1 .. Size : Content[i] = buf[Slot(i)]
        /\ \A i \in 1 .. Size' : Content'[i] = buf'[Slot(i)']
    BY <2>1, ContentLen, ContentLenNext DEF ContentDescribed
  <2>3. ASSUME NEW i \in 1 .. Size' PROVE Content'[i] = Content[i + cnt[p]]
    <3>1. i + cnt[p] \in 1 .. Size
      BY <2>1, <2>2
    <3> QED
      BY <2>1, <2>2, <3>1
  <2>4. Channel!Receive
    BY <2>1, <2>2, <2>3 DEF Channel!Receive
  <2> QED
    BY <2>4 DEF Channel!Next
<1>16. CASE ReadWrap(p)
  BY <1>16, WrapKeepsContent
<1>17. CASE ReadWake(p)
  BY <1>17, ContentFrame DEF ReadWake, Return, RingInv
<1>18. CASE WriteFull(p)
  BY <1>18, ContentFrame DEF WriteFull, RingInv
<1>19. CASE WriteReady(p)
  BY <1>19, ContentFrame DEF WriteReady, RingInv
<1>20. CASE WritePrepare(p)
  BY <1>20, ContentFrame DEF WritePrepare, RingInv
<1>21. CASE WriteLoad(p)
  BY <1>21, ContentFrame DEF WriteLoad, RingInv
<1>22. CASE WriteCheck(p)
  BY <1>22, ContentFrame DEF WriteCheck, RingInv
<1>23. CASE WriteAwake(p)
  BY <1>23, ContentFrame DEF WriteAwake, RingInv
<1>24. CASE WriteCopy(p)
  <2>1. /\ pc[p] = "write_copy" /\ buf' = CopyIn(p, cnt[p]) /\ UNCHANGED <<wp, rp>>
        /\ cnt[p] \in Nat /\ (Resetting' <=> Resetting)
    BY <1>24 DEF WriteCopy, Goto, Resetting, RingInv, TypeOK
  <2> QED
    BY <2>1, CopyKeepsContent
<1>25. CASE WriteFault(p)
  <2>1. PICK k \in 0 .. cnt[p] - 1 : buf' = CopyIn(p, k)
    BY <1>25 DEF WriteFault
  <2>2. /\ pc[p] = "write_copy" /\ UNCHANGED <<wp, rp>> /\ k \in Nat
        /\ (Resetting' <=> Resetting)
    BY <1>25, <2>1 DEF WriteFault, Return, Goto, Resetting, RingInv, TypeOK
  <2> QED
    BY <2>1, <2>2, CopyKeepsContent
<1>26. CASE WriteAdvance(p)
  <2>1. /\ ~ Resetting /\ ~ Resetting' /\ cnt[p] \in Nat
        /\ Size' = Size + cnt[p]
        /\ \A i \in 1 .. Size : buf'[Slot(i)'] = buf[Slot(i)]
    BY <1>26, WriteAdvanceSends
  <2>2. /\ Len(Content) = Size /\ Len(Content') = Size'
        /\ Size \in Nat /\ Size' <= BufLen - 1
        /\ \A i \in 1 .. Size : Content[i] = buf[Slot(i)]
        /\ \A i \in 1 .. Size' : Content'[i] = buf'[Slot(i)']
    BY <2>1, ContentLen, ContentLenNext DEF ContentDescribed
  <2>3. Channel!Send
    BY <2>1, <2>2 DEF Channel!Send
  <2> QED
    BY <2>3 DEF Channel!Next
<1>27. CASE WriteWrap(p)
  BY <1>27, WrapKeepsContent
<1>28. CASE WriteWake(p)
  BY <1>28, ContentFrame DEF WriteWake, Return, RingInv
<1>29. CASE IoctlResetWp(p)
  <2>1. Resetting'
    BY <1>29 DEF IoctlResetWp, Goto, Resetting, RingInv, TypeOK
  <2>2. Len(Content') = 0 /\ Len(Content) \in Nat
    BY <2>1, ContentLen, ContentLenNext DEF ContentDescribed
  <2>3. Channel!Receive
    BY <2>2 DEF Channel!Receive
  <2> QED
    BY <2>3 DEF Channel!Next
<1>30. CASE IoctlResetRp(p)
  <2>1. Resetting /\ ~ Resetting'
    BY <1>30 DEF IoctlResetRp, Return, Goto, Resetting, RingInv, TypeOK,
                 SemInv,
              SemaphoreBalanced, Locked, IoctlLocked
  <2>2. wp' = 0 /\ rp' = 0
    BY <1>30 DEF IoctlResetRp, RingInv, RingOK
  <2>3. Len(Content') = 0 /\ Content = << >>
    BY <2>1, <2>2, ContentLen, ContentLenNext DEF Size, ContentDescribed
  <2>4. Channel!Receive
    BY <2>3 DEF Channel!Receive
  <2> QED
    BY <2>4 DEF Channel!Next
<1>31. CASE Interrupted(p)
  BY <1>31, ContentFrame DEF Interrupted, Return, RingInv
<1> QED
  BY <1>1, <1>2, <1>3, <1>4, <1>5, <1>6, <1>7, <1>8, <1>9, <1>10,
     <1>11, <1>12, <1>13, <1>14, <1>15, <1>16, <1>17, <1>18, <1>19, <1>20,
     <1>21, <1>22, <1>23, <1>24, <1>25, <1>26, <1>27, <1>28, <1>29, <1>30,
     <1>31
     DEF Calls, Downs, ReadStep, WriteStep, IoctlStep

(***************************************************************************)
(* What a call has copied is what lies at its pointer until it advances.   *)
(***************************************************************************)
CopiedOK ==
    \A p \in Procs :
        /\ pc[p] = "read_adv" =>
              /\ Len(ubuf[p]) = cnt[p]
              /\ \A i \in 1 .. cnt[p] : ubuf[p][i] = buf[rp + i - 1]
        /\ pc[p] = "write_adv" =>
              \A i \in 1 .. cnt[p] : ubuf[p][i] = buf[wp + i - 1]

LEMMA CopiedFrame ==
  ASSUME RingInv, CopiedOK, NEW p \in Procs, NEW l, Goto(p, l),
         UNCHANGED <<buf, wp, rp>>, l \notin {"read_adv", "write_adv"},
         \A q \in Procs : q # p => cnt'[q] = cnt[q] /\ ubuf'[q] = ubuf[q]
  PROVE  CopiedOK'
<1>1. \A q \in Procs : pc'[q] \in {"read_adv", "write_adv"} =>
         q # p /\ pc'[q] = pc[q]
  BY DEF Goto, RingInv, TypeOK
<1> QED
  BY <1>1 DEF CopiedOK

LEMMA CopiedMove ==
  ASSUME SemInv, NEW p \in Procs, NEW l, Goto(p, l), pc[p] \in Locked,
         l \notin {"read_adv", "write_adv"}
  PROVE  CopiedOK'
<1>1. \A q \in Procs : pc'[q] \notin {"read_adv", "write_adv"}
  BY DEF Goto, SemInv, PcOK, SemaphoreBalanced, Locked, ReadLocked, WriteLocked
<1> QED
  BY <1>1 DEF CopiedOK

LEMMA CopiedStep ==
  SemInv /\ RingInv /\ TypeOK' /\ CopiedOK /\ [Next]_vars => CopiedOK'
<1> SUFFICES ASSUME SemInv, RingInv, TypeOK', CopiedOK, Next PROVE CopiedOK'
  BY DEF CopiedOK, vars
<1> PICK p \in Procs :
       \/ Calls(p) \/ Downs(p) \/ ReadStep(p) \/ WriteStep(p) \/ IoctlStep(p)
       \/ Interrupted(p)
  BY DEF Next
<1>1. CASE ReadCall(p)
  <2>1. \A q \in Procs : q # p => cnt'[q] = cnt[q] /\ ubuf'[q] = ubuf[q]
    BY <1>1 DEF ReadCall, RingInv, TypeOK
  <2> QED
    BY <1>1, <2>1, CopiedFrame DEF ReadCall
<1>2. CASE WriteCall(p)
  <2>1. \A q \in Procs : q # p => cnt'[q] = cnt[q] /\ ubuf'[q] = ubuf[q]
    BY <1>2 DEF WriteCall, RingInv, TypeOK
  <2> QED
    BY <1>2, <2>1, CopiedFrame DEF WriteCall
<1>3. CASE IoctlCall(p)
  BY <1>3, CopiedFrame DEF IoctlCall, RingInv, TypeOK
<1>4. CASE ReadDown(p)
  BY <1>4, CopiedFrame DEF ReadDown, Down, RingInv, TypeOK
<1>5. CASE WriteDown(p)
  BY <1>5, CopiedFrame DEF WriteDown, Down, RingInv, TypeOK
<1>6. CASE IoctlDown(p)
  BY <1>6, CopiedFrame DEF IoctlDown, Down, RingInv, TypeOK
<1>7. CASE ReadEmpty(p)
  BY <1>7, CopiedFrame DEF ReadEmpty, RingInv, TypeOK
<1>8. CASE ReadReady(p)
  BY <1>8, CopiedFrame DEF ReadReady, RingInv, TypeOK
<1>9. CASE ReadPrepare(p)
  BY <1>9, CopiedFrame DEF ReadPrepare, RingInv, TypeOK
<1>10. CASE ReadLoad(p)
  BY <1>10, CopiedFrame DEF ReadLoad, RingInv, TypeOK
<1>11. CASE ReadCheck(p)
  <2>1. PICK l \in {"read_down", "read_sleep"} : Goto(p, l)
    BY <1>11 DEF ReadCheck
  <2> QED
    BY <1>11, <2>1, CopiedFrame DEF ReadCheck
<1>12. CASE ReadAwake(p)
  BY <1>12, CopiedFrame DEF ReadAwake, RingInv, TypeOK
<1>13. CASE ReadCopy(p)
  <2>1. /\ pc[p] = "read_copy" /\ pc' = [pc EXCEPT ![p] = "read_adv"]
        /\ UNCHANGED <<buf, rp, cnt>>
        /\ ubuf'[p] = [i \in 1 .. cnt[p] |-> buf[rp + i - 1]] /\ cnt[p] \in Nat
    BY <1>13 DEF ReadCopy, Goto, RingInv, TypeOK
  <2>2. \A q \in Procs : pc'[q] \in {"read_adv", "write_adv"} =>
           q = p /\ pc'[q] = "read_adv"
    BY <2>1 DEF SemInv, PcOK, SemaphoreBalanced, Locked, ReadLocked,
                WriteLocked
  <2>3. Len(ubuf'[p]) = cnt[p] /\ \A i \in 1 .. cnt[p] : ubuf'[p][i] = buf[rp + i - 1]
    BY <2>1
  <2> QED
    BY <2>1, <2>2, <2>3 DEF CopiedOK
<1>14. CASE ReadFault(p)
  BY <1>14, CopiedMove DEF ReadFault, Return, Locked, ReadLocked,
                           WriteLocked, IoctlLocked
<1>15. CASE ReadAdvance(p)
  BY <1>15, CopiedMove DEF ReadAdvance, Locked, ReadLocked, WriteLocked,
                           IoctlLocked
<1>16. CASE ReadWrap(p)
  BY <1>16, CopiedMove DEF ReadWrap, Locked, ReadLocked, WriteLocked,
                           IoctlLocked
<1>17. CASE ReadWake(p)
  BY <1>17, CopiedFrame DEF ReadWake, Return, RingInv, TypeOK
<1>18. CASE WriteFull(p)
  BY <1>18, CopiedFrame DEF WriteFull, RingInv, TypeOK
<1>19. CASE WriteReady(p)
  BY <1>19, CopiedFrame DEF WriteReady, RingInv, TypeOK
<1>20. CASE WritePrepare(p)
  BY <1>20, CopiedFrame DEF WritePrepare, RingInv, TypeOK
<1>21. CASE WriteLoad(p)
  BY <1>21, CopiedFrame DEF WriteLoad, RingInv, TypeOK
<1>22. CASE WriteCheck(p)
  <2>1. PICK l \in {"write_down", "write_sleep"} : Goto(p, l)
    BY <1>22 DEF WriteCheck
  <2> QED
    BY <1>22, <2>1, CopiedFrame DEF WriteCheck
<1>23. CASE WriteAwake(p)
  BY <1>23, CopiedFrame DEF WriteAwake, RingInv, TypeOK
<1>24. CASE WriteCopy(p)
  <2>1. /\ pc[p] = "write_copy" /\ pc' = [pc EXCEPT ![p] = "write_adv"]
        /\ UNCHANGED <<wp, cnt, ubuf>> /\ buf' = CopyIn(p, cnt[p])
    BY <1>24 DEF WriteCopy, Goto
  <2>2. \A q \in Procs : pc'[q] \in {"read_adv", "write_adv"} =>
           q = p /\ pc'[q] = "write_adv"
    BY <2>1 DEF SemInv, PcOK, SemaphoreBalanced, Locked, ReadLocked,
                WriteLocked
  <2>3. /\ wp + cnt[p] <= BufLen /\ cnt[p] \in Nat
        /\ wp \in 0 .. BufLen /\ BufLen \in Nat
    BY <2>1, ConstantsAssumption DEF RingInv, RingOK, CopyInBounds, TypeOK
  <2>4. ASSUME NEW i \in 1 .. cnt[p] PROVE buf'[wp + i - 1] = ubuf[p][i]
    <3>1. /\ wp + i - 1 \in 0 .. BufLen - 1
          /\ ~ (wp + i - 1 < wp) /\ ~ (wp + i - 1 >= wp + cnt[p])
          /\ wp + i - 1 < wp + cnt[p]
          /\ (wp + i - 1) - wp + 1 = i
      BY <2>3
    <3> DEFINE j == wp + i - 1
    <3>2. buf'[j] = ubuf[p][j - wp + 1]
      <4>1. /\ j \in 0 .. BufLen - 1 /\ j < wp + cnt[p]
            /\ ~ (j < wp \/ j >= wp + cnt[p])
        BY <3>1
      <4> HIDE DEF j
      <4> QED
        BY <2>1, <4>1 DEF CopyIn
    <3> QED
      BY <3>1, <3>2
  <2> QED
    BY <2>1, <2>2, <2>4 DEF CopiedOK
<1>25. CASE WriteFault(p)
  BY <1>25, CopiedMove DEF WriteFault, Return, Locked, ReadLocked,
                           WriteLocked, IoctlLocked
<1>26. CASE WriteAdvance(p)
  BY <1>26, CopiedMove DEF WriteAdvance, Locked, ReadLocked, WriteLocked,
                           IoctlLocked
<1>27. CASE WriteWrap(p)
  BY <1>27, CopiedMove DEF WriteWrap, Locked, ReadLocked, WriteLocked,
                           IoctlLocked
<1>28. CASE WriteWake(p)
  BY <1>28, CopiedFrame DEF WriteWake, Return, RingInv, TypeOK
<1>29. CASE IoctlResetWp(p)
  BY <1>29, CopiedMove DEF IoctlResetWp, Locked, ReadLocked, WriteLocked,
                           IoctlLocked
<1>30. CASE IoctlResetRp(p)
  BY <1>30, CopiedMove DEF IoctlResetRp, Return, Locked, ReadLocked,
                           WriteLocked, IoctlLocked
<1>31. CASE Interrupted(p)
  <2>1. /\ Goto(p, "idle") /\ UNCHANGED <<buf, wp, rp>>
        /\ \A q \in Procs : q # p => cnt'[q] = cnt[q] /\ ubuf'[q] = ubuf[q]
    BY <1>31 DEF Interrupted, Return, RingInv, TypeOK
  <2> QED
    BY <2>1, CopiedFrame
<1> QED
  BY <1>1, <1>2, <1>3, <1>4, <1>5, <1>6, <1>7, <1>8, <1>9, <1>10,
     <1>11, <1>12, <1>13, <1>14, <1>15, <1>16, <1>17, <1>18, <1>19, <1>20,
     <1>21, <1>22, <1>23, <1>24, <1>25, <1>26, <1>27, <1>28, <1>29, <1>30,
     <1>31
     DEF Calls, Downs, ReadStep, WriteStep, IoctlStep

(***************************************************************************)
(* Only ReadAdvance takes a thread from read_adv to read_wrap, and only    *)
(* WriteAdvance from write_adv to write_wrap.                              *)
(***************************************************************************)
LEMMA StepOfCaller ==
  ASSUME RingInv, Next, NEW r \in Procs
  PROVE  /\ pc[r] = "read_adv" /\ pc'[r] = "read_wrap" => ReadAdvance(r)
         /\ pc[r] = "write_adv" /\ pc'[r] = "write_wrap" => WriteAdvance(r)
<1> PICK p \in Procs :
       \/ Calls(p) \/ Downs(p) \/ ReadStep(p) \/ WriteStep(p) \/ IoctlStep(p)
       \/ Interrupted(p)
  BY DEF Next
<1> USE DEF RingInv, TypeOK
<1>1. CASE ReadCall(p)
  BY <1>1 DEF ReadCall, Goto
<1>2. CASE WriteCall(p)
  BY <1>2 DEF WriteCall, Goto
<1>3. CASE IoctlCall(p)
  BY <1>3 DEF IoctlCall, Goto
<1>4. CASE ReadDown(p)
  BY <1>4 DEF ReadDown, Down, Goto
<1>5. CASE WriteDown(p)
  BY <1>5 DEF WriteDown, Down, Goto
<1>6. CASE IoctlDown(p)
  BY <1>6 DEF IoctlDown, Down, Goto
<1>7. CASE ReadEmpty(p)
  BY <1>7 DEF ReadEmpty, Goto
<1>8. CASE ReadReady(p)
  BY <1>8 DEF ReadReady, Goto
<1>9. CASE ReadPrepare(p)
  BY <1>9 DEF ReadPrepare, Goto
<1>10. CASE ReadLoad(p)
  BY <1>10 DEF ReadLoad, Goto
<1>11. CASE ReadCheck(p)
  BY <1>11 DEF ReadCheck, Goto
<1>12. CASE ReadAwake(p)
  BY <1>12 DEF ReadAwake, Goto
<1>13. CASE ReadCopy(p)
  BY <1>13 DEF ReadCopy, Goto
<1>14. CASE ReadFault(p)
  BY <1>14 DEF ReadFault, Return, Goto
<1>15. CASE ReadAdvance(p)
  BY <1>15 DEF ReadAdvance, Goto
<1>16. CASE ReadWrap(p)
  BY <1>16 DEF ReadWrap, Goto
<1>17. CASE ReadWake(p)
  BY <1>17 DEF ReadWake, Return, Goto
<1>18. CASE WriteFull(p)
  BY <1>18 DEF WriteFull, Goto
<1>19. CASE WriteReady(p)
  BY <1>19 DEF WriteReady, Goto
<1>20. CASE WritePrepare(p)
  BY <1>20 DEF WritePrepare, Goto
<1>21. CASE WriteLoad(p)
  BY <1>21 DEF WriteLoad, Goto
<1>22. CASE WriteCheck(p)
  BY <1>22 DEF WriteCheck, Goto
<1>23. CASE WriteAwake(p)
  BY <1>23 DEF WriteAwake, Goto
<1>24. CASE WriteCopy(p)
  BY <1>24 DEF WriteCopy, Goto
<1>25. CASE WriteFault(p)
  BY <1>25 DEF WriteFault, Return, Goto
<1>26. CASE WriteAdvance(p)
  BY <1>26 DEF WriteAdvance, Goto
<1>27. CASE WriteWrap(p)
  BY <1>27 DEF WriteWrap, Goto
<1>28. CASE WriteWake(p)
  BY <1>28 DEF WriteWake, Return, Goto
<1>29. CASE IoctlResetWp(p)
  BY <1>29 DEF IoctlResetWp, Goto
<1>30. CASE IoctlResetRp(p)
  BY <1>30 DEF IoctlResetRp, Return, Goto
<1>31. CASE Interrupted(p)
  BY <1>31 DEF Interrupted, Return, Goto
<1> QED
  BY <1>1, <1>2, <1>3, <1>4, <1>5, <1>6, <1>7, <1>8, <1>9, <1>10,
     <1>11, <1>12, <1>13, <1>14, <1>15, <1>16, <1>17, <1>18, <1>19, <1>20,
     <1>21, <1>22, <1>23, <1>24, <1>25, <1>26, <1>27, <1>28, <1>29, <1>30,
     <1>31
     DEF Calls, Downs, ReadStep, WriteStep, IoctlStep

LEMMA ConcatSplit ==
  ASSUME NEW S, NEW s \in Seq(S), NEW t \in Seq(S), NEW u \in Seq(S),
         Len(s) = Len(t) + Len(u),
         \A i \in 1 .. Len(t) : s[i] = t[i],
         \A i \in Len(t) + 1 .. Len(s) : s[i] = u[i - Len(t)]
  PROVE  s = t \o u
<1> DEFINE c == t \o u
<1>1. /\ c \in Seq(S) /\ Len(c) = Len(t) + Len(u)
      /\ \A i \in 1 .. Len(t) + Len(u) :
            c[i] = IF i <= Len(t) THEN t[i] ELSE u[i - Len(t)]
  BY ConcatProperties
<1> HIDE DEF c
<1>2. ASSUME NEW i \in 1 .. Len(s) PROVE s[i] = c[i]
  <2>1. Len(t) \in Nat /\ Len(u) \in Nat
    BY LenProperties
  <2>2. CASE i <= Len(t)
    BY <1>1, <2>1, <2>2
  <2>3. CASE i > Len(t)
    <3>1. i \in Len(t) + 1 .. Len(s) /\ i \in 1 .. Len(t) + Len(u)
      BY <2>1, <2>3
    <3>2. c[i] = u[i - Len(t)]
      BY <1>1, <2>1, <2>3, <3>1
    <3>3. s[i] = u[i - Len(t)]
      BY <3>1
    <3> QED
      BY <3>2, <3>3
  <2> QED
    BY <2>1, <2>2, <2>3
<1>3. s = c
  BY <1>1, <1>2, SeqEqual
<1> QED
  BY <1>3 DEF c

LEMMA FifoStep ==
  ASSUME SemInv, RingInv, RingInv', CopiedOK, Next, NEW p \in Procs
  PROVE  /\ pc[p] = "read_adv" /\ pc'[p] = "read_wrap" =>
               Content = ubuf[p] \o Content'
         /\ pc[p] = "write_adv" /\ pc'[p] = "write_wrap" =>
               Content' = Content \o SubSeq(ubuf[p], 1, cnt[p])
<1>1. ASSUME pc[p] = "read_adv", pc'[p] = "read_wrap"
      PROVE  Content = ubuf[p] \o Content'
  <2>1. ReadAdvance(p)
    BY <1>1, StepOfCaller
  <2>2. /\ ~ Resetting /\ ~ Resetting' /\ cnt[p] \in 0 .. Size
        /\ Size' = Size - cnt[p]
        /\ \A i \in 1 .. Size' : buf'[Slot(i)'] = buf[Slot(i + cnt[p])]
    BY <2>1, ReadAdvanceReceives
  <2>3. /\ Len(Content) = Size /\ Len(Content') = Size' /\ Size \in Nat
        /\ Content \in Seq(Byte) /\ Content' \in Seq(Byte)
        /\ \A i \in 1 .. Size : Content[i] = buf[Slot(i)]
        /\ \A i \in 1 .. Size' : Content'[i] = buf'[Slot(i)']
    BY <2>2, ContentLen, ContentLenNext DEF ContentDescribed, Byte
  <2>4. /\ ubuf[p] \in Seq(Byte) /\ Len(ubuf[p]) = cnt[p]
        /\ \A i \in 1 .. cnt[p] : ubuf[p][i] = buf[rp + i - 1]
    BY <1>1 DEF CopiedOK, RingInv, TypeOK
  <2>5. \A i \in 1 .. cnt[p] : Slot(i) = rp + i - 1
    BY <1>1, ConstantsAssumption
       DEF RingInv, RingOK, CopyInBounds, TypeOK, Slot
  <2>6. ASSUME NEW i \in 1 .. cnt[p] PROVE Content[i] = ubuf[p][i]
    <3>1. i \in 1 .. Size
      BY <2>2, <2>3
    <3>2. Content[i] = buf[Slot(i)]
      BY <2>3, <3>1
    <3>3. Content[i] = buf[rp + i - 1]
      BY <2>5, <3>2
    <3> QED
      BY <2>4, <3>3
  <2>7. ASSUME NEW i \in cnt[p] + 1 .. Size PROVE Content[i] = Content'[i - cnt[p]]
    <3>1. i - cnt[p] \in 1 .. Size' /\ (i - cnt[p]) + cnt[p] = i /\ i \in 1 .. Size
      BY <2>2, <2>3
    <3> QED
      BY <3>1, <2>2, <2>3
  <2>8. Len(Content) = Len(ubuf[p]) + Len(Content')
    BY <2>2, <2>3, <2>4
  <2>9. /\ \A i \in 1 .. Len(ubuf[p]) : Content[i] = ubuf[p][i]
        /\ \A i \in Len(ubuf[p]) + 1 .. Len(Content) :
              Content[i] = Content'[i - Len(ubuf[p])]
    BY <2>3, <2>4, <2>6, <2>7
  <2> DEFINE rest == Content'
  <2>10. rest \in Seq(Byte) /\ rest = Content'
    BY <2>3
  <2> HIDE DEF rest
  <2> QED
    BY <2>3, <2>4, <2>8, <2>9, <2>10, ConcatSplit
<1>2. ASSUME pc[p] = "write_adv", pc'[p] = "write_wrap"
      PROVE  Content' = Content \o SubSeq(ubuf[p], 1, cnt[p])
  <2>1. WriteAdvance(p)
    BY <1>2, StepOfCaller
  <2>2. /\ ~ Resetting /\ ~ Resetting' /\ cnt[p] \in Nat
        /\ Size' = Size + cnt[p]
        /\ \A i \in 1 .. Size : buf'[Slot(i)'] = buf[Slot(i)]
        /\ \A i \in Size + 1 .. Size' : buf'[Slot(i)'] = buf[wp + i - Size - 1]
    BY <2>1, WriteAdvanceSends
  <2>3. /\ Len(Content) = Size /\ Len(Content') = Size' /\ Size \in Nat
        /\ Content \in Seq(Byte) /\ Content' \in Seq(Byte)
        /\ \A i \in 1 .. Size : Content[i] = buf[Slot(i)]
        /\ \A i \in 1 .. Size' : Content'[i] = buf'[Slot(i)']
    BY <2>2, ContentLen, ContentLenNext DEF ContentDescribed, Byte
  <2>4. /\ ubuf[p] \in Seq(Byte) /\ Len(ubuf[p]) >= cnt[p]
        /\ \A i \in 1 .. cnt[p] : ubuf[p][i] = buf[wp + i - 1]
    BY <1>2 DEF CopiedOK, RingInv, RingOK, Filling, TypeOK
  <2> DEFINE new == SubSeq(ubuf[p], 1, cnt[p])
  <2>5. /\ new \in Seq(Byte) /\ Len(new) = cnt[p]
        /\ \A i \in 1 .. cnt[p] : new[i] = ubuf[p][i]
    <3>1. \A i \in 1 .. cnt[p] : ubuf[p][i] \in Byte
      BY <2>2, <2>4
    <3> QED
      BY <3>1, <2>2, SubSeqProperties
  <2> HIDE DEF new
  <2>6. ASSUME NEW i \in 1 .. Size PROVE Content'[i] = Content[i]
    <3>1. i \in 1 .. Size'
      BY <2>2, <2>3
    <3>2. Content'[i] = buf'[Slot(i)'] /\ buf'[Slot(i)'] = buf[Slot(i)]
      BY <2>2, <2>3, <3>1
    <3> QED
      BY <2>3, <3>2
  <2>7. ASSUME NEW i \in Size + 1 .. Size' PROVE Content'[i] = new[i - Size]
    <3>1. /\ i - Size \in 1 .. cnt[p] /\ i \in 1 .. Size'
          /\ wp + (i - Size) - 1 = wp + i - Size - 1
      BY <2>2, <2>3 DEF RingInv, TypeOK
    <3>2. new[i - Size] = buf[wp + i - Size - 1]
      BY <3>1, <2>4, <2>5
    <3> QED
      BY <3>1, <3>2, <2>2, <2>3
  <2>8. Len(Content') = Len(Content) + Len(new)
    BY <2>2, <2>3, <2>5
  <2>9. Content' = Content \o new
    BY <2>3, <2>5, <2>6, <2>7, <2>8, ConcatSplit
  <2> QED
    BY <2>9 DEF new
<1> QED
  BY <1>1, <1>2

-----------------------------------------------------------------------------
LEMMA SemAlways == Spec => []SemInv
  BY SemInvInit, SemInvStep, PTL DEF Spec

LEMMA RingAlways == Spec => []RingInv
<1>1. SemInv /\ SemInv' /\ RingInv /\ [Next]_vars => RingInv'
  BY TypeStep, RingStep DEF RingInv
<1> QED
  BY RingInvInit, SemAlways, <1>1, PTL DEF Spec

(***************************************************************************)
(* The variables keep their types whatever the threads do: no pointer      *)
(* leaves the buffer.                                                      *)
(***************************************************************************)
THEOREM TypeCorrect == Spec => []TypeOK
  BY RingAlways, PTL DEF RingInv

(***************************************************************************)
(* mysem is a mutex that every path of the three calls gives back.         *)
(***************************************************************************)
THEOREM SemaphoreCorrect == Spec => []SemaphoreBalanced
  BY SemAlways, PTL DEF SemInv

(***************************************************************************)
(* No copy runs past the buffer, past the data or into it, for any         *)
(* BUF_LEN, any number of threads and any count.                           *)
(***************************************************************************)
THEOREM CopyBounded == Spec => []CopyInBounds
<1>1. RingInv => CopyInBounds
  BY DEF RingInv, RingOK
<1> QED
  BY RingAlways, <1>1, PTL

(***************************************************************************)
(* No reader sleeps on while there is data without a writer about to wake  *)
(* it, although the wait condition reads the pointers without mysem and a  *)
(* reset moves them without waking anybody.                                *)
(***************************************************************************)
THEOREM NoReaderStranded == Spec => []ReaderNotStranded
<1>1. Init => ReaderWaitOK
  BY DEF Init, ReaderWaitOK
<1>2. Spec => []ReaderWaitOK
  BY <1>1, ReaderWaitStep, SemAlways, RingAlways, PTL DEF Spec
<1>3. RingInv /\ ReaderWaitOK => ReaderNotStranded
  BY DEF RingInv, TypeOK, ReaderWaitOK, ReaderNotStranded, WriterComing,
         Content
<1> QED
  BY <1>2, <1>3, RingAlways, PTL

(***************************************************************************)
(* Without PIPE_RESET the same holds for the writers.  The run with a      *)
(* reset shows that the hypothesis is needed.                              *)
(***************************************************************************)
THEOREM NoWriterStrandedWithoutReset ==
  ASSUME Resetters = {}
  PROVE  Spec => []WriterNotStranded
<1>1. Init => WriterWaitOK
  BY DEF Init, WriterWaitOK, NoIoctl
<1>2. Spec => []WriterWaitOK
  BY <1>1, WriterWaitStep, SemAlways, RingAlways, PTL DEF Spec
<1>3. RingInv /\ WriterWaitOK => WriterNotStranded
  <2> SUFFICES ASSUME RingInv, WriterWaitOK, NEW p \in writeq,
                      pc[p] = "write_sleep", Len(Content) < BufLen - 1
               PROVE  \E q \in Procs : pc[q] \in {"read_wrap", "read_wake", "ioctl_rp"}
    BY DEF WriterNotStranded
  <2>1. ~ Resetting
    BY DEF WriterWaitOK, NoIoctl, Resetting
  <2>2. Len(Content) = Size
    BY <2>1, ContentLen DEF ContentDescribed
  <2> QED
    BY <2>2, ConstantsAssumption DEF WriterWaitOK, ReaderComing
<1> QED
  BY <1>2, <1>3, RingAlways, PTL

(***************************************************************************)
(* The ring buffer implements the bounded FIFO channel.                    *)
(***************************************************************************)
THEOREM PipeImplementsChannel == Spec => ImplementsChannel
<1>1. Init => Channel!Init
  BY DEF Init, Channel!Init, Content, Resetting, Size
<1> QED
  BY <1>1, ChannelStep, SemAlways, RingAlways, PTL
     DEF Spec, ImplementsChannel, Channel!Spec

(***************************************************************************)
(* A read hands out the oldest bytes in order and once; a write appends a  *)
(* prefix of the caller's bytes.                                           *)
(***************************************************************************)
THEOREM PipeIsFifo == Spec => FifoOrder
<1>1. Init => CopiedOK
  BY DEF Init, CopiedOK
<1>2. Spec => []CopiedOK
  <2>1. SemInv /\ RingInv /\ RingInv' /\ CopiedOK /\ [Next]_vars => CopiedOK'
    BY CopiedStep DEF RingInv
  <2> QED
    BY <1>1, <2>1, SemAlways, RingAlways, PTL DEF Spec
<1> DEFINE Moves ==
      \A p \in Procs :
         /\ pc[p] = "read_adv" /\ pc'[p] = "read_wrap" =>
               Content = ubuf[p] \o Content'
         /\ pc[p] = "write_adv" /\ pc'[p] = "write_wrap" =>
               Content' = Content \o SubSeq(ubuf[p], 1, cnt[p])
<1>3. SemInv /\ RingInv /\ RingInv' /\ CopiedOK /\ [Next]_vars => [Moves]_vars
  BY FifoStep
<1> QED
  BY <1>2, <1>3, SemAlways, RingAlways, PTL DEF Spec, FifoOrder
=============================================================================
