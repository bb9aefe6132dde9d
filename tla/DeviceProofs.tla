---------------------------- MODULE DeviceProofs ----------------------------
(***************************************************************************)
(* Proofs about the fake disk (module FakePata) and about the character    *)
(* buffers (module CharBuffer).  The two share no state.                   *)
(*                                                                         *)
(* FakePata: the status is BSY whenever the bytes do not belong together   *)
(* (BusyOK), so a host that polls never takes them for data.  CharBuffer:  *)
(* the bytes between reader and writer are those that were written         *)
(* (WriterOK, ReaderOK), whoever sleeps has been seen by whoever has to    *)
(* wake it (SleepOK), and no transfer ends outside the buffer              *)
(* (TransfersInside).                                                      *)
(***************************************************************************)
EXTENDS FakePata, CharBuffer, SequenceTheorems, TLAPS

-----------------------------------------------------------------------------
(* The fake disk.                                                          *)

Answers == {"zero", "DRDY", "BSY", "DRQ"}

DiskType ==
    /\ va \in [data : Int, reg : {0, 1}, cmd : Commands \cup Answers]
    /\ va_l \in [data : Int, reg : {0, 1}, cmd : Commands \cup Answers]
    /\ start_offset \in 0 .. 45 /\ enable_read \in BOOLEAN /\ identified \in BOOLEAN
    /\ fpc \in {"compare", "scan", "act", "first", "last", "ready", "copy"}
    /\ fi \in 1 .. 4 /\ (fi = 4 => fpc = "copy")
    /\ pending \in {"no", "yes", "late", "same"}

\* The status is BSY while the bytes do not belong together, unless the host
\* has put a command over it.
BusyOK ==
    /\ va.data = Torn => fpc = "last"
    /\ fpc \in {"first", "last"} => va.cmd = "BSY" \/ pending # "no"

\* A command that can be seen has not been passed by the thread.
SeenOK == pending = "yes" => va.cmd # va_l.cmd /\ ~ PastCommand

\* The offset moves in steps of five, four with the data and one with the status.
OffsetOK ==
    /\ fpc = "ready" => start_offset % 5 = 4 /\ start_offset <= 44
    /\ fpc # "ready" => start_offset % 5 = 0
    /\ enable_read /\ fpc # "ready" => start_offset <= 40
    /\ fpc \in {"first", "last", "ready"} => enable_read

DiskInv == DiskType /\ BusyOK /\ SeenOK /\ OffsetOK /\ PollingSafe

LEMMA DiskInit == FInit => DiskInv
<1> SUFFICES ASSUME FInit PROVE DiskInv
  OBVIOUS
<1>1. DiskType
  <2>1. va = [data |-> -3, reg |-> 0, cmd |-> "zero"] /\ va_l = va
    BY DEF FInit, Blank
  <2>2. va \in [data : Int, reg : {0, 1}, cmd : Commands \cup Answers]
    BY <2>1 DEF Answers
  <2>3. va_l \in [data : Int, reg : {0, 1}, cmd : Commands \cup Answers]
    BY <2>1, <2>2
  <2>4. enable_read \in BOOLEAN /\ identified \in BOOLEAN
    BY DEF FInit
  <2> QED
    BY <2>2, <2>3, <2>4 DEF FInit, DiskType
<1>2. BusyOK /\ SeenOK /\ OffsetOK
  BY DEF FInit, BusyOK, SeenOK, OffsetOK, Torn, Blank
<1>3. PollingSafe
  BY DEF FInit, PollingSafe, DrqMeansData, MissedExplained, IdentifyRuns, OffsetsInside,
         Blank
<1> QED
  BY <1>1, <1>2, <1>3 DEF DiskInv

LEMMA DiskStep == DiskInv /\ [FNext]_fvars => DiskInv'
<1>0. ASSUME DiskInv, UNCHANGED fvars PROVE DiskInv'
  BY <1>0 DEF fvars, fdev, DiskInv, DiskType, BusyOK, SeenOK, OffsetOK, PollingSafe,
              DrqMeansData, MissedExplained, IdentifyRuns, OffsetsInside, PastCommand
<1> SUFFICES ASSUME DiskInv, FNext PROVE DiskInv'
  BY <1>0
<1> USE DEF DiskInv, DiskType, BusyOK, SeenOK, OffsetOK, PollingSafe, DrqMeansData,
            MissedExplained, IdentifyRuns, OffsetsInside, Torn, Host, Blank, Answers,
            Commands, PastCommand, fdev, FAt, FGoto, ScanOrder
<1>1. CASE HostTaskfile
  BY <1>1 DEF HostTaskfile
<1>2. ASSUME NEW c \in Commands, HostCommand(c) PROVE DiskInv'
  BY <1>2 DEF HostCommand
<1>3. CASE compare
  BY <1>3 DEF compare
<1>4. CASE scan
  <2>1. /\ fpc = "scan" /\ fi \in 1 .. 3 /\ UNCHANGED <<va, va_l, missed>>
        /\ fpc' = IF fi = 3 THEN "act" ELSE "scan"
        /\ fi' = IF fi = 3 THEN 1 ELSE fi + 1
        /\ pending' = IF fi = 3 /\ va.cmd # va_l.cmd THEN "no" ELSE pending
    BY <1>4 DEF scan
  <2>2. \/ UNCHANGED <<start_offset, enable_read, identified>>
        \/ enable_read' = TRUE /\ identified' = TRUE /\ start_offset' = 0
        \/ enable_read' = FALSE /\ identified' = FALSE /\ start_offset' = start_offset
    <3> DEFINE r == ScanOrder[fi]
               identify == r = "cmd" /\ va.cmd = "IDENTIFY"
    <3>1. \/ UNCHANGED <<start_offset, enable_read, identified>>
          \/ /\ start_offset' = IF identify THEN 0 ELSE start_offset
             /\ enable_read' = identify /\ identified' = identify
      BY <1>4 DEF scan, interpret
    <3>2. identify = TRUE \/ identify = FALSE
      OBVIOUS
    <3> HIDE DEF identify
    <3> QED
      BY <3>1, <3>2
  <2>3. DiskType'
    <3>1. enable_read' \in BOOLEAN /\ identified' \in BOOLEAN
      BY <2>2, Zenon
    <3>2. start_offset' \in 0 .. 45
      BY <2>2
    <3> QED
      BY <2>1, <3>1, <3>2
  <2>4. (BusyOK /\ SeenOK)'
    BY <2>1
  <2>5. OffsetOK'
    BY <2>1, <2>2
  <2>6. PollingSafe'
    BY <2>1, <2>2
  <2> QED
    BY <2>3, <2>4, <2>5, <2>6
<1>5. CASE refresh_status
  BY <1>5 DEF refresh_status, SetStatus
<1>6. CASE copy
  BY <1>6 DEF copy
<1>7. CASE read_things_busy
  BY <1>7 DEF read_things_busy, SetStatus
<1>8. CASE read_things_first
  BY <1>8 DEF read_things_first
<1>9. CASE read_things_last
  BY <1>9 DEF read_things_last
<1>10. CASE read_things_ready
  <2>1. /\ fpc = "ready" /\ fpc' = "copy" /\ fi' = 1
        /\ va' = [va EXCEPT !.cmd = "DRQ"] /\ pending' = "no"
        /\ missed' = IF pending = "no" THEN missed ELSE missed \cup {pending}
        /\ UNCHANGED <<va_l, identified>>
    BY <1>10 DEF read_things_ready, SetStatus
  <2>2. start_offset' = start_offset + 1 /\ start_offset' % 5 = 0
    <3>1. start_offset' = (start_offset + 1) % 512
      BY <1>10 DEF read_things_ready
    <3>2. start_offset \in 0 .. 44 /\ start_offset % 5 = 4
      BY <2>1
    <3>3. start_offset' = start_offset + 1
      BY <3>1, <3>2
    <3> QED
      BY <3>2, <3>3
  <2>3. enable_read' = (start_offset' <= 40)
    BY <1>10 DEF read_things_ready
  <2>4. enable_read' \in BOOLEAN /\ (enable_read' <=> start_offset' <= 40)
    <3>1. (start_offset' <= 40) \in BOOLEAN
      BY <2>2
    <3> QED
      BY <2>3, <3>1, Zenon
  <2>5. DiskType'
    BY <2>1, <2>2, <2>4
  <2>6. (BusyOK /\ SeenOK)'
    BY <2>1
  <2>7. OffsetOK'
    BY <2>1, <2>2, <2>4
  <2>8. PollingSafe'
    BY <2>1, <2>2, <2>4
  <2> QED
    BY <2>5, <2>6, <2>7, <2>8
<1> QED
  BY <1>1, <1>2, <1>3, <1>4, <1>5, <1>6, <1>7, <1>8, <1>9, <1>10
     DEF FNext, thread_function

(***************************************************************************)
(* The polling thread and libata, which write the same page at any time,   *)
(* keep PollingSafe: data that is announced belongs together, a command is *)
(* missed only in the two ways that the module names, a read goes on to    *)
(* the end, and its offsets stay inside.                                   *)
(***************************************************************************)
THEOREM PollingIsSafe == FSpec => []PollingSafe
<1>1. DiskInv => PollingSafe
  BY DEF DiskInv
<1> QED
  BY <1>1, DiskInit, DiskStep, PTL DEF FSpec

-----------------------------------------------------------------------------
(* The character buffers.                                                  *)

Byte == Bytes \cup {"0"}

CPoints == {"idle", "r_queue", "r_sleep", "r_cut", "r_copy", "w_copy", "w_load",
            "w_store", "w_wake"}

CType ==
    /\ cdrv \in CDrivers /\ wp \in Nat
    /\ cbuf \in [0 .. BufSize - 1 -> Byte] /\ accepted \in Seq(Byte)
    /\ cpc \in [CThreads -> CPoints] /\ cpos \in [CThreads -> Nat]
    /\ clen \in [CThreads -> Nat] /\ creg \in [CThreads -> Nat]
    /\ cval \in [CThreads -> Byte]
    /\ overlap \in BOOLEAN /\ beyond \in BOOLEAN

\* A writer that is alone finds wp at the end of what was accepted, and room.
WriterOK ==
    ~ overlap =>
       /\ \A t, u \in Writers : t = u
       /\ wp <= Len(accepted) /\ Len(accepted) <= BufSize
       /\ \A i \in 0 .. Len(accepted) - 1 : cbuf[i] = accepted[i + 1]
       /\ (\A t \in CThreads : cpc[t] # "w_store") => wp = Len(accepted)
       /\ \A t \in CThreads :
             /\ cpc[t] = "w_store" => creg[t] = Len(accepted)
             /\ cpc[t] \in {"w_copy", "w_load"} => wp + clen[t] <= BufSize
             /\ cpc[t] = "w_load" =>
                   \A i \in wp .. wp + clen[t] - 1 : cbuf[i] = cval[t]

\* Where the readers are.
ReaderOK ==
    /\ ~ overlap /\ cdrv \in Buffered => \A t \in CThreads :
          /\ cdrv # "multi_mem" /\ ~ beyond => cpos[t] <= wp
          /\ cpc[t] = "r_copy" /\ (cdrv = "multi_mem" \/ ~ beyond) =>
                cpos[t] + clen[t] <= wp
    /\ cdrv \in Ports /\ ~ beyond /\ RegsLen % 4 = 0 =>
          \A t \in CThreads : cpos[t] <= RegsLen /\ cpos[t] % 4 = 0

SleepOK ==
    /\ \A t \in CThreads : cpc[t] = "r_sleep" => cdrv \in Waiting
    /\ SleepersWoken

CharInv == CType /\ WriterOK /\ ReaderOK /\ SleepOK /\ TransfersInside

LEMMA Sizes == /\ BufSize \in Nat /\ RegsLen \in Nat /\ RegsLen # 0
               /\ MaxCount \in Nat /\ MaxTaken \in Nat
  BY CharAssumption

LEMMA MinSize ==
  ASSUME NEW count \in Nat, NEW rest \in Int
  PROVE  /\ min_size(count, rest) \in Nat /\ min_size(count, rest) <= count
         /\ rest >= 0 => min_size(count, rest) <= rest
  BY DEF min_size

\* The steps of one thread, the calls of drivers that do the same taken together.
CStep(t) ==
    \/ wait_event(t) \/ wait_signal(t) \/ wait_cut(t) \/ read_copy(t)
    \/ write_copy(t) \/ write_load(t) \/ write_store(t) \/ wake_up(t)
    \/ \E n \in 1 .. MaxCount :
          \/ mychar_read(t, n) \/ multi_mem_read(t, n)
          \/ my_wait_read(t, n) \/ my_wait2_read(t, n)
          \/ \E b \in Bytes : \E d \in Buffered : write_cut(t, d, n, b)
    \/ \E n \in 1 .. RegsLen :
          \/ \E d \in {"my_pci2", "any"} : regs_transfer(t, d, n)
          \/ \E d \in Ports : port_transfer(t, d, n)
    \/ \E o \in {-1, 0, 1}, w \in {0, 1, 2} :
          multi_mem_llseek(t, o, w) \/ my_pci2_llseek(t, o, w)
    \/ \E p \in Nat : Position(t, p)

LEMMA CharCases ==
  ASSUME CNext
  PROVE  \E t \in CThreads : CStep(t)
<1>1. PICK t \in CThreads :
    \/ wait_event(t) \/ wait_signal(t) \/ wait_cut(t) \/ read_copy(t)
    \/ write_copy(t) \/ write_load(t) \/ write_store(t) \/ wake_up(t)
    \/ \E n \in 1 .. MaxCount :
          \/ mychar_read(t, n) \/ multi_mem_read(t, n)
          \/ my_wait_read(t, n) \/ my_wait2_read(t, n)
          \/ \E b \in Bytes : \/ mychar_write(t, n, b) \/ multi_mem_write(t, n, b)
                              \/ my_wait_write(t, n, b) \/ my_wait2_write(t, n, b)
    \/ \E n \in 1 .. RegsLen :
          \/ my_pci2_read(t, n) \/ my_pci2_write(t, n) \/ cr(t, n)
          \/ my_ioport_read(t, n) \/ my_ioport2_read(t, n)
    \/ \E o \in {-1, 0, 1}, origin \in {0, 1, 2} :
          multi_mem_llseek(t, o, origin) \/ my_pci2_llseek(t, o, origin)
    \/ \E p \in 0 .. (IF cdrv \in Buffered THEN BufSize ELSE RegsLen) + 1 :
          Position(t, p)
  BY DEF CNext
<1>2. ASSUME NEW n \in 1 .. MaxCount, NEW b \in Bytes,
             \/ mychar_write(t, n, b) \/ multi_mem_write(t, n, b)
             \/ my_wait_write(t, n, b) \/ my_wait2_write(t, n, b)
      PROVE  \E d \in Buffered : write_cut(t, d, n, b)
  BY <1>2 DEF mychar_write, multi_mem_write, my_wait_write, my_wait2_write, Buffered,
              Waiting
<1>3. ASSUME NEW n \in 1 .. RegsLen, my_pci2_read(t, n) \/ my_pci2_write(t, n) \/ cr(t, n)
      PROVE  \E d \in {"my_pci2", "any"} : regs_transfer(t, d, n)
  BY <1>3 DEF my_pci2_read, my_pci2_write, cr
<1>4. ASSUME NEW n \in 1 .. RegsLen, my_ioport_read(t, n) \/ my_ioport2_read(t, n)
      PROVE  \E d \in Ports : port_transfer(t, d, n)
  BY <1>4 DEF my_ioport_read, my_ioport2_read, Ports
<1>5. 0 .. (IF cdrv \in Buffered THEN BufSize ELSE RegsLen) + 1 \subseteq Nat
  BY CharAssumption
<1> QED
  BY <1>1, <1>2, <1>3, <1>4, <1>5 DEF CStep

LEMMA CharInit == CInit => CharInv
<1> SUFFICES ASSUME CInit PROVE CharInv
  OBVIOUS
<1> USE CharAssumption DEF CInit
<1>1. CType
  <2>0. overlap \in BOOLEAN /\ beyond \in BOOLEAN
    BY Zenon
  <2>1. accepted \in Seq(Byte)
    OBVIOUS
  <2>2. /\ cdrv \in CDrivers /\ wp \in Nat /\ cbuf \in [0 .. BufSize - 1 -> Byte]
        /\ cpc \in [CThreads -> CPoints] /\ cpos \in [CThreads -> Nat]
        /\ clen \in [CThreads -> Nat] /\ creg \in [CThreads -> Nat]
        /\ cval \in [CThreads -> Byte]
    BY DEF Byte, CPoints
  <2> QED
    BY <2>0, <2>1, <2>2 DEF CType
<1>2. WriterOK
  BY DEF WriterOK, Writers
<1>3. ReaderOK /\ SleepOK /\ TransfersInside
  BY DEF ReaderOK, SleepOK, SleepersWoken, TransfersInside
<1> QED
  BY <1>1, <1>2, <1>3 DEF CharInv

\* A run of equal bytes, as write_load appends it.
LEMMA RunOfBytes ==
  ASSUME NEW S, NEW s \in Seq(S), NEW n \in Nat, NEW v \in S
  PROVE  LET r == s \o [i \in 1 .. n |-> v]
         IN  /\ r \in Seq(S) /\ Len(r) = Len(s) + n
             /\ \A i \in 1 .. Len(s) : r[i] = s[i]
             /\ \A i \in Len(s) + 1 .. Len(s) + n : r[i] = v
<1> DEFINE e == [i \in 1 .. n |-> v]
<1>1. e \in Seq(S) /\ Len(e) = n /\ \A i \in 1 .. n : e[i] = v
  OBVIOUS
<1> HIDE DEF e
<1>2. s \o e \in Seq(S) /\ Len(s \o e) = Len(s) + n
  BY <1>1
<1>3. \A i \in 1 .. Len(s) + n : (s \o e)[i] = IF i <= Len(s) THEN s[i] ELSE e[i - Len(s)]
  BY <1>1
<1>4. Len(s) \in Nat
  OBVIOUS
<1>5. \A i \in 1 .. Len(s) : (s \o e)[i] = s[i]
  BY <1>3, <1>4
<1>6. \A i \in Len(s) + 1 .. Len(s) + n : (s \o e)[i] = v
  BY <1>1, <1>3, <1>4
<1> QED
  BY <1>2, <1>5, <1>6 DEF e

\* A step of a thread that does not write.
LEMMA WriterKept ==
  ASSUME CType, WriterOK, NEW t \in CThreads, NEW l,
         UNCHANGED <<wp, cbuf, accepted, creg, cval, overlap>>,
         cpc' = [cpc EXCEPT ![t] = l],
         {cpc[t], l} \cap {"w_copy", "w_load", "w_store"} = {},
         \A u \in CThreads : u # t => clen'[u] = clen[u]
  PROVE  WriterOK'
<1>1. \A u \in CThreads :
         /\ cpc'[u] \in {"w_copy", "w_load", "w_store"} <=>
               cpc[u] \in {"w_copy", "w_load", "w_store"}
         /\ cpc[u] \in {"w_copy", "w_load", "w_store"} => u # t /\ cpc'[u] = cpc[u]
         /\ cpc'[u] = "w_store" <=> cpc[u] = "w_store"
  BY DEF CType
<1>2. Writers' = Writers
  BY <1>1 DEF Writers
<1> QED
  BY <1>1, <1>2 DEF WriterOK

\* Whole words add up to whole words.
LEMMA Mod4 ==
  ASSUME NEW a \in Nat, NEW b \in Nat, a % 4 = 0, b % 4 = 0
  PROVE  /\ (a + b) % 4 = 0
         /\ a >= b => (a - b) % 4 = 0
  OBVIOUS

LEMMA CharTypeStep ==
  ASSUME CType, [CNext]_cvars
  PROVE  CType'
<1>0. CASE UNCHANGED cvars
  BY <1>0 DEF cvars, cmem, CType
<1> SUFFICES ASSUME NEW t \in CThreads, CStep(t) PROVE CType'
  BY <1>0, CharCases
<1> USE CharAssumption, Sizes DEF CAt, CGoto, CSet, cmem, CType, CPoints, Byte,
                                  Buffered, Waiting, Ports, Registers, min_size
<1>1. CASE wait_event(t)
  BY <1>1 DEF wait_event
<1>2. CASE wait_signal(t)
  BY <1>2 DEF wait_signal
<1>3. CASE wait_cut(t)
  BY <1>3 DEF wait_cut, read_cut
<1>4. CASE read_copy(t)
  <2>1. cpc' = [cpc EXCEPT ![t] = "idle"] /\ clen' = [clen EXCEPT ![t] = 0]
    BY <1>4 DEF read_copy
  <2>2. cpos' = cpos \/ cpos' = [cpos EXCEPT ![t] = cpos[t] + clen[t]]
    BY <1>4 DEF read_copy
  <2>3. UNCHANGED <<cdrv, wp, cbuf, accepted, cval, creg, overlap, beyond>>
    BY <1>4 DEF read_copy
  <2>4. cpos[t] + clen[t] \in Nat
    OBVIOUS
  <2>5. cpos' \in [CThreads -> Nat]
    BY <2>2, <2>4
  <2>6. cpc' \in [CThreads -> CPoints] /\ clen' \in [CThreads -> Nat]
    BY <2>1
  <2> QED
    BY <2>3, <2>5, <2>6
<1>5. CASE write_copy(t)
  <2>1. PICK done \in 0 .. clen[t] :
           /\ \/ done = clen[t] /\ CGoto(t, "w_load") /\ UNCHANGED <<clen, cval>>
              \/ /\ done < clen[t] /\ CGoto(t, "idle")
                 /\ clen' = CSet(clen, t, 0) /\ cval' = CSet(cval, t, "0")
           /\ cbuf' = [i \in DOMAIN cbuf |->
                         IF i \in wp .. wp + done - 1 THEN cval[t] ELSE cbuf[i]]
    BY <1>5 DEF write_copy
  <2>2. cbuf' \in [0 .. BufSize - 1 -> Byte]
    BY <2>1
  <2>3. /\ cpc' \in [CThreads -> CPoints] /\ clen' \in [CThreads -> Nat]
        /\ cval' \in [CThreads -> Byte]
    <3>1. CASE CGoto(t, "w_load") /\ UNCHANGED <<clen, cval>>
      BY <3>1
    <3>2. CASE CGoto(t, "idle") /\ clen' = CSet(clen, t, 0) /\ cval' = CSet(cval, t, "0")
      BY <3>2
    <3> QED
      BY <2>1, <3>1, <3>2
  <2>4. UNCHANGED <<cdrv, wp, accepted, cpos, creg, overlap, beyond>>
    BY <1>5 DEF write_copy
  <2> QED
    BY <2>2, <2>3, <2>4
<1>6. CASE write_load(t)
  <2>1. /\ accepted' = accepted \o [i \in 1 .. clen[t] |-> cval[t]]
        /\ cpc' = [cpc EXCEPT ![t] = "w_store"]
        /\ creg' = [creg EXCEPT ![t] = wp + clen[t]]
        /\ UNCHANGED <<cdrv, wp, cbuf, cpos, clen, cval, overlap, beyond>>
    BY <1>6 DEF write_load
  <2>2. accepted' \in Seq(Byte)
    <3>1. accepted \in Seq(Byte) /\ clen[t] \in Nat /\ cval[t] \in Byte
      OBVIOUS
    <3> HIDE DEF Byte, CType
    <3>2. accepted \o [i \in 1 .. clen[t] |-> cval[t]] \in Seq(Byte)
      BY <3>1, RunOfBytes
    <3> QED
      BY <2>1, <3>2
  <2> QED
    BY <2>1, <2>2
<1>7. CASE write_store(t)
  BY <1>7 DEF write_store
<1>8. CASE wake_up(t)
  BY <1>8 DEF wake_up
<1>9. ASSUME NEW n \in 1 .. MaxCount, mychar_read(t, n) \/ multi_mem_read(t, n)
      PROVE  CType'
  <2>1. wp - cpos[t] \in Int /\ n \in Nat
    OBVIOUS
  <2> DEFINE count == min_size(n, wp - cpos[t])
  <2>2. count \in Nat
    BY <2>1, MinSize
  <2>3. /\ clen' = [clen EXCEPT ![t] = count]
        /\ cpc' = [cpc EXCEPT ![t] = IF count = 0 THEN "idle" ELSE "r_copy"]
        /\ UNCHANGED <<cdrv, wp, cbuf, accepted, cpos, cval, creg, overlap, beyond>>
    BY <1>9 DEF mychar_read, multi_mem_read, read_cut
  <2> HIDE DEF count
  <2> QED
    BY <2>2, <2>3
<1>10. ASSUME NEW n \in 1 .. MaxCount, my_wait_read(t, n) \/ my_wait2_read(t, n)
      PROVE  CType'
  <2>1. /\ clen' = [clen EXCEPT ![t] = n]
        /\ \E l \in {"r_queue", "r_cut"} : cpc' = [cpc EXCEPT ![t] = l]
        /\ UNCHANGED <<cdrv, wp, cbuf, accepted, cpos, cval, creg, overlap, beyond>>
    BY <1>10 DEF my_wait_read, my_wait2_read, wait_read
  <2>2. n \in Nat
    OBVIOUS
  <2> QED
    BY <2>1, <2>2
<1>11. ASSUME NEW n \in 1 .. MaxCount, NEW b \in Bytes, NEW d \in Buffered, write_cut(t, d, n, b)
      PROVE  CType'
  BY <1>11 DEF write_cut, room
<1>12. ASSUME NEW n \in 1 .. RegsLen, NEW d \in {"my_pci2", "any"}, regs_transfer(t, d, n)
      PROVE  CType'
  BY <1>12 DEF regs_transfer, Transfer
<1>13. ASSUME NEW n \in 1 .. RegsLen, NEW d \in Ports, port_transfer(t, d, n)
      PROVE  CType'
  BY <1>13, SMTT(30) DEF port_transfer, Transfer
<1>14. ASSUME NEW o \in {-1, 0, 1}, NEW w \in {0, 1, 2}, multi_mem_llseek(t, o, w) \/ my_pci2_llseek(t, o, w)
      PROVE  CType'
  <2>1. PICK q \in Nat : cpos' = [cpos EXCEPT ![t] = q]
    <3>1. CASE multi_mem_llseek(t, o, w)
      <4>1. Seek_to(t, o, w, BufSize) \in Nat
        BY <3>1, Sizes DEF multi_mem_llseek
      <4> QED
        BY <3>1, <4>1 DEF multi_mem_llseek
    <3>2. CASE my_pci2_llseek(t, o, w)
      <4>1. Seek_to(t, o, w, RegsLen) \in Nat
        BY <3>2, Sizes DEF my_pci2_llseek
      <4> QED
        BY <3>2, <4>1 DEF my_pci2_llseek
    <3> QED
      BY <1>14, <3>1, <3>2
  <2>2. UNCHANGED <<cdrv, wp, cbuf, accepted, cpc, clen, cval, creg, overlap, beyond>>
    BY <1>14 DEF multi_mem_llseek, my_pci2_llseek
  <2>3. cpos' \in [CThreads -> Nat]
    BY <2>1
  <2> QED
    BY <2>2, <2>3
<1>15. ASSUME NEW p \in Nat, Position(t, p)
      PROVE  CType'
  BY <1>15 DEF Position
<1> QED
  BY <1>1, <1>2, <1>3, <1>4, <1>5, <1>6, <1>7, <1>8, <1>9, <1>10, <1>11, <1>12,
           <1>13, <1>14, <1>15 DEF CStep

LEMMA WriterStep ==
  ASSUME CType, CType', WriterOK, [CNext]_cvars
  PROVE  WriterOK'
<1>0. CASE UNCHANGED cvars
  BY <1>0 DEF cvars, cmem, WriterOK, Writers
<1> SUFFICES ASSUME NEW t \in CThreads, CStep(t) PROVE WriterOK'
  BY <1>0, CharCases
<1> USE CharAssumption, Sizes DEF CAt, CGoto, CSet, cmem, CType, CPoints, WriterOK,
                                  Writers, min_size, Buffered, Waiting, Ports,
                                  Registers
<1>1. CASE wait_event(t)
  BY <1>1 DEF wait_event
<1>2. CASE wait_signal(t)
  BY <1>2 DEF wait_signal
<1>3. CASE wait_cut(t)
  <2>1. PICK l \in {"idle", "r_copy"} : cpc' = [cpc EXCEPT ![t] = l]
    BY <1>3 DEF wait_cut, read_cut
  <2>2. cpc[t] = "r_cut" /\ UNCHANGED <<wp, cbuf, accepted, creg, cval, overlap>>
    BY <1>3 DEF wait_cut, read_cut
  <2>3. \A u \in CThreads : u # t => clen'[u] = clen[u]
    BY <1>3 DEF wait_cut, read_cut
  <2> HIDE DEF WriterOK, CType
  <2> QED
    BY <2>1, <2>2, <2>3, WriterKept
<1>4. CASE read_copy(t)
  <2>1. /\ cpc[t] = "r_copy" /\ cpc' = [cpc EXCEPT ![t] = "idle"]
        /\ clen' = [clen EXCEPT ![t] = 0]
        /\ UNCHANGED <<wp, cbuf, accepted, creg, cval, overlap>>
    BY <1>4 DEF read_copy
  <2>2. \A u \in CThreads : u # t => clen'[u] = clen[u]
    BY <2>1
  <2> HIDE DEF WriterOK, CType
  <2> QED
    BY <2>1, <2>2, WriterKept
<1>5. CASE write_copy(t)
  <2> SUFFICES ASSUME ~ overlap PROVE WriterOK'
    BY <1>5 DEF write_copy
  <2>1. PICK done \in 0 .. clen[t] :
           /\ \/ done = clen[t] /\ CGoto(t, "w_load") /\ UNCHANGED <<clen, cval>>
              \/ /\ done < clen[t] /\ CGoto(t, "idle")
                 /\ clen' = CSet(clen, t, 0) /\ cval' = CSet(cval, t, "0")
           /\ cbuf' = [i \in DOMAIN cbuf |->
                         IF i \in wp .. wp + done - 1 THEN cval[t] ELSE cbuf[i]]
    BY <1>5 DEF write_copy
  <2>2. cpc[t] = "w_copy" /\ UNCHANGED <<wp, accepted, creg, overlap>>
    BY <1>5 DEF write_copy
  <2>3. \A u \in CThreads : u # t => cpc[u] \notin {"w_copy", "w_load", "w_store"}
    BY <2>2
  <2>4. wp = Len(accepted) /\ wp + clen[t] <= BufSize
    BY <2>2, <2>3
  <2>5. \A u \in CThreads : u # t => cpc'[u] = cpc[u]
    BY <2>1
  <2>6. /\ DOMAIN cbuf = 0 .. BufSize - 1 /\ BufSize \in Nat /\ wp \in Nat
         /\ clen[t] \in Nat
    OBVIOUS
  <2>7. \A i \in 0 .. BufSize - 1 :
           cbuf'[i] = IF i \in wp .. wp + done - 1 THEN cval[t] ELSE cbuf[i]
    BY <2>6, <2>1
  <2>8. \A i \in 0 .. Len(accepted) - 1 : cbuf'[i] = cbuf[i]
    <3> HIDE DEF WriterOK, CType
    <3> QED
      BY <2>6, <2>4, <2>7
  <2>9. CASE done = clen[t] /\ CGoto(t, "w_load") /\ UNCHANGED <<clen, cval>>
    <3>1. cpc'[t] = "w_load" /\ Writers' = {t}
      BY <2>3, <2>5, <2>9
    <3>2. \A i \in wp .. wp + clen[t] - 1 : cbuf'[i] = cval[t]
      <4> HIDE DEF WriterOK, CType
      <4> QED
        BY <2>6, <2>4, <2>9, <2>7
    <3>3. \A u \in CThreads : u # t => cpc'[u] \notin {"w_copy", "w_load", "w_store"}
      BY <2>3, <2>5
    <3>4. /\ wp' = Len(accepted') /\ Len(accepted') <= BufSize
          /\ wp' + clen'[t] <= BufSize
      BY <2>2, <2>4, <2>6, <2>9
    <3>5. \A i \in 0 .. Len(accepted') - 1 : cbuf'[i] = accepted'[i + 1]
      BY <2>2, <2>8
    <3>6. \A i \in wp' .. wp' + clen'[t] - 1 : cbuf'[i] = cval'[t]
      BY <2>2, <2>9, <3>2
    <3>7. \A u \in CThreads :
             /\ cpc'[u] # "w_store"
             /\ cpc'[u] \in {"w_copy", "w_load"} => u = t
      BY <3>1, <3>3
    <3> HIDE DEF CType, Writers
    <3> QED
      BY <2>6, <3>1, <3>4, <3>5, <3>6, <3>7
  <2>10. CASE cpc' = [cpc EXCEPT ![t] = "idle"]
    <3>1. \A u \in CThreads : cpc'[u] \notin {"w_copy", "w_load", "w_store"}
      <4>1. cpc'[t] = "idle"
        BY <2>10 DEF CType
      <4> HIDE DEF WriterOK, CType, Writers
      <4> QED
        BY <2>3, <2>5, <4>1
    <3>2. Writers' = {}
      <4> HIDE DEF WriterOK, CType
      <4> QED
        BY <3>1 DEF Writers
    <3> QED
      BY <2>2, <2>4, <2>8, <3>1, <3>2
  <2> QED
    BY <2>1, <2>9, <2>10
<1>6. CASE write_load(t)
  <2> SUFFICES ASSUME ~ overlap PROVE WriterOK'
    BY <1>6 DEF write_load
  <2>1. /\ cpc[t] = "w_load" /\ cpc' = [cpc EXCEPT ![t] = "w_store"]
        /\ accepted' = accepted \o [i \in 1 .. clen[t] |-> cval[t]]
        /\ creg' = [creg EXCEPT ![t] = wp + clen[t]]
        /\ UNCHANGED <<wp, cbuf, clen, cval, overlap>>
    BY <1>6 DEF write_load
  <2>2. \A u \in CThreads : u # t => cpc[u] \notin {"w_copy", "w_load", "w_store"}
    BY <2>1
  <2>3. wp = Len(accepted) /\ wp + clen[t] <= BufSize /\ Len(accepted) \in Nat
    BY <2>1, <2>2
  <2>4. /\ Len(accepted') = Len(accepted) + clen[t]
        /\ \A i \in 1 .. Len(accepted) : accepted'[i] = accepted[i]
        /\ \A i \in Len(accepted) + 1 .. Len(accepted) + clen[t] : accepted'[i] = cval[t]
    <3>1. accepted \in Seq(Byte) /\ clen[t] \in Nat /\ cval[t] \in Byte
      OBVIOUS
    <3> QED
      BY <2>1, <3>1, RunOfBytes
  <2>5. \A i \in 0 .. Len(accepted) - 1 : cbuf[i] = accepted[i + 1]
    OBVIOUS
  <2>6. \A i \in wp .. wp + clen[t] - 1 : cbuf[i] = cval[t]
    BY <2>1
  <2>7. \A i \in 0 .. Len(accepted') - 1 : cbuf[i] = accepted'[i + 1]
    <3> TAKE i \in 0 .. Len(accepted') - 1
    <3>1. clen[t] \in Nat
      OBVIOUS
    <3> HIDE DEF WriterOK, CType
    <3>2. CASE i < Len(accepted)
      <4>1. i \in 0 .. Len(accepted) - 1 /\ i + 1 \in 1 .. Len(accepted)
        BY <2>3, <2>4, <3>1, <3>2
      <4> QED
        BY <2>4, <2>5, <4>1
    <3>3. CASE i >= Len(accepted)
      <4>1. /\ i \in wp .. wp + clen[t] - 1
            /\ i + 1 \in Len(accepted) + 1 .. Len(accepted) + clen[t]
        BY <2>3, <2>4, <3>1, <3>3
      <4> QED
        BY <2>4, <2>6, <4>1
    <3> QED
      BY <2>3, <2>4, <3>2, <3>3
  <2>8. Writers' = {t} /\ cpc'[t] = "w_store" /\ creg'[t] = Len(accepted')
    BY <2>1, <2>2, <2>3, <2>4
  <2>9. \A u \in CThreads : u # t => cpc'[u] \notin {"w_copy", "w_load", "w_store"}
    BY <2>1, <2>2
  <2>10. wp' <= Len(accepted') /\ Len(accepted') <= BufSize
    BY <2>1, <2>3, <2>4
  <2> QED
    BY <2>1, <2>7, <2>8, <2>9, <2>10
<1>7. CASE write_store(t)
  BY <1>7 DEF write_store
<1>8. CASE wake_up(t)
  BY <1>8 DEF wake_up
<1>9. ASSUME NEW n \in 1 .. MaxCount, mychar_read(t, n) \/ multi_mem_read(t, n)
      PROVE  WriterOK'
  <2>1. PICK l \in {"idle", "r_copy"} : cpc' = [cpc EXCEPT ![t] = l]
    BY <1>9 DEF mychar_read, multi_mem_read, read_cut
  <2>2. cpc[t] = "idle" /\ UNCHANGED <<wp, cbuf, accepted, creg, cval, overlap>>
    BY <1>9 DEF mychar_read, multi_mem_read, read_cut
  <2>3. \A u \in CThreads : u # t => clen'[u] = clen[u]
    BY <1>9 DEF mychar_read, multi_mem_read, read_cut
  <2> HIDE DEF WriterOK, CType
  <2> QED
    BY <2>1, <2>2, <2>3, WriterKept
<1>10. ASSUME NEW n \in 1 .. MaxCount, my_wait_read(t, n) \/ my_wait2_read(t, n)
      PROVE  WriterOK'
  <2>1. PICK l \in {"r_queue", "r_cut"} : cpc' = [cpc EXCEPT ![t] = l]
    BY <1>10 DEF my_wait_read, my_wait2_read, wait_read
  <2>2. cpc[t] = "idle" /\ UNCHANGED <<wp, cbuf, accepted, creg, cval, overlap>>
    BY <1>10 DEF my_wait_read, my_wait2_read, wait_read
  <2>3. \A u \in CThreads : u # t => clen'[u] = clen[u]
    BY <1>10 DEF my_wait_read, my_wait2_read, wait_read
  <2> HIDE DEF WriterOK, CType
  <2> QED
    BY <2>1, <2>2, <2>3, WriterKept
<1>11. ASSUME NEW n \in 1 .. MaxCount, NEW b \in Bytes, NEW d \in Buffered, write_cut(t, d, n, b)
      PROVE  WriterOK'
  <2>1. /\ cpc[t] = "idle" /\ cpc' = [cpc EXCEPT ![t] = "w_copy"]
        /\ clen' = [clen EXCEPT ![t] = min_size(n, BufSize - wp)]
        /\ cval' = [cval EXCEPT ![t] = b]
        /\ overlap' = (overlap \/ Writers # {})
        /\ UNCHANGED <<wp, cbuf, accepted, creg>>
    BY <1>11 DEF write_cut, room
  <2>2. CASE overlap \/ Writers # {}
    <3>1. overlap' = TRUE
      BY <2>1, <2>2, Zenon
    <3> QED
      BY <3>1
  <2>3. CASE ~ overlap /\ Writers = {}
    <3>1. \A u \in CThreads : cpc[u] \notin {"w_copy", "w_load", "w_store"}
      BY <2>3
    <3>2. wp = Len(accepted) /\ wp <= BufSize
      BY <2>3, <3>1
    <3>3. wp + clen'[t] <= BufSize
      <4>1. BufSize - wp \in Nat /\ n \in Nat
        BY <3>2
      <4>2. min_size(n, BufSize - wp) \in Nat /\ min_size(n, BufSize - wp) <= BufSize - wp
        BY <4>1, MinSize
      <4>3. clen'[t] = min_size(n, BufSize - wp)
        BY <2>1
      <4> HIDE DEF min_size
      <4> QED
        BY <4>1, <4>2, <4>3
    <3>4. Writers' = {t} /\ cpc'[t] = "w_copy"
      BY <2>1, <3>1
    <3>5. \A u \in CThreads : u # t => cpc'[u] \notin {"w_copy", "w_load", "w_store"}
      BY <2>1, <3>1
    <3> HIDE DEF min_size
    <3> QED
      BY <2>1, <2>3, <3>2, <3>3, <3>4, <3>5
  <2> QED
    BY <2>2, <2>3
<1>12. ASSUME NEW n \in 1 .. RegsLen, NEW d \in {"my_pci2", "any"}, regs_transfer(t, d, n)
      PROVE  WriterOK'
  BY <1>12 DEF regs_transfer, Transfer
<1>13. ASSUME NEW n \in 1 .. RegsLen, NEW d \in Ports, port_transfer(t, d, n)
      PROVE  WriterOK'
  BY <1>13 DEF port_transfer, Transfer
<1>14. ASSUME NEW o \in {-1, 0, 1}, NEW w \in {0, 1, 2}, multi_mem_llseek(t, o, w) \/ my_pci2_llseek(t, o, w)
      PROVE  WriterOK'
  <2>1. UNCHANGED <<wp, cbuf, accepted, cpc, clen, creg, cval, overlap>>
    BY <1>14 DEF multi_mem_llseek, my_pci2_llseek
  <2> QED
    BY <2>1
<1>15. ASSUME NEW p \in Nat, Position(t, p)
      PROVE  WriterOK'
  BY <1>15 DEF Position
<1> QED
  BY <1>1, <1>2, <1>3, <1>4, <1>5, <1>6, <1>7, <1>8, <1>9, <1>10, <1>11, <1>12,
           <1>13, <1>14, <1>15 DEF CStep

LEMMA ReaderStep ==
  ASSUME CType, CType', WriterOK, ReaderOK, [CNext]_cvars
  PROVE  ReaderOK'
<1>0. CASE UNCHANGED cvars
  BY <1>0 DEF cvars, cmem, ReaderOK
<1> SUFFICES ASSUME NEW t \in CThreads, CStep(t) PROVE ReaderOK'
  BY <1>0, CharCases
<1> USE CharAssumption, Sizes DEF CAt, CGoto, CSet, cmem, CType, CPoints, WriterOK,
                                  ReaderOK, Writers, min_size, Buffered, Waiting,
                                  Ports, Registers
<1>1. CASE wait_event(t)
  BY <1>1 DEF wait_event
<1>2. CASE wait_signal(t)
  BY <1>2 DEF wait_signal
<1>3. CASE wait_cut(t)
  BY <1>3 DEF wait_cut, read_cut
<1>4. CASE read_copy(t)
  <2>1. /\ cdrv \in Buffered /\ cpc[t] = "r_copy" /\ cpc' = [cpc EXCEPT ![t] = "idle"]
        /\ clen' = [clen EXCEPT ![t] = 0]
        /\ cpos' = cpos \/ cpos' = [cpos EXCEPT ![t] = cpos[t] + clen[t]]
        /\ UNCHANGED <<cdrv, wp, overlap, beyond>>
    BY <1>4 DEF read_copy
  <2>2. cdrv \notin Ports
    BY <2>1
  <2>3. ASSUME NEW u \in CThreads, u # t
        PROVE  cpos'[u] = cpos[u] /\ cpc'[u] = cpc[u] /\ clen'[u] = clen[u]
    BY <2>1, <2>3
  <2>4. cpc'[t] = "idle" /\ cpos'[t] \in {cpos[t], cpos[t] + clen[t]}
    BY <2>1
  <2>5. ASSUME NEW u \in CThreads, ~ overlap, cdrv # "multi_mem", ~ beyond
        PROVE  cpos'[u] <= wp
    BY <2>1, <2>3, <2>4, <2>5
  <2>6. ASSUME NEW u \in CThreads, ~ overlap, cpc'[u] = "r_copy",
               cdrv = "multi_mem" \/ ~ beyond
        PROVE  cpos'[u] + clen'[u] <= wp
    BY <2>1, <2>3, <2>4, <2>6
  <2> QED
    BY <2>1, <2>2, <2>5, <2>6
<1>5. CASE write_copy(t)
  <2>1. /\ UNCHANGED <<cdrv, wp, cpos, overlap, beyond>>
        /\ \A u \in CThreads : cpc'[u] = "r_copy" => cpc[u] = "r_copy" /\ clen'[u] = clen[u]
    BY <1>5, SMTT(30) DEF write_copy
  <2> QED
    BY <2>1
<1>6. CASE write_load(t)
  BY <1>6 DEF write_load
<1>7. CASE write_store(t)
  BY <1>7 DEF write_store
<1>8. CASE wake_up(t)
  BY <1>8 DEF wake_up
<1>9. ASSUME NEW n \in 1 .. MaxCount, mychar_read(t, n) \/ multi_mem_read(t, n)
      PROVE  ReaderOK'
  <2> DEFINE count == min_size(n, wp - cpos[t])
  <2>1. /\ cdrv \in {"mychar", "multi_mem"} /\ (cdrv = "multi_mem" => cpos[t] < wp)
        /\ clen' = [clen EXCEPT ![t] = count]
        /\ cpc' = [cpc EXCEPT ![t] = IF count = 0 THEN "idle" ELSE "r_copy"]
        /\ UNCHANGED <<cdrv, wp, cpos, overlap, beyond>>
    BY <1>9 DEF mychar_read, multi_mem_read, read_cut
  <2>2. wp - cpos[t] \in Int /\ n \in Nat
    OBVIOUS
  <2>3. count \in Nat /\ (wp - cpos[t] >= 0 => count <= wp - cpos[t])
    BY <2>2, MinSize
  <2> HIDE DEF count
  <2>4. cpos[t] <= wp => cpos[t] + clen'[t] <= wp
    BY <2>1, <2>3
  <2> QED
    BY <2>1, <2>4
<1>10. ASSUME NEW n \in 1 .. MaxCount, my_wait_read(t, n) \/ my_wait2_read(t, n)
      PROVE  ReaderOK'
  <2>1. /\ cdrv \in Waiting
        /\ \E l \in {"r_queue", "r_cut"} : cpc' = [cpc EXCEPT ![t] = l]
        /\ UNCHANGED <<cdrv, wp, cpos, overlap, beyond>>
        /\ \A u \in CThreads : u # t => clen'[u] = clen[u]
    BY <1>10 DEF my_wait_read, my_wait2_read, wait_read
  <2>2. \A u \in CThreads : cpc'[u] = "r_copy" => cpc[u] = "r_copy" /\ u # t
    BY <2>1
  <2> QED
    BY <2>1, <2>2
<1>11. ASSUME NEW n \in 1 .. MaxCount, NEW b \in Bytes, NEW d \in Buffered, write_cut(t, d, n, b)
      PROVE  ReaderOK'
  BY <1>11 DEF write_cut, room
<1>12. ASSUME NEW n \in 1 .. RegsLen, NEW d \in {"my_pci2", "any"}, regs_transfer(t, d, n)
      PROVE  ReaderOK'
  BY <1>12 DEF regs_transfer, Transfer
<1>13. ASSUME NEW n \in 1 .. RegsLen, NEW d \in Ports, port_transfer(t, d, n)
      PROVE  ReaderOK'
  <2> DEFINE count == min_size(n, RegsLen - cpos[t])
  <2>1. /\ cdrv \in Ports /\ n % 4 = 0 /\ cpos' = [cpos EXCEPT ![t] = cpos[t] + count]
        /\ UNCHANGED <<cdrv, wp, overlap, beyond, cpc, clen>>
    BY <1>13 DEF port_transfer, Transfer
  <2>2. cdrv \notin Buffered
    BY <2>1
  <2>3. ASSUME ~ beyond, RegsLen % 4 = 0
        PROVE  cpos[t] + count <= RegsLen /\ (cpos[t] + count) % 4 = 0
    <3>1. /\ cpos[t] \in Nat /\ cpos[t] <= RegsLen /\ cpos[t] % 4 = 0 /\ n % 4 = 0
          /\ n \in Nat /\ RegsLen \in Nat
      BY <2>1, <2>3
    <3>2. (count = n /\ n <= RegsLen - cpos[t]) \/ count = RegsLen - cpos[t]
      BY <3>1 DEF min_size
    <3> HIDE DEF count
    <3>3. CASE count = n /\ n <= RegsLen - cpos[t]
      <4>1. (cpos[t] + n) % 4 = 0
        <5> HIDE DEF ReaderOK, WriterOK, CType
        <5> QED
          BY <3>1, Mod4
      <4>2. cpos[t] + n <= RegsLen
        BY <3>1, <3>3
      <4> QED
        BY <3>3, <4>1, <4>2
    <3>4. CASE count = RegsLen - cpos[t]
      <4>1. cpos[t] + count = RegsLen
        BY <3>1, <3>4
      <4>2. RegsLen <= RegsLen
        BY <3>1
      <4> QED
        BY <2>3, <4>1, <4>2, Zenon
    <3> QED
      BY <3>2, <3>3, <3>4
  <2> HIDE DEF count
  <2> QED
    BY <2>1, <2>2, <2>3
<1>14. ASSUME NEW o \in {-1, 0, 1}, NEW w \in {0, 1, 2}, multi_mem_llseek(t, o, w) \/ my_pci2_llseek(t, o, w)
      PROVE  ReaderOK'
  <2>1. cdrv \in {"multi_mem", "my_pci2"} /\ cpc[t] = "idle"
    BY <1>14 DEF multi_mem_llseek, my_pci2_llseek
  <2>2. UNCHANGED <<cdrv, wp, cpc, clen, overlap, beyond>>
    BY <1>14 DEF multi_mem_llseek, my_pci2_llseek
  <2>3. \A u \in CThreads : u # t => cpos'[u] = cpos[u]
    BY <1>14 DEF multi_mem_llseek, my_pci2_llseek
  <2> QED
    BY <2>1, <2>2, <2>3
<1>15. ASSUME NEW p \in Nat, Position(t, p)
      PROVE  ReaderOK'
  <2>1. /\ cpc[t] = "idle" /\ cpos' = [cpos EXCEPT ![t] = p]
        /\ UNCHANGED <<cdrv, wp, cpc, clen, overlap>>
        /\ beyond' = (beyond \/ IF cdrv \in Buffered THEN p > wp
                                ELSE p > RegsLen \/ p % 4 # 0)
    BY <1>15 DEF Position
  <2>2. ~ beyond' => /\ ~ beyond
                     /\ cdrv \in Buffered => ~ (p > wp)
                     /\ cdrv \notin Buffered => ~ (p > RegsLen) /\ p % 4 = 0
    <3>1. (p > wp) \in BOOLEAN /\ (p > RegsLen) \in BOOLEAN
      OBVIOUS
    <3> QED
      BY <2>1, <3>1, Zenon
  <2>3. cdrv \in Ports => cdrv \notin Buffered
    OBVIOUS
  <2>4. ~ beyond' => /\ cdrv \in Buffered => p <= wp
                     /\ cdrv \in Ports => p <= RegsLen /\ p % 4 = 0
    BY <2>2, <2>3
  <2> QED
    BY <2>1, <2>2, <2>4, SMTT(30)
<1> QED
  BY <1>1, <1>2, <1>3, <1>4, <1>5, <1>6, <1>7, <1>8, <1>9, <1>10, <1>11, <1>12,
           <1>13, <1>14, <1>15 DEF CStep

LEMMA SleepStep ==
  ASSUME CType, SleepOK, [CNext]_cvars
  PROVE  SleepOK'
<1>0. CASE UNCHANGED cvars
  BY <1>0 DEF cvars, cmem, SleepOK, SleepersWoken
<1> SUFFICES ASSUME NEW t \in CThreads, CStep(t) PROVE SleepOK'
  BY <1>0, CharCases
<1> USE CharAssumption, Sizes DEF CAt, CGoto, CSet, cmem, CType, CPoints, SleepOK,
                                  SleepersWoken, Buffered, Waiting, Ports, Registers
<1>1. CASE wait_event(t)
  BY <1>1 DEF wait_event
<1>2. CASE wait_signal(t)
  BY <1>2 DEF wait_signal
<1>3. CASE wait_cut(t)
  BY <1>3 DEF wait_cut, read_cut
<1>4. CASE read_copy(t)
  BY <1>4 DEF read_copy
<1>5. CASE write_copy(t)
  BY <1>5 DEF write_copy
<1>6. CASE write_load(t)
  BY <1>6 DEF write_load
<1>7. CASE write_store(t)
  BY <1>7 DEF write_store
<1>8. CASE wake_up(t)
  BY <1>8 DEF wake_up
<1>9. ASSUME NEW n \in 1 .. MaxCount, mychar_read(t, n) \/ multi_mem_read(t, n)
      PROVE  SleepOK'
  BY <1>9 DEF mychar_read, multi_mem_read, read_cut
<1>10. ASSUME NEW n \in 1 .. MaxCount, my_wait_read(t, n) \/ my_wait2_read(t, n)
      PROVE  SleepOK'
  BY <1>10 DEF my_wait_read, my_wait2_read, wait_read
<1>11. ASSUME NEW n \in 1 .. MaxCount, NEW b \in Bytes, NEW d \in Buffered, write_cut(t, d, n, b)
      PROVE  SleepOK'
  BY <1>11 DEF write_cut, room
<1>12. ASSUME NEW n \in 1 .. RegsLen, NEW d \in {"my_pci2", "any"}, regs_transfer(t, d, n)
      PROVE  SleepOK'
  BY <1>12 DEF regs_transfer, Transfer
<1>13. ASSUME NEW n \in 1 .. RegsLen, NEW d \in Ports, port_transfer(t, d, n)
      PROVE  SleepOK'
  BY <1>13 DEF port_transfer, Transfer
<1>14. ASSUME NEW o \in {-1, 0, 1}, NEW w \in {0, 1, 2}, multi_mem_llseek(t, o, w) \/ my_pci2_llseek(t, o, w)
      PROVE  SleepOK'
  BY <1>14 DEF multi_mem_llseek, my_pci2_llseek
<1>15. ASSUME NEW p \in Nat, Position(t, p)
      PROVE  SleepOK'
  BY <1>15 DEF Position
<1> QED
  BY <1>1, <1>2, <1>3, <1>4, <1>5, <1>6, <1>7, <1>8, <1>9, <1>10, <1>11, <1>12,
           <1>13, <1>14, <1>15 DEF CStep

LEMMA FaultStep ==
  ASSUME CType, WriterOK, ReaderOK, TransfersInside, [CNext]_cvars
  PROVE  TransfersInside'
<1>0. CASE UNCHANGED cvars
  BY <1>0 DEF cvars, cmem, TransfersInside
<1> SUFFICES ASSUME NEW t \in CThreads, CStep(t) PROVE TransfersInside'
  BY <1>0, CharCases
<1> USE CharAssumption, Sizes DEF CAt, CGoto, CSet, cmem, CType, CPoints, WriterOK,
                                  ReaderOK, TransfersInside, min_size, Buffered,
                                  Waiting, Ports, Registers
<1>1. CASE wait_event(t)
  BY <1>1 DEF wait_event
<1>2. CASE wait_signal(t)
  BY <1>2 DEF wait_signal
<1>3. CASE wait_cut(t)
  BY <1>3 DEF wait_cut, read_cut
<1>4. CASE read_copy(t)
  <2>1. /\ cfault = {} /\ cdrv \in Buffered /\ cpc[t] = "r_copy"
        /\ UNCHANGED <<cdrv, overlap, beyond>>
    BY <1>4 DEF read_copy
  <2> SUFFICES ASSUME ~ overlap, cdrv = "multi_mem" \/ ~ beyond PROVE cfault' = {}
    BY <2>1
  <2> DEFINE end == cpos[t] + clen[t]
  <2>2. /\ end <= wp /\ wp <= Len(accepted) /\ Len(accepted) <= BufSize
        /\ end \in Nat /\ cpos[t] \in Nat /\ Len(accepted) \in Nat
    BY <2>1
  <2>3. ~ \E i \in cpos[t] .. end - 1 : cbuf[i] # accepted[i + 1]
    BY <2>2
  <2>4. ~ (end > BufSize) /\ ~ (end > Len(accepted))
    BY <2>2
  <2>5. \/ cfault' = cfault
        \/ cfault' = CASE end > BufSize -> {"outside"}
                       [] end > Len(accepted) -> {"unwritten"}
                       [] \E i \in cpos[t] .. end - 1 : cbuf[i] # accepted[i + 1]
                            -> {"wrong"}
                       [] OTHER -> {}
    BY <1>4 DEF read_copy
  <2> HIDE DEF end
  <2> QED
    BY <2>1, <2>3, <2>4, <2>5
<1>5. CASE write_copy(t)
  BY <1>5 DEF write_copy
<1>6. CASE write_load(t)
  BY <1>6 DEF write_load
<1>7. CASE write_store(t)
  BY <1>7 DEF write_store
<1>8. CASE wake_up(t)
  BY <1>8 DEF wake_up
<1>9. ASSUME NEW n \in 1 .. MaxCount, mychar_read(t, n) \/ multi_mem_read(t, n)
      PROVE  TransfersInside'
  BY <1>9 DEF mychar_read, multi_mem_read, read_cut
<1>10. ASSUME NEW n \in 1 .. MaxCount, my_wait_read(t, n) \/ my_wait2_read(t, n)
      PROVE  TransfersInside'
  BY <1>10 DEF my_wait_read, my_wait2_read, wait_read
<1>11. ASSUME NEW n \in 1 .. MaxCount, NEW b \in Bytes, NEW d \in Buffered, write_cut(t, d, n, b)
      PROVE  TransfersInside'
  BY <1>11 DEF write_cut, room
<1>12. ASSUME NEW n \in 1 .. RegsLen, NEW d \in {"my_pci2", "any"}, regs_transfer(t, d, n)
      PROVE  TransfersInside'
  BY <1>12 DEF regs_transfer, Transfer
<1>13. ASSUME NEW n \in 1 .. RegsLen, NEW d \in Ports, port_transfer(t, d, n)
      PROVE  TransfersInside'
  <2> DEFINE count == min_size(n, RegsLen - cpos[t])
  <2>1. /\ cdrv \in Ports /\ n % 4 = 0 /\ UNCHANGED <<cdrv, overlap, beyond>>
        /\ cfault' = (IF cpos[t] + count > RegsLen THEN {"outside"} ELSE {})
                     \cup (IF count % 4 # 0 THEN {"word"} ELSE {})
    BY <1>13 DEF port_transfer, Transfer
  <2>2. ASSUME ~ beyond, RegsLen % 4 = 0
        PROVE  cpos[t] + count <= RegsLen /\ count % 4 = 0
    <3>1. /\ cpos[t] \in Nat /\ cpos[t] <= RegsLen /\ cpos[t] % 4 = 0 /\ n % 4 = 0
          /\ n \in Nat /\ RegsLen \in Nat
      BY <2>1, <2>2
    <3>2. (count = n /\ n <= RegsLen - cpos[t]) \/ count = RegsLen - cpos[t]
      BY <3>1 DEF min_size
    <3> HIDE DEF count
    <3>3. CASE count = n /\ n <= RegsLen - cpos[t]
      BY <3>1, <3>3
    <3>4. CASE count = RegsLen - cpos[t]
      <4>1. (RegsLen - cpos[t]) % 4 = 0 /\ cpos[t] + (RegsLen - cpos[t]) = RegsLen
        <5> HIDE DEF ReaderOK, WriterOK, CType
        <5> QED
          BY <2>2, <3>1, Mod4
      <4>2. RegsLen <= RegsLen
        BY <3>1
      <4> QED
        BY <3>4, <4>1, <4>2, Zenon
    <3> QED
      BY <3>2, <3>3, <3>4
  <2>3. cpos[t] + count \in Int
    <3>1. n \in Nat /\ RegsLen - cpos[t] \in Int /\ cpos[t] \in Nat
      OBVIOUS
    <3>2. count \in Nat
      BY <3>1, MinSize
    <3> HIDE DEF count
    <3> QED
      BY <3>1, <3>2
  <2> HIDE DEF count
  <2>4. ~ beyond /\ RegsLen % 4 = 0 => cfault' = {}
    BY <2>1, <2>2, <2>3
  <2> QED
    BY <2>1, <2>4
<1>14. ASSUME NEW o \in {-1, 0, 1}, NEW w \in {0, 1, 2}, multi_mem_llseek(t, o, w) \/ my_pci2_llseek(t, o, w)
      PROVE  TransfersInside'
  BY <1>14 DEF multi_mem_llseek, my_pci2_llseek
<1>15. ASSUME NEW p \in Nat, Position(t, p)
      PROVE  TransfersInside'
  BY <1>15 DEF Position
<1> QED
  BY <1>1, <1>2, <1>3, <1>4, <1>5, <1>6, <1>7, <1>8, <1>9, <1>10, <1>11, <1>12,
           <1>13, <1>14, <1>15 DEF CStep

LEMMA CharAlways == CSpec => []CharInv
<1>1. CharInv /\ [CNext]_cvars => CharInv'
  BY CharTypeStep, WriterStep, ReaderStep, SleepStep, FaultStep DEF CharInv
<1> QED
  BY <1>1, CharInit, PTL DEF CSpec

(***************************************************************************)
(* Readers get what writers wrote, from inside the buffer, and are woken   *)
(* for it (BufferSafe), for any number of threads, any size of the buffer  *)
(* and of the registers and any length of a call.                          *)
(***************************************************************************)
THEOREM BuffersAreSafe == CSpec => []BufferSafe
<1>1. CharInv => BufferSafe
  BY DEF CharInv, CType, WriterOK, SleepOK, BufferSafe, StreamKept, Writers
<1> QED
  BY <1>1, CharAlways, PTL
=============================================================================
