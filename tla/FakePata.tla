------------------------------ MODULE FakePata ------------------------------
(***************************************************************************)
(* The disk that platform/fake_pata.c plays: a thread polls a page that    *)
(* libata takes for the registers of a controller, looks for bytes that    *)
(* have changed since the last time, answers in the same page and keeps a  *)
(* copy of it.  libata writes whenever it likes.                           *)
(*                                                                         *)
(* Registers that the thread treats alike are one: "data" stands for the   *)
(* four bytes that read_things fills (data, error, sector count, LBA low), *)
(* "reg" for LBA mid, LBA high and device, "cmd" for the byte that is the  *)
(* command to write and the status to read.  The control block is only     *)
(* logged and left out.                                                    *)
(***************************************************************************)
EXTENDS Integers, Sequences

VARIABLES va,           \* the page
          va_l,         \* the thread's copy
          start_offset, enable_read, \* its state
          fpc, fi,      \* where it is, and at which register
          pending,      \* "no", or whether a command that it has not looked
                        \* at can be seen: "yes", "late" or "same"
          missed,       \* the pending commands it has overwritten
          identified    \* IDENTIFY was the last change it has seen

fdev  == <<va_l, start_offset, enable_read, fpc, fi>>
fvars == <<va, fdev, pending, missed, identified>>

\* The registers in the order of their addresses.
ScanOrder == << "data", "reg", "cmd" >>

\* Status values; as a command DRQ is ATA_CMD_DEV_RESET, both are 8.
Commands == {"IDENTIFY", "DRQ", "OTHER"}

\* In place of an offset: part of a chunk, written by the host, initial.
Torn == -1
Host == -2
Blank == -3

FInit ==
    /\ va = [data |-> Blank, reg |-> 0, cmd |-> "zero"] /\ va_l = va
    /\ start_offset = 0 /\ enable_read = FALSE /\ fpc = "compare" /\ fi = 1
    /\ pending = "no" /\ missed = {} /\ identified = FALSE

-----------------------------------------------------------------------------
(* libata.                                                                 *)

HostTaskfile ==
    /\ \/ va' = [va EXCEPT !.data = Host]
       \/ va' = [va EXCEPT !.reg = 1 - @]
    /\ UNCHANGED <<fdev, pending, missed, identified>>

\* The thread is past the comparison of this byte, and not yet past its copy.
PastCommand == fpc \notin {"compare", "scan"} /\ ~(fpc = "copy" /\ fi > 3)

HostCommand(c) ==
    /\ va' = [va EXCEPT !.cmd = c]
    /\ pending' = IF PastCommand THEN "late"
                  ELSE IF c = va_l.cmd THEN "same" ELSE "yes"
    /\ UNCHANGED <<fdev, missed, identified>>

-----------------------------------------------------------------------------
(* The thread.                                                             *)

FAt(l)   == fpc = l
FGoto(l) == fpc' = l /\ fi' = 1

\* memcmp
compare ==
    /\ FAt("compare") /\ FGoto(IF va = va_l THEN "act" ELSE "scan")
    /\ UNCHANGED <<va, va_l, start_offset, enable_read, pending, missed, identified>>

\* The switch over the registers: only IDENTIFY begins a read, any other
\* change ends one.
interpret(r) ==
    LET identify == r = "cmd" /\ va.cmd = "IDENTIFY"
    IN  IF va_l[r] = va[r] THEN UNCHANGED <<start_offset, enable_read, identified>>
        ELSE /\ start_offset' = IF identify THEN 0 ELSE start_offset
             /\ enable_read' = identify /\ identified' = identify

scan ==
    /\ FAt("scan") /\ interpret(ScanOrder[fi])
    /\ pending' = IF ScanOrder[fi] = "cmd" /\ va.cmd # va_l.cmd THEN "no" ELSE pending
    /\ IF fi = 3 THEN FGoto("act") ELSE fi' = fi + 1 /\ fpc' = fpc
    /\ UNCHANGED <<va, va_l, missed>>

\* A status is written over whatever is there.
SetStatus(s) ==
    /\ va' = [va EXCEPT !.cmd = s] /\ pending' = "no"
    /\ missed' = IF pending = "no" THEN missed ELSE missed \cup {pending}

refresh_status ==
    /\ FAt("act") /\ ~enable_read /\ SetStatus("DRDY") /\ FGoto("copy")
    /\ UNCHANGED <<va_l, start_offset, enable_read, identified>>

\* Does not say that it is busy.
read_things_unready ==
    /\ FAt("act") /\ enable_read /\ FGoto("first")
    /\ UNCHANGED <<va, va_l, start_offset, enable_read, pending, missed, identified>>

read_things_busy ==
    /\ FAt("act") /\ enable_read /\ SetStatus("BSY") /\ FGoto("first")
    /\ UNCHANGED <<va_l, start_offset, enable_read, identified>>

\* Four stores, of which the first and the last can be told apart.
read_things_first ==
    /\ FAt("first") /\ va' = [va EXCEPT !.data = Torn] /\ FGoto("last")
    /\ UNCHANGED <<va_l, start_offset, enable_read, pending, missed, identified>>
read_things_last ==
    /\ FAt("last") /\ va' = [va EXCEPT !.data = start_offset] /\ FGoto("ready")
    /\ start_offset' = start_offset + 4
    /\ UNCHANGED <<va_l, enable_read, pending, missed, identified>>

read_things_ready ==
    /\ FAt("ready") /\ SetStatus("DRQ") /\ FGoto("copy")
    /\ start_offset' = (start_offset + 1) % 512
    /\ enable_read' = (start_offset' <= 40)
    /\ UNCHANGED <<va_l, identified>>

\* memcpy, then the control block and a pause.
copy ==
    /\ FAt("copy")
    /\ IF fi <= 3
       THEN /\ va_l' = [va_l EXCEPT ![ScanOrder[fi]] = va[ScanOrder[fi]]]
            /\ fi' = fi + 1 /\ fpc' = fpc
       ELSE va_l' = va_l /\ FGoto("compare")
    /\ UNCHANGED <<va, start_offset, enable_read, pending, missed, identified>>

thread_function ==
    \/ compare \/ scan \/ refresh_status \/ copy
    \/ read_things_busy \/ read_things_first \/ read_things_last \/ read_things_ready

FNext == HostTaskfile \/ (\E c \in Commands : HostCommand(c)) \/ thread_function

FSpec == FInit /\ [][FNext]_fvars

-----------------------------------------------------------------------------

\* The host finds data requested only while the four bytes belong together.
DrqMeansData == va.cmd = "DRQ" /\ pending = "no" => va.data # Torn

\* The comparison of pages misses a command only when it was written between
\* the look at its byte and the copy, or when it has the value of the status
\* it replaces, as a reset during a read has.
MissedExplained == missed \subseteq {"late", "same"}

\* The thread does not take its own answers for changes: a read that IDENTIFY
\* began goes on to the end unless the host has written something.
IdentifyRuns == identified => enable_read \/ start_offset > 40

\* Every fifth byte is skipped, and the offset stays inside the nine names.
OffsetsInside ==
    va.data >= 0 => va.data % 5 = 0 /\ va.data + 3 < 90

\* What the host may rely on, and what the thread may rely on of itself,
\* whenever either writes the page.
PollingSafe == DrqMeansData /\ MissedExplained /\ IdentifyRuns /\ OffsetsInside
=============================================================================
