------------------------------ MODULE PageRead ------------------------------
(***************************************************************************)
(* Reading the file of the lessons under fs/: the readpage functions that  *)
(* fill the one page of the file, and the read functions of the lessons    *)
(* that do without the page cache.                                         *)
(*                                                                         *)
(* The file is three bytes long, so the page cache has a single page of    *)
(* it, which the VFS locks before it calls readpage and waits for after    *)
(* that.  The page may be reclaimed when nobody uses it.  The VFS, mpage   *)
(* and the device are external.                                            *)
(***************************************************************************)
EXTENDS Integers, Sequences

CONSTANTS PageLessons,  \* the lessons to read with
          Readers,      \* threads that read
          MaxReclaims   \* how often the page is reclaimed (bound)

VARIABLES plesson,   \* the lesson
          rpc,       \* control point of each reader
          locked, uptodate, \* bits of the page
          filled,    \* the page holds the block
          pbio,      \* private_bio # NULL
          pio,       \* the bio: "none", "flight", "done", "error" or "tail"
          lost,      \* why the page was left locked
          ioerror,   \* a read of the device has failed
          twice,     \* a page was unlocked that was not locked
          reclaims,  \* how often the page was reclaimed
          rpos,      \* file offset of the plain reader
          got        \* what it has read up to there

pbits == <<locked, uptodate, filled>>
pdev  == <<pbio, pio, ioerror>>
pfile == <<rpos, got>>
pvars == <<plesson, rpc, pbits, pdev, lost, twice, reclaims, pfile>>

Cached == {"page_cache_read", "bread", "buffer_read", "submit_bh_readpage",
           "get_block", "write_page"}
Direct == {"min_read", "sb_bread"}

ASSUME PageLessonsAssumption ==
    PageLessons \subseteq Cached \cup Direct /\ MaxReclaims \in Nat

\* The bytes of the file.
File3 == << "1", "2", "3" >>

PInit ==
    /\ plesson \in PageLessons
    /\ rpc = [t \in Readers |-> "idle"]
    /\ locked = FALSE /\ uptodate = FALSE /\ filled = FALSE
    /\ pbio = FALSE /\ pio = "none" /\ lost = {} /\ ioerror = FALSE
    /\ twice = FALSE /\ reclaims = 0 /\ rpos = 0 /\ got = << >>

RAt(t, ls, l) == plesson \in ls /\ rpc[t] = l
RGoto(t, l)   == rpc' = [rpc EXCEPT ![t] = l]

\* unlock_page, with or without SetPageUptodate.
UnlockPage(up) ==
    /\ locked' = FALSE /\ twice' = (twice \/ ~locked)
    /\ uptodate' = (uptodate \/ up)

-----------------------------------------------------------------------------
(* The page cache.                                                         *)

\* do_generic_file_read finds the page, which is there or has to be read.
ReadCall(t) ==
    /\ RAt(t, Cached, "idle") /\ ~uptodate /\ ~locked
    /\ locked' = TRUE /\ RGoto(t, "readpage")
    /\ UNCHANGED <<plesson, uptodate, filled, pdev, lost, twice, reclaims, pfile>>

\* It waits for the lock, and returns the data or an error.
ReadWait(t) ==
    /\ RAt(t, Cached, "wait") /\ ~locked /\ RGoto(t, "idle")
    /\ UNCHANGED <<plesson, pbits, pdev, lost, twice, reclaims, pfile>>

Reclaim ==
    /\ reclaims < MaxReclaims /\ uptodate /\ ~locked
    /\ \A t \in Readers : rpc[t] = "idle"
    /\ uptodate' = FALSE /\ filled' = FALSE /\ reclaims' = reclaims + 1
    /\ UNCHANGED <<plesson, rpc, locked, pdev, lost, twice, pfile>>

\* The device reads the block, or does not.
DeviceDone ==
    /\ pio = "flight"
    /\ \/ filled' = TRUE /\ pio' = "done" /\ ioerror' = ioerror
       \/ filled' = filled /\ pio' = "error" /\ ioerror' = TRUE
    /\ UNCHANGED <<plesson, rpc, locked, uptodate, pbio, lost, twice, reclaims,
                   pfile>>

-----------------------------------------------------------------------------
(* page_cache_read: a bio in a global variable.                            *)

\* A bio that is still there makes the function return without one: nobody
\* is going to unlock the page.
page_cache_readpage(t) ==
    /\ RAt(t, {"page_cache_read"}, "readpage") /\ RGoto(t, "wait")
    /\ IF pbio THEN lost' = lost \cup {"busy"} /\ UNCHANGED <<pbio, pio>>
               ELSE pbio' = TRUE /\ pio' = "flight" /\ lost' = lost
    /\ UNCHANGED <<plesson, pbits, ioerror, twice, reclaims, pfile>>

\* Does not look at BIO_UPTODATE.
end_io_always ==
    /\ plesson = "page_cache_read" /\ pio \in {"done", "error"}
    /\ UnlockPage(TRUE) /\ pio' = "tail"
    /\ UNCHANGED <<plesson, rpc, filled, pbio, ioerror, lost, reclaims, pfile>>

\* After an error it keeps page and bio.
example_end_io ==
    /\ plesson = "page_cache_read"
    /\ \/ /\ pio = "error" /\ pio' = "none" /\ lost' = lost \cup {"error"}
          /\ UNCHANGED <<locked, uptodate, twice>>
       \/ pio = "done" /\ pio' = "tail" /\ UnlockPage(TRUE) /\ lost' = lost
    /\ UNCHANGED <<plesson, rpc, filled, pbio, ioerror, reclaims, pfile>>

\* private_bio = NULL comes after unlock_page.
end_io_tail ==
    /\ pio = "tail" /\ pio' = "none" /\ pbio' = FALSE
    /\ UNCHANGED <<plesson, rpc, pbits, ioerror, lost, twice, reclaims, pfile>>

-----------------------------------------------------------------------------
(* bread, buffer_read and submit_bh_readpage: a buffer head.               *)

\* sb_bread returns NULL if the device fails, and that is read through.
bread_readpage(t) ==
    /\ RAt(t, {"bread"}, "readpage")
    /\ \/ /\ filled' = TRUE /\ UnlockPage(TRUE) /\ RGoto(t, "wait")
          /\ UNCHANGED <<lost, ioerror>>
       \/ /\ RGoto(t, "dead") /\ lost' = lost \cup {"oops"} /\ ioerror' = TRUE
          /\ UNCHANGED <<pbits, twice>>
    /\ UNCHANGED <<plesson, pbio, pio, reclaims, pfile>>

\* Up to wait_on_buffer.  Without memory the page stays locked.
submit_bh_start(t, ls) ==
    /\ RAt(t, ls, "readpage")
    /\ \/ RGoto(t, "buffer") /\ pio' = "flight" /\ lost' = lost
       \/ RGoto(t, "wait") /\ pio' = pio /\ lost' = lost \cup {"memory"}
    /\ UNCHANGED <<plesson, pbits, pbio, ioerror, twice, reclaims, pfile>>

\* The outcome is not looked at.
submit_bh_end(t, ls) ==
    /\ RAt(t, ls, "buffer") /\ pio \in {"done", "error"}
    /\ pio' = "none" /\ UnlockPage(TRUE) /\ RGoto(t, "wait")
    /\ UNCHANGED <<plesson, filled, pbio, ioerror, lost, reclaims, pfile>>

submit_bh_readpage(t) ==
    LET ls == {"submit_bh_readpage"}
    IN  submit_bh_start(t, ls) \/ submit_bh_end(t, ls)
buffer_readpage(t) ==
    LET ls == {"buffer_read"}
    IN  submit_bh_start(t, ls) \/ submit_bh_end(t, ls)

-----------------------------------------------------------------------------
(* get_block and write_page: mpage_readpage asks example_get_block where   *)
(* the block is and does the rest.                                         *)

\* example_get_block maps block 0 and never fails.
mapped_readpage(t, ls) ==
    /\ RAt(t, ls, "readpage") /\ pio' = "flight" /\ RGoto(t, "wait")
    /\ UNCHANGED <<plesson, pbits, pbio, ioerror, lost, twice, reclaims, pfile>>

get_block_readpage(t)  == mapped_readpage(t, {"get_block"})
write_page_readpage(t) == mapped_readpage(t, {"write_page"})

mpage_end_io ==
    /\ plesson \in {"get_block", "write_page"} /\ pio \in {"done", "error"}
    /\ pio' = "none" /\ UnlockPage(pio = "done")
    /\ UNCHANGED <<plesson, rpc, filled, pbio, ioerror, lost, reclaims, pfile>>

-----------------------------------------------------------------------------
(* min_read and sb_bread: a read function of their own.                    *)

Least(a, b) == IF a < b THEN a ELSE b

\* Bytes that a read of len bytes at the current position returns.
read_len(len) == IF rpos > 3 THEN 0 ELSE Least(len, 3 - rpos)

\* From the string that begins at the position.
min_read_bytes(len)   == SubSeq(File3, rpos + 1, rpos + read_len(len))

\* From the start of the block, whatever the position.
sb_bread_bytes(len) == SubSeq(File3, 1, read_len(len))

\* sb_bread returns NULL if the device fails, and memcpy reads through it.
sb_bread_fails(t) ==
    /\ RAt(t, {"sb_bread"}, "idle") /\ RGoto(t, "dead")
    /\ ioerror' = TRUE /\ lost' = lost \cup {"oops"}
    /\ UNCHANGED <<plesson, pbits, pbio, pio, twice, reclaims, pfile>>

example_read(len) ==
    /\ plesson \in Direct /\ \E t \in Readers : rpc[t] = "idle"
    /\ rpos' = rpos + read_len(len)
    /\ got' = got \o (IF plesson = "min_read" THEN min_read_bytes(len)
                                              ELSE sb_bread_bytes(len))
    /\ UNCHANGED <<plesson, rpc, pbits, pdev, lost, twice, reclaims>>

\* generic_file_llseek: what lies before the new position counts as read.
Seek(p) ==
    /\ plesson \in Direct
    /\ rpos' = p /\ got' = SubSeq(File3, 1, Least(p, 3))
    /\ UNCHANGED <<plesson, rpc, pbits, pdev, lost, twice, reclaims>>

PNext ==
    \/ Reclaim \/ DeviceDone \/ example_end_io \/ end_io_tail \/ mpage_end_io
    \/ \E t \in Readers :
          \/ ReadCall(t) \/ ReadWait(t)
          \/ page_cache_readpage(t) \/ bread_readpage(t)
          \/ submit_bh_readpage(t) \/ buffer_readpage(t)
          \/ get_block_readpage(t) \/ write_page_readpage(t)
          \/ sb_bread_fails(t)
    \/ \E n \in 0 .. 4 : example_read(n) \/ Seek(n)

PSpec == PInit /\ [][PNext]_pvars

-----------------------------------------------------------------------------

\* Why each lesson may leave its page locked for ever.
KnownLost == CASE plesson = "page_cache_read" -> {"busy", "error"}
               [] plesson \in {"bread", "sb_bread"} -> {"oops"}
               [] plesson \in {"buffer_read", "submit_bh_readpage"} -> {"memory"}
               [] OTHER -> {}

\* A locked page has somebody who is going to unlock it, once; where a
\* readpage gives up on it, that is one of the known cases.
PageComesBack ==
    /\ locked => \/ pio \in {"flight", "done", "error"}
                 \/ \E t \in Readers : rpc[t] \in {"readpage", "buffer"}
                 \/ lost # {}
    /\ lost \subseteq KnownLost /\ ~twice

\* A page is shown as up to date only when it holds the block; the two lessons
\* that do not look at the outcome show whatever was in it after an I/O error.
ShownIsFilled ==
    uptodate => \/ filled
                \/ ioerror /\ plesson \in {"buffer_read", "submit_bh_readpage"}

\* However a file is read in pieces, the pieces make up the file; sb_bread
\* starts each piece at the beginning, so only their length is right.
PiecesMakeFile ==
    LET want == SubSeq(File3, 1, Least(rpos, 3))
    IN  IF plesson = "sb_bread" THEN Len(got) = Len(want)
        ELSE plesson = "min_read" => got = want

\* Reads show the file, and every page comes back.
ReadsSafe == PageComesBack /\ ShownIsFilled /\ PiecesMakeFile
=============================================================================
