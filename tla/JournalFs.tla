------------------------------ MODULE JournalFs ------------------------------
(***************************************************************************)
(* The journalled file of fs/journal: write_begin and write_end put a page *)
(* into the running transaction of jbd, writepage does so for a page that  *)
(* was changed through a mapping, sync_file waits for a commit.  Also the  *)
(* lessons before it: get_block and write_page, which write in place, and  *)
(* jbd2, which writes in place too but journals what came by a mapping.    *)
(*                                                                         *)
(* The content of a page is the number of the store or write that made it. *)
(* The buffers of a page are walked together, so a page stands for its     *)
(* buffers; get_block maps all of them, of every page, to block 0, and     *)
(* disk is what that block holds.  __block_write_begin over a whole page   *)
(* reads nothing and this get_block never fails, so it cannot fail.        *)
(* journal_get_write_access fails once the journal is aborted, and before  *)
(* that when there is no memory.                                           *)
(*                                                                         *)
(* The journal, the page lock, dirty tags and the calls of the VFS are     *)
(* external.  i_mutex is held by the one task that is inside write(2).     *)
(***************************************************************************)
EXTENDS Integers, FiniteSets

CONSTANTS JWriters,  \* threads that call write(2) and fsync
          JFlushers, \* threads that write dirty pages back and sync
          JPages,    \* pages of the file
          JLessons,  \* of "journal", "jbd2", "write_page" and "get_block"
          MaxVer,    \* number of writes and stores (bound)
          MaxSyncs,  \* number of calls of fsync and sync (bound)
          MaxMounts  \* number of times the file system is mounted (bound)

ASSUME JournalAssumption ==
    /\ {MaxVer, MaxSyncs, MaxMounts} \subseteq Nat /\ JPages # {}
    /\ "no" \notin JWriters \cup JFlushers

VARIABLES jlesson,  \* the lesson that is loaded
          jsuper,   \* "none", "mounted" or "oops"
          mounts,   \* how often it has been mounted
          jpc,      \* control point of each task
          jpage,    \* the page it works on
          info,     \* has it a handle (current->journal_info)?
          syncs,    \* calls of fsync and sync so far
          todo,     \* pages its sync_file has still to look at, or {}
          want,     \* contents its sync_file was called for
          jlock,    \* holder of the lock of each page, or "no"
          pdirty, tag, checked,  \* PageDirty, the dirty tag, PageChecked
          bdirty,   \* pages with buffers to be written in place
          cur,      \* content of each page
          storing,  \* pages changed by a store whose fault is not over
          ver,      \* the last version
          loose,    \* versions stored through a mapping, written in place,
                    \* or with a handle left over, outside the transaction
          trans,    \* pages in the running transaction
          logged,   \* contents of pages ever committed or read from the disk
          tail,     \* versions in the last commit
          disk,     \* content of block 0
          aborted,  \* the journal is aborted
          refused,  \* what jbd refused for other reasons: "start", "access"
          synced    \* contents that a successful fsync has promised, of a
                    \* task that had no handle left over

JTasks == JWriters \cup JFlushers

mnt   == <<jlesson, jsuper, mounts>>
bits  == <<pdirty, tag, checked>>
data  == <<cur, storing, ver, loose>>
page  == <<jlock, bits, bdirty, data>>
jrnl  == <<trans, logged, tail, disk, aborted, synced>>
sync  == <<todo, want, syncs>>
jvars == <<mnt, jpc, jpage, info, sync, page, jrnl, refused>>

NoLocks == [p \in JPages |-> "no"]
NoTask(v) == [t \in JTasks |-> v]

Journals == jlesson \in {"journal", "jbd2"}

Content(ps) == {<<p, cur[p]>> : p \in ps}

JInit ==
    /\ jlesson \in JLessons /\ jsuper = "none" /\ mounts = 0
    /\ jpc = NoTask("idle") /\ jpage = NoTask("no") /\ info = NoTask(FALSE)
    /\ todo = NoTask({}) /\ want = NoTask({}) /\ syncs = 0
    /\ jlock = NoLocks
    /\ pdirty = {} /\ tag = {} /\ checked = {} /\ bdirty = {} /\ storing = {}
    /\ cur = [p \in JPages |-> 0] /\ ver = 0 /\ loose = {}
    /\ trans = {} /\ logged = Content(JPages) /\ tail = {} /\ disk = 0
    /\ aborted = FALSE /\ refused = {} /\ synced = {}

JAt(t, l)       == jsuper = "mounted" /\ jpc[t] = l
JStart(t, l, p) == jpc' = [jpc EXCEPT ![t] = l] /\ jpage' = [jpage EXCEPT ![t] = p]
JGoto(t, l)     == JStart(t, l, IF l \in {"idle", "s_look"} THEN "no" ELSE jpage[t])
Unlocked(t)     == [jlock EXCEPT ![jpage[t]] = "no"]
Handle(t, b)    == info' = [info EXCEPT ![t] = b]
NoSync(t)       == /\ todo' = [todo EXCEPT ![t] = {}]
                   /\ want' = [want EXCEPT ![t] = {}] /\ syncs' = syncs

\* Where writepage returns to, in the flusher and in sync_file.
Back(t) == IF want[t] # {} THEN "s_look" ELSE "idle"

-----------------------------------------------------------------------------
(* Mounting.                                                               *)

\* What may be wrong with the journal: the block size of the device, reading
\* its super block, memory, an I/O error, other users.  The caller always gets
\* NULL; for the last two the journal that was made is destroyed first.
JournalTroubles == {"blocksize", "bread", "memory", "io", "users"}
example_init_journal(trouble) ==
    IF trouble \in JournalTroubles THEN "NULL" ELSE "journal"

\* What is left in the journal is replayed: images of block 0, of which the
\* last stays.
Replay == IF tail = {} THEN disk' = disk ELSE disk' \in tail

\* A NULL journal is not looked at before journal_load.  An error of
\* journal_load destroys the journal, which may have been replayed in part; if
\* there is no memory for the root the journal stays loaded.
example_fill_super ==
    /\ jlesson' = jlesson /\ jsuper = "none" /\ mounts < MaxMounts /\ mounts' = mounts + 1
    /\ \E trouble \in JournalTroubles \cup {"none"} :
          \/ /\ Journals /\ example_init_journal(trouble) = "NULL"
             /\ jsuper' = "oops" /\ UNCHANGED disk
          \/ /\ Journals /\ example_init_journal(trouble) = "journal"
             /\ jsuper' = "none" /\ disk' \in {disk} \cup tail
          \/ /\ ~Journals \/ example_init_journal(trouble) = "journal"
             /\ jsuper' \in {"mounted", "none"} /\ Replay
    /\ cur' = [p \in JPages |-> disk'] /\ aborted' = FALSE
    /\ logged' = logged \cup {<<p, disk'>> : p \in JPages}
    /\ UNCHANGED <<jpc, jpage, info, sync, jlock, bits, bdirty, storing, ver,
                   loose, trans, tail, synced, refused>>

\* The machine stops: journal and disk are what is left.
Crash ==
    /\ jsuper = "mounted" /\ jsuper' = "none" /\ UNCHANGED <<jlesson, mounts>>
    /\ jpc' = NoTask("idle") /\ jpage' = NoTask("no") /\ info' = NoTask(FALSE)
    /\ todo' = NoTask({}) /\ want' = NoTask({}) /\ syncs' = syncs
    /\ jlock' = NoLocks
    /\ pdirty' = {} /\ tag' = {} /\ checked' = {} /\ bdirty' = {}
    /\ storing' = {} /\ trans' = {} /\ refused' = {}
    /\ UNCHANGED <<cur, ver, loose, logged, tail, disk, aborted, synced>>

-----------------------------------------------------------------------------
(* write(2): generic_perform_write with the page lock and i_mutex.         *)

\* With a handle left over a write is bare: the "b_" labels.
Writing == {t \in JTasks : jpc[t] \in {"w_begin", "w_access", "w_copy", "w_end",
                "w_end_short", "b_copy", "b_end", "b_end_short"}}

\* grab_cache_page_write_begin has locked the page.
WriteCall(t, p) ==
    /\ JAt(t, "idle") /\ Writing = {} /\ ver < MaxVer
    /\ jlock[p] = "no" /\ jlock' = [jlock EXCEPT ![p] = t]
    /\ JStart(t, "w_begin", p)
    /\ UNCHANGED <<mnt, info, sync, bits, bdirty, data, jrnl, refused>>

\* Goes on without a handle when there is none to be had.
write_begin_no_handle(t) ==
    /\ JAt(t, "w_begin") /\ jlesson = "journal"
    /\ JGoto(t, "w_copy")
    /\ UNCHANGED <<mnt, info, sync, page, jrnl, refused>>

\* Up to journal_start.  The error returns leave the page locked.  A task with
\* a handle left over is told that all is well: no buffers, no access.
write_begin_start(t) ==
    /\ JAt(t, "w_begin") /\ jlesson = "journal"
    /\ \/ info[t] /\ JGoto(t, "b_copy") /\ UNCHANGED <<info, refused>>
       \/ ~info[t] /\ aborted /\ JGoto(t, "idle") /\ UNCHANGED <<info, refused>>
       \/ /\ ~info[t] /\ ~aborted
          /\ \/ /\ JGoto(t, "idle") /\ refused' = refused \cup {"start"}
                /\ UNCHANGED info
             \/ Handle(t, TRUE) /\ JGoto(t, "w_access") /\ UNCHANGED refused
    /\ UNCHANGED <<mnt, sync, page, jrnl>>

\* Access without taking the buffers out of the way of the flusher.
access_keeps_dirty(p) == bdirty

\* The buffers belong to the journal from now on.
do_journal_get_write_access(p) == bdirty \ {p}

\* A walk that fails may have cleared the dirty bits it came to.
walk_refused(p) == bdirty' \in {bdirty, bdirty \ {p}}

\* The walk over the buffers.  An error leaves the handle open as well.
write_begin_walk(t) ==
    /\ JAt(t, "w_access")
    /\ \/ /\ ~aborted /\ JGoto(t, "w_copy") /\ UNCHANGED refused
          /\ bdirty' = do_journal_get_write_access(jpage[t])
       \/ /\ JGoto(t, "idle") /\ walk_refused(jpage[t])
          /\ refused' = IF aborted THEN refused ELSE refused \cup {"access"}
    /\ UNCHANGED <<mnt, info, sync, jlock, bits, data, jrnl>>

\* The data is copied, or nothing of it.
WriteCopy(t) ==
    /\ jpc[t] \in {"w_copy", "b_copy"} /\ jsuper = "mounted"
    /\ LET bare == jpc[t] = "b_copy"
       IN  \/ /\ ver' = ver + 1 /\ cur' = [cur EXCEPT ![jpage[t]] = ver']
              /\ loose' = IF \/ aborted \/ jlesson # "journal"
                             \/ bare /\ jpage[t] \notin trans
                          THEN loose \cup {ver'} ELSE loose
              /\ JGoto(t, IF bare THEN "b_end" ELSE "w_end")
           \/ /\ JGoto(t, IF bare THEN "b_end_short" ELSE "w_end_short")
              /\ UNCHANGED <<ver, cur, loose>>
    /\ UNCHANGED <<mnt, info, sync, jlock, bits, bdirty, storing, jrnl, refused>>

\* journal_dirty_metadata, which does nothing for an aborted handle.
write_end_fn(p) == IF aborted THEN trans ELSE trans \cup {p}

\* The walk covers the bytes that were copied.  The handle it stops is the one
\* the task has, whoever started it.
example_journalled_write_end(t) ==
    /\ jpc[t] \in {"w_end", "w_end_short"} /\ jsuper = "mounted"
    /\ jlesson = "journal"
    /\ IF info[t]
       THEN /\ trans' = IF jpc[t] = "w_end" THEN write_end_fn(jpage[t])
                                            ELSE trans
            /\ Handle(t, FALSE) /\ jlock' = Unlocked(t) /\ JGoto(t, "idle")
       ELSE JGoto(t, "oops") /\ UNCHANGED <<trans, info, jlock>>
    /\ UNCHANGED <<mnt, sync, bits, bdirty, data, logged, tail, disk, aborted,
                   synced, refused>>

\* The same after a bare write_begin.  page_buffers has a BUG_ON for a page
\* without buffers, as a page may be that is neither in the journal nor dirty;
\* and jbd has an assertion for buffers that are not in the transaction.
bare_write_end(t) ==
    /\ jpc[t] \in {"b_end", "b_end_short"} /\ jsuper = "mounted"
    /\ LET p == jpage[t]
       IN  \/ /\ jpc[t] = "b_end_short" \/ aborted \/ p \in trans
              /\ Handle(t, FALSE) /\ jlock' = Unlocked(t) /\ JGoto(t, "idle")
           \/ /\ \/ p \notin trans \cup bdirty
                 \/ jpc[t] = "b_end" /\ ~aborted /\ p \notin trans
              /\ JGoto(t, "oops") /\ UNCHANGED <<info, jlock>>
    /\ UNCHANGED <<mnt, sync, bits, bdirty, data, jrnl, refused>>

\* block_write_begin and generic_write_end of the other lessons: what was
\* copied is dirty, and a failure gives the page back.
in_place_write_begin(t) ==
    /\ JAt(t, "w_begin")
    /\ \/ JGoto(t, "w_copy") /\ jlock' = jlock
       \/ JGoto(t, "idle") /\ jlock' = Unlocked(t)
    /\ UNCHANGED <<mnt, info, sync, bits, bdirty, data, jrnl, refused>>

in_place_write_end(t) ==
    /\ jpc[t] \in {"w_end", "w_end_short"} /\ jsuper = "mounted"
    /\ LET new == IF jpc[t] = "w_end" THEN {jpage[t]} ELSE {}
       IN  bdirty' = bdirty \cup new /\ pdirty' = pdirty \cup new /\ tag' = tag \cup new
    /\ jlock' = Unlocked(t) /\ JGoto(t, "idle")
    /\ UNCHANGED <<mnt, info, sync, checked, data, jrnl, refused>>

get_block_write(t) ==
    jlesson = "get_block" /\ (in_place_write_begin(t) \/ in_place_write_end(t))
write_page_write(t) ==
    jlesson = "write_page" /\ (in_place_write_begin(t) \/ in_place_write_end(t))
jbd2_write(t) ==
    jlesson = "jbd2" /\ (in_place_write_begin(t) \/ in_place_write_end(t))

-----------------------------------------------------------------------------
(* Stores through a mapping and write-back.                                *)

\* The page table entry is writable before the fault handler marks the page.
Store(p) ==
    /\ jsuper = "mounted" /\ ver < MaxVer
    /\ ver' = ver + 1 /\ cur' = [cur EXCEPT ![p] = ver']
    /\ loose' = loose \cup {ver'} /\ storing' = storing \cup {p}
    /\ UNCHANGED <<mnt, jpc, jpage, info, sync, jlock, bits, bdirty, jrnl, refused>>

\* Without PageChecked the default is used, which makes the buffers dirty.
example_journalled_set_page_dirty(p) ==
    /\ p \in storing /\ storing' = storing \ {p}
    /\ checked' = IF Journals THEN checked \cup {p} ELSE checked
    /\ bdirty' = IF Journals THEN bdirty ELSE bdirty \cup {p}
    /\ pdirty' = pdirty \cup {p} /\ tag' = tag \cup {p}
    /\ UNCHANGED <<mnt, jpc, jpage, info, sync, jlock, cur, ver, loose,
                   jrnl, refused>>

\* The flusher, or sync_file, locks a dirty page and hands it over.
WritebackPage(t, p) ==
    /\ jsuper = "mounted" /\ p \in pdirty /\ jlock[p] = "no"
    /\ jlock' = [jlock EXCEPT ![p] = t] /\ pdirty' = pdirty \ {p}
    /\ JStart(t, "p_start", p)
    /\ UNCHANGED <<mnt, info, tag, checked, bdirty, data, jrnl, refused>>

Flush(t, p) == jpc[t] = "idle" /\ WritebackPage(t, p) /\ UNCHANGED sync

\* block_write_full_page: what is dirty is written in place.
writepage_checkpoint(t) ==
    /\ JAt(t, "p_start") /\ jpage[t] \notin checked
    /\ disk' = IF jpage[t] \in bdirty THEN cur[jpage[t]] ELSE disk
    /\ bdirty' = bdirty \ {jpage[t]} /\ tag' = tag \ {jpage[t]}
    /\ jlock' = Unlocked(t) /\ JGoto(t, Back(t))
    /\ UNCHANGED <<mnt, info, sync, pdirty, checked, data, trans, logged, tail,
                   aborted, synced, refused>>

\* Up to ClearPageChecked.  The early returns leave the page locked; an error
\* ends sync_file too.
writepage_start(t) ==
    /\ JAt(t, "p_start") /\ jpage[t] \in checked
    /\ \/ /\ info[t] /\ JGoto(t, Back(t))
          /\ UNCHANGED <<info, checked, refused, sync>>
       \/ /\ ~info[t] /\ JGoto(t, "idle") /\ NoSync(t)
          /\ refused' = IF aborted THEN refused ELSE refused \cup {"start"}
          /\ UNCHANGED <<info, checked>>
       \/ /\ ~info[t] /\ ~aborted
          /\ Handle(t, TRUE) /\ checked' = checked \ {jpage[t]}
          /\ JGoto(t, "p_walk") /\ UNCHANGED <<refused, sync>>
    /\ UNCHANGED <<mnt, jlock, pdirty, tag, bdirty, data, jrnl>>

\* Gives the page back before it is in the transaction.
writepage_walk_late(t) ==
    /\ JAt(t, "p_walk") /\ jlesson = "journal"
    /\ jlock' = Unlocked(t) /\ JGoto(t, "p_stop") /\ Handle(t, FALSE)
    /\ UNCHANGED <<mnt, sync, bits, bdirty, data, jrnl, refused>>

\* The buffers of a page, and the credits of the handle in jbd2.
PageBuffers  == 4
jbd2_credits == 1

\* In jbd2 the second buffer finds no credit left, an assertion of the journal.
jbd2_writepage_walk(t) ==
    /\ JAt(t, "p_walk") /\ jlesson = "jbd2" /\ ~aborted
    /\ jbd2_credits < PageBuffers
    /\ JGoto(t, "oops")
    /\ UNCHANGED <<mnt, info, sync, page, jrnl, refused>>

\* Both walks, then unlock_page.  The second is done whatever the first came
\* to: an aborted journal ignores it, but jbd has an assertion for buffers to
\* which it gave no access.
writepage_walk(t) ==
    /\ JAt(t, "p_walk")
    /\ \/ /\ jlesson = "journal" /\ ~aborted /\ UNCHANGED refused
          /\ bdirty' = do_journal_get_write_access(jpage[t])
          /\ trans' = write_end_fn(jpage[t])
          /\ jlock' = Unlocked(t) /\ JGoto(t, "p_stop")
       \/ /\ aborted /\ walk_refused(jpage[t])
          /\ trans' = write_end_fn(jpage[t]) /\ UNCHANGED refused
          /\ jlock' = Unlocked(t) /\ JGoto(t, "p_stop")
       \/ /\ jlesson = "journal" /\ ~aborted /\ walk_refused(jpage[t])
          /\ refused' = refused \cup {"access"} /\ JGoto(t, "oops")
          /\ UNCHANGED <<trans, jlock>>
    /\ UNCHANGED <<mnt, info, sync, bits, data, logged, tail, disk, aborted,
                   synced>>

\* journal_stop and return.
writepage_stop(t) ==
    /\ JAt(t, "p_stop") /\ Handle(t, FALSE) /\ JGoto(t, Back(t))
    /\ UNCHANGED <<mnt, sync, page, jrnl, refused>>

-----------------------------------------------------------------------------
(* fsync and sync.                                                         *)

\* filemap_write_and_wait_range begins.
sync_file_call(t) ==
    /\ JAt(t, "idle") /\ jlesson = "journal" /\ storing # JPages
    /\ syncs < MaxSyncs /\ syncs' = syncs + 1
    /\ todo' = [todo EXCEPT ![t] = JPages]
    /\ want' = [want EXCEPT ![t] = Content(JPages \ storing)]
    /\ JGoto(t, "s_look")
    /\ UNCHANGED <<mnt, info, page, jrnl, refused>>

\* It locks each page that has the dirty tag and writes it if it is dirty.
SyncLook(t, p) ==
    /\ JAt(t, "s_look") /\ p \in todo[t]
    /\ todo' = [todo EXCEPT ![t] = @ \ {p}]
    /\ UNCHANGED <<want, syncs>>
    /\ \/ p \in pdirty /\ WritebackPage(t, p)
       \/ /\ p \notin pdirty /\ (p \in tag => jlock[p] = "no")
          /\ UNCHANGED <<mnt, jpc, jpage, info, page, jrnl, refused>>

\* journal_force_commit, which fails once the journal is aborted.  A task with
\* a handle left over only counts that handle up and down again, and returns 0
\* without a commit.
sync_file_commit(t) ==
    /\ JAt(t, "s_look") /\ todo[t] = {}
    /\ IF aborted \/ info[t] THEN JGoto(t, "idle") /\ NoSync(t)
                             ELSE JGoto(t, "s_commit") /\ UNCHANGED sync
    /\ UNCHANGED <<mnt, info, page, jrnl, refused>>

\* The flush of the device, and the return with 0 or an error.
sync_file_return(t) ==
    /\ JAt(t, "s_flush") /\ JGoto(t, "idle") /\ NoSync(t)
    /\ synced' \in {synced, synced \cup want[t]}
    /\ UNCHANGED <<mnt, info, page, trans, logged, tail, disk, aborted, refused>>

example_sync_fs(t) ==
    /\ JAt(t, "idle") /\ jlesson = "journal" /\ trans # {} /\ JGoto(t, "f_commit")
    /\ syncs < MaxSyncs /\ syncs' = syncs + 1
    /\ UNCHANGED <<mnt, info, todo, want, page, jrnl, refused>>

\* kjournald.  The buffers go to the journal and are then dirty.
JournalCommit ==
    /\ jsuper = "mounted" /\ ~aborted /\ \A t \in JTasks : ~info[t]
    /\ trans # {} \/ \E t \in JTasks : jpc[t] = "s_commit"
    /\ trans' = {} /\ logged' = logged \cup Content(trans)
    /\ tail' = IF trans = {} THEN tail ELSE {cur[p] : p \in trans}
    /\ bdirty' = bdirty \cup trans
    /\ pdirty' = pdirty \cup trans /\ tag' = tag \cup trans
    /\ jpc' = [t \in JTasks |-> CASE jpc[t] = "s_commit" -> "s_flush"
                                  [] jpc[t] = "f_commit" -> "idle"
                                  [] OTHER -> jpc[t]]
    /\ UNCHANGED <<mnt, jpage, info, sync, jlock, checked, data, disk, aborted,
                   synced, refused>>

\* An I/O error of the journal.  Waiting for a commit ends with an error.
JournalAbort ==
    /\ jsuper = "mounted" /\ Journals /\ ~aborted /\ aborted' = TRUE
    /\ jpc' = [t \in JTasks |-> IF jpc[t] \in {"s_commit", "f_commit"}
                                THEN "idle" ELSE jpc[t]]
    /\ want' = [t \in JTasks |-> IF jpc[t] = "s_commit" THEN {} ELSE want[t]]
    /\ UNCHANGED <<mnt, jpage, info, todo, syncs, page, trans, logged, tail,
                   disk, synced, refused>>

\* releasepage is called for a page of its own and frees its buffers: nothing
\* of the state here, as a page in the journal or dirty stays.
JNext ==
    \/ example_fill_super \/ Crash \/ JournalCommit \/ JournalAbort
    \/ \E p \in JPages : Store(p) \/ example_journalled_set_page_dirty(p)
    \/ \E t \in JTasks :
          \/ write_begin_start(t) \/ write_begin_walk(t)
          \/ WriteCopy(t) \/ example_journalled_write_end(t) \/ bare_write_end(t)
          \/ writepage_checkpoint(t) \/ writepage_start(t) \/ writepage_walk(t)
          \/ writepage_stop(t) \/ jbd2_writepage_walk(t)
          \/ get_block_write(t) \/ write_page_write(t) \/ jbd2_write(t)
          \/ sync_file_call(t) \/ sync_file_commit(t) \/ sync_file_return(t)
          \/ \E p \in JPages : SyncLook(t, p)
    \/ \E t \in JWriters, p \in JPages : WriteCall(t, p)
    \/ \E t \in JFlushers : example_sync_fs(t) \/ \E p \in JPages : Flush(t, p)

JSpec == JInit /\ [][JNext]_jvars

-----------------------------------------------------------------------------

\* A task that is back in user space holds no page lock and no handle, and
\* write_end never meets a NULL handle; in the in-place lessons all is well.
\* The early returns of write_begin and writepage leave a page locked once the
\* journal is aborted or has refused a handle or access, and a handle open once
\* it is aborted or has refused access: never otherwise.  A thread dies in jbd2
\* for the want of credits, and in journal only after access was refused or the
\* journal aborted: with a handle left over, or with buffers that the
\* transaction does not have.
CallsBalanced ==
    \A t \in JTasks :
       /\ jpc[t] = "oops" =>
             \/ jlesson = "jbd2"
             \/ jlesson = "journal" /\ (aborted \/ "access" \in refused)
       /\ jpc[t] = "idle" =>
             /\ info[t] => aborted \/ "access" \in refused
             /\ \A p \in JPages : jlock[p] = t => aborted \/ refused # {}

\* "What we do is just kick off a commit and wait on it": when sync_file has
\* returned 0, what the pages held when it was called, or something newer, has
\* been committed, whoever had the pages and the handles meanwhile.  "There
\* cannot be a transaction open by this task": a failed write_begin leaves one,
\* and then the task's own sync_file promises nothing.
SyncCommitted ==
    \A s \in synced : \E l \in logged : l[1] = s[1] /\ l[2] >= s[2]

\* "Writeback cannot ever write the buffer": in fs/journal what write(2) put
\* into a page reaches its block only after it was committed, and so does what a replay
\* finds.  Stores through a mapping may overtake the journal, as the page is
\* writable before set_page_dirty is called; and so may a task whose handle was
\* left open by a failed write_begin, in pages that are not in the transaction.
WriteAhead == disk \in loose \cup {l[2] : l \in logged}
=============================================================================
