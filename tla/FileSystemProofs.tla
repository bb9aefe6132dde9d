-------------------------- MODULE FileSystemProofs --------------------------
(***************************************************************************)
(* Proofs about the file systems of fs/: the journal (JournalFs), mounting *)
(* (FsMount) and reading (PageRead).  The three share no state, and each   *)
(* has its invariant and its theorems here, one after the other.           *)
(*                                                                         *)
(* JournalFs.  CallInv says who may hold a page lock or a handle, and      *)
(* where.  WriteInv follows a version from write(2) to its block: a page   *)
(* with buffers to be written in place holds nothing that is not logged.   *)
(* SyncInv follows it to the journal: each content is logged (Logged), or  *)
(* on its way there under a handle (Joining), or of a page that waits for  *)
(* writepage (Waiting), and no step of anybody loses it between the three  *)
(* (KeptStep).  A task whose handle was left open (Left) is the exception: *)
(* its sync_file promises nothing.                                         *)
(***************************************************************************)
EXTENDS JournalFs, FsMount, PageRead, FiniteSetTheorems, SequenceTheorems, TLAPS

(***************************************************************************)
(* JournalFs: the invariants.                                              *)
(***************************************************************************)
Labels == {"idle", "oops", "w_begin", "w_access", "w_copy", "w_end", "w_end_short",
           "b_copy", "b_end", "b_end_short", "p_start", "p_walk", "p_stop",
           "s_look", "s_commit", "s_flush", "f_commit"}

\* Where a task works on a page, has a handle of its call or one left over,
\* and is in sync_file.
BareLabels  == {"b_copy", "b_end", "b_end_short"}
WriteLabels == {"w_begin", "w_access", "w_copy", "w_end", "w_end_short"} \cup BareLabels
PageLabels  == WriteLabels \cup {"p_start", "p_walk"}
OwnLabels   == {"w_access", "w_copy", "w_end", "w_end_short", "p_walk", "p_stop"}
SyncLabels  == {"s_look", "p_start", "p_walk", "p_stop", "s_commit", "s_flush", "oops"}

JTasksOK ==
    /\ jpc \in [JTasks -> Labels] /\ jpage \in [JTasks -> JPages \cup {"no"}]
    /\ info \in [JTasks -> BOOLEAN]
    /\ todo \in [JTasks -> SUBSET JPages] /\ want \in [JTasks -> SUBSET (JPages \X Nat)]
    /\ jlock \in [JPages -> JTasks \cup {"no"}]
    /\ \A t \in JTasks : jpc[t] \in PageLabels => jpage[t] \in JPages

JPagesOK ==
    /\ {pdirty, tag, checked, bdirty, storing, trans} \subseteq SUBSET JPages
    /\ cur \in [JPages -> Nat] /\ ver \in Nat /\ loose \subseteq Nat
    /\ logged \subseteq JPages \X Nat /\ tail \subseteq Nat /\ disk \in Nat
    /\ aborted \in BOOLEAN /\ refused \subseteq {"start", "access"}

JType == JTasksOK /\ JPagesOK

\* Nobody is inside a call while nothing is mounted.
DownInv ==
    jsuper # "mounted" =>
       /\ \A t \in JTasks : jpc[t] = "idle" /\ ~ info[t] /\ want[t] = {}
       /\ \A p \in JPages : jlock[p] = "no"
       /\ bdirty = {} /\ trans = {} /\ storing = {}

\* The task that works on a page has its lock; a lock or a handle is left
\* behind only by the early returns, and a thread that died keeps its handle.
HoldInv ==
    /\ \A t \in JTasks : jpc[t] \in PageLabels => jlock[jpage[t]] = t
    /\ \A t \in JTasks, p \in JPages : jlock[p] = t =>
          \/ jpc[t] \in PageLabels \cup {"oops"} /\ jpage[t] = p
          \/ aborted \/ refused # {}
    /\ \A t \in JTasks : info[t] =>
          jpc[t] \in OwnLabels \cup {"oops"} \/ aborted \/ "access" \in refused
    /\ \A t \in JTasks : jpc[t] \in BareLabels \cup {"w_access"} =>
          jlesson = "journal"
    /\ \A t \in JTasks : info[t] /\ jpc[t] \in WriteLabels =>
          jlesson = "journal" \/ aborted \/ "access" \in refused
    /\ \A t \in JTasks :
          jlesson = "journal" /\ jpc[t] \in OwnLabels \cup BareLabels \cup {"oops"}
             => info[t]
    /\ \A t \in JTasks : jpc[t] = "oops" =>
          \/ jlesson = "jbd2"
          \/ jlesson = "journal" /\ (aborted \/ "access" \in refused)

CallInv == JType /\ DownInv /\ HoldInv

\* What may be in place: what a replay could find as well, or is loose.
Known == loose \cup {l[2] : l \in logged}

WriteInv ==
    /\ disk \in Known /\ tail \subseteq Known
    /\ \A p \in bdirty : cur[p] \in Known
    /\ jlesson # "journal" => \A p \in JPages : cur[p] \in Known
    /\ jlesson = "journal" /\ ~ aborted =>
          /\ trans \cap bdirty = {}
          /\ \A t \in JTasks : jpc[t] \in {"w_copy", "w_end"} => jpage[t] \notin bdirty

\* Versions grow.
VersionInv ==
    /\ \A p \in JPages : cur[p] <= ver
    /\ disk <= ver /\ \A v \in tail : v <= ver

\* Version v of page p, or a later one, is in the journal ...
Logged(p, v) == \E l \in logged : l[1] = p /\ l[2] >= v

\* ... or the handle under which it gets there is open, or was, or will be for
\* ever, so that nothing is committed any more ...
JoinLabels == {"w_end", "b_end", "p_walk", "oops"}

Joining(p, v) == /\ cur[p] >= v
                 /\ \/ p \in trans
                    \/ \E t \in JTasks : jpc[t] \in JoinLabels /\ jpage[t] = p

\* ... or the page waits for writepage.
Waiting(p, v) == /\ cur[p] >= v /\ p \in checked /\ p \in tag
                 /\ \/ p \in pdirty
                    \/ /\ jlock[p] # "no"
                       /\ \A t \in JTasks : jpc[t] \in PageLabels \ {"p_start"}
                             => jpage[t] # p

Owed(p, v) == Logged(p, v) \/ Joining(p, v) \/ Waiting(p, v)

\* The task has a handle left over.
Left(t) == info[t] /\ jpc[t] \notin OwnLabels

\* sync_file has looked at the page; with a handle left over it need not.
Looked(t, p, v) == \/ Logged(p, v) \/ Joining(p, v)
                   \/ jpc[t] = "p_start" /\ jpage[t] = p /\ Waiting(p, v)
                   \/ Left(t)

\* The journal is in use and has not failed.
Good == jsuper = "mounted" /\ jlesson = "journal" /\ ~ aborted

\* No content gets lost on its way to the journal ...
Settled == Good => \A p \in JPages \ storing : Owed(p, cur[p])

\* ... and sync_file has seen to it that what it was called for is on the way.
WantInv ==
    Good => \A t \in JTasks, p \in JPages, v \in Nat : <<p, v>> \in want[t] =>
               Owed(p, v) /\ (p \notin todo[t] => Looked(t, p, v))

FlushInv ==
    \A t \in JTasks :
       /\ jpc[t] \in {"s_commit", "s_flush"} => todo[t] = {}
       /\ jpc[t] = "s_flush" =>
             \A p \in JPages, v \in Nat : <<p, v>> \in want[t] => Logged(p, v)
       /\ want[t] # {} => jlesson = "journal" /\ jpc[t] \in SyncLabels

SyncInv == VersionInv /\ Settled /\ WantInv /\ FlushInv /\ SyncCommitted

(***************************************************************************)
(* JournalFs: the proofs.                                                  *)
(***************************************************************************)
LEMMA JTypeInit == JInit => JType
<1> SUFFICES ASSUME JInit PROVE JType
  OBVIOUS
<1>1. aborted \in BOOLEAN /\ refused \subseteq {"start", "access"}
  BY Zenon DEF JInit
<1> QED
  BY <1>1 DEF JInit, JType, JTasksOK, JPagesOK, Labels, PageLabels, WriteLabels, BareLabels,
     NoTask, NoLocks, Content

LEMMA JTasksStep == JType /\ JNext => JTasksOK'
<1> SUFFICES ASSUME JType, JNext PROVE JTasksOK'
  OBVIOUS
<1> USE DEF JType, JTasksOK, Labels, PageLabels, WriteLabels, BareLabels, mnt, bits, data, page,
    jrnl, sync, JAt, JStart, JGoto, Unlocked, Handle, Back, Journals
<1>1. ASSUME example_fill_super PROVE JTasksOK'
  BY <1>1 DEF example_fill_super, Replay
<1>2. ASSUME Crash PROVE JTasksOK'
  BY <1>2 DEF Crash, NoTask, NoLocks
<1>3. ASSUME JournalCommit PROVE JTasksOK'
  BY <1>3 DEF JournalCommit, Content
<1>4. ASSUME JournalAbort PROVE JTasksOK'
  BY <1>4 DEF JournalAbort
<1>5. ASSUME NEW p \in JPages, Store(p) PROVE JTasksOK'
  BY <1>5 DEF Store
<1>6. ASSUME NEW p \in JPages, example_journalled_set_page_dirty(p) PROVE JTasksOK'
  BY <1>6 DEF example_journalled_set_page_dirty
<1>7. ASSUME NEW t \in JTasks, write_begin_start(t) PROVE JTasksOK'
  BY <1>7 DEF write_begin_start
<1>8. ASSUME NEW t \in JTasks, write_begin_walk(t) PROVE JTasksOK'
  BY <1>8 DEF write_begin_walk, do_journal_get_write_access, walk_refused
<1>9. ASSUME NEW t \in JTasks, WriteCopy(t) PROVE JTasksOK'
  BY <1>9 DEF WriteCopy
<1>10. ASSUME NEW t \in JTasks, example_journalled_write_end(t) PROVE JTasksOK'
  <2>1. CASE info[t]
    <3>1. /\ jpc' = [jpc EXCEPT ![t] = "idle"] /\ jpage' = [jpage EXCEPT ![t] = "no"]
          /\ info' = [info EXCEPT ![t] = FALSE] /\ jlock' = [jlock EXCEPT ![jpage[t]] = "no"]
          /\ todo' = todo /\ want' = want
      BY <1>10, <2>1 DEF example_journalled_write_end
    <3>2. info' \in [JTasks -> BOOLEAN]
      BY <3>1
    <3> QED
      BY <3>1, <3>2
  <2>2. CASE ~ info[t]
    BY <1>10, <2>2 DEF example_journalled_write_end
  <2> QED
    BY <2>1, <2>2
<1>11. ASSUME NEW t \in JTasks, writepage_checkpoint(t) PROVE JTasksOK'
  BY <1>11 DEF writepage_checkpoint
<1>12. ASSUME NEW t \in JTasks, writepage_start(t) PROVE JTasksOK'
  BY <1>12 DEF writepage_start, NoSync
<1>13. ASSUME NEW t \in JTasks, writepage_walk(t) PROVE JTasksOK'
  BY <1>13 DEF writepage_walk, do_journal_get_write_access, write_end_fn, walk_refused
<1>14. ASSUME NEW t \in JTasks, writepage_stop(t) PROVE JTasksOK'
  BY <1>14 DEF writepage_stop
<1>15. ASSUME NEW t \in JTasks, jbd2_writepage_walk(t) PROVE JTasksOK'
  BY <1>15 DEF jbd2_writepage_walk
<1>16. ASSUME NEW t \in JTasks, in_place_write_begin(t), jlesson # "journal"
      PROVE  JTasksOK'
  BY <1>16 DEF in_place_write_begin
<1>17. ASSUME NEW t \in JTasks, in_place_write_end(t), jlesson # "journal" PROVE JTasksOK'
  BY <1>17 DEF in_place_write_end
<1>18. ASSUME NEW t \in JTasks, sync_file_call(t) PROVE JTasksOK'
  <2>1. Content(JPages \ storing) \in SUBSET (JPages \X Nat)
    BY DEF Content, JPagesOK
  <2> HIDE DEF JPagesOK
  <2> QED
    BY <1>18, <2>1 DEF sync_file_call
<1>19. ASSUME NEW t \in JTasks, sync_file_commit(t) PROVE JTasksOK'
  BY <1>19 DEF sync_file_commit, NoSync
<1>20. ASSUME NEW t \in JTasks, sync_file_return(t) PROVE JTasksOK'
  BY <1>20 DEF sync_file_return, NoSync
<1>21. ASSUME NEW t \in JTasks, NEW p \in JPages, SyncLook(t, p), p \in pdirty
      PROVE  JTasksOK'
  BY <1>21 DEF SyncLook, WritebackPage
<1>22. ASSUME NEW t \in JTasks, NEW p \in JPages, SyncLook(t, p), p \notin pdirty
      PROVE  JTasksOK'
  BY <1>22 DEF SyncLook, WritebackPage
<1>23. ASSUME NEW t \in JTasks, NEW p \in JPages, WriteCall(t, p) PROVE JTasksOK'
  BY <1>23 DEF WriteCall
<1>24. ASSUME NEW t \in JTasks, example_sync_fs(t) PROVE JTasksOK'
  BY <1>24 DEF example_sync_fs
<1>25. ASSUME NEW t \in JTasks, NEW p \in JPages, Flush(t, p) PROVE JTasksOK'
  BY <1>25 DEF Flush, WritebackPage
<1>26. ASSUME NEW t \in JTasks, bare_write_end(t) PROVE JTasksOK'
  BY <1>26 DEF bare_write_end
<1> QED
  BY <1>1, <1>2, <1>3, <1>4, <1>5, <1>6, <1>7, <1>8, <1>9, <1>10, <1>11, <1>12, <1>13,
     <1>14, <1>15, <1>16, <1>17, <1>18, <1>19, <1>20, <1>21, <1>22, <1>23, <1>24, <1>25,
     <1>26
     DEF JNext, get_block_write, write_page_write, jbd2_write, JTasks

LEMMA JPagesStep == JType /\ JNext => JPagesOK'
<1> SUFFICES ASSUME JType, JNext PROVE JPagesOK'
  OBVIOUS
<1> USE DEF JType, JTasksOK, JPagesOK, PageLabels, WriteLabels, BareLabels, mnt, bits, data, page,
    jrnl, sync, JAt, JStart, JGoto, Unlocked, Handle, Back, Journals
<1>1. ASSUME example_fill_super PROVE JPagesOK'
  <2>1. disk' \in Nat
    BY <1>1 DEF example_fill_super, Replay
  <2>2. logged' = logged \cup {<<p, disk'>> : p \in JPages} /\ cur' = [p \in JPages |-> disk']
        /\ aborted' = FALSE
    BY <1>1 DEF example_fill_super, Replay
  <2>3. UNCHANGED <<bits, bdirty, storing, ver, loose, trans, tail, refused>>
    BY <1>1 DEF example_fill_super, Replay
  <2>4. logged' \subseteq JPages \X Nat /\ cur' \in [JPages -> Nat]
    BY <2>1, <2>2
  <2>5. aborted' \in BOOLEAN /\ refused' \subseteq {"start", "access"}
    BY <2>2, <2>3, Zenon
  <2> QED
    BY <2>1, <2>3, <2>4, <2>5
<1>2. ASSUME Crash PROVE JPagesOK'
  BY <1>2 DEF Crash, NoTask, NoLocks
<1>3. ASSUME JournalCommit PROVE JPagesOK'
  BY <1>3 DEF JournalCommit, Content
<1>4. ASSUME JournalAbort PROVE JPagesOK'
  BY <1>4 DEF JournalAbort
<1>5. ASSUME NEW p \in JPages, Store(p) PROVE JPagesOK'
  BY <1>5 DEF Store
<1>6. ASSUME NEW p \in JPages, example_journalled_set_page_dirty(p) PROVE JPagesOK'
  BY <1>6 DEF example_journalled_set_page_dirty
<1>7. ASSUME NEW t \in JTasks, write_begin_start(t) PROVE JPagesOK'
  BY <1>7 DEF write_begin_start
<1>8. ASSUME NEW t \in JTasks, write_begin_walk(t) PROVE JPagesOK'
  <2>1. UNCHANGED <<bits, data, jrnl>> /\ bdirty' \in {bdirty, bdirty \ {jpage[t]}}
    BY <1>8 DEF write_begin_walk, do_journal_get_write_access, walk_refused
  <2>2. refused' \in {refused, refused \cup {"access"}}
    BY <1>8 DEF write_begin_walk
  <2> QED
    BY <2>1, <2>2
<1>9. ASSUME NEW t \in JTasks, WriteCopy(t) PROVE JPagesOK'
  <2>1. jpage[t] \in JPages
    BY <1>9 DEF WriteCopy
  <2>2. UNCHANGED <<bits, bdirty, storing, jrnl, refused>>
    BY <1>9 DEF WriteCopy
  <2>3. \/ UNCHANGED <<ver, cur, loose>>
        \/ /\ ver' = ver + 1 /\ cur' = [cur EXCEPT ![jpage[t]] = ver']
           /\ loose' \in {loose, loose \cup {ver'}}
    BY <1>9 DEF WriteCopy
  <2>4. ver' \in Nat
    BY <2>3
  <2>5. cur' \in [JPages -> Nat]
    BY <2>1, <2>3, <2>4
  <2>6. loose' \subseteq Nat
    BY <2>3, <2>4
  <2> QED
    BY <2>2, <2>4, <2>5, <2>6
<1>10. ASSUME NEW t \in JTasks, example_journalled_write_end(t) PROVE JPagesOK'
  <2>1. jpage[t] \in JPages
    BY <1>10 DEF example_journalled_write_end
  <2>2. UNCHANGED <<bits, bdirty, data, logged, tail, disk, aborted, refused>>
    BY <1>10 DEF example_journalled_write_end
  <2>3. trans' \in {trans, trans \cup {jpage[t]}}
    BY <1>10 DEF example_journalled_write_end, write_end_fn
  <2> QED
    BY <2>1, <2>2, <2>3
<1>11. ASSUME NEW t \in JTasks, writepage_checkpoint(t) PROVE JPagesOK'
  BY <1>11 DEF writepage_checkpoint
<1>12. ASSUME NEW t \in JTasks, writepage_start(t) PROVE JPagesOK'
  <2>1. jpage[t] \in JPages
    BY <1>12 DEF writepage_start
  <2>2. UNCHANGED <<pdirty, tag, bdirty, data, jrnl>>
    BY <1>12 DEF writepage_start
  <2>3. checked' \in {checked, checked \ {jpage[t]}}
    BY <1>12 DEF writepage_start
  <2>4. refused' \subseteq {"start", "access"}
    BY <1>12, Zenon DEF writepage_start
  <2> QED
    BY <2>2, <2>3, <2>4
<1>13. ASSUME NEW t \in JTasks, writepage_walk(t) PROVE JPagesOK'
  <2>1. jpage[t] \in JPages
    BY <1>13 DEF writepage_walk
  <2>2. /\ UNCHANGED <<bits, data, logged, tail, disk, aborted>>
        /\ refused' \in {refused, refused \cup {"access"}}
    BY <1>13 DEF writepage_walk
  <2>3. /\ trans' \in {trans, trans \cup {jpage[t]}}
        /\ bdirty' \in {bdirty, bdirty \ {jpage[t]}}
    BY <1>13 DEF writepage_walk, write_end_fn, do_journal_get_write_access, walk_refused
  <2> QED
    BY <2>1, <2>2, <2>3
<1>14. ASSUME NEW t \in JTasks, writepage_stop(t) PROVE JPagesOK'
  BY <1>14 DEF writepage_stop
<1>15. ASSUME NEW t \in JTasks, jbd2_writepage_walk(t) PROVE JPagesOK'
  BY <1>15 DEF jbd2_writepage_walk
<1>16. ASSUME NEW t \in JTasks, in_place_write_begin(t), jlesson # "journal"
      PROVE  JPagesOK'
  BY <1>16 DEF in_place_write_begin
<1>17. ASSUME NEW t \in JTasks, in_place_write_end(t), jlesson # "journal" PROVE JPagesOK'
  <2>1. jpage[t] \in JPages
    BY <1>17 DEF in_place_write_end
  <2>2. UNCHANGED <<checked, data, jrnl, refused>>
    BY <1>17 DEF in_place_write_end
  <2>3. PICK new \in {{}, {jpage[t]}} :
           bdirty' = bdirty \cup new /\ pdirty' = pdirty \cup new /\ tag' = tag \cup new
    BY <1>17 DEF in_place_write_end
  <2> QED
    BY <2>1, <2>2, <2>3
<1>18. ASSUME NEW t \in JTasks, sync_file_call(t) PROVE JPagesOK'
  BY <1>18 DEF sync_file_call, Content
<1>19. ASSUME NEW t \in JTasks, sync_file_commit(t) PROVE JPagesOK'
  BY <1>19 DEF sync_file_commit, NoSync
<1>20. ASSUME NEW t \in JTasks, sync_file_return(t) PROVE JPagesOK'
  BY <1>20 DEF sync_file_return, NoSync
<1>21. ASSUME NEW t \in JTasks, NEW p \in JPages, SyncLook(t, p), p \in pdirty
      PROVE  JPagesOK'
  <2>1. UNCHANGED <<tag, checked, bdirty, data, jrnl, refused>> /\ pdirty' = pdirty \ {p}
    BY <1>21 DEF SyncLook, WritebackPage
  <2> QED
    BY <2>1
<1>22. ASSUME NEW t \in JTasks, NEW p \in JPages, SyncLook(t, p), p \notin pdirty
      PROVE  JPagesOK'
  BY <1>22 DEF SyncLook, WritebackPage
<1>23. ASSUME NEW t \in JTasks, NEW p \in JPages, WriteCall(t, p) PROVE JPagesOK'
  BY <1>23 DEF WriteCall
<1>24. ASSUME NEW t \in JTasks, example_sync_fs(t) PROVE JPagesOK'
  BY <1>24 DEF example_sync_fs
<1>25. ASSUME NEW t \in JTasks, NEW p \in JPages, Flush(t, p) PROVE JPagesOK'
  BY <1>25 DEF Flush, WritebackPage
<1>26. ASSUME NEW t \in JTasks, bare_write_end(t) PROVE JPagesOK'
  BY <1>26 DEF bare_write_end
<1> QED
  BY <1>1, <1>2, <1>3, <1>4, <1>5, <1>6, <1>7, <1>8, <1>9, <1>10, <1>11, <1>12, <1>13,
     <1>14, <1>15, <1>16, <1>17, <1>18, <1>19, <1>20, <1>21, <1>22, <1>23, <1>24, <1>25,
     <1>26
     DEF JNext, get_block_write, write_page_write, jbd2_write, JTasks

LEMMA DownStep == JType /\ DownInv /\ JNext => DownInv'
<1> SUFFICES ASSUME JType, DownInv, JNext PROVE DownInv'
  OBVIOUS
<1> USE DEF DownInv, mnt, bits, data, page, jrnl, sync, JAt, JStart, JGoto, Unlocked,
    Handle, Back, Journals
<1>1. ASSUME example_fill_super PROVE DownInv'
  BY <1>1 DEF example_fill_super, Replay
<1>2. ASSUME Crash PROVE DownInv'
  BY <1>2 DEF Crash, NoTask, NoLocks
<1>3. ASSUME JournalCommit PROVE DownInv'
  BY <1>3 DEF JournalCommit, Content
<1>4. ASSUME JournalAbort PROVE DownInv'
  BY <1>4 DEF JournalAbort
<1>5. ASSUME NEW p \in JPages, Store(p) PROVE DownInv'
  BY <1>5 DEF Store
<1>6. ASSUME NEW p \in JPages, example_journalled_set_page_dirty(p) PROVE DownInv'
  BY <1>6 DEF example_journalled_set_page_dirty
<1>7. ASSUME NEW t \in JTasks, write_begin_start(t) PROVE DownInv'
  BY <1>7 DEF write_begin_start
<1>8. ASSUME NEW t \in JTasks, write_begin_walk(t) PROVE DownInv'
  BY <1>8 DEF write_begin_walk, do_journal_get_write_access, walk_refused
<1>9. ASSUME NEW t \in JTasks, WriteCopy(t) PROVE DownInv'
  BY <1>9 DEF WriteCopy
<1>10. ASSUME NEW t \in JTasks, example_journalled_write_end(t) PROVE DownInv'
  BY <1>10 DEF example_journalled_write_end, write_end_fn
<1>11. ASSUME NEW t \in JTasks, writepage_checkpoint(t) PROVE DownInv'
  BY <1>11 DEF writepage_checkpoint
<1>12. ASSUME NEW t \in JTasks, writepage_start(t) PROVE DownInv'
  BY <1>12 DEF writepage_start, NoSync
<1>13. ASSUME NEW t \in JTasks, writepage_walk(t) PROVE DownInv'
  BY <1>13 DEF writepage_walk, do_journal_get_write_access, write_end_fn, walk_refused
<1>14. ASSUME NEW t \in JTasks, writepage_stop(t) PROVE DownInv'
  BY <1>14 DEF writepage_stop
<1>15. ASSUME NEW t \in JTasks, jbd2_writepage_walk(t) PROVE DownInv'
  BY <1>15 DEF jbd2_writepage_walk
<1>16. ASSUME NEW t \in JTasks, in_place_write_begin(t), jlesson # "journal"
      PROVE  DownInv'
  BY <1>16 DEF in_place_write_begin
<1>17. ASSUME NEW t \in JTasks, in_place_write_end(t), jlesson # "journal" PROVE DownInv'
  BY <1>17 DEF in_place_write_end
<1>18. ASSUME NEW t \in JTasks, sync_file_call(t) PROVE DownInv'
  BY <1>18 DEF sync_file_call, Content
<1>19. ASSUME NEW t \in JTasks, sync_file_commit(t) PROVE DownInv'
  BY <1>19 DEF sync_file_commit, NoSync
<1>20. ASSUME NEW t \in JTasks, sync_file_return(t) PROVE DownInv'
  BY <1>20 DEF sync_file_return, NoSync
<1>21. ASSUME NEW t \in JTasks, NEW p \in JPages, SyncLook(t, p), p \in pdirty
      PROVE  DownInv'
  BY <1>21 DEF SyncLook, WritebackPage
<1>22. ASSUME NEW t \in JTasks, NEW p \in JPages, SyncLook(t, p), p \notin pdirty
      PROVE  DownInv'
  BY <1>22 DEF SyncLook, WritebackPage
<1>23. ASSUME NEW t \in JTasks, NEW p \in JPages, WriteCall(t, p) PROVE DownInv'
  BY <1>23 DEF WriteCall
<1>24. ASSUME NEW t \in JTasks, example_sync_fs(t) PROVE DownInv'
  BY <1>24 DEF example_sync_fs
<1>25. ASSUME NEW t \in JTasks, NEW p \in JPages, Flush(t, p) PROVE DownInv'
  BY <1>25 DEF Flush, WritebackPage
<1>26. ASSUME NEW t \in JTasks, bare_write_end(t) PROVE DownInv'
  BY <1>26 DEF bare_write_end
<1> QED
  BY <1>1, <1>2, <1>3, <1>4, <1>5, <1>6, <1>7, <1>8, <1>9, <1>10, <1>11, <1>12, <1>13,
     <1>14, <1>15, <1>16, <1>17, <1>18, <1>19, <1>20, <1>21, <1>22, <1>23, <1>24, <1>25,
     <1>26
     DEF JNext, get_block_write, write_page_write, jbd2_write, JTasks

LEMMA HoldStep == CallInv /\ JNext => HoldInv'
<1> SUFFICES ASSUME CallInv, JNext PROVE HoldInv'
  OBVIOUS
<1>0. /\ JTasksOK /\ HoldInv /\ aborted \in BOOLEAN /\ refused \subseteq {"start", "access"}
      /\ DownInv /\ "no" \notin JTasks
  BY JournalAssumption DEF CallInv, JType, JPagesOK, JTasks
<1> USE <1>0 DEF HoldInv, DownInv, JTasksOK, PageLabels, WriteLabels, BareLabels, OwnLabels,
    mnt, bits, data, page, jrnl, sync, JAt, JStart, JGoto, Unlocked, Handle, Back, Journals
<1>1. ASSUME example_fill_super PROVE HoldInv'
  BY <1>1 DEF example_fill_super, Replay
<1>2. ASSUME Crash PROVE HoldInv'
  BY <1>2 DEF Crash, NoTask, NoLocks
<1>3. ASSUME JournalCommit PROVE HoldInv'
  BY <1>3 DEF JournalCommit, Content
<1>4. ASSUME JournalAbort PROVE HoldInv'
  BY <1>4 DEF JournalAbort
<1>5. ASSUME NEW p \in JPages, Store(p) PROVE HoldInv'
  BY <1>5 DEF Store
<1>6. ASSUME NEW p \in JPages, example_journalled_set_page_dirty(p) PROVE HoldInv'
  BY <1>6 DEF example_journalled_set_page_dirty
<1>7. ASSUME NEW t \in JTasks, write_begin_start(t) PROVE HoldInv'
  BY <1>7 DEF write_begin_start
<1>8. ASSUME NEW t \in JTasks, write_begin_walk(t) PROVE HoldInv'
  BY <1>8 DEF write_begin_walk, do_journal_get_write_access, walk_refused
<1>9. ASSUME NEW t \in JTasks, WriteCopy(t) PROVE HoldInv'
  BY <1>9 DEF WriteCopy
<1>10. ASSUME NEW t \in JTasks, example_journalled_write_end(t) PROVE HoldInv'
  BY <1>10 DEF example_journalled_write_end, write_end_fn
<1>11. ASSUME NEW t \in JTasks, writepage_checkpoint(t) PROVE HoldInv'
  BY <1>11 DEF writepage_checkpoint
<1>12. ASSUME NEW t \in JTasks, writepage_start(t) PROVE HoldInv'
  <2>1. /\ jpc[t] = "p_start" /\ UNCHANGED <<jlesson, jsuper, jlock, aborted>>
        /\ refused \subseteq refused'
    BY <1>12 DEF writepage_start
  <2>2. CASE info[t] /\ JGoto(t, Back(t)) /\ UNCHANGED <<info, refused>>
    BY <2>1, <2>2
  <2>3. CASE /\ ~ info[t] /\ JGoto(t, "idle") /\ UNCHANGED info
             /\ aborted \/ refused' = refused \cup {"start"}
    BY <2>1, <2>3
  <2>4. CASE /\ ~ info[t] /\ Handle(t, TRUE) /\ JGoto(t, "p_walk") /\ UNCHANGED refused
    BY <2>1, <2>4
  <2> QED
    BY <1>12, <2>2, <2>3, <2>4 DEF writepage_start
<1>13. ASSUME NEW t \in JTasks, writepage_walk(t) PROVE HoldInv'
  BY <1>13 DEF writepage_walk, do_journal_get_write_access, write_end_fn, walk_refused
<1>14. ASSUME NEW t \in JTasks, writepage_stop(t) PROVE HoldInv'
  BY <1>14 DEF writepage_stop
<1>15. ASSUME NEW t \in JTasks, jbd2_writepage_walk(t) PROVE HoldInv'
  <2>1. /\ jpc[t] = "p_walk" /\ jlesson = "jbd2" /\ JGoto(t, "oops")
        /\ UNCHANGED <<jlesson, jsuper, info, jlock, aborted, refused>>
    BY <1>15 DEF jbd2_writepage_walk
  <2> QED
    BY <2>1
<1>16. ASSUME NEW t \in JTasks, in_place_write_begin(t), jlesson # "journal"
      PROVE  HoldInv'
  BY <1>16 DEF in_place_write_begin
<1>17. ASSUME NEW t \in JTasks, in_place_write_end(t), jlesson # "journal" PROVE HoldInv'
  <2>1. /\ jpc[t] \in WriteLabels /\ UNCHANGED <<jlesson, jsuper, info, aborted, refused>>
        /\ jlock' = Unlocked(t) /\ JGoto(t, "idle")
    BY <1>17 DEF in_place_write_end
  <2> QED
    BY <1>17, <2>1
<1>18. ASSUME NEW t \in JTasks, sync_file_call(t) PROVE HoldInv'
  BY <1>18 DEF sync_file_call, Content
<1>19. ASSUME NEW t \in JTasks, sync_file_commit(t) PROVE HoldInv'
  BY <1>19 DEF sync_file_commit, NoSync
<1>20. ASSUME NEW t \in JTasks, sync_file_return(t) PROVE HoldInv'
  BY <1>20 DEF sync_file_return, NoSync
<1>21. ASSUME NEW t \in JTasks, NEW p \in JPages, SyncLook(t, p), p \in pdirty
      PROVE  HoldInv'
  BY <1>21 DEF SyncLook, WritebackPage
<1>22. ASSUME NEW t \in JTasks, NEW p \in JPages, SyncLook(t, p), p \notin pdirty
      PROVE  HoldInv'
  BY <1>22 DEF SyncLook, WritebackPage
<1>23. ASSUME NEW t \in JTasks, NEW p \in JPages, WriteCall(t, p) PROVE HoldInv'
  BY <1>23 DEF WriteCall
<1>24. ASSUME NEW t \in JTasks, example_sync_fs(t) PROVE HoldInv'
  BY <1>24 DEF example_sync_fs
<1>25. ASSUME NEW t \in JTasks, NEW p \in JPages, Flush(t, p) PROVE HoldInv'
  BY <1>25 DEF Flush, WritebackPage
<1>26. ASSUME NEW t \in JTasks, bare_write_end(t) PROVE HoldInv'
  BY <1>26 DEF bare_write_end
<1> QED
  BY <1>1, <1>2, <1>3, <1>4, <1>5, <1>6, <1>7, <1>8, <1>9, <1>10, <1>11, <1>12, <1>13,
     <1>14, <1>15, <1>16, <1>17, <1>18, <1>19, <1>20, <1>21, <1>22, <1>23, <1>24, <1>25,
     <1>26
     DEF JNext, get_block_write, write_page_write, jbd2_write, JTasks


LEMMA CallInvInit == JInit => CallInv
<1> SUFFICES ASSUME JInit PROVE CallInv
  OBVIOUS
<1> QED
  BY JTypeInit, JournalAssumption
     DEF JInit, CallInv, DownInv, HoldInv, NoTask, NoLocks, PageLabels, WriteLabels, BareLabels,
         OwnLabels, JTasks

LEMMA CallInvStep == CallInv /\ [JNext]_jvars => CallInv'
<1>1. CASE JNext
  BY <1>1, JTasksStep, JPagesStep, DownStep, HoldStep DEF CallInv, JType
<1>2. CASE UNCHANGED jvars
  BY <1>2 DEF CallInv, JType, JTasksOK, JPagesOK, DownInv, HoldInv, jvars,
              mnt, bits, data, page, jrnl, sync
<1> QED
  BY <1>1, <1>2

LEMMA CallInvAlways == JSpec => []CallInv
  BY CallInvInit, CallInvStep, PTL DEF JSpec

LEMMA WriteInvInit == JInit => WriteInv
<1> SUFFICES ASSUME JInit PROVE WriteInv
  OBVIOUS
<1>1. PICK p \in JPages : TRUE
  BY JournalAssumption
<1>2. <<p, 0>> \in logged
  BY DEF JInit, Content
<1>3. \A q \in JPages : cur[q] = 0
  BY DEF JInit
<1>4. 0 \in Known
  BY <1>2 DEF Known
<1> QED
  BY <1>3, <1>4 DEF JInit, WriteInv, NoTask

LEMMA WriteInvStep == CallInv /\ WriteInv /\ JNext => WriteInv'
<1> SUFFICES ASSUME CallInv, WriteInv, JNext PROVE WriteInv'
  OBVIOUS
<1>0. JTasksOK /\ JPagesOK /\ HoldInv /\ DownInv
  BY DEF CallInv, JType
<1> USE <1>0 DEF WriteInv, Known, JTasksOK, JPagesOK, HoldInv, DownInv,
    PageLabels, WriteLabels, BareLabels, OwnLabels, mnt, bits, data, page, jrnl, sync, JAt, JStart, JGoto, Unlocked, Handle, Back, Journals
<1>1. ASSUME example_fill_super PROVE WriteInv'
  <2>1. /\ disk' = disk \/ disk' \in tail
        /\ logged \subseteq logged' /\ loose' = loose /\ tail' = tail
        /\ cur' = [p \in JPages |-> disk'] /\ bdirty' = bdirty
    BY <1>1 DEF example_fill_super, Replay
  <2>2. UNCHANGED <<jlesson, jpc, jpage>> /\ jsuper = "none"
    BY <1>1 DEF example_fill_super, Replay
  <2>3. Known \subseteq Known'
    BY <2>1
  <2> HIDE DEF Known
  <2>0. disk \in Known /\ tail \subseteq Known
    BY DEF WriteInv
  <2>4. disk' \in Known' /\ tail' \subseteq Known'
    <3> HIDE <1>0 DEF WriteInv
    <3> QED
      BY <2>0, <2>1, <2>3
  <2>5. /\ \A p \in JPages : cur'[p] \in Known'
        /\ bdirty' = {} /\ \A t \in JTasks : jpc'[t] = "idle"
    BY <2>1, <2>2, <2>4
  <2> QED
    BY <2>4, <2>5
<1>2. ASSUME Crash PROVE WriteInv'
  BY <1>2 DEF Crash, NoTask, NoLocks
<1>3. ASSUME JournalCommit PROVE WriteInv'
  <2>1. /\ logged' = logged \cup {<<p, cur[p]>> : p \in trans} /\ loose' = loose
        /\ tail' = (IF trans = {} THEN tail ELSE {cur[p] : p \in trans})
        /\ bdirty' = bdirty \cup trans
        /\ UNCHANGED <<jlesson, jpage, cur, disk, aborted>>
    BY <1>3 DEF JournalCommit, Content
  <2>2. /\ \A t \in JTasks : /\ ~ info[t]
                             /\ jpc'[t] \in {"w_copy", "w_end"} => jpc[t] = jpc'[t]
        /\ trans' = {}
    BY <1>3 DEF JournalCommit
  <2>3. Known \subseteq Known'
    BY <2>1
  <2>4. \A p \in trans : cur[p] \in Known'
    <3> SUFFICES ASSUME NEW p \in trans PROVE cur[p] \in Known'
      OBVIOUS
    <3>1. <<p, cur[p]>> \in logged'
      BY <2>1
    <3> QED
      BY <3>1
  <2> HIDE DEF Known
  <2>0. disk \in Known /\ tail \subseteq Known
    BY DEF WriteInv
  <2>5. disk' \in Known' /\ tail' \subseteq Known'
    <3> HIDE <1>0 DEF WriteInv
    <3> QED
      BY <2>0, <2>1, <2>3, <2>4
  <2>6. (\A p \in bdirty : cur[p] \in Known) /\ (jlesson # "journal" => \A p \in JPages : cur[p] \in Known)
    BY DEF WriteInv
  <2>7. /\ \A p \in bdirty' : cur'[p] \in Known'
        /\ jlesson' # "journal" => \A p \in JPages : cur'[p] \in Known'
    BY <2>1, <2>3, <2>4, <2>6
  <2>8. \A t \in JTasks : jpc'[t] \in {"w_copy", "w_end"} => jlesson # "journal"
    BY <2>2
  <2> QED
    BY <2>1, <2>2, <2>5, <2>7, <2>8
<1>4. ASSUME JournalAbort PROVE WriteInv'
  BY <1>4 DEF JournalAbort
<1>5. ASSUME NEW p \in JPages, Store(p) PROVE WriteInv'
  BY <1>5 DEF Store
<1>6. ASSUME NEW p \in JPages, example_journalled_set_page_dirty(p) PROVE WriteInv'
  BY <1>6 DEF example_journalled_set_page_dirty
<1>7. ASSUME NEW t \in JTasks, write_begin_start(t) PROVE WriteInv'
  BY <1>7 DEF write_begin_start
<1>8. ASSUME NEW t \in JTasks, write_begin_walk(t) PROVE WriteInv'
  BY <1>8 DEF write_begin_walk, do_journal_get_write_access, walk_refused
<1>9. ASSUME NEW t \in JTasks, WriteCopy(t) PROVE WriteInv'
  BY <1>9 DEF WriteCopy
<1>10. ASSUME NEW t \in JTasks, example_journalled_write_end(t) PROVE WriteInv'
  BY <1>10 DEF example_journalled_write_end, write_end_fn
<1>11. ASSUME NEW t \in JTasks, writepage_checkpoint(t) PROVE WriteInv'
  BY <1>11 DEF writepage_checkpoint
<1>12. ASSUME NEW t \in JTasks, writepage_start(t) PROVE WriteInv'
  BY <1>12 DEF writepage_start, NoSync
<1>13. ASSUME NEW t \in JTasks, writepage_walk(t) PROVE WriteInv'
  BY <1>13 DEF writepage_walk, do_journal_get_write_access, write_end_fn, walk_refused
<1>14. ASSUME NEW t \in JTasks, writepage_stop(t) PROVE WriteInv'
  BY <1>14 DEF writepage_stop
<1>15. ASSUME NEW t \in JTasks, jbd2_writepage_walk(t) PROVE WriteInv'
  BY <1>15 DEF jbd2_writepage_walk
<1>16. ASSUME NEW t \in JTasks, in_place_write_begin(t), jlesson # "journal"
      PROVE  WriteInv'
  BY <1>16 DEF in_place_write_begin
<1>17. ASSUME NEW t \in JTasks, in_place_write_end(t), jlesson # "journal" PROVE WriteInv'
  BY <1>17 DEF in_place_write_end
<1>18. ASSUME NEW t \in JTasks, sync_file_call(t) PROVE WriteInv'
  BY <1>18 DEF sync_file_call, Content
<1>19. ASSUME NEW t \in JTasks, sync_file_commit(t) PROVE WriteInv'
  BY <1>19 DEF sync_file_commit, NoSync
<1>20. ASSUME NEW t \in JTasks, sync_file_return(t) PROVE WriteInv'
  BY <1>20 DEF sync_file_return, NoSync
<1>21. ASSUME NEW t \in JTasks, NEW p \in JPages, SyncLook(t, p), p \in pdirty
      PROVE  WriteInv'
  <2>1. /\ UNCHANGED <<jlesson, bdirty, cur, loose, disk, tail, logged, aborted, trans>>
        /\ jpc' = [jpc EXCEPT ![t] = "p_start"] /\ jpage' = [jpage EXCEPT ![t] = p]
    BY <1>21 DEF SyncLook, WritebackPage
  <2> QED
    BY <2>1
<1>22. ASSUME NEW t \in JTasks, NEW p \in JPages, SyncLook(t, p), p \notin pdirty
      PROVE  WriteInv'
  <2>1. UNCHANGED <<jlesson, bdirty, cur, loose, disk, tail, logged, aborted, trans,
                    jpc, jpage>>
    BY <1>22 DEF SyncLook, WritebackPage
  <2> QED
    BY <2>1
<1>23. ASSUME NEW t \in JTasks, NEW p \in JPages, WriteCall(t, p) PROVE WriteInv'
  BY <1>23 DEF WriteCall
<1>24. ASSUME NEW t \in JTasks, example_sync_fs(t) PROVE WriteInv'
  BY <1>24 DEF example_sync_fs
<1>25. ASSUME NEW t \in JTasks, NEW p \in JPages, Flush(t, p) PROVE WriteInv'
  BY <1>25 DEF Flush, WritebackPage
<1>26. ASSUME NEW t \in JTasks, bare_write_end(t) PROVE WriteInv'
  BY <1>26 DEF bare_write_end
<1> QED
  BY <1>1, <1>2, <1>3, <1>4, <1>5, <1>6, <1>7, <1>8, <1>9, <1>10, <1>11, <1>12, <1>13,
     <1>14, <1>15, <1>16, <1>17, <1>18, <1>19, <1>20, <1>21, <1>22, <1>23, <1>24, <1>25,
     <1>26
     DEF JNext, get_block_write, write_page_write, jbd2_write, JTasks


LEMMA VersionStep == CallInv /\ VersionInv /\ JNext => VersionInv'
<1> SUFFICES ASSUME CallInv, VersionInv, JNext PROVE VersionInv'
  OBVIOUS
<1>0. JTasksOK /\ JPagesOK
  BY DEF CallInv, JType
<1> USE <1>0 DEF VersionInv, JTasksOK, JPagesOK, mnt, bits, data, page, jrnl, sync,
    JAt, JStart, JGoto, Unlocked, Handle, Back, Journals
<1>1. ASSUME example_fill_super PROVE VersionInv'
  BY <1>1 DEF example_fill_super, Replay
<1>2. ASSUME Crash PROVE VersionInv'
  BY <1>2 DEF Crash, NoTask, NoLocks
<1>3. ASSUME JournalCommit PROVE VersionInv'
  BY <1>3 DEF JournalCommit, Content
<1>4. ASSUME JournalAbort PROVE VersionInv'
  BY <1>4 DEF JournalAbort
<1>5. ASSUME NEW p \in JPages, Store(p) PROVE VersionInv'
  BY <1>5 DEF Store
<1>6. ASSUME NEW p \in JPages, example_journalled_set_page_dirty(p) PROVE VersionInv'
  BY <1>6 DEF example_journalled_set_page_dirty
<1>7. ASSUME NEW t \in JTasks, write_begin_start(t) PROVE VersionInv'
  BY <1>7 DEF write_begin_start
<1>8. ASSUME NEW t \in JTasks, write_begin_walk(t) PROVE VersionInv'
  BY <1>8 DEF write_begin_walk, do_journal_get_write_access, walk_refused
<1>9. ASSUME NEW t \in JTasks, WriteCopy(t) PROVE VersionInv'
  BY <1>9 DEF WriteCopy
<1>10. ASSUME NEW t \in JTasks, example_journalled_write_end(t) PROVE VersionInv'
  BY <1>10 DEF example_journalled_write_end, write_end_fn
<1>11. ASSUME NEW t \in JTasks, writepage_checkpoint(t) PROVE VersionInv'
  BY <1>11 DEF writepage_checkpoint
<1>12. ASSUME NEW t \in JTasks, writepage_start(t) PROVE VersionInv'
  BY <1>12 DEF writepage_start, NoSync
<1>13. ASSUME NEW t \in JTasks, writepage_walk(t) PROVE VersionInv'
  BY <1>13 DEF writepage_walk, do_journal_get_write_access, write_end_fn, walk_refused
<1>14. ASSUME NEW t \in JTasks, writepage_stop(t) PROVE VersionInv'
  BY <1>14 DEF writepage_stop
<1>15. ASSUME NEW t \in JTasks, jbd2_writepage_walk(t) PROVE VersionInv'
  BY <1>15 DEF jbd2_writepage_walk
<1>16. ASSUME NEW t \in JTasks, in_place_write_begin(t), jlesson # "journal"
      PROVE  VersionInv'
  BY <1>16 DEF in_place_write_begin
<1>17. ASSUME NEW t \in JTasks, in_place_write_end(t), jlesson # "journal"
      PROVE  VersionInv'
  BY <1>17 DEF in_place_write_end
<1>18. ASSUME NEW t \in JTasks, sync_file_call(t) PROVE VersionInv'
  BY <1>18 DEF sync_file_call, Content
<1>19. ASSUME NEW t \in JTasks, sync_file_commit(t) PROVE VersionInv'
  BY <1>19 DEF sync_file_commit, NoSync
<1>20. ASSUME NEW t \in JTasks, sync_file_return(t) PROVE VersionInv'
  BY <1>20 DEF sync_file_return, NoSync
<1>21. ASSUME NEW t \in JTasks, NEW p \in JPages, SyncLook(t, p), p \in pdirty
      PROVE  VersionInv'
  <2>1. UNCHANGED <<cur, ver, disk, tail>>
    BY <1>21 DEF SyncLook, WritebackPage
  <2> QED
    BY <2>1
<1>22. ASSUME NEW t \in JTasks, NEW p \in JPages, SyncLook(t, p), p \notin pdirty
      PROVE  VersionInv'
  BY <1>22 DEF SyncLook, WritebackPage
<1>23. ASSUME NEW t \in JTasks, NEW p \in JPages, WriteCall(t, p) PROVE VersionInv'
  BY <1>23 DEF WriteCall
<1>24. ASSUME NEW t \in JTasks, example_sync_fs(t) PROVE VersionInv'
  BY <1>24 DEF example_sync_fs
<1>25. ASSUME NEW t \in JTasks, NEW p \in JPages, Flush(t, p) PROVE VersionInv'
  BY <1>25 DEF Flush, WritebackPage
<1>26. ASSUME NEW t \in JTasks, bare_write_end(t) PROVE VersionInv'
  BY <1>26 DEF bare_write_end
<1> QED
  BY <1>1, <1>2, <1>3, <1>4, <1>5, <1>6, <1>7, <1>8, <1>9, <1>10, <1>11, <1>12, <1>13,
     <1>14, <1>15, <1>16, <1>17, <1>18, <1>19, <1>20, <1>21, <1>22, <1>23, <1>24, <1>25,
     <1>26
     DEF JNext, get_block_write, write_page_write, jbd2_write, JTasks

\* What is logged stays so, and what is on its way stays on it.
Kept(p, v) == /\ Logged(p, v) => Logged(p, v)'
              /\ Joining(p, v) => Logged(p, v)' \/ Joining(p, v)'
              /\ Waiting(p, v) => Owed(p, v)'

LEMMA KeptStep ==
  ASSUME CallInv, VersionInv, JNext, Good, Good', NEW q \in JPages, NEW v \in Nat
  PROVE  Kept(q, v)
<1>0. /\ JTasksOK /\ JPagesOK /\ HoldInv /\ ~ aborted /\ ~ aborted'
      /\ jlesson = "journal" /\ jsuper = "mounted" /\ jsuper' = "mounted"
      /\ "no" \notin JTasks
  BY JournalAssumption DEF JTasks, CallInv, JType, Good
<1> USE <1>0 DEF Kept, Owed, Logged, Joining, JoinLabels, Waiting, VersionInv, JTasksOK, JPagesOK,
    HoldInv,
    PageLabels, WriteLabels, BareLabels, OwnLabels, mnt, bits, data, page, jrnl, sync, JAt, JStart, JGoto, Unlocked, Handle, Back, Journals
<1>1. ASSUME example_fill_super PROVE Kept(q, v)
  BY <1>1 DEF example_fill_super, Replay
<1>2. ASSUME Crash PROVE Kept(q, v)
  BY <1>2 DEF Crash, NoTask, NoLocks
<1>3. ASSUME JournalCommit PROVE Kept(q, v)
  <2>1. /\ logged' = logged \cup {<<p, cur[p]>> : p \in trans} /\ trans' = {}
        /\ pdirty' = pdirty \cup trans /\ tag' = tag \cup trans
        /\ UNCHANGED <<cur, checked, jlock, jpage>> /\ \A t \in JTasks : ~ info[t]
    BY <1>3 DEF JournalCommit, Content
  <2>2. \A t \in JTasks : jpc'[t] \in PageLabels => jpc'[t] = jpc[t]
    BY <1>3 DEF JournalCommit
  <2>3. ASSUME q \in trans, cur[q] >= v PROVE Logged(q, v)'
    <3>1. <<q, cur[q]>> \in logged'
      BY <2>1, <2>3
    <3> QED
      BY <3>1, <2>3
  <2>4. Joining(q, v) => q \in trans /\ cur[q] >= v
    BY <2>1
  <2>5. Waiting(q, v) => Waiting(q, v)'
    BY <2>1, <2>2
  <2> QED
    BY <2>1, <2>3, <2>4, <2>5
<1>4. ASSUME JournalAbort PROVE Kept(q, v)
  BY <1>4 DEF JournalAbort
<1>5. ASSUME NEW p \in JPages, Store(p) PROVE Kept(q, v)
  BY <1>5 DEF Store
<1>6. ASSUME NEW p \in JPages, example_journalled_set_page_dirty(p) PROVE Kept(q, v)
  BY <1>6 DEF example_journalled_set_page_dirty
<1>7. ASSUME NEW t \in JTasks, write_begin_start(t) PROVE Kept(q, v)
  BY <1>7 DEF write_begin_start
<1>8. ASSUME NEW t \in JTasks, write_begin_walk(t) PROVE Kept(q, v)
  BY <1>8 DEF write_begin_walk, do_journal_get_write_access, walk_refused
<1>9. ASSUME NEW t \in JTasks, WriteCopy(t) PROVE Kept(q, v)
  BY <1>9 DEF WriteCopy
<1>10. ASSUME NEW t \in JTasks, example_journalled_write_end(t) PROVE Kept(q, v)
  BY <1>10 DEF example_journalled_write_end, write_end_fn
<1>11. ASSUME NEW t \in JTasks, writepage_checkpoint(t) PROVE Kept(q, v)
  BY <1>11 DEF writepage_checkpoint
<1>12. ASSUME NEW t \in JTasks, writepage_start(t) PROVE Kept(q, v)
  BY <1>12 DEF writepage_start, NoSync
<1>13. ASSUME NEW t \in JTasks, writepage_walk(t) PROVE Kept(q, v)
  BY <1>13 DEF writepage_walk, do_journal_get_write_access, write_end_fn, walk_refused
<1>14. ASSUME NEW t \in JTasks, writepage_stop(t) PROVE Kept(q, v)
  BY <1>14 DEF writepage_stop
<1>15. ASSUME NEW t \in JTasks, jbd2_writepage_walk(t) PROVE Kept(q, v)
  BY <1>15 DEF jbd2_writepage_walk
<1>16. ASSUME NEW t \in JTasks, in_place_write_begin(t), jlesson # "journal"
      PROVE  Kept(q, v)
  BY <1>16 DEF in_place_write_begin
<1>17. ASSUME NEW t \in JTasks, in_place_write_end(t), jlesson # "journal"
      PROVE  Kept(q, v)
  BY <1>17 DEF in_place_write_end
<1>18. ASSUME NEW t \in JTasks, sync_file_call(t) PROVE Kept(q, v)
  BY <1>18 DEF sync_file_call, Content
<1>19. ASSUME NEW t \in JTasks, sync_file_commit(t) PROVE Kept(q, v)
  BY <1>19 DEF sync_file_commit, NoSync
<1>20. ASSUME NEW t \in JTasks, sync_file_return(t) PROVE Kept(q, v)
  BY <1>20 DEF sync_file_return, NoSync
<1>21. ASSUME NEW t \in JTasks, NEW p \in JPages, SyncLook(t, p), p \in pdirty
      PROVE  Kept(q, v)
  <2>1. /\ p \in pdirty /\ jlock[p] = "no" /\ jpc[t] \in {"idle", "s_look"}
        /\ jlock' = [jlock EXCEPT ![p] = t] /\ pdirty' = pdirty \ {p}
        /\ jpc' = [jpc EXCEPT ![t] = "p_start"] /\ jpage' = [jpage EXCEPT ![t] = p]
        /\ UNCHANGED <<logged, cur, trans, checked, tag>>
    BY <1>21 DEF SyncLook, WritebackPage
  <2>2. Joining(q, v) => Joining(q, v)'
    BY <2>1
  <2>3. ASSUME NEW u \in JTasks, jpc'[u] \in PageLabels \ {"p_start"} PROVE jpage'[u] # p
    BY <2>1, <2>3
  <2>4. Waiting(q, v) => Waiting(q, v)'
    BY <2>1, <2>3
  <2> QED
    BY <2>1, <2>2, <2>4
<1>22. ASSUME NEW t \in JTasks, NEW p \in JPages, SyncLook(t, p), p \notin pdirty
      PROVE  Kept(q, v)
  BY <1>22 DEF SyncLook, WritebackPage
<1>23. ASSUME NEW t \in JTasks, NEW p \in JPages, WriteCall(t, p) PROVE Kept(q, v)
  BY <1>23 DEF WriteCall
<1>24. ASSUME NEW t \in JTasks, example_sync_fs(t) PROVE Kept(q, v)
  BY <1>24 DEF example_sync_fs
<1>25. ASSUME NEW t \in JTasks, NEW p \in JPages, Flush(t, p) PROVE Kept(q, v)
  <2>1. /\ p \in pdirty /\ jlock[p] = "no" /\ jpc[t] \in {"idle", "s_look"}
        /\ jlock' = [jlock EXCEPT ![p] = t] /\ pdirty' = pdirty \ {p}
        /\ jpc' = [jpc EXCEPT ![t] = "p_start"] /\ jpage' = [jpage EXCEPT ![t] = p]
        /\ UNCHANGED <<logged, cur, trans, checked, tag>>
    BY <1>25 DEF Flush, WritebackPage
  <2>2. Joining(q, v) => Joining(q, v)'
    BY <2>1
  <2>3. ASSUME NEW u \in JTasks, jpc'[u] \in PageLabels \ {"p_start"} PROVE jpage'[u] # p
    BY <2>1, <2>3
  <2>4. Waiting(q, v) => Waiting(q, v)'
    BY <2>1, <2>3
  <2> QED
    BY <2>1, <2>2, <2>4
<1>26. ASSUME NEW t \in JTasks, bare_write_end(t) PROVE Kept(q, v)
  BY <1>26 DEF bare_write_end
<1> QED
  BY <1>1, <1>2, <1>3, <1>4, <1>5, <1>6, <1>7, <1>8, <1>9, <1>10, <1>11, <1>12, <1>13,
     <1>14, <1>15, <1>16, <1>17, <1>18, <1>19, <1>20, <1>21, <1>22, <1>23, <1>24, <1>25,
     <1>26
     DEF JNext, get_block_write, write_page_write, jbd2_write, JTasks


LEMMA SyncInvInit == JInit => SyncInv
<1> SUFFICES ASSUME JInit PROVE SyncInv
  OBVIOUS
<1> USE DEF JInit, NoTask
<1>1. VersionInv
  BY DEF VersionInv
<1>2. Settled /\ WantInv
  BY DEF Settled, WantInv, Good
<1>3. FlushInv /\ SyncCommitted
  BY DEF FlushInv, SyncCommitted
<1> QED
  BY <1>1, <1>2, <1>3 DEF SyncInv

\* A fresh mount has read every page from the disk.
LEMMA MountLogged ==
  ASSUME JType, example_fill_super, NEW p \in JPages PROVE Logged(p, cur[p])'
<1>1. /\ logged' = logged \cup {<<q, disk'>> : q \in JPages}
      /\ cur' = [q \in JPages |-> disk'] /\ disk' \in Nat
  BY DEF example_fill_super, Replay, JType, JPagesOK
<1>2. <<p, disk'>> \in logged' /\ cur'[p] = disk'
  BY <1>1
<1> QED
  BY <1>1, <1>2 DEF Logged

\* Where a page's content comes from.
LEMMA ContentStep ==
  ASSUME CallInv, JNext, Good, Good', NEW q \in JPages \ storing'
  PROVE  \/ q \notin storing /\ cur'[q] = cur[q]
         \/ Joining(q, cur[q])' \/ Waiting(q, cur[q])'
<1> DEFINE Comes == \/ q \notin storing /\ cur'[q] = cur[q]
                    \/ Joining(q, cur[q])' \/ Waiting(q, cur[q])'
<1>0. /\ JTasksOK /\ JPagesOK /\ jlesson = "journal" /\ jsuper = "mounted"
      /\ ~ aborted /\ ~ aborted' /\ jsuper' = "mounted"
  BY DEF CallInv, JType, Good
<1> USE <1>0 DEF Joining, JoinLabels, Waiting, JTasksOK, JPagesOK, PageLabels, WriteLabels, BareLabels, mnt,
    bits, data, page, jrnl, sync, JAt, JStart, JGoto, Unlocked, Handle, Back, Journals
<1>1. ASSUME example_fill_super PROVE Comes
  BY <1>1 DEF example_fill_super, Replay
<1>2. ASSUME Crash PROVE Comes
  BY <1>2 DEF Crash, NoTask, NoLocks
<1>3. ASSUME JournalCommit PROVE Comes
  BY <1>3 DEF JournalCommit, Content
<1>4. ASSUME JournalAbort PROVE Comes
  BY <1>4 DEF JournalAbort
<1>5. ASSUME NEW p \in JPages, Store(p) PROVE Comes
  BY <1>5 DEF Store
<1>6. ASSUME NEW p \in JPages, example_journalled_set_page_dirty(p) PROVE Comes
  <2>1. /\ cur' = cur /\ storing' = storing \ {p} /\ checked' = checked \cup {p}
        /\ pdirty' = pdirty \cup {p} /\ tag' = tag \cup {p}
    BY <1>6 DEF example_journalled_set_page_dirty
  <2>2. CASE q = p
    BY <2>1, <2>2
  <2>3. CASE q # p
    BY <2>1, <2>3
  <2> QED
    BY <2>2, <2>3
<1>7. ASSUME NEW t \in JTasks, write_begin_start(t) PROVE Comes
  BY <1>7 DEF write_begin_start
<1>8. ASSUME NEW t \in JTasks, write_begin_walk(t) PROVE Comes
  BY <1>8 DEF write_begin_walk, do_journal_get_write_access, walk_refused
<1>9. ASSUME NEW t \in JTasks, WriteCopy(t) PROVE Comes
  <2>1. UNCHANGED storing /\ jpage[t] \in JPages
    BY <1>9 DEF WriteCopy
  <2>2. CASE UNCHANGED <<ver, cur, loose>>
    BY <2>1, <2>2
  <2>3. CASE /\ ver' = ver + 1 /\ cur' = [cur EXCEPT ![jpage[t]] = ver']
             /\ JGoto(t, "w_end") \/ JGoto(t, "b_end")
    <3>1. CASE q = jpage[t]
      <4>1. jpc'[t] \in JoinLabels /\ jpage'[t] = q /\ cur'[q] \in Nat
        BY <2>3, <3>1
      <4> QED
        BY <4>1
    <3>2. CASE q # jpage[t]
      BY <2>1, <2>3, <3>2
    <3> QED
      BY <3>1, <3>2
  <2> QED
    BY <1>9, <2>2, <2>3 DEF WriteCopy
<1>10. ASSUME NEW t \in JTasks, example_journalled_write_end(t) PROVE Comes
  BY <1>10 DEF example_journalled_write_end, write_end_fn
<1>11. ASSUME NEW t \in JTasks, writepage_checkpoint(t) PROVE Comes
  BY <1>11 DEF writepage_checkpoint
<1>12. ASSUME NEW t \in JTasks, writepage_start(t) PROVE Comes
  BY <1>12 DEF writepage_start, NoSync
<1>13. ASSUME NEW t \in JTasks, writepage_walk(t) PROVE Comes
  BY <1>13 DEF writepage_walk, do_journal_get_write_access, write_end_fn, walk_refused
<1>14. ASSUME NEW t \in JTasks, writepage_stop(t) PROVE Comes
  BY <1>14 DEF writepage_stop
<1>15. ASSUME NEW t \in JTasks, jbd2_writepage_walk(t) PROVE Comes
  BY <1>15 DEF jbd2_writepage_walk
<1>16. ASSUME NEW t \in JTasks, in_place_write_begin(t), jlesson # "journal" PROVE Comes
  BY <1>16 DEF in_place_write_begin
<1>17. ASSUME NEW t \in JTasks, in_place_write_end(t), jlesson # "journal" PROVE Comes
  BY <1>17 DEF in_place_write_end
<1>18. ASSUME NEW t \in JTasks, sync_file_call(t) PROVE Comes
  BY <1>18 DEF sync_file_call, Content
<1>19. ASSUME NEW t \in JTasks, sync_file_commit(t) PROVE Comes
  BY <1>19 DEF sync_file_commit, NoSync
<1>20. ASSUME NEW t \in JTasks, sync_file_return(t) PROVE Comes
  BY <1>20 DEF sync_file_return, NoSync
<1>21. ASSUME NEW t \in JTasks, NEW p \in JPages, SyncLook(t, p), p \in pdirty PROVE Comes
  BY <1>21 DEF SyncLook, WritebackPage
<1>22. ASSUME NEW t \in JTasks, NEW p \in JPages, SyncLook(t, p), p \notin pdirty
      PROVE  Comes
  BY <1>22 DEF SyncLook, WritebackPage
<1>23. ASSUME NEW t \in JTasks, NEW p \in JPages, WriteCall(t, p) PROVE Comes
  BY <1>23 DEF WriteCall
<1>24. ASSUME NEW t \in JTasks, example_sync_fs(t) PROVE Comes
  BY <1>24 DEF example_sync_fs
<1>25. ASSUME NEW t \in JTasks, NEW p \in JPages, Flush(t, p) PROVE Comes
  BY <1>25 DEF Flush, WritebackPage
<1>26. ASSUME NEW t \in JTasks, bare_write_end(t) PROVE Comes
  BY <1>26 DEF bare_write_end
<1> QED
  BY <1>1, <1>2, <1>3, <1>4, <1>5, <1>6, <1>7, <1>8, <1>9, <1>10, <1>11, <1>12, <1>13,
     <1>14, <1>15, <1>16, <1>17, <1>18, <1>19, <1>20, <1>21, <1>22, <1>23, <1>24, <1>25,
     <1>26
     DEF JNext, get_block_write, write_page_write, jbd2_write, JTasks

\* Only a mount brings a journal into use.
LEMMA GoodStep == ASSUME JType, JNext, ~ Good, Good' PROVE example_fill_super
<1> SUFFICES ASSUME ~ example_fill_super PROVE FALSE
  OBVIOUS
<1> USE DEF JType, JPagesOK, Good, mnt, bits, data, page, jrnl, sync, JAt, JStart,
    JGoto, Unlocked, Handle, Back, Journals
<1>1. ASSUME example_fill_super PROVE FALSE
  BY <1>1
<1>2. ASSUME Crash PROVE FALSE
  BY <1>2 DEF Crash, NoTask, NoLocks
<1>3. ASSUME JournalCommit PROVE FALSE
  BY <1>3 DEF JournalCommit, Content
<1>4. ASSUME JournalAbort PROVE FALSE
  BY <1>4 DEF JournalAbort
<1>5. ASSUME NEW p \in JPages, Store(p) PROVE FALSE
  BY <1>5 DEF Store
<1>6. ASSUME NEW p \in JPages, example_journalled_set_page_dirty(p) PROVE FALSE
  BY <1>6 DEF example_journalled_set_page_dirty
<1>7. ASSUME NEW t \in JTasks, write_begin_start(t) PROVE FALSE
  BY <1>7 DEF write_begin_start
<1>8. ASSUME NEW t \in JTasks, write_begin_walk(t) PROVE FALSE
  BY <1>8 DEF write_begin_walk, do_journal_get_write_access, walk_refused
<1>9. ASSUME NEW t \in JTasks, WriteCopy(t) PROVE FALSE
  BY <1>9 DEF WriteCopy
<1>10. ASSUME NEW t \in JTasks, example_journalled_write_end(t) PROVE FALSE
  BY <1>10 DEF example_journalled_write_end, write_end_fn
<1>11. ASSUME NEW t \in JTasks, writepage_checkpoint(t) PROVE FALSE
  BY <1>11 DEF writepage_checkpoint
<1>12. ASSUME NEW t \in JTasks, writepage_start(t) PROVE FALSE
  BY <1>12 DEF writepage_start, NoSync
<1>13. ASSUME NEW t \in JTasks, writepage_walk(t) PROVE FALSE
  BY <1>13 DEF writepage_walk, do_journal_get_write_access, write_end_fn, walk_refused
<1>14. ASSUME NEW t \in JTasks, writepage_stop(t) PROVE FALSE
  BY <1>14 DEF writepage_stop
<1>15. ASSUME NEW t \in JTasks, jbd2_writepage_walk(t) PROVE FALSE
  BY <1>15 DEF jbd2_writepage_walk
<1>16. ASSUME NEW t \in JTasks, in_place_write_begin(t), jlesson # "journal" PROVE FALSE
  BY <1>16 DEF in_place_write_begin
<1>17. ASSUME NEW t \in JTasks, in_place_write_end(t), jlesson # "journal" PROVE FALSE
  BY <1>17 DEF in_place_write_end
<1>18. ASSUME NEW t \in JTasks, sync_file_call(t) PROVE FALSE
  BY <1>18 DEF sync_file_call, Content
<1>19. ASSUME NEW t \in JTasks, sync_file_commit(t) PROVE FALSE
  BY <1>19 DEF sync_file_commit, NoSync
<1>20. ASSUME NEW t \in JTasks, sync_file_return(t) PROVE FALSE
  BY <1>20 DEF sync_file_return, NoSync
<1>21. ASSUME NEW t \in JTasks, NEW p \in JPages, SyncLook(t, p), p \in pdirty PROVE FALSE
  BY <1>21 DEF SyncLook, WritebackPage
<1>22. ASSUME NEW t \in JTasks, NEW p \in JPages, SyncLook(t, p), p \notin pdirty
      PROVE  FALSE
  BY <1>22 DEF SyncLook, WritebackPage
<1>23. ASSUME NEW t \in JTasks, NEW p \in JPages, WriteCall(t, p) PROVE FALSE
  BY <1>23 DEF WriteCall
<1>24. ASSUME NEW t \in JTasks, example_sync_fs(t) PROVE FALSE
  BY <1>24 DEF example_sync_fs
<1>25. ASSUME NEW t \in JTasks, NEW p \in JPages, Flush(t, p) PROVE FALSE
  BY <1>25 DEF Flush, WritebackPage
<1>26. ASSUME NEW t \in JTasks, bare_write_end(t) PROVE FALSE
  BY <1>26 DEF bare_write_end
<1> QED
  BY <1>1, <1>2, <1>3, <1>4, <1>5, <1>6, <1>7, <1>8, <1>9, <1>10, <1>11, <1>12, <1>13,
     <1>14, <1>15, <1>16, <1>17, <1>18, <1>19, <1>20, <1>21, <1>22, <1>23, <1>24, <1>25,
     <1>26
     DEF JNext, get_block_write, write_page_write, jbd2_write, JTasks

LEMMA SettledStep == CallInv /\ VersionInv /\ Settled /\ JNext => Settled'
<1> SUFFICES ASSUME CallInv, CallInv', VersionInv, Settled, JNext, Good',
                    NEW p \in JPages \ storing'
             PROVE  Owed(p, cur[p])'
  BY CallInvStep DEF Settled
<1>1. cur[p] \in Nat /\ cur'[p] \in Nat
  BY DEF CallInv, JType, JPagesOK
<1>2. CASE ~ Good
  <2>1. example_fill_super
    BY <1>2, GoodStep DEF CallInv
  <2> QED
    BY <2>1, MountLogged DEF CallInv, Owed
<1>3. CASE Good
  <2>1. CASE p \notin storing /\ cur'[p] = cur[p]
    <3>1. PICK c \in Nat : c = cur[p]
      BY <1>1
    <3>2. Kept(p, c)
      BY <1>3, KeptStep
    <3>3. Owed(p, cur[p])
      BY <1>3, <2>1 DEF Settled
    <3>4. Owed(p, c)
      BY <3>1, <3>3
    <3>5. Owed(p, c)'
      BY <3>2, <3>4 DEF Kept, Owed
    <3> QED
      BY <2>1, <3>1, <3>5 DEF Owed, Logged, Joining, Waiting
  <2> QED
    BY <1>3, <2>1, ContentStep DEF Owed
<1> QED
  BY <1>2, <1>3

LEMMA WantStep ==
  ASSUME JType, JNext, NEW u \in JTasks
  PROVE  \/ want'[u] = {}
         \/ want'[u] = want[u] /\ todo'[u] = todo[u]
         \/ sync_file_call(u)
         \/ \E p \in JPages : SyncLook(u, p)
<1> DEFINE Goal == \/ want'[u] = {}
                   \/ want'[u] = want[u] /\ todo'[u] = todo[u]
                   \/ sync_file_call(u)
                   \/ \E p \in JPages : SyncLook(u, p)
<1> USE DEF JType, JTasksOK, mnt, bits, data, page, jrnl, sync, JAt, JStart, JGoto,
    Unlocked, Handle, Back, Journals
<1>1. ASSUME example_fill_super PROVE Goal
  BY <1>1 DEF example_fill_super, Replay
<1>2. ASSUME Crash PROVE Goal
  BY <1>2 DEF Crash, NoTask, NoLocks
<1>3. ASSUME JournalCommit PROVE Goal
  BY <1>3 DEF JournalCommit, Content
<1>4. ASSUME JournalAbort PROVE Goal
  BY <1>4 DEF JournalAbort
<1>5. ASSUME NEW p \in JPages, Store(p) PROVE Goal
  BY <1>5 DEF Store
<1>6. ASSUME NEW p \in JPages, example_journalled_set_page_dirty(p) PROVE Goal
  BY <1>6 DEF example_journalled_set_page_dirty
<1>7. ASSUME NEW t \in JTasks, write_begin_start(t) PROVE Goal
  BY <1>7 DEF write_begin_start
<1>8. ASSUME NEW t \in JTasks, write_begin_walk(t) PROVE Goal
  BY <1>8 DEF write_begin_walk, do_journal_get_write_access, walk_refused
<1>9. ASSUME NEW t \in JTasks, WriteCopy(t) PROVE Goal
  BY <1>9 DEF WriteCopy
<1>10. ASSUME NEW t \in JTasks, example_journalled_write_end(t) PROVE Goal
  BY <1>10 DEF example_journalled_write_end, write_end_fn
<1>11. ASSUME NEW t \in JTasks, writepage_checkpoint(t) PROVE Goal
  BY <1>11 DEF writepage_checkpoint
<1>12. ASSUME NEW t \in JTasks, writepage_start(t) PROVE Goal
  BY <1>12 DEF writepage_start, NoSync
<1>13. ASSUME NEW t \in JTasks, writepage_walk(t) PROVE Goal
  BY <1>13 DEF writepage_walk, do_journal_get_write_access, write_end_fn, walk_refused
<1>14. ASSUME NEW t \in JTasks, writepage_stop(t) PROVE Goal
  BY <1>14 DEF writepage_stop
<1>15. ASSUME NEW t \in JTasks, jbd2_writepage_walk(t) PROVE Goal
  BY <1>15 DEF jbd2_writepage_walk
<1>16. ASSUME NEW t \in JTasks, in_place_write_begin(t), jlesson # "journal" PROVE Goal
  BY <1>16 DEF in_place_write_begin
<1>17. ASSUME NEW t \in JTasks, in_place_write_end(t), jlesson # "journal" PROVE Goal
  BY <1>17 DEF in_place_write_end
<1>18. ASSUME NEW t \in JTasks, sync_file_call(t) PROVE Goal
  BY <1>18 DEF sync_file_call, Content
<1>19. ASSUME NEW t \in JTasks, sync_file_commit(t) PROVE Goal
  BY <1>19 DEF sync_file_commit, NoSync
<1>20. ASSUME NEW t \in JTasks, sync_file_return(t) PROVE Goal
  BY <1>20 DEF sync_file_return, NoSync
<1>21. ASSUME NEW t \in JTasks, NEW p \in JPages, SyncLook(t, p), p \in pdirty PROVE Goal
  BY <1>21 DEF SyncLook, WritebackPage
<1>22. ASSUME NEW t \in JTasks, NEW p \in JPages, SyncLook(t, p), p \notin pdirty
      PROVE  Goal
  BY <1>22 DEF SyncLook, WritebackPage
<1>23. ASSUME NEW t \in JTasks, NEW p \in JPages, WriteCall(t, p) PROVE Goal
  BY <1>23 DEF WriteCall
<1>24. ASSUME NEW t \in JTasks, example_sync_fs(t) PROVE Goal
  BY <1>24 DEF example_sync_fs
<1>25. ASSUME NEW t \in JTasks, NEW p \in JPages, Flush(t, p) PROVE Goal
  BY <1>25 DEF Flush, WritebackPage
<1>26. ASSUME NEW t \in JTasks, bare_write_end(t) PROVE Goal
  BY <1>26 DEF bare_write_end
<1> QED
  BY <1>1, <1>2, <1>3, <1>4, <1>5, <1>6, <1>7, <1>8, <1>9, <1>10, <1>11, <1>12, <1>13,
     <1>14, <1>15, <1>16, <1>17, <1>18, <1>19, <1>20, <1>21, <1>22, <1>23, <1>24, <1>25,
     <1>26
     DEF JNext, get_block_write, write_page_write, jbd2_write, JTasks


LEMMA StartStep ==
  ASSUME JType, JNext, Good, Good', NEW u \in JTasks, jpc[u] = "p_start"
  PROVE  \/ jpc'[u] = "p_start" /\ jpage'[u] = jpage[u]
         \/ writepage_checkpoint(u) \/ writepage_start(u)
<1> DEFINE Goal == \/ jpc'[u] = "p_start" /\ jpage'[u] = jpage[u]
                   \/ writepage_checkpoint(u) \/ writepage_start(u)
<1> USE DEF JType, JTasksOK, Good, mnt, bits, data, page, jrnl, sync, JAt, JStart,
    JGoto, Unlocked, Handle, Back, Journals
<1>1. ASSUME example_fill_super PROVE Goal
  BY <1>1 DEF example_fill_super, Replay
<1>2. ASSUME Crash PROVE Goal
  BY <1>2 DEF Crash, NoTask, NoLocks
<1>3. ASSUME JournalCommit PROVE Goal
  BY <1>3 DEF JournalCommit, Content
<1>4. ASSUME JournalAbort PROVE Goal
  BY <1>4 DEF JournalAbort
<1>5. ASSUME NEW p \in JPages, Store(p) PROVE Goal
  BY <1>5 DEF Store
<1>6. ASSUME NEW p \in JPages, example_journalled_set_page_dirty(p) PROVE Goal
  BY <1>6 DEF example_journalled_set_page_dirty
<1>7. ASSUME NEW t \in JTasks, write_begin_start(t) PROVE Goal
  BY <1>7 DEF write_begin_start
<1>8. ASSUME NEW t \in JTasks, write_begin_walk(t) PROVE Goal
  BY <1>8 DEF write_begin_walk, do_journal_get_write_access, walk_refused
<1>9. ASSUME NEW t \in JTasks, WriteCopy(t) PROVE Goal
  BY <1>9 DEF WriteCopy
<1>10. ASSUME NEW t \in JTasks, example_journalled_write_end(t) PROVE Goal
  BY <1>10 DEF example_journalled_write_end, write_end_fn
<1>11. ASSUME NEW t \in JTasks, writepage_checkpoint(t) PROVE Goal
  BY <1>11 DEF writepage_checkpoint
<1>12. ASSUME NEW t \in JTasks, writepage_start(t) PROVE Goal
  BY <1>12 DEF writepage_start, NoSync
<1>13. ASSUME NEW t \in JTasks, writepage_walk(t) PROVE Goal
  BY <1>13 DEF writepage_walk, do_journal_get_write_access, write_end_fn, walk_refused
<1>14. ASSUME NEW t \in JTasks, writepage_stop(t) PROVE Goal
  BY <1>14 DEF writepage_stop
<1>15. ASSUME NEW t \in JTasks, jbd2_writepage_walk(t) PROVE Goal
  BY <1>15 DEF jbd2_writepage_walk
<1>16. ASSUME NEW t \in JTasks, in_place_write_begin(t), jlesson # "journal" PROVE Goal
  BY <1>16 DEF in_place_write_begin
<1>17. ASSUME NEW t \in JTasks, in_place_write_end(t), jlesson # "journal" PROVE Goal
  BY <1>17 DEF in_place_write_end
<1>18. ASSUME NEW t \in JTasks, sync_file_call(t) PROVE Goal
  BY <1>18 DEF sync_file_call, Content
<1>19. ASSUME NEW t \in JTasks, sync_file_commit(t) PROVE Goal
  BY <1>19 DEF sync_file_commit, NoSync
<1>20. ASSUME NEW t \in JTasks, sync_file_return(t) PROVE Goal
  BY <1>20 DEF sync_file_return, NoSync
<1>21. ASSUME NEW t \in JTasks, NEW p \in JPages, SyncLook(t, p), p \in pdirty PROVE Goal
  BY <1>21 DEF SyncLook, WritebackPage
<1>22. ASSUME NEW t \in JTasks, NEW p \in JPages, SyncLook(t, p), p \notin pdirty
      PROVE  Goal
  BY <1>22 DEF SyncLook, WritebackPage
<1>23. ASSUME NEW t \in JTasks, NEW p \in JPages, WriteCall(t, p) PROVE Goal
  BY <1>23 DEF WriteCall
<1>24. ASSUME NEW t \in JTasks, example_sync_fs(t) PROVE Goal
  BY <1>24 DEF example_sync_fs
<1>25. ASSUME NEW t \in JTasks, NEW p \in JPages, Flush(t, p) PROVE Goal
  BY <1>25 DEF Flush, WritebackPage
<1>26. ASSUME NEW t \in JTasks, bare_write_end(t) PROVE Goal
  BY <1>26 DEF bare_write_end
<1> QED
  BY <1>1, <1>2, <1>3, <1>4, <1>5, <1>6, <1>7, <1>8, <1>9, <1>10, <1>11, <1>12, <1>13,
     <1>14, <1>15, <1>16, <1>17, <1>18, <1>19, <1>20, <1>21, <1>22, <1>23, <1>24, <1>25,
     <1>26
     DEF JNext, get_block_write, write_page_write, jbd2_write, JTasks

\* A handle that was left over before sync_file was called stays.
LEMMA LeftStep ==
  ASSUME JType, FlushInv, JNext, NEW u \in JTasks, Left(u), want[u] # {},
         want'[u] # {}
  PROVE  Left(u)'
<1> DEFINE Goal == Left(u)'
<1>0. JTasksOK /\ jpc[u] \in SyncLabels /\ jpc[u] \notin OwnLabels /\ info[u]
      /\ jlesson = "journal"
  BY DEF JType, FlushInv, Left
<1> USE <1>0 DEF JTasksOK, Left, SyncLabels, OwnLabels, mnt, bits, data, page, jrnl,
    sync, JAt, JStart, JGoto, Unlocked, Handle, Back, Journals
<1>1. ASSUME example_fill_super PROVE Goal
  BY <1>1 DEF example_fill_super, Replay
<1>2. ASSUME Crash PROVE Goal
  BY <1>2 DEF Crash, NoTask, NoLocks
<1>3. ASSUME JournalCommit PROVE Goal
  BY <1>3 DEF JournalCommit, Content
<1>4. ASSUME JournalAbort PROVE Goal
  BY <1>4 DEF JournalAbort
<1>5. ASSUME NEW p \in JPages, Store(p) PROVE Goal
  BY <1>5 DEF Store
<1>6. ASSUME NEW p \in JPages, example_journalled_set_page_dirty(p) PROVE Goal
  BY <1>6 DEF example_journalled_set_page_dirty
<1>7. ASSUME NEW t \in JTasks, write_begin_start(t) PROVE Goal
  BY <1>7 DEF write_begin_start
<1>8. ASSUME NEW t \in JTasks, write_begin_walk(t) PROVE Goal
  BY <1>8 DEF write_begin_walk, do_journal_get_write_access, walk_refused
<1>9. ASSUME NEW t \in JTasks, WriteCopy(t) PROVE Goal
  BY <1>9 DEF WriteCopy
<1>10. ASSUME NEW t \in JTasks, example_journalled_write_end(t) PROVE Goal
  BY <1>10 DEF example_journalled_write_end, write_end_fn
<1>11. ASSUME NEW t \in JTasks, writepage_checkpoint(t) PROVE Goal
  BY <1>11 DEF writepage_checkpoint
<1>12. ASSUME NEW t \in JTasks, writepage_start(t) PROVE Goal
  BY <1>12 DEF writepage_start, NoSync
<1>13. ASSUME NEW t \in JTasks, writepage_walk(t) PROVE Goal
  BY <1>13 DEF writepage_walk, do_journal_get_write_access, write_end_fn, walk_refused
<1>14. ASSUME NEW t \in JTasks, writepage_stop(t) PROVE Goal
  BY <1>14 DEF writepage_stop
<1>15. ASSUME NEW t \in JTasks, jbd2_writepage_walk(t) PROVE Goal
  BY <1>15 DEF jbd2_writepage_walk
<1>16. ASSUME NEW t \in JTasks, in_place_write_begin(t), jlesson # "journal" PROVE Goal
  BY <1>16 DEF in_place_write_begin
<1>17. ASSUME NEW t \in JTasks, in_place_write_end(t), jlesson # "journal" PROVE Goal
  BY <1>17 DEF in_place_write_end
<1>18. ASSUME NEW t \in JTasks, sync_file_call(t) PROVE Goal
  BY <1>18 DEF sync_file_call, Content
<1>19. ASSUME NEW t \in JTasks, sync_file_commit(t) PROVE Goal
  BY <1>19 DEF sync_file_commit, NoSync
<1>20. ASSUME NEW t \in JTasks, sync_file_return(t) PROVE Goal
  BY <1>20 DEF sync_file_return, NoSync
<1>21. ASSUME NEW t \in JTasks, NEW p \in JPages, SyncLook(t, p), p \in pdirty PROVE Goal
  BY <1>21 DEF SyncLook, WritebackPage
<1>22. ASSUME NEW t \in JTasks, NEW p \in JPages, SyncLook(t, p), p \notin pdirty
      PROVE  Goal
  BY <1>22 DEF SyncLook, WritebackPage
<1>23. ASSUME NEW t \in JTasks, NEW p \in JPages, WriteCall(t, p) PROVE Goal
  BY <1>23 DEF WriteCall
<1>24. ASSUME NEW t \in JTasks, example_sync_fs(t) PROVE Goal
  BY <1>24 DEF example_sync_fs
<1>25. ASSUME NEW t \in JTasks, NEW p \in JPages, Flush(t, p) PROVE Goal
  BY <1>25 DEF Flush, WritebackPage
<1>26. ASSUME NEW t \in JTasks, bare_write_end(t) PROVE Goal
  BY <1>26 DEF bare_write_end
<1> QED
  BY <1>1, <1>2, <1>3, <1>4, <1>5, <1>6, <1>7, <1>8, <1>9, <1>10, <1>11, <1>12, <1>13,
     <1>14, <1>15, <1>16, <1>17, <1>18, <1>19, <1>20, <1>21, <1>22, <1>23, <1>24, <1>25,
     <1>26
     DEF JNext, get_block_write, write_page_write, jbd2_write, JTasks

LEMMA WantInvStep ==
  CallInv /\ VersionInv /\ Settled /\ WantInv /\ FlushInv /\ JNext => WantInv'
<1> SUFFICES ASSUME CallInv, VersionInv, Settled, WantInv, FlushInv, JNext, Good',
                    NEW t \in JTasks, NEW p \in JPages, NEW v \in Nat,
                    <<p, v>> \in want'[t]
             PROVE  Owed(p, v)' /\ (p \notin todo'[t] => Looked(t, p, v)')
  BY DEF WantInv
<1>0. JType /\ DownInv /\ HoldInv /\ want'[t] # {}
  BY DEF CallInv
<1>1. Good
  <2> SUFFICES ASSUME ~ Good PROVE FALSE
    OBVIOUS
  <2>1. example_fill_super
    BY <1>0, GoodStep
  <2>2. want'[t] = {}
    BY <1>0, <2>1 DEF example_fill_super, Replay, DownInv, sync
  <2> QED
    BY <2>2
<1>2. Kept(p, v)
  BY <1>1, KeptStep
<1>3. CASE want'[t] = want[t] /\ todo'[t] = todo[t]
  <2>1. Owed(p, v) /\ (p \notin todo[t] => Looked(t, p, v))
    BY <1>1, <1>3 DEF WantInv
  <2>2. Owed(p, v)'
    BY <1>2, <2>1 DEF Kept, Owed
  <2>3. ASSUME Left(t) PROVE Looked(t, p, v)'
    BY <1>0, <1>3, <2>3, LeftStep DEF Looked
  <2>4. ASSUME jpc[t] = "p_start", jpage[t] = p, Waiting(p, v), ~ Left(t)
        PROVE  Looked(t, p, v)'
    <3>1. CASE jpc'[t] = "p_start" /\ jpage'[t] = p
      BY <2>2, <3>1 DEF Looked, Owed
    <3>2. ~ writepage_checkpoint(t)
      BY <2>4 DEF writepage_checkpoint, Waiting
    <3>3. CASE writepage_start(t)
      <4>1. ~ info[t] /\ ~ aborted
        BY <1>1, <2>4 DEF Left, OwnLabels, Good
      <4>2. jpc'[t] = "p_walk" /\ jpage'[t] = p /\ cur' = cur
        BY <1>0, <1>3, <2>4, <3>3, <4>1
           DEF writepage_start, NoSync, JGoto, JStart, JType, JTasksOK, data
      <4> QED
        BY <2>4, <4>2 DEF Looked, Joining, JoinLabels, Waiting
    <3> QED
      BY <1>0, <1>1, <2>4, <3>1, <3>2, <3>3, StartStep
  <2> QED
    BY <1>2, <1>3, <2>1, <2>2, <2>3, <2>4 DEF Kept, Looked
<1>4. CASE sync_file_call(t)
  <2>1. /\ want'[t] = Content(JPages \ storing) /\ todo'[t] = JPages
    BY <1>0, <1>4 DEF sync_file_call, JType, JTasksOK
  <2>2. p \in JPages \ storing /\ v = cur[p]
    BY <2>1 DEF Content
  <2>3. Owed(p, v)
    BY <1>1, <2>2 DEF Settled
  <2> QED
    BY <1>2, <2>1, <2>3 DEF Kept, Owed
<1>5. ASSUME NEW q \in JPages, SyncLook(t, q)
      PROVE  Owed(p, v)' /\ (p \notin todo'[t] => Looked(t, p, v)')
  <2>1. /\ jpc[t] = "s_look" /\ want' = want /\ todo'[t] = todo[t] \ {q}
    BY <1>0, <1>5 DEF SyncLook, JAt, JType, JTasksOK
  <2>2. Owed(p, v) /\ (p \notin todo[t] => Looked(t, p, v))
    BY <1>1, <2>1 DEF WantInv
  <2>3. Owed(p, v)'
    BY <1>2, <2>2 DEF Kept, Owed
  <2>4. CASE p \notin todo[t]
    <3>1. Left(t) => Left(t)'
      BY <1>0, <2>1, LeftStep
    <3> QED
      BY <1>2, <2>1, <2>2, <2>3, <2>4, <3>1 DEF Kept, Looked
  <2>5. CASE q = p /\ p \in pdirty
    <3>1. jpc'[t] = "p_start" /\ jpage'[t] = p
      BY <1>0, <1>5, <2>5 DEF SyncLook, WritebackPage, JStart, JType, JTasksOK
    <3> QED
      BY <2>3, <3>1 DEF Looked, Owed
  <2>6. CASE q = p /\ p \notin pdirty
    <3>1. ~ Waiting(p, v)
      BY <1>5, <2>6 DEF SyncLook, Waiting
    <3> QED
      BY <1>2, <2>2, <2>3, <3>1 DEF Kept, Owed, Looked
  <2> QED
    BY <2>1, <2>3, <2>4, <2>5, <2>6
<1> QED
  BY <1>0, <1>3, <1>4, <1>5, WantStep

LEMMA LoggedStep == JType /\ JNext => logged \subseteq logged'
<1> SUFFICES ASSUME JType, JNext PROVE logged \subseteq logged'
  OBVIOUS
<1> USE DEF mnt, bits, data, page, jrnl, sync, JAt, JStart, JGoto, Unlocked, Handle,
    Back, Journals
<1>1. ASSUME example_fill_super PROVE logged \subseteq logged'
  BY <1>1 DEF example_fill_super, Replay
<1>2. ASSUME Crash PROVE logged \subseteq logged'
  BY <1>2 DEF Crash, NoTask, NoLocks
<1>3. ASSUME JournalCommit PROVE logged \subseteq logged'
  BY <1>3 DEF JournalCommit, Content
<1>4. ASSUME JournalAbort PROVE logged \subseteq logged'
  BY <1>4 DEF JournalAbort
<1>5. ASSUME NEW p \in JPages, Store(p) PROVE logged \subseteq logged'
  BY <1>5 DEF Store
<1>6. ASSUME NEW p \in JPages, example_journalled_set_page_dirty(p)
      PROVE  logged \subseteq logged'
  BY <1>6 DEF example_journalled_set_page_dirty
<1>7. ASSUME NEW t \in JTasks, write_begin_start(t) PROVE logged \subseteq logged'
  BY <1>7 DEF write_begin_start
<1>8. ASSUME NEW t \in JTasks, write_begin_walk(t) PROVE logged \subseteq logged'
  BY <1>8 DEF write_begin_walk, do_journal_get_write_access, walk_refused
<1>9. ASSUME NEW t \in JTasks, WriteCopy(t) PROVE logged \subseteq logged'
  BY <1>9 DEF WriteCopy
<1>10. ASSUME NEW t \in JTasks, example_journalled_write_end(t)
      PROVE  logged \subseteq logged'
  BY <1>10 DEF example_journalled_write_end, write_end_fn
<1>11. ASSUME NEW t \in JTasks, writepage_checkpoint(t) PROVE logged \subseteq logged'
  BY <1>11 DEF writepage_checkpoint
<1>12. ASSUME NEW t \in JTasks, writepage_start(t) PROVE logged \subseteq logged'
  BY <1>12 DEF writepage_start, NoSync
<1>13. ASSUME NEW t \in JTasks, writepage_walk(t) PROVE logged \subseteq logged'
  BY <1>13 DEF writepage_walk, do_journal_get_write_access, write_end_fn, walk_refused
<1>14. ASSUME NEW t \in JTasks, writepage_stop(t) PROVE logged \subseteq logged'
  BY <1>14 DEF writepage_stop
<1>15. ASSUME NEW t \in JTasks, jbd2_writepage_walk(t) PROVE logged \subseteq logged'
  BY <1>15 DEF jbd2_writepage_walk
<1>16. ASSUME NEW t \in JTasks, in_place_write_begin(t), jlesson # "journal"
      PROVE  logged \subseteq logged'
  BY <1>16 DEF in_place_write_begin
<1>17. ASSUME NEW t \in JTasks, in_place_write_end(t), jlesson # "journal"
      PROVE  logged \subseteq logged'
  BY <1>17 DEF in_place_write_end
<1>18. ASSUME NEW t \in JTasks, sync_file_call(t) PROVE logged \subseteq logged'
  BY <1>18 DEF sync_file_call, Content
<1>19. ASSUME NEW t \in JTasks, sync_file_commit(t) PROVE logged \subseteq logged'
  BY <1>19 DEF sync_file_commit, NoSync
<1>20. ASSUME NEW t \in JTasks, sync_file_return(t) PROVE logged \subseteq logged'
  BY <1>20 DEF sync_file_return, NoSync
<1>21. ASSUME NEW t \in JTasks, NEW p \in JPages, SyncLook(t, p), p \in pdirty
      PROVE  logged \subseteq logged'
  BY <1>21 DEF SyncLook, WritebackPage
<1>22. ASSUME NEW t \in JTasks, NEW p \in JPages, SyncLook(t, p), p \notin pdirty
      PROVE  logged \subseteq logged'
  BY <1>22 DEF SyncLook, WritebackPage
<1>23. ASSUME NEW t \in JTasks, NEW p \in JPages, WriteCall(t, p)
      PROVE  logged \subseteq logged'
  BY <1>23 DEF WriteCall
<1>24. ASSUME NEW t \in JTasks, example_sync_fs(t) PROVE logged \subseteq logged'
  BY <1>24 DEF example_sync_fs
<1>25. ASSUME NEW t \in JTasks, NEW p \in JPages, Flush(t, p)
      PROVE  logged \subseteq logged'
  BY <1>25 DEF Flush, WritebackPage
<1>26. ASSUME NEW t \in JTasks, bare_write_end(t) PROVE logged \subseteq logged'
  BY <1>26 DEF bare_write_end
<1> QED
  BY <1>1, <1>2, <1>3, <1>4, <1>5, <1>6, <1>7, <1>8, <1>9, <1>10, <1>11, <1>12, <1>13,
     <1>14, <1>15, <1>16, <1>17, <1>18, <1>19, <1>20, <1>21, <1>22, <1>23, <1>24, <1>25,
     <1>26
     DEF JNext, get_block_write, write_page_write, jbd2_write, JTasks

LEMMA FlushInvStep == CallInv /\ VersionInv /\ WantInv /\ FlushInv /\ JNext => FlushInv'
<1> SUFFICES ASSUME CallInv, VersionInv, WantInv, FlushInv, JNext PROVE FlushInv'
  OBVIOUS
<1>0. JTasksOK /\ logged \subseteq logged'
  BY LoggedStep DEF CallInv, JType
<1> USE <1>0 DEF FlushInv, Logged, SyncLabels, JTasksOK, mnt, bits, data, page, jrnl, sync, JAt,
    JStart, JGoto, Unlocked, Handle, Back, Journals
<1>1. ASSUME example_fill_super PROVE FlushInv'
  BY <1>1 DEF example_fill_super, Replay
<1>2. ASSUME Crash PROVE FlushInv'
  BY <1>2 DEF Crash, NoTask, NoLocks
<1>3. ASSUME JournalCommit PROVE FlushInv'
  <2>1. /\ UNCHANGED <<jlesson, todo, want>> /\ ~ aborted /\ jsuper = "mounted" /\ trans' = {}
        /\ \A t \in JTasks : ~ info[t] /\ jpc'[t] # "s_commit"
        /\ \A t \in JTasks : jpc'[t] = "s_flush" => jpc[t] \in {"s_commit", "s_flush"}
        /\ \A t \in JTasks : jpc'[t] \in JoinLabels => jpc'[t] = jpc[t]
        /\ \A t \in JTasks : jpc[t] \in SyncLabels => jpc'[t] \in SyncLabels
    BY <1>3 DEF JournalCommit, JoinLabels
  <2>2. ASSUME NEW t \in JTasks, jpc[t] = "s_commit", NEW p \in JPages, NEW v \in Nat,
               <<p, v>> \in want[t]
        PROVE  Logged(p, v)'
    <3>1. Good /\ Good' /\ todo[t] = {}
      BY <1>3, <2>1, <2>2 DEF Good, JournalCommit
    <3>2. Kept(p, v)
      BY <3>1, KeptStep
    <3>3. Logged(p, v) \/ Joining(p, v)
      BY <2>1, <2>2, <3>1 DEF WantInv, Looked, Left
    <3>4. \A u \in JTasks : jpc[u] \notin JoinLabels
      BY <2>1, <3>1 DEF Good, CallInv, HoldInv, OwnLabels, BareLabels, JoinLabels
    <3>5. ~ Joining(p, v)'
      BY <2>1, <3>4 DEF Joining
    <3> QED
      BY <3>2, <3>3, <3>5 DEF Kept
  <2>3. \A p \in JPages, v \in Nat : Logged(p, v) => Logged(p, v)'
    BY <1>0
  <2> HIDE DEF Logged
  <2>4. ASSUME NEW t \in JTasks, jpc'[t] = "s_flush", NEW p \in JPages, NEW v \in Nat,
               <<p, v>> \in want'[t]
        PROVE  Logged(p, v)'
    BY <2>1, <2>2, <2>3, <2>4
  <2>5. \A t \in JTasks : jpc'[t] \in {"s_commit", "s_flush"} => todo'[t] = {}
    BY <2>1
  <2>6. \A t \in JTasks : want'[t] # {} =>
           jlesson' = "journal" /\ jpc'[t] \in SyncLabels
    BY <2>1
  <2> QED
    BY <2>4, <2>5, <2>6
<1>4. ASSUME JournalAbort PROVE FlushInv'
  BY <1>4 DEF JournalAbort
<1>5. ASSUME NEW p \in JPages, Store(p) PROVE FlushInv'
  BY <1>5 DEF Store
<1>6. ASSUME NEW p \in JPages, example_journalled_set_page_dirty(p) PROVE FlushInv'
  BY <1>6 DEF example_journalled_set_page_dirty
<1>7. ASSUME NEW t \in JTasks, write_begin_start(t) PROVE FlushInv'
  BY <1>7 DEF write_begin_start
<1>8. ASSUME NEW t \in JTasks, write_begin_walk(t) PROVE FlushInv'
  BY <1>8 DEF write_begin_walk, do_journal_get_write_access, walk_refused
<1>9. ASSUME NEW t \in JTasks, WriteCopy(t) PROVE FlushInv'
  BY <1>9 DEF WriteCopy
<1>10. ASSUME NEW t \in JTasks, example_journalled_write_end(t) PROVE FlushInv'
  BY <1>10 DEF example_journalled_write_end, write_end_fn
<1>11. ASSUME NEW t \in JTasks, writepage_checkpoint(t) PROVE FlushInv'
  BY <1>11 DEF writepage_checkpoint
<1>12. ASSUME NEW t \in JTasks, writepage_start(t) PROVE FlushInv'
  BY <1>12 DEF writepage_start, NoSync
<1>13. ASSUME NEW t \in JTasks, writepage_walk(t) PROVE FlushInv'
  BY <1>13 DEF writepage_walk, do_journal_get_write_access, write_end_fn, walk_refused
<1>14. ASSUME NEW t \in JTasks, writepage_stop(t) PROVE FlushInv'
  BY <1>14 DEF writepage_stop
<1>15. ASSUME NEW t \in JTasks, jbd2_writepage_walk(t) PROVE FlushInv'
  BY <1>15 DEF jbd2_writepage_walk
<1>16. ASSUME NEW t \in JTasks, in_place_write_begin(t), jlesson # "journal"
      PROVE  FlushInv'
  BY <1>16 DEF in_place_write_begin
<1>17. ASSUME NEW t \in JTasks, in_place_write_end(t), jlesson # "journal" PROVE FlushInv'
  BY <1>17 DEF in_place_write_end
<1>18. ASSUME NEW t \in JTasks, sync_file_call(t) PROVE FlushInv'
  BY <1>18 DEF sync_file_call, Content
<1>19. ASSUME NEW t \in JTasks, sync_file_commit(t) PROVE FlushInv'
  BY <1>19 DEF sync_file_commit, NoSync
<1>20. ASSUME NEW t \in JTasks, sync_file_return(t) PROVE FlushInv'
  BY <1>20 DEF sync_file_return, NoSync
<1>21. ASSUME NEW t \in JTasks, NEW p \in JPages, SyncLook(t, p), p \in pdirty
      PROVE  FlushInv'
  BY <1>21 DEF SyncLook, WritebackPage
<1>22. ASSUME NEW t \in JTasks, NEW p \in JPages, SyncLook(t, p), p \notin pdirty
      PROVE  FlushInv'
  BY <1>22 DEF SyncLook, WritebackPage
<1>23. ASSUME NEW t \in JTasks, NEW p \in JPages, WriteCall(t, p) PROVE FlushInv'
  BY <1>23 DEF WriteCall
<1>24. ASSUME NEW t \in JTasks, example_sync_fs(t) PROVE FlushInv'
  BY <1>24 DEF example_sync_fs
<1>25. ASSUME NEW t \in JTasks, NEW p \in JPages, Flush(t, p) PROVE FlushInv'
  BY <1>25 DEF Flush, WritebackPage
<1>26. ASSUME NEW t \in JTasks, bare_write_end(t) PROVE FlushInv'
  BY <1>26 DEF bare_write_end
<1> QED
  BY <1>1, <1>2, <1>3, <1>4, <1>5, <1>6, <1>7, <1>8, <1>9, <1>10, <1>11, <1>12, <1>13,
     <1>14, <1>15, <1>16, <1>17, <1>18, <1>19, <1>20, <1>21, <1>22, <1>23, <1>24, <1>25,
     <1>26
     DEF JNext, get_block_write, write_page_write, jbd2_write, JTasks

LEMMA SyncedStep == JType /\ FlushInv /\ SyncCommitted /\ JNext => SyncCommitted'
<1> SUFFICES ASSUME JType, FlushInv, SyncCommitted, JNext PROVE SyncCommitted'
  OBVIOUS
<1>0. logged \subseteq logged'
  BY LoggedStep
<1>same. UNCHANGED synced => SyncCommitted'
  BY <1>0 DEF SyncCommitted
<1> USE DEF mnt, bits, data, page, jrnl, sync, JAt, JStart, JGoto, Unlocked, Handle,
    Back, Journals
<1>1. ASSUME example_fill_super PROVE SyncCommitted'
  <2>1. UNCHANGED synced
    BY <1>1 DEF example_fill_super, Replay
  <2> QED
    BY <2>1, <1>same
<1>2. ASSUME Crash PROVE SyncCommitted'
  <2>1. UNCHANGED synced
    BY <1>2 DEF Crash, NoTask, NoLocks
  <2> QED
    BY <2>1, <1>same
<1>3. ASSUME JournalCommit PROVE SyncCommitted'
  <2>1. UNCHANGED synced
    BY <1>3 DEF JournalCommit, Content
  <2> QED
    BY <2>1, <1>same
<1>4. ASSUME JournalAbort PROVE SyncCommitted'
  <2>1. UNCHANGED synced
    BY <1>4 DEF JournalAbort
  <2> QED
    BY <2>1, <1>same
<1>5. ASSUME NEW p \in JPages, Store(p) PROVE SyncCommitted'
  <2>1. UNCHANGED synced
    BY <1>5 DEF Store
  <2> QED
    BY <2>1, <1>same
<1>6. ASSUME NEW p \in JPages, example_journalled_set_page_dirty(p) PROVE SyncCommitted'
  <2>1. UNCHANGED synced
    BY <1>6 DEF example_journalled_set_page_dirty
  <2> QED
    BY <2>1, <1>same
<1>7. ASSUME NEW t \in JTasks, write_begin_start(t) PROVE SyncCommitted'
  <2>1. UNCHANGED synced
    BY <1>7 DEF write_begin_start
  <2> QED
    BY <2>1, <1>same
<1>8. ASSUME NEW t \in JTasks, write_begin_walk(t) PROVE SyncCommitted'
  <2>1. UNCHANGED synced
    BY <1>8 DEF write_begin_walk, do_journal_get_write_access, walk_refused
  <2> QED
    BY <2>1, <1>same
<1>9. ASSUME NEW t \in JTasks, WriteCopy(t) PROVE SyncCommitted'
  <2>1. UNCHANGED synced
    BY <1>9 DEF WriteCopy
  <2> QED
    BY <2>1, <1>same
<1>10. ASSUME NEW t \in JTasks, example_journalled_write_end(t) PROVE SyncCommitted'
  <2>1. UNCHANGED synced
    BY <1>10 DEF example_journalled_write_end, write_end_fn
  <2> QED
    BY <2>1, <1>same
<1>11. ASSUME NEW t \in JTasks, writepage_checkpoint(t) PROVE SyncCommitted'
  <2>1. UNCHANGED synced
    BY <1>11 DEF writepage_checkpoint
  <2> QED
    BY <2>1, <1>same
<1>12. ASSUME NEW t \in JTasks, writepage_start(t) PROVE SyncCommitted'
  <2>1. UNCHANGED synced
    BY <1>12 DEF writepage_start, NoSync
  <2> QED
    BY <2>1, <1>same
<1>13. ASSUME NEW t \in JTasks, writepage_walk(t) PROVE SyncCommitted'
  <2>1. UNCHANGED synced
    BY <1>13 DEF writepage_walk, do_journal_get_write_access, write_end_fn, walk_refused
  <2> QED
    BY <2>1, <1>same
<1>14. ASSUME NEW t \in JTasks, writepage_stop(t) PROVE SyncCommitted'
  <2>1. UNCHANGED synced
    BY <1>14 DEF writepage_stop
  <2> QED
    BY <2>1, <1>same
<1>15. ASSUME NEW t \in JTasks, jbd2_writepage_walk(t) PROVE SyncCommitted'
  <2>1. UNCHANGED synced
    BY <1>15 DEF jbd2_writepage_walk
  <2> QED
    BY <2>1, <1>same
<1>16. ASSUME NEW t \in JTasks, in_place_write_begin(t), jlesson # "journal"
      PROVE  SyncCommitted'
  <2>1. UNCHANGED synced
    BY <1>16 DEF in_place_write_begin
  <2> QED
    BY <2>1, <1>same
<1>17. ASSUME NEW t \in JTasks, in_place_write_end(t), jlesson # "journal"
      PROVE  SyncCommitted'
  <2>1. UNCHANGED synced
    BY <1>17 DEF in_place_write_end
  <2> QED
    BY <2>1, <1>same
<1>18. ASSUME NEW t \in JTasks, sync_file_call(t) PROVE SyncCommitted'
  <2>1. UNCHANGED synced
    BY <1>18 DEF sync_file_call, Content
  <2> QED
    BY <2>1, <1>same
<1>19. ASSUME NEW t \in JTasks, sync_file_commit(t) PROVE SyncCommitted'
  <2>1. UNCHANGED synced
    BY <1>19 DEF sync_file_commit, NoSync
  <2> QED
    BY <2>1, <1>same
<1>20. ASSUME NEW t \in JTasks, sync_file_return(t) PROVE SyncCommitted'
  <2>1. jpc[t] = "s_flush" /\ synced' \subseteq synced \cup want[t]
    BY <1>20 DEF sync_file_return
  <2>2. ASSUME NEW s \in want[t] PROVE \E l \in logged : l[1] = s[1] /\ l[2] >= s[2]
    <3>1. PICK p \in JPages, v \in Nat : s = <<p, v>>
      BY DEF JType, JTasksOK
    <3>2. Logged(p, v)
      BY <2>1, <3>1 DEF FlushInv
    <3> QED
      BY <3>1, <3>2 DEF Logged
  <2> QED
    BY <1>0, <2>1, <2>2 DEF SyncCommitted
<1>21. ASSUME NEW t \in JTasks, NEW p \in JPages, SyncLook(t, p), p \in pdirty
      PROVE  SyncCommitted'
  <2>1. UNCHANGED synced
    BY <1>21 DEF SyncLook, WritebackPage
  <2> QED
    BY <2>1, <1>same
<1>22. ASSUME NEW t \in JTasks, NEW p \in JPages, SyncLook(t, p), p \notin pdirty
      PROVE  SyncCommitted'
  <2>1. UNCHANGED synced
    BY <1>22 DEF SyncLook, WritebackPage
  <2> QED
    BY <2>1, <1>same
<1>23. ASSUME NEW t \in JTasks, NEW p \in JPages, WriteCall(t, p) PROVE SyncCommitted'
  <2>1. UNCHANGED synced
    BY <1>23 DEF WriteCall
  <2> QED
    BY <2>1, <1>same
<1>24. ASSUME NEW t \in JTasks, example_sync_fs(t) PROVE SyncCommitted'
  <2>1. UNCHANGED synced
    BY <1>24 DEF example_sync_fs
  <2> QED
    BY <2>1, <1>same
<1>25. ASSUME NEW t \in JTasks, NEW p \in JPages, Flush(t, p) PROVE SyncCommitted'
  <2>1. UNCHANGED synced
    BY <1>25 DEF Flush, WritebackPage
  <2> QED
    BY <2>1, <1>same
<1>26. ASSUME NEW t \in JTasks, bare_write_end(t) PROVE SyncCommitted'
  <2>1. UNCHANGED synced
    BY <1>26 DEF bare_write_end
  <2> QED
    BY <2>1, <1>same
<1> QED
  BY <1>1, <1>2, <1>3, <1>4, <1>5, <1>6, <1>7, <1>8, <1>9, <1>10, <1>11, <1>12, <1>13,
     <1>14, <1>15, <1>16, <1>17, <1>18, <1>19, <1>20, <1>21, <1>22, <1>23, <1>24, <1>25,
     <1>26
     DEF JNext, get_block_write, write_page_write, jbd2_write, JTasks

LEMMA SyncInvStep == CallInv /\ SyncInv /\ [JNext]_jvars => SyncInv'
<1>1. ASSUME CallInv, SyncInv, JNext PROVE SyncInv'
  <2>1. JType
    BY <1>1 DEF CallInv
  <2> QED
    BY <1>1, <2>1, VersionStep, SettledStep, WantInvStep, FlushInvStep,
       SyncedStep DEF SyncInv
<1>2. ASSUME SyncInv, UNCHANGED jvars PROVE SyncInv'
  BY <1>2 DEF SyncInv, VersionInv, Settled, WantInv, FlushInv, SyncCommitted, Good, Owed,
              Looked, Left, Logged, Joining, Waiting, jvars, mnt, bits, data, page, jrnl, sync
<1> QED
  BY <1>1, <1>2

\* A task that is back in user space has no page lock and no handle, but for
\* the early returns of write_begin and writepage, write_end never meets a NULL
\* handle, and nobody dies in journal before access was refused or the journal
\* aborted: for any number of writers, flushers, pages and mounts.
THEOREM JournalCallsBalanced == JSpec => []CallsBalanced
<1>1. CallInv => CallsBalanced
  BY DEF CallInv, HoldInv, CallsBalanced, PageLabels, WriteLabels, BareLabels, OwnLabels
<1> QED
  BY <1>1, CallInvAlways, PTL

\* What write(2) put into a page reaches its block, by write-back or by replay
\* after a crash, only after it was committed.
THEOREM JournalWriteAhead == JSpec => []WriteAhead
<1>1. CallInv /\ WriteInv /\ [JNext]_jvars => WriteInv'
  <2>1. ASSUME WriteInv, UNCHANGED jvars PROVE WriteInv'
    BY <2>1 DEF WriteInv, Known, jvars, mnt, bits, data, page, jrnl, sync
  <2> QED
    BY <2>1, WriteInvStep
<1>2. WriteInv => WriteAhead
  BY DEF WriteInv, WriteAhead, Known
<1> QED
  BY <1>1, <1>2, WriteInvInit, CallInvAlways, PTL DEF JSpec

\* When sync_file has returned 0, what it was called for has been committed,
\* whatever writers, flushers, stores through a mapping, crashes, handles that
\* other tasks left open and an abort of the journal came in between.
THEOREM SyncIsCommitted == JSpec => []SyncCommitted
<1>1. SyncInv => SyncCommitted
  BY DEF SyncInv
<1> QED
  BY <1>1, SyncInvInit, SyncInvStep, CallInvAlways, PTL DEF JSpec

(***************************************************************************)
(* FsMount.  A module with references is live, and the references are      *)
(* those of the mounts.                                                    *)
(***************************************************************************)
PinInv ==
    /\ lesson \in DOMAIN Lesson
    /\ mref \in Nat /\ stray \in Nat /\ ModulePinned
    /\ mref > 0 => module = "live"
    /\ module = "coming" => mounter = "idle" /\ sb = "none"
    /\ mounter = "fill" => sb = "none"

InodeInv == names \subseteq Names /\ iref \in Int /\ owed \in Nat /\ InodesHeld

MountInv == PinInv /\ InodeInv /\ mfaults \subseteq KnownMountFaults

\* What fill_super comes to, in whatever lesson.
LEMMA FillResults ==
  ASSUME NEW l \in DOMAIN Lesson, NEW f \in Lesson[l].fill
  PROVE  f.result \in {"ok", "error", "oops"}
<1>1. Lesson[l].fill \in {plain_fill, journal_fill, min_mountable_fill, never_mount_fill,
                         nodev_no_fill_sb_fill}
  BY DEF Lesson, Row, min_device_fill, min_root_fill, min_read_fill, sb_bread_fill,
         block_page_read_fill, page_cache_read_fill, bread_fill, buffer_read_fill,
         submit_bh_readpage_fill, get_block_fill, write_page_fill, jbd2_fill
<1> QED
  BY <1>1 DEF plain_fill, journal_fill, min_mountable_fill, never_mount_fill,
              nodev_no_fill_sb_fill, Fill

LEMMA MountInit == MInit => MountInv
<1> SUFFICES ASSUME MInit PROVE MountInv
  OBVIOUS
<1>1. PinInv
  BY LessonsAssumption DEF MInit, PinInv, ModulePinned, Count
<1>2. Cardinality({}) = 0
  BY FS_EmptySet
<1>3. InodeInv
  BY <1>2 DEF MInit, InodeInv, InodesHeld
<1> QED
  BY <1>1, <1>3 DEF MInit, MountInv

LEMMA PinStep == PinInv /\ MNext => PinInv'
<1> SUFFICES ASSUME PinInv, MNext PROVE PinInv'
  OBVIOUS
<1> USE DEF PinInv, ModulePinned, Count, pins, fsmod, fsino
<1>1. ASSUME init_example_fs PROVE PinInv'
  BY <1>1 DEF init_example_fs
<1>2. ASSUME delete_module PROVE PinInv'
  BY <1>2 DEF delete_module
<1>3. ASSUME exit_example_fs PROVE PinInv'
  BY <1>3 DEF exit_example_fs
<1>4. ASSUME get_fs_type PROVE PinInv'
  BY <1>4 DEF get_fs_type
<1>5. ASSUME example_fs_mount PROVE PinInv'
  BY <1>5 DEF example_fs_mount
<1>6. ASSUME mount_bdev PROVE PinInv'
  BY <1>6 DEF mount_bdev, Stray
<1>7. ASSUME Umount PROVE PinInv'
  BY <1>7 DEF Umount
<1>8. ASSUME NEW f \in Lesson[lesson].fill, example_fill_super_of(f) PROVE PinInv'
  <2>1. /\ mounter = "fill" /\ UNCHANGED <<lesson, module, mref>>
        /\ sb = "none" /\ (pins => module = "live")
    BY <1>8 DEF example_fill_super_of
  <2>2. CASE f.result = "ok"
    BY <1>8, <2>1, <2>2 DEF example_fill_super_of
  <2>3. CASE f.result = "error"
    BY <1>8, <2>1, <2>3 DEF example_fill_super_of
  <2>4. CASE f.result = "oops"
    <3>1. sb' = sb /\ stray' \in {stray, stray + 1}
      BY <1>8, <2>4 DEF example_fill_super_of, Stray
    <3>2. mounter' = "dead" /\ stray' = (IF pins THEN stray + 1 ELSE stray)
      BY <1>8, <2>4 DEF example_fill_super_of, Stray
    <3> QED
      BY <1>8, <2>1, <2>4, <3>1, <3>2 DEF example_fill_super_of
  <2> QED
    BY <2>2, <2>3, <2>4, FillResults
<1>9. ASSUME example_kill_block_super PROVE PinInv'
  BY <1>9 DEF example_kill_block_super, Runs
<1>10. ASSUME kill_block_super PROVE PinInv'
  BY <1>10 DEF kill_block_super, Runs
<1>11. ASSUME EvictInode PROVE PinInv'
  BY <1>11 DEF EvictInode
<1>12. ASSUME NEW n \in Names, example_lookup(n) PROVE PinInv'
  BY <1>12 DEF example_lookup
<1>13. ASSUME NEW n \in Names, ForgetName(n) PROVE PinInv'
  BY <1>13 DEF ForgetName
<1>14. ASSUME NEW n \in Names, example_lookup_null(n) PROVE PinInv'
  BY <1>14 DEF example_lookup_null
<1> QED
  BY <1>1, <1>2, <1>3, <1>4, <1>5, <1>6, <1>7, <1>8, <1>9, <1>10, <1>11, <1>12,
     <1>13, <1>14 DEF MNext

LEMMA NamesAdd ==
  ASSUME NEW S \in SUBSET Names, NEW n \in Names
  PROVE  /\ IsFiniteSet(S) /\ Cardinality(S) \in Nat
         /\ n \notin S => Cardinality(S \cup {n}) = Cardinality(S) + 1
         /\ n \in S => Cardinality(S \ {n}) = Cardinality(S) - 1
         /\ S # {} => Cardinality(S) > 0
<1>1. IsFiniteSet(Names)
  <2>1. IsFiniteSet({"file"}) /\ Names = {"file"} \cup {"other"}
    BY FS_Singleton DEF Names
  <2> QED
    BY <2>1, FS_AddElement
<1>2. IsFiniteSet(S) /\ Cardinality(S) \in Nat
  BY <1>1, FS_Subset, FS_CardinalityType
<1>3. n \notin S => Cardinality(S \cup {n}) = Cardinality(S) + 1
  BY <1>2, FS_AddElement
<1>4. n \in S => Cardinality(S \ {n}) = Cardinality(S) - 1
  BY <1>2, FS_RemoveElement
<1>5. S # {} => Cardinality(S) > 0
  BY <1>2, FS_EmptySet
<1> QED
  BY <1>2, <1>3, <1>4, <1>5

LEMMA InodeStep == InodeInv /\ MNext => InodeInv'
<1> SUFFICES ASSUME InodeInv, MNext PROVE InodeInv'
  OBVIOUS
<1>0. Cardinality({}) = 0
  BY FS_EmptySet
<1> USE <1>0, NamesAdd DEF InodeInv, InodesHeld, fsmod, fsino
<1>1. ASSUME init_example_fs PROVE InodeInv'
  BY <1>1 DEF init_example_fs
<1>2. ASSUME delete_module PROVE InodeInv'
  BY <1>2 DEF delete_module
<1>3. ASSUME exit_example_fs PROVE InodeInv'
  BY <1>3 DEF exit_example_fs
<1>4. ASSUME get_fs_type PROVE InodeInv'
  BY <1>4 DEF get_fs_type
<1>5. ASSUME example_fs_mount PROVE InodeInv'
  BY <1>5 DEF example_fs_mount
<1>6. ASSUME mount_bdev PROVE InodeInv'
  BY <1>6 DEF mount_bdev, Stray
<1>7. ASSUME Umount PROVE InodeInv'
  BY <1>7 DEF Umount
<1>8. ASSUME NEW f \in Lesson[lesson].fill, example_fill_super_of(f) PROVE InodeInv'
  BY <1>8 DEF example_fill_super_of, Stray
<1>9. ASSUME example_kill_block_super PROVE InodeInv'
  BY <1>9 DEF example_kill_block_super, Runs
<1>10. ASSUME kill_block_super PROVE InodeInv'
  BY <1>10 DEF kill_block_super, Runs
<1>11. ASSUME EvictInode PROVE InodeInv'
  <2>1. names # {} => Cardinality(names) > 0 /\ Cardinality(names) \in Nat
    BY NamesAdd DEF Names
  <2>2. UNCHANGED <<lesson, iref, names, owed>> /\ iref = 0
    BY <1>11 DEF EvictInode
  <2>3. owed = 0 => names = {}
    BY <2>1, <2>2
  <2> HIDE NamesAdd
  <2> QED
    BY <2>2, <2>3
<1>12. ASSUME NEW n \in Names, example_lookup(n) PROVE InodeInv'
  <2>0. /\ Cardinality(names) \in Nat /\ (names # {} => Cardinality(names) > 0)
        /\ n \notin names => Cardinality(names \cup {n}) = Cardinality(names) + 1
    BY NamesAdd DEF InodeInv
  <2> HIDE NamesAdd
  <2> DEFINE handout == Lesson[lesson].lookup.global /\ private_inode
  <2>1. /\ n \notin names /\ names' = names \cup {n} /\ lesson' = lesson
        /\ iref' = (IF handout THEN iref ELSE iref + 1)
        /\ owed' = (IF handout THEN owed + 1 ELSE owed)
        /\ ~ handout => icached'
    BY <1>12 DEF example_lookup
  <2>2. CASE handout
    BY <2>0, <2>1, <2>2
  <2>3. CASE ~ handout
    BY <2>0, <2>1, <2>3
  <2> QED
    BY <2>2, <2>3
<1>13. ASSUME NEW n \in Names, ForgetName(n) PROVE InodeInv'
  BY <1>13 DEF ForgetName
<1>14. ASSUME NEW n \in Names, example_lookup_null(n) PROVE InodeInv'
  BY <1>14 DEF example_lookup_null
<1> QED
  BY <1>1, <1>2, <1>3, <1>4, <1>5, <1>6, <1>7, <1>8, <1>9, <1>10, <1>11, <1>12,
     <1>13, <1>14 DEF MNext

LEMMA FaultStep == MountInv /\ MNext => mfaults' \subseteq KnownMountFaults'
<1> SUFFICES ASSUME MountInv, MNext PROVE mfaults' \subseteq KnownMountFaults'
  OBVIOUS
<1>0. PinInv /\ InodeInv /\ mfaults \subseteq KnownMountFaults
  BY DEF MountInv
<1> USE <1>0, NamesAdd DEF PinInv, InodeInv, ModulePinned, InodesHeld,
    KnownMountFaults, Count, pins, fsmod, fsino
<1>1. ASSUME init_example_fs PROVE mfaults' \subseteq KnownMountFaults'
  BY <1>1 DEF init_example_fs
<1>2. ASSUME delete_module PROVE mfaults' \subseteq KnownMountFaults'
  BY <1>2 DEF delete_module
<1>3. ASSUME exit_example_fs PROVE mfaults' \subseteq KnownMountFaults'
  BY <1>3 DEF exit_example_fs
<1>4. ASSUME get_fs_type PROVE mfaults' \subseteq KnownMountFaults'
  BY <1>4 DEF get_fs_type
<1>5. ASSUME example_fs_mount PROVE mfaults' \subseteq KnownMountFaults'
  BY <1>5 DEF example_fs_mount
<1>6. ASSUME mount_bdev PROVE mfaults' \subseteq KnownMountFaults'
  BY <1>6 DEF mount_bdev, Stray
<1>7. ASSUME Umount PROVE mfaults' \subseteq KnownMountFaults'
  BY <1>7 DEF Umount
<1>8. ASSUME NEW f \in Lesson[lesson].fill, example_fill_super_of(f)
      PROVE  mfaults' \subseteq KnownMountFaults'
  BY <1>8 DEF example_fill_super_of, Stray
<1>9. ASSUME example_kill_block_super PROVE mfaults' \subseteq KnownMountFaults'
  BY <1>9 DEF example_kill_block_super, Runs
<1>10. ASSUME kill_block_super PROVE mfaults' \subseteq KnownMountFaults'
  BY <1>10 DEF kill_block_super, Runs
<1>11. ASSUME EvictInode PROVE mfaults' \subseteq KnownMountFaults'
  BY <1>11 DEF EvictInode
<1>12. ASSUME NEW n \in Names, example_lookup(n)
      PROVE  mfaults' \subseteq KnownMountFaults'
  BY <1>12 DEF example_lookup
<1>13. ASSUME NEW n \in Names, ForgetName(n) PROVE mfaults' \subseteq KnownMountFaults'
  <2>1. Cardinality(names) > 0 /\ Cardinality(names) \in Nat
    BY <1>13, NamesAdd DEF ForgetName
  <2>2. ~ Lesson[lesson].lookup.global => icached /\ iref > 0
    BY <1>13, <2>1 DEF ForgetName
  <2> HIDE NamesAdd
  <2> QED
    BY <1>13, <2>2 DEF ForgetName
<1>14. ASSUME NEW n \in Names, example_lookup_null(n) PROVE mfaults' \subseteq KnownMountFaults'
  BY <1>14 DEF example_lookup_null
<1> QED
  BY <1>1, <1>2, <1>3, <1>4, <1>5, <1>6, <1>7, <1>8, <1>9, <1>10, <1>11, <1>12,
     <1>13, <1>14 DEF MNext

\* Mounting, looking names up, unmounting and rmmod, in any order and for each
\* of the lessons, keep module and inode as long as they are used, up to the
\* known faults.
THEOREM MountIsSafe == MSpec => []MountSafe
<1>1. MountInv /\ [MNext]_mvars => MountInv'
  <2>1. ASSUME MountInv, UNCHANGED mvars PROVE MountInv'
    BY <2>1 DEF MountInv, PinInv, InodeInv, ModulePinned, InodesHeld, KnownMountFaults,
                Count, pins, mvars, fsmod, fsino
  <2> QED
    BY <2>1, PinStep, InodeStep, FaultStep DEF MountInv
<1>2. MountInv => MountSafe
  BY DEF MountInv, PinInv, InodeInv, MountSafe
<1> QED
  BY <1>1, <1>2, MountInit, PTL DEF MSpec

(***************************************************************************)
(* PageRead.  A locked page has one owner, and what it is shown with was   *)
(* read.                                                                   *)
(***************************************************************************)
Busy == {"flight", "done", "error"}
Bh   == {"buffer_read", "submit_bh_readpage"}

Mpage == {"get_block", "write_page"}

ReadType ==
    /\ rpc \in [Readers -> {"idle", "readpage", "buffer", "wait", "dead"}]
    /\ locked \in BOOLEAN /\ uptodate \in BOOLEAN /\ twice \in BOOLEAN
    /\ pio \in Busy \cup {"none", "tail"}

\* The page is locked for one reader that is in readpage, or for the bio.
OwnerInv ==
    /\ \A t \in Readers : rpc[t] \in {"readpage", "buffer"} =>
          locked /\ \A u \in Readers : u # t => rpc[u] \notin {"readpage", "buffer"}
    /\ \A t \in Readers : rpc[t] = "readpage" => pio \notin Busy
    /\ \A t \in Readers : rpc[t] = "buffer" => plesson \in Bh
    /\ pio \in Busy => locked
    /\ pio = "done" => filled
    /\ pio = "error" => ioerror

PlaceInv == rpos \in 0 .. 4 /\ got \in Seq({"1", "2", "3"})

PageInv == ReadType /\ OwnerInv /\ PageComesBack /\ ShownIsFilled

FileInv == PlaceInv /\ PiecesMakeFile

LEMMA PageInit == PInit => PageInv
<1> SUFFICES ASSUME PInit PROVE PageInv
  OBVIOUS
<1>1. locked \in BOOLEAN /\ uptodate \in BOOLEAN /\ twice \in BOOLEAN /\ ~ twice
  BY Zenon DEF PInit
<1> QED
  BY <1>1 DEF PInit, PageInv, ReadType, OwnerInv, PageComesBack, ShownIsFilled, Busy

LEMMA ReadTypeStep == ReadType /\ PNext => ReadType'
<1> SUFFICES ASSUME ReadType, PNext PROVE ReadType'
  OBVIOUS
<1> USE DEF ReadType, Busy, RAt, RGoto, pbits, pdev, pfile
<1>1. ASSUME Reclaim PROVE ReadType'
  BY <1>1 DEF Reclaim
<1>2. ASSUME DeviceDone PROVE ReadType'
  BY <1>2 DEF DeviceDone
<1>3. ASSUME example_end_io PROVE ReadType'
  BY <1>3 DEF example_end_io, UnlockPage
<1>4. ASSUME end_io_tail PROVE ReadType'
  BY <1>4 DEF end_io_tail
<1>5. ASSUME mpage_end_io PROVE ReadType'
  BY <1>5 DEF mpage_end_io, UnlockPage
<1>6. ASSUME NEW t \in Readers, ReadCall(t) PROVE ReadType'
  BY <1>6 DEF ReadCall
<1>7. ASSUME NEW t \in Readers, ReadWait(t) PROVE ReadType'
  BY <1>7 DEF ReadWait
<1>8. ASSUME NEW t \in Readers, page_cache_readpage(t) PROVE ReadType'
  BY <1>8 DEF page_cache_readpage
<1>9. ASSUME NEW t \in Readers, bread_readpage(t) PROVE ReadType'
  BY <1>9 DEF bread_readpage, UnlockPage
<1>10. ASSUME NEW t \in Readers, NEW ls, submit_bh_start(t, ls), ls \in SUBSET Bh
      PROVE  ReadType'
  BY <1>10 DEF submit_bh_start
<1>11. ASSUME NEW t \in Readers, NEW ls, submit_bh_end(t, ls), ls \in SUBSET Bh
      PROVE  ReadType'
  BY <1>11 DEF submit_bh_end, UnlockPage
<1>12. ASSUME NEW t \in Readers, NEW ls, mapped_readpage(t, ls), ls \in SUBSET Mpage
      PROVE  ReadType'
  BY <1>12 DEF mapped_readpage
<1>13. ASSUME NEW t \in Readers, sb_bread_fails(t) PROVE ReadType'
  BY <1>13 DEF sb_bread_fails
<1>14. ASSUME NEW n \in 0 .. 4, example_read(n) PROVE ReadType'
  BY <1>14 DEF example_read
<1>15. ASSUME NEW n \in 0 .. 4, Seek(n) PROVE ReadType'
  BY <1>15 DEF Seek
<1> QED
  BY <1>1, <1>2, <1>3, <1>4, <1>5, <1>6, <1>7, <1>8, <1>9, <1>10, <1>11, <1>12, <1>13,
     <1>14, <1>15
     DEF PNext, submit_bh_readpage, buffer_readpage, get_block_readpage, write_page_readpage,
         Bh, Mpage

LEMMA OwnerStep == PageInv /\ PNext => OwnerInv'
<1> SUFFICES ASSUME PageInv, PNext PROVE OwnerInv'
  OBVIOUS
<1> USE DEF PageInv, ReadType, OwnerInv, Busy, Bh, Mpage, RAt, RGoto, pbits, pdev, pfile
<1>1. ASSUME Reclaim PROVE OwnerInv'
  BY <1>1 DEF Reclaim
<1>2. ASSUME DeviceDone PROVE OwnerInv'
  BY <1>2 DEF DeviceDone
<1>3. ASSUME example_end_io PROVE OwnerInv'
  BY <1>3 DEF example_end_io, UnlockPage
<1>4. ASSUME end_io_tail PROVE OwnerInv'
  BY <1>4 DEF end_io_tail
<1>5. ASSUME mpage_end_io PROVE OwnerInv'
  BY <1>5 DEF mpage_end_io, UnlockPage
<1>6. ASSUME NEW t \in Readers, ReadCall(t) PROVE OwnerInv'
  BY <1>6 DEF ReadCall
<1>7. ASSUME NEW t \in Readers, ReadWait(t) PROVE OwnerInv'
  BY <1>7 DEF ReadWait
<1>8. ASSUME NEW t \in Readers, page_cache_readpage(t) PROVE OwnerInv'
  BY <1>8 DEF page_cache_readpage
<1>9. ASSUME NEW t \in Readers, bread_readpage(t) PROVE OwnerInv'
  BY <1>9 DEF bread_readpage, UnlockPage
<1>10. ASSUME NEW t \in Readers, NEW ls, submit_bh_start(t, ls), ls \in SUBSET Bh
      PROVE  OwnerInv'
  BY <1>10 DEF submit_bh_start
<1>11. ASSUME NEW t \in Readers, NEW ls, submit_bh_end(t, ls), ls \in SUBSET Bh
      PROVE  OwnerInv'
  BY <1>11 DEF submit_bh_end, UnlockPage
<1>12. ASSUME NEW t \in Readers, NEW ls, mapped_readpage(t, ls), ls \in SUBSET Mpage
      PROVE  OwnerInv'
  BY <1>12 DEF mapped_readpage
<1>13. ASSUME NEW t \in Readers, sb_bread_fails(t) PROVE OwnerInv'
  BY <1>13 DEF sb_bread_fails
<1>14. ASSUME NEW n \in 0 .. 4, example_read(n) PROVE OwnerInv'
  BY <1>14 DEF example_read
<1>15. ASSUME NEW n \in 0 .. 4, Seek(n) PROVE OwnerInv'
  BY <1>15 DEF Seek
<1> QED
  BY <1>1, <1>2, <1>3, <1>4, <1>5, <1>6, <1>7, <1>8, <1>9, <1>10, <1>11, <1>12, <1>13,
     <1>14, <1>15
     DEF PNext, submit_bh_readpage, buffer_readpage, get_block_readpage, write_page_readpage,
         Bh, Mpage

LEMMA ComesBackStep == PageInv /\ PNext => PageComesBack'
<1> SUFFICES ASSUME PageInv, PNext PROVE PageComesBack'
  OBVIOUS
<1> USE DEF PageInv, ReadType, OwnerInv, PageComesBack, KnownLost, Busy, Bh, Mpage,
    RAt, RGoto,
    pbits, pdev, pfile
<1>1. ASSUME Reclaim PROVE PageComesBack'
  BY <1>1 DEF Reclaim
<1>2. ASSUME DeviceDone PROVE PageComesBack'
  BY <1>2 DEF DeviceDone
<1>3. ASSUME example_end_io PROVE PageComesBack'
  BY <1>3 DEF example_end_io, UnlockPage
<1>4. ASSUME end_io_tail PROVE PageComesBack'
  BY <1>4 DEF end_io_tail
<1>5. ASSUME mpage_end_io PROVE PageComesBack'
  BY <1>5 DEF mpage_end_io, UnlockPage
<1>6. ASSUME NEW t \in Readers, ReadCall(t) PROVE PageComesBack'
  BY <1>6 DEF ReadCall
<1>7. ASSUME NEW t \in Readers, ReadWait(t) PROVE PageComesBack'
  BY <1>7 DEF ReadWait
<1>8. ASSUME NEW t \in Readers, page_cache_readpage(t) PROVE PageComesBack'
  BY <1>8 DEF page_cache_readpage
<1>9. ASSUME NEW t \in Readers, bread_readpage(t) PROVE PageComesBack'
  BY <1>9 DEF bread_readpage, UnlockPage
<1>10. ASSUME NEW t \in Readers, NEW ls, submit_bh_start(t, ls), ls \in SUBSET Bh
      PROVE  PageComesBack'
  BY <1>10 DEF submit_bh_start
<1>11. ASSUME NEW t \in Readers, NEW ls, submit_bh_end(t, ls), ls \in SUBSET Bh
      PROVE  PageComesBack'
  BY <1>11 DEF submit_bh_end, UnlockPage
<1>12. ASSUME NEW t \in Readers, NEW ls, mapped_readpage(t, ls), ls \in SUBSET Mpage
      PROVE  PageComesBack'
  BY <1>12 DEF mapped_readpage
<1>13. ASSUME NEW t \in Readers, sb_bread_fails(t) PROVE PageComesBack'
  BY <1>13 DEF sb_bread_fails
<1>14. ASSUME NEW n \in 0 .. 4, example_read(n) PROVE PageComesBack'
  BY <1>14 DEF example_read
<1>15. ASSUME NEW n \in 0 .. 4, Seek(n) PROVE PageComesBack'
  BY <1>15 DEF Seek
<1> QED
  BY <1>1, <1>2, <1>3, <1>4, <1>5, <1>6, <1>7, <1>8, <1>9, <1>10, <1>11, <1>12, <1>13,
     <1>14, <1>15
     DEF PNext, submit_bh_readpage, buffer_readpage, get_block_readpage, write_page_readpage,
         Bh, Mpage

LEMMA ShownStep == PageInv /\ PNext => ShownIsFilled'
<1> SUFFICES ASSUME PageInv, PNext PROVE ShownIsFilled'
  OBVIOUS
<1> USE DEF PageInv, ReadType, OwnerInv, ShownIsFilled, Busy, Bh, Mpage, RAt, RGoto,
    pbits, pdev, pfile
<1>1. ASSUME Reclaim PROVE ShownIsFilled'
  BY <1>1 DEF Reclaim
<1>2. ASSUME DeviceDone PROVE ShownIsFilled'
  BY <1>2 DEF DeviceDone
<1>3. ASSUME example_end_io PROVE ShownIsFilled'
  BY <1>3 DEF example_end_io, UnlockPage
<1>4. ASSUME end_io_tail PROVE ShownIsFilled'
  BY <1>4 DEF end_io_tail
<1>5. ASSUME mpage_end_io PROVE ShownIsFilled'
  BY <1>5 DEF mpage_end_io, UnlockPage
<1>6. ASSUME NEW t \in Readers, ReadCall(t) PROVE ShownIsFilled'
  BY <1>6 DEF ReadCall
<1>7. ASSUME NEW t \in Readers, ReadWait(t) PROVE ShownIsFilled'
  BY <1>7 DEF ReadWait
<1>8. ASSUME NEW t \in Readers, page_cache_readpage(t) PROVE ShownIsFilled'
  BY <1>8 DEF page_cache_readpage
<1>9. ASSUME NEW t \in Readers, bread_readpage(t) PROVE ShownIsFilled'
  <2>1. CASE filled' = TRUE
    BY <2>1, Zenon DEF ShownIsFilled
  <2>2. CASE UNCHANGED <<pbits, plesson>> /\ ioerror' = TRUE
    BY <2>2
  <2> QED
    BY <1>9, <2>1, <2>2 DEF bread_readpage
<1>10. ASSUME NEW t \in Readers, NEW ls, submit_bh_start(t, ls), ls \in SUBSET Bh
      PROVE  ShownIsFilled'
  BY <1>10 DEF submit_bh_start
<1>11. ASSUME NEW t \in Readers, NEW ls, submit_bh_end(t, ls), ls \in SUBSET Bh
      PROVE  ShownIsFilled'
  BY <1>11 DEF submit_bh_end, UnlockPage
<1>12. ASSUME NEW t \in Readers, NEW ls, mapped_readpage(t, ls), ls \in SUBSET Mpage
      PROVE  ShownIsFilled'
  BY <1>12 DEF mapped_readpage
<1>13. ASSUME NEW t \in Readers, sb_bread_fails(t) PROVE ShownIsFilled'
  BY <1>13 DEF sb_bread_fails
<1>14. ASSUME NEW n \in 0 .. 4, example_read(n) PROVE ShownIsFilled'
  BY <1>14 DEF example_read
<1>15. ASSUME NEW n \in 0 .. 4, Seek(n) PROVE ShownIsFilled'
  BY <1>15 DEF Seek
<1> QED
  BY <1>1, <1>2, <1>3, <1>4, <1>5, <1>6, <1>7, <1>8, <1>9, <1>10, <1>11, <1>12, <1>13,
     <1>14, <1>15
     DEF PNext, submit_bh_readpage, buffer_readpage, get_block_readpage, write_page_readpage,
         Bh, Mpage


\* What is read from position a on goes on where the file before a ends.
LEMMA FilePieces ==
  ASSUME NEW a \in 0 .. 3, NEW k \in 0 .. 3 - a
  PROVE  /\ SubSeq(File3, 1, a) \o SubSeq(File3, a + 1, a + k) = SubSeq(File3, 1, a + k)
         /\ Len(SubSeq(File3, 1, a + k)) = a + k
         /\ SubSeq(File3, 1, a + k) \in Seq({"1", "2", "3"})
         /\ SubSeq(File3, a + 1, a + k) \in Seq({"1", "2", "3"})
<1> DEFINE S == {"1", "2", "3"}
           x == SubSeq(File3, 1, a)
           y == SubSeq(File3, a + 1, a + k)
           z == SubSeq(File3, 1, a + k)
<1>0. a \in Int /\ k \in Int /\ 0 <= a /\ 0 <= k /\ a + k <= 3
  OBVIOUS
<1>1. \A i \in 1 .. 3 : File3[i] \in S
  BY DEF File3
<1>2. x \in Seq(S) /\ Len(x) = a /\ \A i \in 1 .. a : x[i] = File3[i]
  <2>1. \A i \in 1 .. a : File3[i] \in S
    BY <1>0, <1>1
  <2>2. /\ x \in Seq(S) /\ Len(x) = (IF 1 <= a THEN a - 1 + 1 ELSE 0)
        /\ \A i \in 1 .. a - 1 + 1 : x[i] = File3[1 + i - 1]
    BY <1>0, <2>1, SubSeqProperties
  <2> HIDE DEF x
  <2> QED
    BY <1>0, <2>2
<1>3. y \in Seq(S) /\ Len(y) = k /\ \A i \in 1 .. k : y[i] = File3[a + i]
  <2>1. \A i \in a + 1 .. a + k : File3[i] \in S
    BY <1>0, <1>1
  <2>2. /\ y \in Seq(S) /\ Len(y) = (IF a + 1 <= a + k THEN (a + k) - (a + 1) + 1 ELSE 0)
        /\ \A i \in 1 .. (a + k) - (a + 1) + 1 : y[i] = File3[(a + 1) + i - 1]
    BY <1>0, <2>1, SubSeqProperties
  <2> HIDE DEF y
  <2>3. (a + k) - (a + 1) + 1 = k /\ \A i \in Int : (a + 1) + i - 1 = a + i
    BY <1>0
  <2> QED
    BY <1>0, <2>2, <2>3
<1>4. z \in Seq(S) /\ Len(z) = a + k /\ \A i \in 1 .. a + k : z[i] = File3[i]
  <2>1. \A i \in 1 .. a + k : File3[i] \in S
    BY <1>0, <1>1
  <2>2. /\ z \in Seq(S) /\ Len(z) = (IF 1 <= a + k THEN (a + k) - 1 + 1 ELSE 0)
        /\ \A i \in 1 .. (a + k) - 1 + 1 : z[i] = File3[1 + i - 1]
    BY <1>0, <2>1, SubSeqProperties
  <2> HIDE DEF z
  <2> QED
    BY <1>0, <2>2
<1> HIDE DEF x, y, z, S
<1>5. /\ x \o y \in Seq(S) /\ Len(x \o y) = a + k
      /\ \A i \in 1 .. a + k : (x \o y)[i] = IF i <= a THEN x[i] ELSE y[i - a]
  BY <1>2, <1>3, ConcatProperties
<1>6. ASSUME NEW i \in 1 .. a + k PROVE (x \o y)[i] = z[i]
  <2>1. z[i] = File3[i]
    BY <1>4
  <2>2. CASE i <= a
    BY <1>0, <1>2, <1>5, <2>1, <2>2
  <2>3. CASE ~ (i <= a)
    <3>1. i - a \in 1 .. k /\ a + (i - a) = i
      BY <1>0, <2>3
    <3>2. y[i - a] = File3[i]
      BY <1>3, <3>1
    <3>3. (x \o y)[i] = y[i - a]
      BY <1>5, <2>3
    <3> QED
      BY <2>1, <3>2, <3>3
  <2> QED
    BY <2>2, <2>3
<1>7. x \o y = z
  BY <1>4, <1>5, <1>6, SeqEqual
<1> QED
  BY <1>3, <1>4, <1>7 DEF x, y, z, S

LEMMA FileInit == PInit => FileInv
<1> SUFFICES ASSUME PInit PROVE FileInv
  OBVIOUS
<1>1. rpos = 0 /\ got = << >>
  BY DEF PInit
<1>2. SubSeq(File3, 1, 0) = << >>
  BY SubSeqEmpty
<1>3. Least(rpos, 3) = 0
  BY <1>1 DEF Least
<1> QED
  BY <1>1, <1>2, <1>3 DEF FileInv, PlaceInv, PiecesMakeFile

LEMMA FileStep == FileInv /\ [PNext]_pvars => FileInv'
<1>1. ASSUME FileInv, UNCHANGED <<plesson, rpos, got>> PROVE FileInv'
  BY <1>1 DEF FileInv, PlaceInv, PiecesMakeFile, Least
<1>2. ASSUME FileInv, NEW n \in 0 .. 4, Seek(n) PROVE FileInv'
  <2>1. /\ rpos' = n /\ got' = SubSeq(File3, 1, Least(n, 3))
    BY <1>2 DEF Seek
  <2>2. Least(n, 3) \in 0 .. 3
    BY DEF Least
  <2>3. got' \in Seq({"1", "2", "3"})
    <3>1. SubSeq(File3, 1, Least(n, 3) + 0) \in Seq({"1", "2", "3"})
      BY <2>2, FilePieces
    <3> QED
      BY <2>1, <2>2, <3>1
  <2> QED
    BY <2>1, <2>3 DEF FileInv, PlaceInv, PiecesMakeFile
<1>3. ASSUME FileInv, NEW n \in 0 .. 4, example_read(n) PROVE FileInv'
  <2> DEFINE k == read_len(n)
  <2>1. /\ rpos' = rpos + k /\ plesson' = plesson /\ plesson \in {"min_read", "sb_bread"}
        /\ got' = got \o (IF plesson = "min_read" THEN min_read_bytes(n) ELSE sb_bread_bytes(n))
    BY <1>3 DEF example_read, Direct
  <2>2. CASE rpos = 4
    <3>1. k = 0
      BY <2>2 DEF read_len
    <3>2. SubSeq(File3, rpos + 1, rpos + k) = << >> /\ SubSeq(File3, 1, k) = << >>
      BY <2>2, <3>1, SubSeqEmpty
    <3>3. got' = got /\ rpos' = rpos
      BY <1>3, <2>1, <2>2, <3>1, <3>2, ConcatEmptySeq
         DEF min_read_bytes, sb_bread_bytes, FileInv, PlaceInv
    <3> QED
      BY <1>1, <1>3, <2>1, <3>3
  <2>3. CASE rpos \in 0 .. 3
    <3>1. k \in 0 .. 3 - rpos /\ rpos' \in 0 .. 3
      BY <2>1, <2>3 DEF read_len, Least
    <3>2. Least(rpos, 3) = rpos /\ Least(rpos', 3) = rpos'
      BY <2>3, <3>1 DEF Least
    <3> HIDE DEF k
    <3>3. CASE plesson = "min_read"
      <4>1. got = SubSeq(File3, 1, rpos)
        BY <1>3, <3>2, <3>3 DEF FileInv, PiecesMakeFile
      <4>2. got' = got \o SubSeq(File3, rpos + 1, rpos + k)
        BY <2>1, <3>3 DEF min_read_bytes, k
      <4>3. got' = SubSeq(File3, 1, rpos') /\ got' \in Seq({"1", "2", "3"})
        BY <2>1, <2>3, <3>1, <4>1, <4>2, FilePieces
      <4> QED
        BY <2>1, <3>1, <3>2, <3>3, <4>3 DEF FileInv, PlaceInv, PiecesMakeFile
    <3>4. CASE plesson = "sb_bread"
      <4>1. Len(got) = rpos
        <5>1. Len(SubSeq(File3, 1, rpos + 0)) = rpos + 0
          BY <2>3, FilePieces
        <5> QED
          BY <1>3, <2>3, <3>2, <3>4, <5>1 DEF FileInv, PiecesMakeFile
      <4>2. got' = got \o SubSeq(File3, 1, k)
        BY <2>1, <3>4 DEF sb_bread_bytes, k
      <4>3. Len(SubSeq(File3, 1, 0 + k)) = 0 + k /\ SubSeq(File3, 1, 0 + k) \in Seq({"1", "2", "3"})
        BY <2>3, <3>1, FilePieces
      <4>4. Len(got') = rpos' /\ got' \in Seq({"1", "2", "3"})
        <5>1. got \in Seq({"1", "2", "3"}) /\ 0 + k = k
          BY <1>3, <2>3, <3>1 DEF FileInv, PlaceInv
        <5>2. Len(SubSeq(File3, 1, k)) = k /\ SubSeq(File3, 1, k) \in Seq({"1", "2", "3"})
          BY <4>3, <5>1
        <5>3. Len(got') = Len(got) + k /\ got' \in Seq({"1", "2", "3"})
          BY <4>2, <5>1, <5>2, ConcatProperties
        <5> QED
          BY <2>1, <4>1, <5>3
      <4>5. Len(SubSeq(File3, 1, rpos + k)) = rpos + k
        BY <2>3, <3>1, FilePieces
      <4> QED
        BY <2>1, <3>1, <3>2, <3>4, <4>4, <4>5 DEF FileInv, PlaceInv, PiecesMakeFile
    <3> QED
      BY <2>1, <3>3, <3>4
  <2>4. rpos \in 0 .. 4
    BY <1>3 DEF FileInv, PlaceInv
  <2> QED
    BY <2>2, <2>3, <2>4
<1>4. ASSUME PNext
      PROVE  \/ UNCHANGED <<plesson, rpos, got>>
             \/ \E n \in 0 .. 4 : example_read(n) \/ Seek(n)
  BY <1>4 DEF PNext, submit_bh_readpage, buffer_readpage, get_block_readpage,
              write_page_readpage, Reclaim, DeviceDone, example_end_io, end_io_tail,
              mpage_end_io, ReadCall, ReadWait, page_cache_readpage, bread_readpage,
              submit_bh_start, submit_bh_end, mapped_readpage, sb_bread_fails, pfile
<1>5. ASSUME UNCHANGED pvars PROVE UNCHANGED <<plesson, rpos, got>>
  BY <1>5 DEF pvars, pfile
<1> QED
  BY <1>1, <1>2, <1>3, <1>4, <1>5

\* A page that readpage was called for is unlocked once, by whoever is to do
\* so, is shown only when it holds the block, and a file that is read in
\* pieces is the file, up to what is known of each lesson; for any readers.
THEOREM ReadsAreSafe == PSpec => []ReadsSafe
<1>1. PageInv /\ [PNext]_pvars => PageInv'
  <2>1. ASSUME PageInv, UNCHANGED pvars PROVE PageInv'
    BY <2>1 DEF PageInv, ReadType, OwnerInv, PageComesBack, ShownIsFilled, KnownLost,
                pvars, pbits, pdev
  <2>2. PageInv => ReadType
    BY DEF PageInv
  <2>3. ASSUME PageInv, PNext PROVE PageInv'
    BY <2>2, <2>3, ReadTypeStep, OwnerStep, ComesBackStep, ShownStep DEF PageInv
  <2> QED
    BY <2>1, <2>3
<1>2. PageInv /\ FileInv => ReadsSafe
  BY DEF PageInv, FileInv, ReadsSafe
<1> QED
  BY <1>1, <1>2, PageInit, FileInit, FileStep, PTL DEF PSpec
=============================================================================
