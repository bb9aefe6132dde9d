------------------------------ MODULE FsMount ------------------------------
(***************************************************************************)
(* The life of the file systems under fs/: loading, mounting, looking a    *)
(* name up, unmounting and unloading, for each of the lessons.  It is      *)
(* about two counts: the references to the module, which only some lessons *)
(* take, and those to the one inode that example_lookup hands out.         *)
(*                                                                         *)
(* There is one device, one task that mounts and one that unmounts, while  *)
(* names are looked up and forgotten and rmmod runs.  The VFS is external. *)
(* No lesson sets the owner of its file_system_type, so the VFS itself     *)
(* takes no reference.                                                     *)
(***************************************************************************)
EXTENDS Integers, FiniteSets

CONSTANTS Lessons,   \* the lessons to load, names of the table below
          MaxRefs    \* references, mounts and lookups without one (bound)

VARIABLES lesson,    \* the lesson that is loaded
          module,    \* "coming", "live", "going" or "gone"
          mref,      \* references to the module
          stray,     \* those that no kill_sb will give back
          mounter,   \* where the task that mounts is
          sb,        \* "none", "active", "kill" or "shutdown"
          uses,      \* mounts of the super block
          left,      \* objects of fill_super that nobody frees
          icached,   \* the inode is in the cache
          iref,      \* references to it
          private_inode, \* the global variable points to an inode
          names,     \* names with a dentry that points to it
          owed,      \* lookups that handed it out without a reference
          mfaults    \* accesses to what is not there

fsmod  == <<module, mref, stray>>
fsino  == <<icached, iref, private_inode, names, owed>>
mvars  == <<lesson, fsmod, mounter, sb, uses, left, fsino, mfaults>>

Names == {"file", "other"}

-----------------------------------------------------------------------------
(* The lessons.  example_fs_mount and kill_sb pin the module or do not;    *)
(* with a kill_sb of its own a lesson runs code of the module in it.  A    *)
(* device has one super block, mount_nodev makes a new one for each mount. *)

Mount(pin, own, bdev) == [pins |-> pin, own |-> own, bdev |-> bdev]

plain_mount  == Mount(FALSE, FALSE, TRUE)
pinned_mount == Mount(TRUE, TRUE, TRUE)

min_mountable_mount      == Mount(FALSE, TRUE, FALSE)
min_device_mount         == plain_mount
min_root_mount           == plain_mount
min_read_mount           == plain_mount
sb_bread_mount           == plain_mount
block_page_read_mount    == plain_mount
page_cache_read_mount    == plain_mount
bread_mount              == plain_mount
buffer_read_mount        == plain_mount
submit_bh_readpage_mount == pinned_mount
get_block_mount          == pinned_mount
write_page_mount         == pinned_mount
journal_mount            == pinned_mount
jbd2_mount               == pinned_mount

\* What fill_super can come to, and what it leaves for good.
Fill(result, objects) == [result |-> result, left |-> objects]

\* No mount function, or no function to fill the super block.
never_mount_fill      == {Fill("oops", {})}
nodev_no_fill_sb_fill == {Fill("oops", {})}

\* fs_info is in no list of anybody.
min_mountable_fill == {Fill("ok", {"fs_info"}), Fill("error", {"fs_info"}),
                       Fill("error", {})}

\* get_example_fs_root_inode writes through the inode before it is tested.
\* d_make_root takes care of the inode.
plain_fill == {Fill("ok", {}), Fill("error", {}), Fill("oops", {})}

min_device_fill         == plain_fill
min_root_fill           == plain_fill
min_read_fill           == plain_fill
sb_bread_fill           == plain_fill
block_page_read_fill    == plain_fill
page_cache_read_fill    == plain_fill
bread_fill              == plain_fill
buffer_read_fill        == plain_fill
submit_bh_readpage_fill == plain_fill
get_block_fill          == plain_fill
write_page_fill         == plain_fill

\* journal_load may fail after the root inode was made; nobody destroys a
\* journal that was loaded.
journal_fill == {Fill("ok", {"journal"}), Fill("error", {"inode"}),
                 Fill("error", {"journal"}), Fill("oops", {})}
jbd2_fill    == journal_fill

\* example_lookup: the inode of the cache for every name, the same for one
\* name, the inode of a global variable, or the VFS's own.
no_lookup      == [names |-> {}, global |-> FALSE]
iget_lookup    == [names |-> Names, global |-> FALSE]
uuid_lookup    == [names |-> {"file"}, global |-> FALSE]
private_lookup == [names |-> Names, global |-> TRUE]

min_root_lookup           == iget_lookup
min_read_lookup           == iget_lookup
sb_bread_lookup           == iget_lookup
block_page_read_lookup    == iget_lookup
page_cache_read_lookup    == private_lookup
bread_lookup              == private_lookup
buffer_read_lookup        == private_lookup
submit_bh_readpage_lookup == iget_lookup
get_block_lookup          == iget_lookup
write_page_lookup         == iget_lookup
journal_lookup            == uuid_lookup
jbd2_lookup               == uuid_lookup

Row(m, f, l) == [mount |-> m, fill |-> f, lookup |-> l]

Lesson == [
    never_mount      |-> Row(plain_mount, never_mount_fill, no_lookup),
    nodev_no_fill_sb |-> Row(plain_mount, nodev_no_fill_sb_fill, no_lookup),
    min_mountable |-> Row(min_mountable_mount, min_mountable_fill, no_lookup),
    min_device |-> Row(min_device_mount, min_device_fill, no_lookup),
    min_root |-> Row(min_root_mount, min_root_fill, min_root_lookup),
    min_read |-> Row(min_read_mount, min_read_fill, min_read_lookup),
    sb_bread |-> Row(sb_bread_mount, sb_bread_fill, sb_bread_lookup),
    block_page_read |-> Row(block_page_read_mount, block_page_read_fill,
                            block_page_read_lookup),
    page_cache_read |-> Row(page_cache_read_mount, page_cache_read_fill,
                            page_cache_read_lookup),
    bread |-> Row(bread_mount, bread_fill, bread_lookup),
    buffer_read |-> Row(buffer_read_mount, buffer_read_fill, buffer_read_lookup),
    submit_bh_readpage |-> Row(submit_bh_readpage_mount, submit_bh_readpage_fill,
                               submit_bh_readpage_lookup),
    get_block  |-> Row(get_block_mount, get_block_fill, get_block_lookup),
    write_page |-> Row(write_page_mount, write_page_fill, write_page_lookup),
    journal |-> Row(journal_mount, journal_fill, journal_lookup),
    jbd2    |-> Row(jbd2_mount, jbd2_fill, jbd2_lookup)]

ASSUME LessonsAssumption == Lessons \subseteq DOMAIN Lesson /\ MaxRefs \in Nat

pins == Lesson[lesson].mount.pins

-----------------------------------------------------------------------------

MInit ==
    /\ lesson \in Lessons
    /\ module = "coming" /\ mref = 0 /\ stray = 0
    /\ mounter = "idle" /\ sb = "none" /\ uses = 0 /\ left = {}
    /\ icached = FALSE /\ iref = 0 /\ private_inode = FALSE /\ names = {}
    /\ owed = 0 /\ mfaults = {}

\* A fault for code of the module that runs after it was freed.
Runs(what) ==
    mfaults' = IF module = "gone" THEN mfaults \cup {what} ELSE mfaults

\* A registration that fails because the name is in use ends the loading.
init_example_fs ==
    /\ module = "coming" /\ module' \in {"live", "gone"}
    /\ UNCHANGED <<lesson, mref, stray, mounter, sb, uses, left, fsino, mfaults>>

\* rmmod: refused while there are references.
delete_module ==
    /\ module = "live" /\ mref = 0 /\ module' = "going"
    /\ UNCHANGED <<lesson, mref, stray, mounter, sb, uses, left, fsino, mfaults>>

exit_example_fs ==
    /\ module = "going" /\ module' = "gone"
    /\ UNCHANGED <<lesson, mref, stray, mounter, sb, uses, left, fsino, mfaults>>

\* mount(2) finds the registered type.
get_fs_type ==
    /\ mounter = "idle" /\ module \in {"live", "going"}
    /\ mref < MaxRefs /\ uses < MaxRefs
    /\ mounter' = "mount"
    /\ UNCHANGED <<lesson, fsmod, sb, uses, left, fsino, mfaults>>

\* NULL, which is no error to the caller, if the module is on its way out.
example_fs_mount ==
    /\ mounter = "mount"
    /\ IF pins /\ module = "live"
       THEN mref' = mref + 1 /\ mounter' = "open" /\ mfaults' = mfaults
       ELSE /\ mref' = mref
            /\ mounter' = IF pins THEN "dead" ELSE "open"
            /\ mfaults' = CASE module = "gone" -> mfaults \cup {"mount"}
                            [] module = "going" /\ pins -> mfaults \cup {"root"}
                            [] OTHER -> mfaults
    /\ UNCHANGED <<lesson, module, stray, sb, uses, left, fsino>>

Stray == stray' = IF pins THEN stray + 1 ELSE stray

\* The device cannot be opened, or has a super block already, or gets one.
mount_bdev ==
    /\ mounter = "open" /\ sb \in {"none", "active"}
    /\ \/ mounter' = "idle" /\ Stray /\ uses' = uses
       \/ /\ sb = "active" /\ Lesson[lesson].mount.bdev
          /\ mounter' = "idle" /\ Stray /\ uses' = uses + 1
       \/ sb = "none" /\ mounter' = "fill" /\ UNCHANGED <<stray, uses>>
    /\ UNCHANGED <<lesson, module, mref, sb, left, fsino, mfaults>>

\* After an error kill_sb is called.
example_fill_super_of(f) ==
    /\ mounter = "fill" /\ f \in Lesson[lesson].fill
    /\ mounter' = IF f.result = "oops" THEN "dead" ELSE "idle"
    /\ sb' = CASE f.result = "ok" -> "active"
               [] f.result = "error" -> "kill"
               [] OTHER -> sb
    /\ uses' = IF f.result = "ok" THEN 1 ELSE 0
    /\ left' = left \cup f.left
    /\ IF f.result = "oops" THEN Stray ELSE stray' = stray
    /\ mfaults' = mfaults \cup (IF f.result = "oops" THEN {"fill"} ELSE {})
                          \cup (IF module = "gone" THEN {"text"} ELSE {})
    /\ UNCHANGED <<lesson, module, mref, fsino>>

Umount ==
    /\ sb = "active"
    /\ uses' = uses - 1
    /\ sb' = IF uses = 1 THEN "kill" ELSE sb
    /\ UNCHANGED <<lesson, fsmod, mounter, left, fsino, mfaults>>

\* Drops the reference at each umount, as if each mount had its own kill_sb.
kill_at_each_umount ==
    /\ sb \in {"active", "kill"}
    /\ mref' = IF pins /\ mref > 0 THEN mref - 1 ELSE mref
    /\ sb' = IF sb = "kill" THEN "shutdown" ELSE sb
    /\ uses' = IF sb = "active" /\ uses > 0 THEN uses - 1 ELSE uses
    /\ Runs("kill_sb")
    /\ UNCHANGED <<lesson, module, stray, mounter, left, fsino>>

\* module_put comes first.
example_kill_block_super ==
    /\ sb = "kill" /\ sb' = "shutdown"
    /\ mref' = IF pins THEN mref - 1 ELSE mref
    /\ IF Lesson[lesson].mount.own THEN Runs("kill_sb") ELSE mfaults' = mfaults
    /\ UNCHANGED <<lesson, module, stray, mounter, uses, left, fsino>>

\* kill_block_super drops dentries and inodes, and returns into kill_sb.
kill_block_super ==
    /\ sb = "shutdown" /\ sb' = "none"
    /\ icached' = FALSE /\ iref' = 0 /\ names' = {} /\ owed' = 0
    /\ IF Lesson[lesson].mount.own THEN Runs("kill_sb") ELSE mfaults' = mfaults
    /\ UNCHANGED <<lesson, fsmod, mounter, uses, left, private_inode>>

\* unlock_new_inode complains about an inode that was in the cache already.
example_lookup(n) ==
    /\ sb = "active" /\ n \in Lesson[lesson].lookup.names \ names
    /\ names' = names \cup {n} /\ owed < MaxRefs
    /\ LET handout == Lesson[lesson].lookup.global /\ private_inode
       IN  /\ private_inode' = Lesson[lesson].lookup.global
           /\ icached' = (icached \/ ~handout)
           /\ iref' = IF handout THEN iref ELSE iref + 1
           /\ owed' = IF handout THEN owed + 1 ELSE owed
           /\ mfaults' = mfaults
                \cup (IF handout /\ ~icached THEN {"inode"} ELSE {})
                \cup (IF ~handout /\ icached THEN {"new"} ELSE {})
                \cup (IF module = "gone" THEN {"text"} ELSE {})
    /\ UNCHANGED <<lesson, fsmod, mounter, sb, uses, left>>

\* iget_locked has no memory for a new inode and returns NULL, through which
\* the lookup writes: the caller dies.
example_lookup_null(n) ==
    /\ sb = "active" /\ n \in Lesson[lesson].lookup.names \ names /\ ~icached
    /\ ~(Lesson[lesson].lookup.global /\ private_inode)
    /\ mfaults' = mfaults \cup {"iget"}
                          \cup (IF module = "gone" THEN {"text"} ELSE {})
    /\ UNCHANGED <<lesson, fsmod, mounter, sb, uses, left, fsino>>

\* dput of the last user, then iput.
ForgetName(n) ==
    /\ n \in names /\ names' = names \ {n} /\ iref' = iref - 1
    /\ mfaults' = IF icached /\ iref > 0 THEN mfaults ELSE mfaults \cup {"inode"}
    /\ UNCHANGED <<lesson, fsmod, mounter, sb, uses, left, icached,
                   private_inode, owed>>

\* The shrinker frees an inode that nobody holds.
EvictInode ==
    /\ icached /\ iref = 0 /\ icached' = FALSE
    /\ UNCHANGED <<lesson, fsmod, mounter, sb, uses, left, iref, private_inode,
                   names, owed, mfaults>>

MNext ==
    \/ init_example_fs \/ delete_module \/ exit_example_fs
    \/ get_fs_type \/ example_fs_mount \/ mount_bdev \/ Umount
    \/ \E f \in Lesson[lesson].fill : example_fill_super_of(f)
    \/ example_kill_block_super \/ kill_block_super \/ EvictInode
    \/ \E n \in Names : \/ example_lookup(n) \/ example_lookup_null(n)
                         \/ ForgetName(n)

MSpec == MInit /\ [][MNext]_mvars

-----------------------------------------------------------------------------

Count(b) == IF b THEN 1 ELSE 0

\* The comment at kill_sb, "this will prevent rmmod before umount": in the
\* lessons that take a reference there is one for the super block from the
\* mount to kill_sb and one for each mount that has none of its own to give
\* back (an open that failed, a device that was mounted already, a fill_super
\* that died), and no other; so the module stays while a super block is active.
ModulePinned ==
    /\ mref = IF pins THEN stray + Count(mounter \in {"open", "fill"})
                                 + Count(sb \in {"active", "kill"})
                       ELSE 0
    /\ pins /\ sb = "active" => module = "live"

\* The inode has a reference for each dentry, so that it is never freed under
\* one, however names are looked up, forgotten and shrunk; only the lessons
\* that keep it in a global variable hand it out without.
InodesHeld ==
    /\ iref = Cardinality(names) - owed
    /\ owed > 0 => Lesson[lesson].lookup.global
    /\ owed = 0 /\ names # {} => icached

\* What the lessons are known to run into: a mount racing rmmod (get_fs_type
\* takes no reference), the return into kill_sb after module_put, a root inode,
\* an inode of iget_locked or a journal that is NULL, unlock_new_inode of a
\* cached inode, the global inode after it was freed, and rmmod under a mount
\* where nothing pins.
KnownMountFaults ==
    {"mount", "root", "fill", "new", "kill_sb"}
    \cup (IF Lesson[lesson].lookup.names = {} THEN {} ELSE {"iget"})
    \cup (IF pins THEN {} ELSE {"text"})
    \cup (IF Lesson[lesson].lookup.global THEN {"inode"} ELSE {})

\* Mounting, looking up, unmounting and unloading in any order keep module and
\* inode alive while they are used, up to the known faults.
MountSafe == ModulePinned /\ InodesHeld /\ mfaults \subseteq KnownMountFaults
=============================================================================
