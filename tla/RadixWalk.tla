----------------------------- MODULE RadixWalk -----------------------------
(***************************************************************************)
(* radix_tree_walk_through of memory/list_buffer.c, which counts the pages *)
(* of a file and their buffer heads by looking up one index after another  *)
(* in the radix tree of the page cache, while pages and buffer heads come  *)
(* and go: it takes neither the lock of the tree nor rcu_read_lock, so a   *)
(* step is one load.                                                       *)
(*                                                                         *)
(* The tree is the set of its indices.  It is as high as the largest of    *)
(* them needs, and with height 0 the root is a page or NULL; a node is     *)
(* known by its height and by the digits on the way to it, and it is in    *)
(* the tree while an index goes through it.  A root that becomes too high  *)
(* is cut off above the node in its first slot, which it still points to;  *)
(* a node that loses its last page is emptied; both are freed after a      *)
(* grace period.  That is how the radix tree of the kernel, which is       *)
(* external, grows and shrinks.                                            *)
(***************************************************************************)
EXTENDS Integers, FiniteSets

CONSTANTS MapShift,   \* RADIX_TREE_MAP_SHIFT
          LongBits,   \* bits of an unsigned long, BITS_PER_LONG
          IntBits,    \* bits of an unsigned int
          PageIndices, \* indices that a page of the file may have
          BuffersPerPage, \* buffer heads of a page that has any
          MaxChanges  \* pages and buffers that come or go during a walk (bound)

ASSUME RadixAssumption ==
    /\ {MapShift, LongBits, IntBits} \subseteq Nat \ {0} /\ MaxChanges \in Nat
    /\ IntBits <= LongBits /\ PageIndices \subseteq 0 .. 2^LongBits - 1
    /\ BuffersPerPage \in Nat \ {0}

VARIABLES items,     \* indices in the tree
          bufs,      \* those of pages that have buffer heads
          wpc,       \* "idle", "begin", "root", "slot", "page", "ring", "done", "oops"
          index, max_index, page_count, buffer_head_count, \* of the walk
          lvl,       \* height of the node it holds, 0 for a page
          base,      \* digits on the way to that node, as a number
          foot,      \* lvl, or how high the tree is that a shrinking cut off below it
          wgone,     \* what is at foot has left the tree, or lost its buffers
          wfreed,    \* the node it holds has been freed
          wseen,     \* pages it has found
          wstray,    \* indices for which it read a freed node, -1 before the first
          wstable,   \* pages that were there all the time
          wshrunk,   \* the tree has lost a level meanwhile
          changes    \* pages and buffers that came or went

wtree  == <<items, bufs>>
wloop  == <<index, max_index, page_count, buffer_head_count, wseen, wstray>>
whold  == <<lvl, base, foot, wgone, wfreed>>
wghost == <<wstable, wshrunk, changes>>
wvars  == <<wtree, wpc, wloop, whold, wghost>>

ULONG_MAX == 2^LongBits - 1

-----------------------------------------------------------------------------
(* The arithmetic.                                                         *)

RADIX_TREE_MAX_PATH == (LongBits + MapShift - 1) \div MapShift

maxindex(height) ==
    LET shift == LongBits - height * MapShift
    IN  CASE shift < 0         -> ULONG_MAX
          [] shift >= LongBits -> 0
          [] OTHER             -> ULONG_MAX \div 2^shift

\* The table is made again for each walk.
height_to_maxindex == [h \in 0 .. RADIX_TREE_MAX_PATH |-> maxindex(h)]

\* Forgets that the lowest level has shift 0.
slot_shifted(i, l) == (i \div 2^(l * MapShift)) % 2^MapShift

\* Where a node of height l points on the way to an index.
slot(i, l) == (i \div 2^((l - 1) * MapShift)) % 2^MapShift

\* All of these indices are within reach of a tree of height h.
Fits(is, h) == \A i \in is : i < 2^(h * MapShift)

\* What a tree with these indices has for a height.
tree_height(is) ==
    CHOOSE h \in 0 .. RADIX_TREE_MAX_PATH :
        Fits(is, h) /\ \A k \in 0 .. h - 1 : ~ Fits(is, k)

\* An index goes through the node of height l with these digits; with l = 0 the
\* node is a page.
InTree(is, l, digits) == \E j \in is : j \div 2^(l * MapShift) = digits

-----------------------------------------------------------------------------

RInit ==
    /\ items \in SUBSET PageIndices /\ bufs \in SUBSET items
    /\ wpc = "idle" /\ index = 0 /\ max_index = 0
    /\ page_count = 0 /\ buffer_head_count = 0
    /\ lvl = 0 /\ base = 0 /\ foot = 0 /\ wgone = FALSE /\ wfreed = FALSE
    /\ wseen = {} /\ wstray = {} /\ wstable = items /\ wshrunk = FALSE
    /\ changes = 0

\* Takes hold of a node or a page that is in the tree.
Hold(l, digits) ==
    lvl' = l /\ foot' = l /\ base' = digits /\ wgone' = FALSE /\ wfreed' = FALSE

\* The end of a round, with this page found, if any, and these buffer heads.  The
\* index is an unsigned long.
walk_next(pages, found, heads) ==
    /\ page_count' = page_count + pages /\ wseen' = wseen \cup found
    /\ buffer_head_count' = buffer_head_count + heads
    /\ index' = (index + 1) % 2^LongBits /\ max_index' = max_index
    /\ wpc' = IF index' <= max_index THEN "root" ELSE "done"
    /\ Hold(0, 0)

\* The root is loaded for its height.  A root that is a page is looked at
\* without a loop, which is a round for its only index.
walk_begin ==
    /\ wpc = "idle"
    /\ wpc' = IF items = {} THEN "done"
              ELSE IF tree_height(items) = 0 THEN "page" ELSE "begin"
    /\ Hold(tree_height(items), 0)
    /\ wstable' = items
    /\ UNCHANGED <<wtree, wloop, wshrunk, changes>>

\* The height of the node is loaded.  The last index is kept in an unsigned int.
walk_height ==
    /\ wpc = "begin"
    /\ \/ /\ ~ wfreed /\ wpc' = "root" /\ wstray' = wstray
          /\ max_index' = height_to_maxindex[lvl] % 2^IntBits
       \/ /\ wfreed /\ wpc' \in {"root", "oops"} /\ wstray' = {-1}
          /\ \E h \in 0 .. RADIX_TREE_MAX_PATH :
                max_index' = height_to_maxindex[h] % 2^IntBits
    /\ Hold(0, 0)
    /\ UNCHANGED <<wtree, index, page_count, buffer_head_count, wseen, wghost>>

\* The root is loaded again; it is not tested again, and what is not a node is
\* read like one.  The height of a node never changes, and what a freed one says
\* leads nowhere else than its slots do.
walk_root ==
    /\ wpc = "root"
    /\ wpc' = IF tree_height(items) = 0 THEN "oops" ELSE "slot"
    /\ Hold(tree_height(items), 0)
    /\ UNCHANGED <<wtree, wloop, wghost>>

\* A slot of a node that is in the tree, or was emptied.
slot_live ==
    LET child == base * 2^MapShift + slot(index, lvl) IN
    /\ lvl = foot /\ ~ wfreed /\ wstray' = wstray
    /\ IF ~ wgone /\ InTree(items, lvl - 1, child)
       THEN /\ wpc' = IF lvl = 1 THEN "page" ELSE "slot"
            /\ Hold(lvl - 1, child)
            /\ UNCHANGED <<index, max_index, page_count, buffer_head_count, wseen>>
       ELSE walk_next(0, {}, 0)

\* A slot of a node that was cut off: the first still leads into the tree.  From
\* the last level it leads to a page that was made the root, by a pointer that
\* is no longer one to a page.
slot_cut ==
    /\ lvl > foot /\ ~ wfreed /\ wstray' = wstray
    /\ IF slot(index, lvl) = 0
       THEN /\ wpc' = IF lvl = 1 THEN "page" ELSE "slot"
            /\ lvl' = lvl - 1 /\ wgone' = (wgone \/ lvl = 1)
            /\ UNCHANGED <<base, foot, wfreed>>
            /\ UNCHANGED <<index, max_index, page_count, buffer_head_count, wseen>>
       ELSE walk_next(0, {}, 0)

\* A slot of a freed node: NULL, a page of any file, or anything.
slot_freed ==
    /\ wfreed /\ wstray' = wstray \cup {index}
    /\ \/ walk_next(0, {}, 0)
       \/ walk_next(1, {}, 0) \/ walk_next(1, {}, BuffersPerPage)
       \/ /\ wpc' = "oops" /\ UNCHANGED whold
          /\ UNCHANGED <<index, max_index, page_count, buffer_head_count, wseen>>

\* One turn of the do loop.
walk_slot ==
    /\ wpc = "slot" /\ (slot_live \/ slot_cut \/ slot_freed)
    /\ UNCHANGED <<wtree, wghost>>

\* radix_node_has_buffer: are there buffer heads?  The walk has no reference to
\* the page, which may be another one by now.
page_has_buffers ==
    /\ wpc = "page" /\ wstray' = wstray
    /\ \/ /\ wgone \/ base \in bufs
          /\ wpc' = "ring" /\ UNCHANGED whold
          /\ UNCHANGED <<index, max_index, page_count, buffer_head_count, wseen>>
       \/ (wgone \/ base \notin bufs) /\ walk_next(1, {base}, 0)
    /\ UNCHANGED <<wtree, wghost>>

\* radix_node_has_buffer: goes round the ring of the page's buffer heads.
radix_node_has_buffer ==
    /\ wpc = "ring" /\ wstray' = wstray
    /\ \/ walk_next(1, {base}, BuffersPerPage)
       \/ /\ wgone /\ wpc' = "oops" /\ UNCHANGED whold
          /\ UNCHANGED <<index, max_index, page_count, buffer_head_count, wseen>>
    /\ UNCHANGED <<wtree, wghost>>

\* Others change the tree while the walk is at work.
Changing ==
    /\ wpc \notin {"idle", "done", "oops"} /\ changes < MaxChanges
    /\ changes' = changes + 1

\* A page is added to the cache, or removed.
Change(i) ==
    /\ Changing
    /\ items' = IF i \in items THEN items \ {i} ELSE items \cup {i}
    /\ bufs' = bufs \ {i} /\ wstable' = wstable \ {i}
    /\ wshrunk' = (wshrunk \/ tree_height(items') < tree_height(items))
    /\ wgone' = (wgone \/ (wpc # "root" /\ ~ InTree(items', foot, base)))
    /\ foot' = IF ~ wgone' /\ tree_height(items') < foot
               THEN tree_height(items') ELSE foot
    /\ UNCHANGED <<wpc, wloop, lvl, base, wfreed>>

\* A page gets buffer heads, or loses them.
Buffers(i) ==
    /\ Changing /\ i \in items
    /\ bufs' = IF i \in bufs THEN bufs \ {i} ELSE bufs \cup {i}
    /\ wgone' = (wgone \/ (wpc = "ring" /\ base = i /\ i \in bufs))
    /\ UNCHANGED <<items, wpc, wloop, lvl, base, foot, wfreed, wstable, wshrunk>>

\* Nobody waits for the walk before a node that is no longer in the tree is freed.
GracePeriod ==
    /\ wpc \in {"begin", "slot"} /\ ~ wfreed /\ (wgone \/ lvl > foot)
    /\ wfreed' = TRUE
    /\ UNCHANGED <<wtree, wpc, wloop, lvl, base, foot, wgone, wghost>>

RNext ==
    \/ walk_begin \/ walk_height \/ walk_root \/ walk_slot
    \/ page_has_buffers \/ radix_node_has_buffer
    \/ \E i \in PageIndices : Change(i) \/ Buffers(i)
    \/ GracePeriod

RSpec == RInit /\ [][RNext]_wvars

-----------------------------------------------------------------------------

\* The table of the largest indices, compared with what a level multiplies.
MaxindexRight ==
    \A h \in 0 .. RADIX_TREE_MAX_PATH :
        LET width == h * MapShift
        IN  height_to_maxindex[h] =
               2^(IF width < LongBits THEN width ELSE LongBits) - 1

\* A walk that nothing disturbs counts each page and each buffer head once, of
\* the pages whose index an unsigned int can hold.
CountsRight ==
    wpc = "done" /\ changes = 0 =>
        LET reached == {i \in items : i < 2^IntBits}
        IN  /\ wseen = reached /\ page_count = Cardinality(reached)
            /\ buffer_head_count = BuffersPerPage * Cardinality(reached \cap bufs)

\* Whatever comes and goes, a page that was there all the time and whose index
\* the walk has passed has been found, unless the tree lost a level and the old
\* root was freed while the walk was looking for that page in it.
StableSeen == \A i \in wstable : i < index => i \in wseen \/ (wshrunk /\ i \in wstray)

\* Pages are counted twice only after the tree has lost a level under the walk or
\* a freed node was read, or if no index is beyond the last one, so that the walk
\* begins again; and it dies only of a root that is no node after the tree has
\* lost a level, of a freed node, or of a page whose buffers went under it.
ShrinkingOnly ==
    /\ page_count # Cardinality(wseen) =>
          wshrunk \/ wstray # {} \/ max_index = ULONG_MAX
    /\ wpc = "oops" => wshrunk \/ wstray # {} \/ wgone

\* The walk is right for every tree, and wrong only in the ways it must be
\* without a lock.
WalkRight == MaxindexRight /\ CountsRight /\ StableSeen /\ ShrinkingOnly
=============================================================================
