\* A dead thread, an unloaded module or a page nobody unlocks may be the end.
CHECK_DEADLOCK FALSE
SPECIFICATION FsSpec
CONSTANTS
    JWriters = {w1}
    JFlushers = {f1}
    JPages = {p1, p2}
    JLessons = {"journal", "jbd2", "write_page", "get_block"}
    MaxVer = 2
    MaxSyncs = 1
    MaxMounts = 2
    Lessons = {"never_mount", "nodev_no_fill_sb", "min_mountable",
        "min_device", "min_root", "min_read", "sb_bread", "block_page_read",
        "page_cache_read", "bread", "buffer_read", "submit_bh_readpage",
        "get_block", "write_page", "journal", "jbd2"}
    MaxRefs = 3
    PageLessons = {"page_cache_read", "bread", "buffer_read",
        "submit_bh_readpage", "get_block", "write_page", "min_read", "sb_bread"}
    Readers = {r1, r2}
    MaxReclaims = 2
SYMMETRY PageSymmetry
INVARIANTS CallsBalanced SyncCommitted WriteAhead MountSafe ReadsSafe
