--------------------------- MODULE MCFileSystems ---------------------------
(***************************************************************************)
(* The three models of fs/ for TLC.  They share no state, so a run is one  *)
(* of them, chosen at the start, with the others standing still in one     *)
(* initial state.                                                          *)
(***************************************************************************)
EXTENDS JournalFs, FsMount, PageRead, TLC

VARIABLE fspart   \* the model that runs

FsInit ==
    /\ fspart \in {"journal", "mount", "read"}
    /\ JInit /\ MInit /\ PInit
    /\ fspart # "journal" => jlesson = "journal"
    /\ fspart # "mount"   => lesson = "journal"
    /\ fspart # "read"    => plesson = "get_block"

FsNext ==
    \/ fspart = "journal" /\ JNext /\ UNCHANGED <<fspart, mvars, pvars>>
    \/ fspart = "mount"   /\ MNext /\ UNCHANGED <<fspart, jvars, pvars>>
    \/ fspart = "read"    /\ PNext /\ UNCHANGED <<fspart, jvars, mvars>>

FsSpec == FsInit /\ [][FsNext]_<<fspart, jvars, mvars, pvars>>

\* The pages of the file may be exchanged.
PageSymmetry == Permutations(JPages)
=============================================================================
