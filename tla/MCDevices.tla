----------------------------- MODULE MCDevices -----------------------------
(***************************************************************************)
(* The models of the character drivers, of the unlocked variables, of the  *)
(* fake disk and of the walk over a radix tree for TLC.  They share no     *)
(* state, so a run is one of them, chosen at the start, with the others    *)
(* standing still in one initial state.                                    *)
(***************************************************************************)
EXTENDS CharBuffer, SharedCells, FakePata, RadixWalk, TLC

VARIABLE devpart   \* the model that runs

DevInit ==
    /\ devpart \in {"char", "cells", "disk", "walk"}
    /\ CInit /\ SInit /\ FInit /\ RInit
    /\ devpart # "char" => cdrv = "mychar"
    /\ devpart # "cells" => sdrv = "my_atomic"
    /\ devpart # "walk" => items = {}

DevNext ==
    \/ devpart = "char" /\ CNext /\ UNCHANGED <<devpart, svars, fvars, wvars>>
    \/ devpart = "cells" /\ SNext /\ UNCHANGED <<devpart, cvars, fvars, wvars>>
    \/ devpart = "disk" /\ FNext /\ UNCHANGED <<devpart, cvars, svars, wvars>>
    \/ devpart = "walk" /\ RNext /\ UNCHANGED <<devpart, cvars, svars, fvars>>

DevSpec == DevInit /\ [][DevNext]_<<devpart, cvars, svars, fvars, wvars>>

\* Threads may be exchanged.
CSymmetry == Permutations(CThreads)
=============================================================================
