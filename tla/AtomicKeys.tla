---------------------------- MODULE AtomicKeys ----------------------------
(***************************************************************************)
(* What a keyboard queue promises its readers, whatever its implementation *)
(* and however it is locked: a read takes the oldest keys off the queue,   *)
(* as many as it asked for or as there are, in a single step.  It may fail *)
(* for want of memory, and then the keys are the oldest again; once it     *)
(* keeps them nobody else gets them.  Keys are queued at any time, and     *)
(* forgotten only when nobody reads.                                       *)
(*                                                                         *)
(* This is the abstract specification that the spinlock and the list of    *)
(* protect/my_spin.c (module KeyQueue) are shown to implement.             *)
(***************************************************************************)
EXTENDS Integers, Sequences

CONSTANT Readers

VARIABLES queue,   \* the keys, oldest first
          call,    \* "idle", "asked", "holding" or "given", of each reader
          want,    \* how many keys it asked for
          got      \* the keys it has taken

avars == <<queue, call, want, got>>

-----------------------------------------------------------------------------

Init ==
    /\ queue = << >>
    /\ call = [r \in Readers |-> "idle"]
    /\ want = [r \in Readers |-> 0]
    /\ got = [r \in Readers |-> << >>]

\* A key that is newer than all that anybody has seen.
Newest(k) ==
    /\ \A i \in 1 .. Len(queue) : queue[i] < k
    /\ \A r \in Readers : \A i \in 1 .. Len(got[r]) : got[r][i] < k

Put ==
    /\ Len(queue') = Len(queue) + 1
    /\ LET k == queue'[Len(queue')] IN Newest(k) /\ queue' = Append(queue, k)
    /\ UNCHANGED <<call, want, got>>

Ask(r) ==
    /\ call[r] = "idle" /\ call' = [call EXCEPT ![r] = "asked"]
    /\ want'[r] \in Nat /\ want' = [want EXCEPT ![r] = want'[r]]
    /\ UNCHANGED <<queue, got>>

\* How many keys there are for a reader.
Share(r) == IF want[r] < Len(queue) THEN want[r] ELSE Len(queue)

\* It asked for none, or there is none.
Empty(r) ==
    /\ call[r] = "asked" /\ call' = [call EXCEPT ![r] = "idle"]
    /\ Share(r) = 0 /\ want' = [want EXCEPT ![r] = 0]
    /\ UNCHANGED <<queue, got>>

Take(r) ==
    /\ call[r] = "asked" /\ call' = [call EXCEPT ![r] = "holding"]
    /\ \A q \in Readers : call[q] # "holding"
    /\ Share(r) # 0 /\ want' = [want EXCEPT ![r] = 0]
    /\ got' = [got EXCEPT ![r] = SubSeq(queue, 1, Share(r))]
    /\ queue' = SubSeq(queue, Share(r) + 1, Len(queue))

GiveBack(r) ==
    /\ call[r] = "holding" /\ call' = [call EXCEPT ![r] = "idle"]
    /\ queue' = got[r] \o queue /\ got' = [got EXCEPT ![r] = << >>]
    /\ UNCHANGED want

Keep(r) ==
    /\ call[r] = "holding" /\ call' = [call EXCEPT ![r] = "given"]
    /\ UNCHANGED <<queue, want, got>>

Deliver(r) ==
    /\ call[r] = "given" /\ call' = [call EXCEPT ![r] = "idle"]
    /\ got' = [got EXCEPT ![r] = << >>]
    /\ UNCHANGED <<queue, want>>

Forget ==
    /\ \A r \in Readers : call[r] = "idle"
    /\ queue' = << >>
    /\ UNCHANGED <<call, want, got>>

Next ==
    \/ Put \/ Forget
    \/ \E r \in Readers : \/ Ask(r) \/ Empty(r) \/ Take(r)
                          \/ GiveBack(r) \/ Keep(r) \/ Deliver(r)

Spec == Init /\ [][Next]_avars
=============================================================================
