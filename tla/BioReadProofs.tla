--------------------------- MODULE BioReadProofs ---------------------------
(***************************************************************************)
(* Proofs about the block page read (module BioRead), for every number of  *)
(* tasks and of calls, with and without I/O errors.                        *)
(*                                                                         *)
(* The first invariant numbers the calls: a call owns its bio until it     *)
(* submits it, and no two calls own the same.  The second one holds as     *)
(* long as the calls do not overlap: at most one bio is then under way,    *)
(* and private_page is still the page it was given.                        *)
(***************************************************************************)
EXTENDS BioRead, TLAPS

BioStates == {"none", "inflight", "show", "failed", "put", "freed", "wake", "end"}

BeforeSubmit == {"test", "alloc", "submit"}

TypeOK ==
    /\ private_page \in 0 .. MaxReads /\ private_bio \in 0 .. MaxReads
    /\ buffer \in {"zero", "block", "stale"} /\ filled \subseteq Nat
    /\ bio \in [Reads -> BioStates] /\ bio_page \in [Reads -> Nat]
    /\ waitq \subseteq Tasks /\ calls \in 0 .. MaxReads
    /\ pc \in [Tasks -> BeforeSubmit \cup
                        {"idle", "copy", "prepare", "sleep", "woken"}]
    /\ call \in [Tasks -> 0 .. MaxReads]
    /\ pos \in [Tasks -> Nat]

\* A call has a number of its own, and its bio is its own until it is submitted.
CallsOK ==
    /\ \A t \in Tasks : call[t] <= calls
    /\ \A t \in Tasks : pc[t] # "idle" => call[t] # 0
    /\ \A t \in Tasks : pc[t] \in BeforeSubmit => bio[call[t]] = "none"
    /\ \A t, u \in Tasks : t # u /\ call[t] # 0 => call[t] # call[u]
    /\ \A k \in Reads : k > calls => bio[k] = "none"

BioInv == TypeOK /\ CallsOK /\ NoDanglingBio

LEMMA BioInit == Init => BioInv
  BY ConstantsAssumption
     DEF Init, BioInv, TypeOK, CallsOK, NoDanglingBio, BioStates, BeforeSubmit, Reads

LEMMA BioStep == BioInv /\ [Next]_vars => BioInv'
<1> SUFFICES ASSUME BioInv, Next PROVE BioInv'
  BY DEF BioInv, TypeOK, CallsOK, NoDanglingBio, vars, endio
<1> USE ConstantsAssumption
    DEF BioInv, TypeOK, CallsOK, NoDanglingBio, BioStates, BeforeSubmit, Reads, endio,
        Goto, BioTo
<1>1. ASSUME NEW t \in Tasks, ReadCall(t) \/ example_read(t) PROVE BioInv'
  <2>1. CASE ReadCall(t)
    BY <2>1, SMTT(30) DEF ReadCall
  <2>2. CASE ReadBusy(t)
    BY <2>2 DEF ReadBusy
  <2>3. CASE ReadTest(t)
    BY <2>3 DEF ReadTest
  <2>4. CASE ReadAlloc(t)
    BY <2>4 DEF ReadAlloc
  <2>5. CASE ReadSubmit(t)
    <3>1. /\ bio' = [bio EXCEPT ![call[t]] = "inflight"]
          /\ bio_page' = [bio_page EXCEPT ![call[t]] = private_page]
          /\ pc[t] = "submit" /\ pc' = [pc EXCEPT ![t] = "prepare"]
          /\ UNCHANGED <<private_page, private_bio, buffer, filled, waitq, calls, call,
                         pos>>
      BY <2>5 DEF ReadSubmit
    <3>2. call[t] \in Reads /\ call[t] <= calls
      BY <3>1
    <3>3. TypeOK'
      BY <3>1
    <3>4. NoDanglingBio'
      BY <3>1
    <3>5. \A u \in Tasks : pc'[u] \in BeforeSubmit => u # t /\ bio'[call[u]] = "none"
      BY <3>1, <3>2
    <3>6. CallsOK'
      BY <3>1, <3>2, <3>5
    <3> QED
      BY <3>3, <3>4, <3>6
  <2>6. CASE ReadPrepare(t)
    BY <2>6 DEF ReadPrepare
  <2>7. CASE ReadWoken(t)
    BY <2>7 DEF ReadWoken
  <2>8. CASE ReadCopy(t)
    <3>1. PICK len \in 0 .. MaxLen :
             pos' = [pos EXCEPT ![t] = IF @ > FileLen THEN @
                                       ELSE @ + min(len, FileLen - @)]
      BY <2>8 DEF ReadCopy
    <3>2. pos[t] \in Nat /\ len \in Nat
      OBVIOUS
    <3>3. IF pos[t] > FileLen THEN pos[t] \in Nat
          ELSE pos[t] + min(len, FileLen - pos[t]) \in Nat
      BY <3>2 DEF FileLen, min
    <3>4. pos' \in [Tasks -> Nat]
      BY <3>1, <3>3
    <3> QED
      BY <2>8, <3>4 DEF ReadCopy
  <2> QED
    BY <1>1, <2>1, <2>2, <2>3, <2>4, <2>5, <2>6, <2>7, <2>8 DEF example_read
<1>2. ASSUME NEW k \in Reads, DeviceDone(k) \/ DeviceError(k) \/ example_end_io(k)
      PROVE  BioInv'
  <2>1. CASE DeviceDone(k)
    <3>1. bio_page[k] \in Nat /\ filled' = filled \cup {bio_page[k]}
      BY <2>1 DEF DeviceDone
    <3>2. filled' \subseteq Nat
      BY <3>1
    <3> QED
      BY <2>1, <3>2 DEF DeviceDone
  <2>2. CASE DeviceError(k)
    BY <2>2 DEF DeviceError
  <2>3. CASE show_content(k)
    BY <2>3 DEF show_content
  <2>4. CASE EndPut(k)
    BY <2>4 DEF EndPut
  <2>5. CASE EndClear(k)
    BY <2>5 DEF EndClear
  <2>6. CASE EndWake(k)
    BY <2>6 DEF EndWake
  <2> QED
    BY <1>2, <2>1, <2>2, <2>3, <2>4, <2>5, <2>6 DEF example_end_io
<1> QED
  BY <1>1, <1>2 DEF Next

LEMMA BioAlways == Spec => []BioInv
  BY BioInit, BioStep, PTL DEF Spec

(***************************************************************************)
(* private_bio never points at a bio that end_io has given up              *)
(* (NoDanglingBio), although it is written without a lock by every reader  *)
(* and every end_io.                                                       *)
(***************************************************************************)
THEOREM BioNotDangling == Spec => []NoDanglingBio
  BY BioAlways, PTL DEF BioInv

(***************************************************************************)
(* Calls that do not overlap.                                              *)
(***************************************************************************)
Lone == \A t, u \in Tasks : t # u => pc[t] = "idle" \/ pc[u] = "idle"

\* The bio of the call under way, if any, is the only one that is not over.
OneBio ==
    /\ \A k \in Reads : bio[k] \notin {"none", "end"} =>
          \E t \in Tasks : pc[t] \in {"prepare", "sleep"} /\ call[t] = k
    /\ private_bio # 0 =>
          \E t \in Tasks : /\ pc[t] \in {"submit", "prepare", "sleep"}
                           /\ call[t] = private_bio
                           /\ bio[private_bio] \in BioStates \ {"wake", "end"}

\* The page that show_content maps is the one that the bio fills.
SamePage ==
    \A t \in Tasks : pc[t] # "idle" =>
        /\ private_page = call[t] /\ pc[t] # "copy"
        /\ pc[t] \in {"prepare", "sleep", "woken"} => bio_page[call[t]] = call[t]
        /\ bio[call[t]] \in {"show", "put", "freed", "wake", "end"} =>
              call[t] \in filled
        /\ bio[call[t]] \in {"put", "freed", "wake", "end"} => buffer = "block"
        /\ pc[t] = "sleep" /\ t \notin waitq => bio[call[t]] = "end"
        /\ pc[t] = "woken" => bio[call[t]] = "end"

LoneInv == OneBio /\ SamePage

LEMMA LoneInit == Init => LoneInv
  BY ConstantsAssumption DEF Init, LoneInv, OneBio, SamePage, Reads

LEMMA LoneStep == BioInv /\ BioInv' /\ Lone /\ Lone' /\ LoneInv /\ [Next]_vars => LoneInv'
<1> SUFFICES ASSUME BioInv, BioInv', Lone, Lone', LoneInv, Next PROVE LoneInv'
  BY DEF LoneInv, OneBio, SamePage, vars, endio
<1> USE ConstantsAssumption
    DEF BioInv, TypeOK, CallsOK, Lone, LoneInv, OneBio, SamePage, BioStates,
        BeforeSubmit, Reads, endio, Goto, BioTo
<1>1. ASSUME NEW t \in Tasks, ReadCall(t) \/ example_read(t) PROVE LoneInv'
  <2>1. CASE ReadCall(t)
    <3>1. /\ pc[t] = "idle" /\ pc' = [pc EXCEPT ![t] = "test"]
          /\ calls' = calls + 1 /\ call' = [call EXCEPT ![t] = calls + 1]
          /\ private_page' = calls + 1 /\ calls + 1 \in Reads
          /\ UNCHANGED <<private_bio, buffer, filled, bio, bio_page, waitq>>
      BY <2>1, SMTT(30) DEF ReadCall
    <3>2. \A u \in Tasks : u # t => pc'[u] = "idle" /\ pc[u] = "idle"
      BY <3>1
    <3>3. private_bio = 0 /\ \A k \in Reads : bio[k] \in {"none", "end"}
      BY <3>1, <3>2
    <3>4. OneBio'
      BY <3>1, <3>3
    <3>5. pc'[t] = "test" /\ call'[t] = calls + 1 /\ bio[calls + 1] = "none"
      BY <3>1
    <3>6. SamePage'
      BY <3>1, <3>2, <3>5
    <3> QED
      BY <3>4, <3>6
  <2>2. CASE ReadBusy(t)
    BY <2>2 DEF ReadBusy
  <2>3. CASE ReadTest(t)
    BY <2>3 DEF ReadTest
  <2>4. CASE ReadAlloc(t)
    BY <2>4 DEF ReadAlloc
  <2>5. CASE ReadSubmit(t)
    BY <2>5 DEF ReadSubmit
  <2>6. CASE ReadPrepare(t)
    BY <2>6 DEF ReadPrepare
  <2>7. CASE ReadWoken(t)
    BY <2>7 DEF ReadWoken
  <2>8. CASE ReadCopy(t)
    BY <2>8 DEF ReadCopy
  <2> QED
    BY <1>1, <2>1, <2>2, <2>3, <2>4, <2>5, <2>6, <2>7, <2>8 DEF example_read
<1>2. ASSUME NEW k \in Reads, DeviceDone(k) \/ DeviceError(k) \/ example_end_io(k)
      PROVE  LoneInv'
  <2>1. CASE DeviceDone(k)
    BY <2>1 DEF DeviceDone
  <2>2. CASE DeviceError(k)
    BY <2>2 DEF DeviceError
  <2>3. CASE show_content(k)
    BY <2>3 DEF show_content
  <2>4. CASE EndPut(k)
    BY <2>4 DEF EndPut
  <2>5. CASE EndClear(k)
    BY <2>5 DEF EndClear
  <2>6. CASE EndWake(k)
    <3>1. /\ bio[k] = "wake" /\ bio' = [bio EXCEPT ![k] = "end"] /\ waitq' = {}
          /\ UNCHANGED <<private_page, private_bio, buffer, filled, bio_page, calls,
                         pc, call>>
      BY <2>6 DEF EndWake
    <3>2. PICK t \in Tasks : pc[t] \in {"prepare", "sleep"} /\ call[t] = k
      BY <3>1
    <3>3. \A u \in Tasks : u # t => pc[u] = "idle"
      BY <3>2, SMTT(30)
    <3>4. OneBio'
      BY <3>1, <3>2, <3>3
    <3>5. SamePage'
      BY <3>1, <3>2, <3>3
    <3> QED
      BY <3>4, <3>5
  <2> QED
    BY <1>2, <2>1, <2>2, <2>3, <2>4, <2>5, <2>6 DEF example_end_io
<1> QED
  BY <1>1, <1>2 DEF Next

(***************************************************************************)
(* As long as calls of example_read do not overlap, a reader that end_io   *)
(* has woken finds the block in the buffer (LoneReaderSeesBlock), for any  *)
(* number of calls by any number of tasks, and whatever bios fail.         *)
(***************************************************************************)
THEOREM LoneReader == Spec => LoneReaderSeesBlock
<1>1. BioInv /\ LoneInv => \A t \in Tasks : pc[t] = "woken" => buffer = "block"
  BY DEF LoneInv, SamePage
<1>2. Spec /\ []Lone => []LoneInv
  BY LoneInit, LoneStep, BioAlways, PTL DEF Spec
<1> QED
  BY <1>1, <1>2, BioAlways, PTL DEF LoneReaderSeesBlock, Lone
=============================================================================
