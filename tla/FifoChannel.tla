---------------------------- MODULE FifoChannel ----------------------------
(***************************************************************************)
(* What a bounded byte pipe promises, whatever its implementation: the     *)
(* bytes in it form a sequence of at most Capacity bytes that only ever    *)
(* grows at its tail and only ever shrinks at its head.                    *)
(*                                                                         *)
(* This is the abstract specification that the ring buffer of              *)
(* protect/pipe.c (module Pipe) is shown to implement.                     *)
(***************************************************************************)
EXTENDS Naturals, Sequences

CONSTANT Capacity    \* how many bytes the channel can hold

VARIABLE chan        \* the bytes in the channel, oldest first

-----------------------------------------------------------------------------

Init == chan = << >>

\* Bytes are appended; what was in the channel keeps its place.
Send ==
    /\ Len(chan') >= Len(chan)
    /\ Len(chan') <= Capacity
    /\ \A i \in 1 .. Len(chan) : chan'[i] = chan[i]

\* The k oldest bytes leave; the others move up in order.
Receive ==
    \E k \in 0 .. Len(chan) :
        /\ Len(chan') = Len(chan) - k
        /\ \A i \in 1 .. Len(chan') : chan'[i] = chan[i + k]

Next == Send \/ Receive

Spec == Init /\ [][Next]_chan
=============================================================================
