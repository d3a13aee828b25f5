----------------------------- MODULE BoundedFifo -----------------------------
(***************************************************************************)
(* What a ring buffer of the firmware promises: first in, first out; an    *)
(* item is refused only when the ring is full, and every refusal counts.   *)
(***************************************************************************)
EXTENDS Naturals, Sequences

CONSTANT Capacity

VARIABLES items, refused

\* Any item goes behind those that are there.
Put ==
    /\ Len(items) < Capacity
    /\ Len(items') = Len(items) + 1
    /\ SubSeq(items', 1, Len(items)) = items
    /\ UNCHANGED refused

Refuse == Len(items) = Capacity /\ refused' = refused + 1 /\ UNCHANGED items

Take == items # <<>> /\ items' = Tail(items) /\ UNCHANGED refused

\* Everything is discarded at once, and nothing of it counts as refused.
Clear == items' = <<>> /\ UNCHANGED refused

Init == items = <<>> /\ refused = 0

Next == Put \/ Refuse \/ Take \/ Clear

Spec == Init /\ [][Next]_<<items, refused>>

=============================================================================
