---------------------------- MODULE RecordPromise ----------------------------
(***************************************************************************)
(* What the event log of a recording promises (recording/log.rs and        *)
(* recorder.rs, module comments): the events offered while it is attached, *)
(* in order and without a repetition, with every one it could not take     *)
(* counted; after a failed write, a prefix of that.                        *)
(***************************************************************************)
EXTENDS Naturals, Sequences, SequencesExt

VARIABLES
    offered,   \* events offered so far
    kept,      \* the events in the log or on their way into it
    missing,   \* events counted as lost
    sealed,    \* nothing is offered any more
    broken     \* a write failed

vars == <<offered, kept, missing, sealed, broken>>

Init ==
    /\ offered = 0 /\ kept = <<>> /\ missing = 0
    /\ sealed = FALSE /\ broken = FALSE

Keep == kept' = Append(kept, offered') /\ UNCHANGED missing

Offer ==
    /\ ~sealed
    /\ offered' = offered + 1
    /\ \/ Keep
       \/ (missing' = missing + 1 /\ UNCHANGED kept)
       \/ (broken /\ UNCHANGED <<kept, missing>>)
    /\ UNCHANGED <<sealed, broken>>

\* The end comes with a last event, which is never lost, or without one.
Seal ==
    /\ ~sealed
    /\ sealed' = TRUE
    /\ \/ /\ offered' = offered + 1
          /\ Keep \/ (broken /\ UNCHANGED <<kept, missing>>)
       \/ UNCHANGED <<offered, kept, missing>>
    /\ UNCHANGED broken

\* A failed write loses what was not written, the count of the lost included.
Break ==
    /\ broken' = TRUE
    /\ IsPrefix(kept', kept)
    /\ missing' \in 0..missing
    /\ UNCHANGED <<offered, sealed>>

Next == Offer \/ Seal \/ Break

Spec == Init /\ [][Next]_vars
=============================================================================
