----------------------------- MODULE MCCarrier ------------------------------
(* Small instances of Carrier for TLC.  Handles are model values, and no       *)
(* action or invariant tells them apart.                                       *)
EXTENDS Carrier, TLC

Symmetry == Permutations(Handle)

TwoHandles == Cardinality({h \in Handle : hs[h].pc # "idle"}) > 1

\* Bound: one message, or more while there is one handle and one bridge process.
FewMessages ==
    Len(owner) > 1 => launches <= 1 /\ ~TwoHandles

\* Bound: with two handles, the session ends before a message and a second bridge
\* process, and no message outlives both a lapsed attach and a bridge process.
FewFailures ==
    TwoHandles =>
        /\ ~loopUp => owner = <<>> /\ launches <= 1
        /\ launches > 1 /\ owner # <<>> => ~lapsed

CarrierNext == Next /\ FewMessages' /\ FewFailures'

CarrierSpec == Init /\ [][CarrierNext]_carrierVars
=============================================================================
