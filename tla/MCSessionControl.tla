-------------------------- MODULE MCSessionControl --------------------------
(* Small instances of SessionControl.  Two takes, their input, an agent's drag  *)
(* and two keys at once are too many states, so a behaviour has either two      *)
(* takes and their input ("tabs"), two takes and the drag ("drag") or one take  *)
(* and everything else ("keys"; its session loop does not end).                 *)
EXTENDS SessionControl, TLC

Symmetry == Permutations(Take) \cup Permutations(Slot)

VARIABLE part

InPart ==
    \/ /\ part = "tabs"
       /\ inp.down \cup inp.up \subseteq Button
       /\ \A c \in Call : acts[c].pc = "idle"
    \/ /\ part = "drag"
       /\ inp.down \cup inp.up = {}
       /\ \A c \in Call : acts[c].key \in Button
    \/ /\ part = "keys" /\ loopUp
       /\ Cardinality({t \in Take : tpc[t] # "idle"}) <= 1

HandoverInit == part \in {"tabs", "drag", "keys"} /\ Init /\ InPart

HandoverNext == UNCHANGED part /\ Next /\ InPart'

HandoverSpec == HandoverInit /\ [][HandoverNext]_<<vars, part>>
=============================================================================
