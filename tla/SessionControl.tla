--------------------------- MODULE SessionControl ---------------------------
(***************************************************************************)
(* Who may send input to one live session: the control lease of            *)
(* crates/rdpilot-daemon/src/control.rs, its callers (viewer requests, the *)
(* viewer's sweeper, agent calls, Cua calls, the daemon), and the session  *)
(* loop they all feed (SessionLoop).                                       *)
(*                                                                         *)
(* One step is one critical section of the state mutex, or one await that  *)
(* completed.  The daemon's runtime has several threads, so any two steps  *)
(* of different tasks interleave.                                          *)
(*                                                                         *)
(* - A Slot is one Transition that is not discharged yet; the pending      *)
(*   count of the code is the number of occupied slots.                    *)
(* - Clocks are left out: a deadline may pass whenever a task waits on     *)
(*   one ("timeout" in Faults), a request may be dropped at any await      *)
(*   ("cancel"), the session loop may end ("loopend").                     *)
(* - A wait on the pending count and the critical section after it are one *)
(*   step: while a take waits the lease is not granted, so nothing that    *)
(*   leaves the lease alone registers a new transition in between.         *)
(* - `logged' is the controller that the session's event log names.        *)
(***************************************************************************)
EXTENDS SessionLoop, FiniteSets

CONSTANTS
    Cua,        \* acting Cua calls that expect an answer
    Button,     \* the keys that are mouse buttons: fenced by frame geometry
    RecentEnds, \* RECENT_ENDS
    Faults      \* which faults may happen

ASSUME ControlAssumption ==
    /\ Button \subseteq Key
    /\ RecentEnds \in Nat \ {0}
    /\ Faults \subseteq {"timeout", "cancel", "loopend"}
    /\ Take \cap {"request", "sweep", "task"} = {}
    /\ IsFiniteSet(Cua)

VARIABLES
    lease,      \* State.lease
    epoch,      \* State.epoch
    inflight,   \* State.inflight
    ended,      \* State.ended: recently ended leases; the cause is left out
    trans,      \* transitions that are not discharged
    tpc,        \* where each take request is
    sweep,      \* the lease the sweeper has judged dead, between its two locks
    inp,        \* the viewer input request that holds input_lock
    acts,       \* native agent calls
    cua,        \* acting Cua calls
    logged      \* the controller according to the event log

controlVars == <<lease, epoch, inflight, ended, trans>>
callerVars == <<tpc, sweep, inp, acts, cua, logged>>
vars == <<loopVars, controlVars, callerVars>>

NoLease == [id |-> None, granted |-> FALSE, held |-> {}]
NoTrans == [epoch |-> 0, at |-> 0, release |-> {}, owner |-> None, phase |-> "none"]
NoInput == [by |-> None, at |-> 0, phase |-> "idle", down |-> {}, up |-> {}]

\* Who discharges a transition: the take that made it, a viewer request, the
\* sweeper, or a task of the daemon that nothing drops.
Owner == Take \cup {"request", "sweep", "task"}
Lease == {NoLease} \cup [id : Take, granted : BOOLEAN, held : SUBSET Key]
Transition ==
    [epoch : Nat, at : Nat, release : SUBSET Key, owner : Owner \cup {None},
     phase : {"none", "new", "sent", "done"}]
Waiting == {"settling", "releasing", "moving", "movewait", "confirming"}
TakePc == {"idle", "asked", "recording", "holding", "undone", "lost"} \cup Waiting
InputReq ==
    {NoInput} \cup
    [by : Take \cup {None}, at : Nat, phase : {"check", "wait"},
     down : SUBSET Key, up : SUBSET Key] \cup
    [by : Take, at : Nat, phase : {"send"}, down : SUBSET Key, up : SUBSET Key]
Act == [pc : {"idle", "ready", "wait", "done"}, at : Nat, pressed : BOOLEAN, key : Key]

TypeOK ==
    /\ LoopTypeOK
    /\ lease \in Lease
    /\ epoch \in Nat
    /\ inflight \in Nat
    /\ ended \in Seq(Take)
    /\ trans \in [Slot -> Transition]
    /\ tpc \in [Take -> TakePc]
    /\ sweep \in Take \cup {None}
    /\ inp \in InputReq
    /\ acts \in [Call -> Act]
    /\ cua \in [Cua -> {"idle", "admitted", "forwarded", "done"}]
    /\ logged \in Controller

Init ==
    /\ LoopInit
    /\ lease = NoLease
    /\ epoch = 0
    /\ inflight = 0
    /\ ended = <<>>
    /\ trans = [x \in Slot |-> NoTrans]
    /\ tpc = [t \in Take |-> "idle"]
    /\ sweep = None
    /\ inp = NoInput
    /\ \E key \in [Call -> Key] :
          acts = [c \in Call |-> [pc |-> "idle", at |-> 0, pressed |-> FALSE, key |-> key[c]]]
    /\ cua = [c \in Cua |-> "idle"]
    /\ logged = Agent

-----------------------------------------------------------------------------
(* Transitions *)

\* Pending.count = 0.
NoPending == \A x \in Slot : trans[x].phase = "none"

\* SessionControl::transition: register the releases `held' as pending.
Pend(x, held, owner) ==
    /\ trans[x].phase = "none"
    /\ trans' = [trans EXCEPT ![x] = [epoch |-> 0, at |-> epoch, release |-> held,
                                      owner |-> owner, phase |-> "new"]]
    /\ UNCHANGED epoch

\* SessionControl::advance: a controller change.
Advance(x, owner) ==
    /\ trans[x].phase = "none"
    /\ epoch' = epoch + 1
    /\ trans' = [trans EXCEPT ![x] = [epoch |-> epoch + 1, at |-> epoch + 1,
                                      release |-> {}, owner |-> owner, phase |-> "new"]]

\* Mutant: the end of a lease keeps the holder's epoch.
EndLeaseKeepsEpoch(x, owner) == Pend(x, {}, owner)

\* SessionControl::end_lease: only the end of a granted lease is a change.
EndLease(x, owner) == IF lease.granted THEN Advance(x, owner) ELSE Pend(x, {}, owner)

\* State::remember.
Remember(id) ==
    LET recent == IF Len(ended) >= RecentEnds THEN Tail(ended) ELSE ended
    IN  ended' = Append(recent, id)

\* The named lease, granted (State::held).
Held(t) == lease.id = t /\ lease.granted

\* input_lock is held by a viewer input request or by the releases of a
\* transition that were sent and not answered.
LockFree ==
    /\ inp.by = None
    /\ \A x \in Slot : ~(trans[x].phase = "sent" /\ trans[x].epoch = 0)

\* discharge_within: an epoch change goes to the loop without the input lock.
SendEpoch(x) ==
    /\ trans[x].phase = "new" /\ trans[x].epoch > 0
    /\ Enqueue("epoch", trans[x].epoch, {}, {}, x)
    /\ trans' = [trans EXCEPT ![x].phase = "sent"]
    /\ UNCHANGED <<lease, epoch, inflight, ended, callerVars>>

\* discharge_within: releases go in the order of the input lock.
SendReleases(x) ==
    /\ trans[x].phase = "new" /\ trans[x].epoch = 0
    /\ LockFree
    /\ IF trans[x].release = {}
       THEN /\ trans' = [trans EXCEPT ![x].phase = "done"]
            /\ UNCHANGED loopVars
       ELSE /\ Enqueue("release", trans[x].at, {}, trans[x].release, x)
            /\ trans' = [trans EXCEPT ![x].phase = "sent"]
    /\ UNCHANGED <<lease, epoch, inflight, ended, callerVars>>

\* The wait of a discharge is over: the loop answered, the channel is closed,
\* or the deadline passed.  A release waits for input_lock without a deadline.
Discharged(x, ok) ==
    /\ trans[x].phase # "none"
    /\ \/ ok /\ trans[x].phase = "done"
       \/ /\ ~ok /\ trans[x].phase # "done"
          /\ ~loopUp \/ "timeout" \in Faults
          /\ trans[x].epoch = 0 => trans[x].phase = "sent" \/ LockFree
    /\ trans' = [trans EXCEPT ![x] = NoTrans]
    /\ queue' = Orphan({"epoch", "release"}, x)
    /\ UNCHANGED <<loopUp, loopEpoch, pressed>>

\* A task that is not a take returns from discharge.
DischargeReturns(x) ==
    /\ trans[x].owner \notin Take
    /\ \E ok \in BOOLEAN : Discharged(x, ok)
    /\ UNCHANGED <<lease, epoch, inflight, ended, callerVars>>

\* A viewer request or the sweeper is dropped while it discharges.
DischargeDropped(x) ==
    /\ "cancel" \in Faults
    /\ trans[x].owner \in {"request", "sweep"}
    /\ trans' = [trans EXCEPT ![x] = NoTrans]
    /\ queue' = Orphan({"epoch", "release"}, x)
    /\ UNCHANGED <<loopUp, loopEpoch, pressed, lease, epoch, inflight, ended, callerVars>>

-----------------------------------------------------------------------------
(* take_within *)

\* ViewerControl::take: the session is live (Registry::take_parts).
TakeParts(t) ==
    /\ tpc[t] = "idle"
    /\ loopUp
    /\ tpc' = [tpc EXCEPT ![t] = "asked"]
    /\ UNCHANGED <<loopVars, controlVars, sweep, inp, acts, cua, logged>>

Pending(t) == [id |-> t, granted |-> FALSE, held |-> {}]

\* The lease moves from another tab.
TakeFromTab(t, x) ==
    /\ tpc[t] = "asked"
    /\ lease.granted
    /\ lease' = Pending(t)
    /\ Remember(lease.id)
    /\ logged' = t
    /\ Advance(x, t)
    /\ tpc' = [tpc EXCEPT ![t] = "moving"]
    /\ UNCHANGED <<loopVars, inflight, sweep, inp, acts, cua>>

\* The take is marked while the agent controls; a pending take is displaced.
TakeFromAgent(t) ==
    /\ tpc[t] = "asked"
    /\ ~lease.granted
    /\ lease' = Pending(t)
    /\ IF lease.id # None THEN Remember(lease.id) ELSE UNCHANGED ended
    /\ tpc' = [tpc EXCEPT ![t] = "settling"]
    /\ UNCHANGED <<loopVars, epoch, inflight, trans, sweep, inp, acts, cua, logged>>

\* Mutant: a take does not wait for Cua calls in flight.
TakeSettledEarly(t) ==
    /\ tpc[t] = "settling"
    /\ tpc' = [tpc EXCEPT ![t] = "releasing"]
    /\ UNCHANGED <<loopVars, controlVars, sweep, inp, acts, cua, logged>>

\* wait_settled.
TakeSettled(t) ==
    /\ tpc[t] = "settling"
    /\ inflight = 0
    /\ tpc' = [tpc EXCEPT ![t] = "releasing"]
    /\ UNCHANGED <<loopVars, controlVars, sweep, inp, acts, cua, logged>>

\* wait_released, then the second critical section.
TakeAdvance(t, x) ==
    /\ tpc[t] = "releasing"
    /\ NoPending
    /\ \/ /\ lease.id = t
          /\ Advance(x, t)
          /\ tpc' = [tpc EXCEPT ![t] = "confirming"]
       \/ /\ lease.id # t
          /\ tpc' = [tpc EXCEPT ![t] = "lost"]
          /\ UNCHANGED <<epoch, trans>>
    /\ UNCHANGED <<loopVars, lease, inflight, ended, sweep, inp, acts, cua, logged>>

\* The bound passes before agent work and releases settled: the take is undone.
TakeBusy(t) ==
    /\ "timeout" \in Faults
    /\ tpc[t] \in {"settling", "releasing"}
    /\ lease' = IF lease.id = t THEN NoLease ELSE lease
    /\ tpc' = [tpc EXCEPT ![t] = IF lease.id = t THEN "undone" ELSE "lost"]
    /\ UNCHANGED <<loopVars, epoch, inflight, ended, trans, sweep, inp, acts, cua, logged>>

\* Mutant: the last critical section does not look whether the lease is its own.
FinishUnchecked(t, confirmed) ==
    /\ tpc' = [tpc EXCEPT ![t] = IF confirmed THEN "holding" ELSE "undone"]
    /\ lease' = IF confirmed THEN [lease EXCEPT !.granted = TRUE] ELSE NoLease
    /\ UNCHANGED <<epoch, inflight, ended, sweep, inp, acts, cua, logged>>

\* The last critical section.
Finish(t, confirmed) ==
    /\ \/ /\ lease.id # t
          /\ tpc' = [tpc EXCEPT ![t] = "lost"]
          /\ UNCHANGED lease
       \/ /\ lease.id = t /\ ~confirmed
          /\ tpc' = [tpc EXCEPT ![t] = "undone"]
          /\ lease' = NoLease
       \/ /\ lease.id = t /\ confirmed
          /\ tpc' = [tpc EXCEPT ![t] = IF tpc[t] = "confirming" THEN "recording" ELSE "holding"]
          /\ lease' = [lease EXCEPT !.granted = TRUE]
    /\ UNCHANGED <<epoch, inflight, ended, sweep, inp, acts, cua, logged>>

\* The epoch change of a take from the agent was discharged.
TakeConfirmed(t, x) ==
    /\ tpc[t] = "confirming"
    /\ trans[x].owner = t
    /\ \E ok \in BOOLEAN : Discharged(x, ok) /\ Finish(t, ok)

\* The epoch change of a take from another tab was discharged.
TakeMoved(t, x) ==
    /\ tpc[t] = "moving"
    /\ trans[x].owner = t
    /\ \/ /\ Discharged(x, TRUE)
          /\ tpc' = [tpc EXCEPT ![t] = "movewait"]
          /\ UNCHANGED <<lease, epoch, inflight, ended, sweep, inp, acts, cua, logged>>
       \/ Discharged(x, FALSE) /\ Finish(t, FALSE)

\* ... and then the releases of the old holder, or the bound.
TakeMoveReleased(t) ==
    /\ tpc[t] = "movewait"
    /\ \/ NoPending /\ Finish(t, TRUE)
       \/ "timeout" \in Faults /\ Finish(t, FALSE)
    /\ UNCHANGED <<loopVars, trans>>

\* ControlTaken goes to the event log after the state mutex is unlocked.
TakeRecord(t) ==
    /\ tpc[t] = "recording"
    /\ logged' = t
    /\ tpc' = [tpc EXCEPT ![t] = "holding"]
    /\ UNCHANGED <<loopVars, controlVars, sweep, inp, acts, cua>>

\* PendingTake::drop: the tab went away while its take waited.
TakeDropped(t) ==
    /\ "cancel" \in Faults
    /\ tpc[t] \in Waiting
    /\ lease' = IF lease.id = t THEN NoLease ELSE lease
    /\ tpc' = [tpc EXCEPT ![t] = "undone"]
    /\ trans' = [x \in Slot |-> IF trans[x].owner = t THEN NoTrans ELSE trans[x]]
    /\ queue' = [i \in DOMAIN queue |->
                    IF queue[i].kind = "epoch" /\ trans[queue[i].from].owner = t
                    THEN [queue[i] EXCEPT !.reply = FALSE] ELSE queue[i]]
    /\ UNCHANGED <<loopUp, loopEpoch, pressed, epoch, inflight, ended,
                   sweep, inp, acts, cua, logged>>

-----------------------------------------------------------------------------
(* The holder's other requests, and the ends of a lease *)

\* Mutant: a blur forgets the held keys without releasing them.
BlurForgets(t, x) ==
    /\ tpc[t] = "holding" /\ Held(t)
    /\ lease' = [lease EXCEPT !.held = {}]
    /\ Pend(x, {}, "request")
    /\ UNCHANGED <<loopVars, inflight, ended, callerVars>>

\* The holder's page lost focus: release what it holds, keep the lease.
Blur(t, x) ==
    /\ tpc[t] = "holding" /\ Held(t)
    /\ lease' = [lease EXCEPT !.held = {}]
    /\ Pend(x, lease.held, "request")
    /\ UNCHANGED <<loopVars, inflight, ended, callerVars>>

\* The holder gives control back.
ReleaseLease(t, x) ==
    /\ tpc[t] = "holding" /\ Held(t)
    /\ lease' = NoLease
    /\ Remember(t)
    /\ logged' = Agent
    /\ Advance(x, "request")
    /\ UNCHANGED <<loopVars, inflight, tpc, sweep, inp, acts, cua>>

\* Mutant: the end of a lease is not remembered.
TakeHumanForgets ==
    /\ lease.id # None
    /\ lease' = NoLease
    /\ UNCHANGED ended
    /\ logged' = IF lease.granted THEN Agent ELSE logged

\* take_human: the end of a take that is not granted is not recorded.
TakeHuman ==
    /\ lease.id # None
    /\ lease' = NoLease
    /\ Remember(lease.id)
    /\ logged' = IF lease.granted THEN Agent ELSE logged

\* expire, first critical section: the heartbeat or the input stopped.
SweepJudge ==
    /\ sweep = None
    /\ \A x \in Slot : trans[x].owner # "sweep"
    /\ lease.granted
    /\ sweep' = lease.id
    /\ UNCHANGED <<loopVars, controlVars, tpc, inp, acts, cua, logged>>

\* expire, second critical section: end_human.
SweepEnd(x) ==
    /\ sweep # None
    /\ sweep' = None
    /\ \/ TakeHuman /\ EndLease(x, "sweep")
       \/ lease.id = None /\ UNCHANGED <<lease, ended, logged, epoch, trans>>
    /\ UNCHANGED <<loopVars, inflight, tpc, inp, acts, cua>>

\* end_human: the viewer stopped, or the daemon exits.
EndHuman(x) ==
    /\ TakeHuman
    /\ EndLease(x, "task")
    /\ UNCHANGED <<loopVars, inflight, tpc, sweep, inp, acts, cua>>

\* end_human_ended by the end hook: no epoch change.
EndHumanEnded(x) ==
    /\ ~loopUp
    /\ TakeHuman
    /\ Pend(x, {}, "task")
    /\ UNCHANGED <<loopVars, inflight, tpc, sweep, inp, acts, cua>>

\* end_lease_on_close: the transition is dropped at once.
EndHumanOnClose ==
    /\ ~loopUp
    /\ TakeHuman
    /\ UNCHANGED <<loopVars, epoch, trans, inflight, tpc, sweep, inp, acts, cua>>

\* agent_takeover_locked.
AgentTakeoverLocked(x) ==
    /\ lease.id # None
    /\ lease' = NoLease
    /\ Remember(lease.id)
    /\ logged' = Agent
    /\ EndLease(x, "task")

\* `rdpilot takeover'.
AgentTakeover(x) ==
    /\ AgentTakeoverLocked(x)
    /\ UNCHANGED <<loopVars, inflight, tpc, sweep, inp, acts, cua>>

-----------------------------------------------------------------------------
(* Viewer input *)

\* One event of an input request: the lease and the frame geometry are
\* checked in one critical section right before the event is sent.  `fenced'
\* is a pointer event aimed at an old frame size.
InputEvent(t, k, press, fenced) ==
    /\ tpc[t] = "holding"
    /\ \/ inp.by = None /\ LockFree
       \/ inp.by = t /\ inp.phase = "check"
    /\ fenced => k \in Button /\ (press \/ k \notin lease.held)
    /\ LET at == IF inp.by = None THEN epoch ELSE inp.at
           buttons == lease.held \cap Button
           req == [by |-> t, at |-> at, phase |-> "send", down |-> {}, up |-> {}]
       IN  \/ /\ ~Held(t)
              /\ inp' = NoInput
              /\ UNCHANGED lease
           \/ /\ Held(t) /\ fenced
              /\ lease' = [lease EXCEPT !.held = @ \ Button]
              /\ inp' = IF buttons = {} THEN [req EXCEPT !.phase = "check"]
                                        ELSE [req EXCEPT !.up = buttons]
           \/ /\ Held(t) /\ ~fenced
              /\ lease' = [lease EXCEPT !.held = IF press THEN @ \cup {k} ELSE @ \ {k}]
              /\ inp' = IF press THEN [req EXCEPT !.down = {k}] ELSE [req EXCEPT !.up = {k}]
    /\ UNCHANGED <<loopVars, epoch, inflight, ended, trans, tpc, sweep, acts, cua, logged>>

InputSend ==
    /\ inp.phase = "send"
    /\ Enqueue("tab", inp.at, inp.down, inp.up, inp.by)
    /\ inp' = [inp EXCEPT !.phase = "wait", !.down = {}, !.up = {}]
    /\ UNCHANGED <<controlVars, tpc, sweep, acts, cua, logged>>

\* The request is finished, refused, timed out or dropped: input_lock is free.
InputReturns ==
    /\ inp.by # None
    /\ \/ inp.phase = "check"
       \/ ~loopUp
       \/ Faults \cap {"timeout", "cancel"} # {}
    /\ inp' = NoInput
    /\ queue' = Orphan({"tab"}, inp.by)
    /\ UNCHANGED <<loopUp, loopEpoch, pressed, controlVars, tpc, sweep, acts, cua, logged>>

-----------------------------------------------------------------------------
(* Agent calls *)

\* admit_agent: while any lease exists the call is refused.
AdmitAgent(c) ==
    /\ acts[c].pc = "idle"
    /\ lease.id = None /\ NoPending
    /\ acts' = [acts EXCEPT ![c].pc = "ready", ![c].at = epoch]
    /\ UNCHANGED <<loopVars, controlVars, tpc, sweep, inp, cua, logged>>

\* A native call sends several batches, one after the other (a drag: the
\* press, then the release), all with the epoch of its admission.
AgentBatch(c) ==
    /\ acts[c].pc = "ready"
    /\ LET key == {acts[c].key}
       IN  Enqueue("agent", acts[c].at, IF acts[c].pressed THEN {} ELSE key,
                   IF acts[c].pressed THEN key ELSE {}, c)
    /\ acts' = [acts EXCEPT ![c].pc = "wait"]
    /\ UNCHANGED <<controlVars, tpc, sweep, inp, cua, logged>>

\* The channel is closed: the call fails.
AgentReturns(c) ==
    /\ acts[c].pc \in {"ready", "wait"}
    /\ ~loopUp
    /\ acts' = [acts EXCEPT ![c].pc = "done"]
    /\ UNCHANGED <<loopVars, controlVars, tpc, sweep, inp, cua, logged>>

\* admit_cua with one call: counted in the critical section of the check.
AdmitCua(c, x, takeover) ==
    /\ cua[c] = "idle"
    /\ \/ /\ lease.id = None
          /\ UNCHANGED <<lease, ended, logged, epoch, trans>>
       \/ takeover /\ AgentTakeoverLocked(x)
    /\ inflight' = inflight + 1
    /\ cua' = [cua EXCEPT ![c] = "admitted"]
    /\ UNCHANGED <<loopVars, tpc, sweep, inp, acts>>

\* Mutant: a call is sent without waiting for pending releases.
CuaForwardEarly(c) ==
    /\ cua[c] = "admitted"
    /\ cua' = [cua EXCEPT ![c] = "forwarded"]
    /\ UNCHANGED <<loopVars, controlVars, tpc, sweep, inp, acts, logged>>

\* forward_cua: discharge its own transition, wait_released, then send.
CuaForward(c) ==
    /\ cua[c] = "admitted"
    /\ NoPending
    /\ cua' = [cua EXCEPT ![c] = "forwarded"]
    /\ UNCHANGED <<loopVars, controlVars, tpc, sweep, inp, acts, logged>>

\* Mutant: an answer does not lower the count.
CuaFinishedLeaks(c) ==
    /\ cua[c] = "forwarded"
    /\ cua' = [cua EXCEPT ![c] = "done"]
    /\ UNCHANGED <<loopVars, controlVars, tpc, sweep, inp, acts, logged>>

\* cua_finished: answered, or its stream closed.
CuaFinished(c) ==
    /\ cua[c] = "forwarded"
    /\ inflight' = IF inflight = 0 THEN 0 ELSE inflight - 1
    /\ cua' = [cua EXCEPT ![c] = "done"]
    /\ UNCHANGED <<loopVars, lease, epoch, ended, trans, tpc, sweep, inp, acts, logged>>

-----------------------------------------------------------------------------
(* The session loop answers the task that waits.  A refused batch of an input  *)
(* request ends the request; so does a refused fence release here, where the   *)
(* code goes on to the next event and drops it at its lease check: a batch is  *)
(* stale only once the lease is gone.                                          *)

Answer(m) ==
    \/ /\ m.reply /\ m.kind \in {"epoch", "release"}
       /\ trans' = [trans EXCEPT ![m.from].phase = "done"]
       /\ UNCHANGED <<inp, acts>>
    \/ /\ m.reply /\ m.kind = "tab"
       /\ inp' = IF Stale(m) THEN NoInput ELSE [inp EXCEPT !.phase = "check"]
       /\ UNCHANGED <<trans, acts>>
    \/ /\ m.reply /\ m.kind = "agent"
       /\ acts' = IF Stale(m) THEN [acts EXCEPT ![m.from].pc = "done"]
                  ELSE [acts EXCEPT ![m.from].pc = IF acts[m.from].pressed THEN "done" ELSE "ready",
                                    ![m.from].pressed = TRUE]
       /\ UNCHANGED <<trans, inp>>
    \/ ~m.reply /\ UNCHANGED <<trans, inp, acts>>

LoopStep ==
    /\ Dequeue
    /\ Answer(Head(queue))
    /\ UNCHANGED <<lease, epoch, inflight, ended, tpc, sweep, cua, logged>>

LoopEnds ==
    /\ "loopend" \in Faults
    /\ Stop
    /\ UNCHANGED <<controlVars, callerVars>>

-----------------------------------------------------------------------------
TakeNext(t) ==
    \/ TakeParts(t) \/ TakeFromAgent(t) \/ TakeSettled(t) \/ TakeBusy(t)
    \/ TakeMoveReleased(t) \/ TakeRecord(t) \/ TakeDropped(t)
    \/ \E x \in Slot : \/ TakeFromTab(t, x) \/ TakeAdvance(t, x)
                       \/ TakeConfirmed(t, x) \/ TakeMoved(t, x)

HolderNext(t) ==
    \/ \E x \in Slot : Blur(t, x) \/ ReleaseLease(t, x)
    \/ \E k \in Key, press, fenced \in BOOLEAN : InputEvent(t, k, press, fenced)

DaemonNext ==
    \/ SweepJudge \/ EndHumanOnClose
    \/ \E x \in Slot : SweepEnd(x) \/ EndHuman(x) \/ EndHumanEnded(x) \/ AgentTakeover(x)

DischargeNext ==
    \E x \in Slot : \/ SendEpoch(x) \/ SendReleases(x)
                    \/ DischargeReturns(x) \/ DischargeDropped(x)

AgentNext ==
    \/ \E c \in Call : AdmitAgent(c) \/ AgentBatch(c) \/ AgentReturns(c)
    \/ \E c \in Cua : CuaForward(c) \/ CuaFinished(c)
    \/ \E c \in Cua, x \in Slot, takeover \in BOOLEAN : AdmitCua(c, x, takeover)

LoopNext == InputSend \/ InputReturns \/ LoopStep \/ LoopEnds

Next ==
    \/ \E t \in Take : TakeNext(t) \/ HolderNext(t)
    \/ DaemonNext \/ DischargeNext \/ AgentNext \/ LoopNext

Spec == Init /\ [][Next]_vars
-----------------------------------------------------------------------------
(* Safety *)

\* SessionControl::controller: a take that is not granted controls nothing.
ControllerNow == IF lease.granted THEN lease.id ELSE Agent

\* A take is granted only after the session loop reached its epoch, and a
\* granted lease never falls behind: whoever holds the lease, the loop is at
\* the lease's epoch (take_within, discharge_within, LoopInput).
GrantedIsConfirmed == lease.granted => loopEpoch = epoch

\* While a human holds the lease nothing is pressed that another controller
\* pressed: the old holder's keys were released before the grant and no late
\* batch of his pressed one again (control.rs, module comment).
GrantedKeysAreTheHolders ==
    lease.granted => \A k \in Key : pressed[k] \in {None, lease.id}

\* Keys of two controllers are never down together in the session, whatever
\* timed out, was dropped or arrived late (LoopInput::apply).
OneControllerPresses ==
    \A k, l \in Key :
        pressed[k] # None /\ pressed[l] # None => pressed[k] = pressed[l]

\* Input of an earlier controller that still waits in the channel when a human
\* holds the lease will be refused as stale.
LateInputIsStale ==
    lease.granted =>
        \A i \in DOMAIN queue :
            queue[i].kind \in {"agent", "tab"} /\ Presser(queue[i]) # lease.id
                => Stale(queue[i])

CuaInFlight == {c \in Cua : cua[c] \in {"admitted", "forwarded"}}

\* No acting Cua call is between its admission and its answer while a human
\* holds the lease: neither the count nor a take from another tab, which does
\* not look at the count, lets one through.
GrantedHasNoCua == lease.granted => CuaInFlight = {}

\* State.inflight is the number of admitted calls without an answer; the
\* saturating subtraction of cua_finished never saturates.
InflightIsExact == inflight = Cardinality(CuaInFlight)

\* Why no call is in flight under a lease: a take that got past its first wait
\* found none, and none is admitted while a lease exists.
SettledHasNoCua ==
    lease.id # None /\ (lease.granted \/ tpc[lease.id] \in Waiting \ {"settling"}) => inflight = 0

\* A tab that lost its lease, or its take, can be told why (loss_of), as long
\* as no more ends than RecentEnds were remembered.
LossIsKnown ==
    \A t \in Take :
        tpc[t] = "lost" \/ (tpc[t] = "holding" /\ lease.id # t)
            => \E i \in DOMAIN ended : ended[i] = t

\* Where no deadline passes and nothing is dropped, the keys down in the session
\* are keys the holder's lease tracks, so that a blur or a fence releases them:
\* once input, releases and the channel are quiet.
PressedIsTracked ==
    lease.granted /\ inp.by = None /\ NoPending /\ queue = <<>>
        => \A k \in Key : pressed[k] # None => k \in lease.held

\* A Cua call is forwarded to the guest only when no human's key or button is
\* down in the session (control.rs 20-25).
CuaAfterReleases ==
    [][\A c \in Cua :
          cua[c] = "admitted" /\ cua'[c] = "forwarded"
              => \A k \in Key : pressed[k] \in {None, Agent}]_vars

-----------------------------------------------------------------------------
(* Why a human's session is his alone: the inductive invariant behind the      *)
(* first four properties.                                                      *)

\* Nothing carries an epoch that the control did not reach.
EpochBound ==
    /\ loopEpoch <= epoch
    /\ \A i \in DOMAIN queue : queue[i].epoch <= epoch
    /\ \A x \in Slot : trans[x].epoch <= epoch /\ trans[x].at <= epoch
    /\ \A c \in Call : acts[c].at <= epoch
    /\ inp.at <= epoch

\* The lease and the take that made it agree.
LeaseAgrees ==
    lease.id # None =>
        tpc[lease.id] \in IF lease.granted THEN {"recording", "holding"} ELSE Waiting

\* A transition of a take carries that take's epoch, which is the current one
\* while the take still has the lease; the loop has reached the epoch of every
\* answered transition.
SlotAgrees(x) ==
    /\ trans[x].owner \in Take =>
          /\ tpc[trans[x].owner] \in {"moving", "confirming"}
          /\ trans[x].epoch > 0
          /\ lease.id = trans[x].owner => trans[x].epoch = epoch
          /\ \A y \in Slot : trans[y].owner = trans[x].owner => y = x
    /\ trans[x].phase = "none" => trans[x].owner = None
    /\ trans[x].phase = "done" => trans[x].epoch <= loopEpoch

\* A command of a transition that is still waited for answers the transition in
\* its slot, and is the only one that does.
Wanted(i) == queue[i].reply /\ queue[i].kind \in {"epoch", "release"}
ReplyAgrees(i) ==
    Wanted(i) =>
        /\ trans[queue[i].from].phase = "sent"
        /\ trans[queue[i].from].epoch = IF queue[i].kind = "epoch" THEN queue[i].epoch ELSE 0
        /\ \A j \in DOMAIN queue : Wanted(j) /\ queue[j].from = queue[i].from => j = i

\* A batch of a native call carries the epoch of the call's admission.
CallAgrees(i) ==
    queue[i].kind = "agent" =>
        /\ acts[queue[i].from].pc # "idle"
        /\ acts[queue[i].from].at = queue[i].epoch

\* Controller b has acted, acts or may still act with epoch e.
Stamp(e, b) ==
    \/ \E i \in DOMAIN queue : /\ queue[i].kind \in {"agent", "tab"}
                               /\ queue[i].epoch = e /\ Presser(queue[i]) = b
    \/ b = Agent /\ \E c \in Call : acts[c].pc \in {"ready", "wait"} /\ acts[c].at = e
    \/ b = inp.by /\ inp.at = e
    \/ loopEpoch = e /\ \E k \in Key : pressed[k] = b

\* An epoch has one controller; the current epoch has the current one.
EpochHasOneController ==
    loopUp =>
        /\ \A e \in 0..epoch, b, d \in Controller : Stamp(e, b) /\ Stamp(e, d) => b = d
        /\ \A b \in Controller : Stamp(epoch, b) => b = ControllerNow

\* The epoch of a take that is not granted yet is unused.
HandingOver == lease.id # None /\ tpc[lease.id] \in {"moving", "movewait", "confirming"}
EpochIsFresh ==
    HandingOver =>
        /\ loopEpoch = epoch => \A k \in Key : pressed[k] = None
        /\ loopUp => \A b \in Controller : ~Stamp(epoch, b)

SyncInv ==
    /\ EpochBound
    /\ LeaseAgrees
    /\ \A x \in Slot : SlotAgrees(x)
    /\ \A i \in DOMAIN queue : ReplyAgrees(i)
    /\ ~loopUp => queue = <<>>
    /\ lease.id # None /\ tpc[lease.id] = "movewait" => loopEpoch = epoch
    /\ GrantedIsConfirmed

OwnerInv ==
    /\ EpochHasOneController
    /\ EpochIsFresh
    /\ GrantedKeysAreTheHolders
    /\ OneControllerPresses

HandoverInv ==
    /\ SyncInv
    /\ \A i \in DOMAIN queue : CallAgrees(i)
    /\ OwnerInv

-----------------------------------------------------------------------------
(* Liveness (the fairness is in MCSession).                                    *)

\* Take, Cua call and releases never wait for each other in a circle: without
\* any deadline, the take that holds the pending lease is granted, displaced, or
\* undone by the session's end (take_within, wait_settled, wait_released,
\* forward_cua).
TakeResolves ==
    \A t \in Take : (lease.id = t /\ ~lease.granted) ~> (lease.id # t \/ lease.granted)

\* Once no lease is left, an agent call that waits for the releases is admitted,
\* unless a human takes control again (admit_agent).
AgentIsAdmitted ==
    \A c \in Call : (acts[c].pc = "idle" /\ lease.id = None)
                        ~> (acts[c].pc # "idle" \/ lease.id # None)

\* An admitted Cua call is forwarded (forward_cua, wait_released).
CuaIsForwarded == \A c \in Cua : cua[c] = "admitted" ~> cua[c] = "forwarded"

\* Nobody who waits for control waits for ever: the tab, the agent, the Cua call.
NobodyWaits == TakeResolves /\ AgentIsAdmitted /\ CuaIsForwarded
=============================================================================
