------------------------ MODULE SessionControlProofs ------------------------
(* Theorems about SessionControl, for every set of takes, calls, keys and      *)
(* transitions, every channel capacity and every combination of faults.        *)
EXTENDS SessionControl, FiniteSetTheorems, TLAPS

-----------------------------------------------------------------------------
(* Types of the values the actions build *)

\* A send keeps the channel typed.
LEMMA TypeEnqueue ==
    ASSUME LoopTypeOK, NEW kind, NEW e \in Nat,
           NEW down \in SUBSET Key, NEW up \in SUBSET Key, NEW from,
           \/ kind = "agent" /\ from \in Call
           \/ kind = "tab" /\ from \in Take
           \/ kind \in {"release", "epoch"} /\ from \in Slot /\ down = {},
           Enqueue(kind, e, down, up, from)
    PROVE  LoopTypeOK'
  BY DEF LoopTypeOK, Enqueue, Command, Batch

\* So does a sender that stops waiting.
LEMMA TypeOrphan ==
    ASSUME LoopTypeOK, NEW kinds, NEW from
    PROVE  Orphan(kinds, from) \in Seq(Command)
  <1>1. \A i \in DOMAIN queue : queue[i] \in Command
    BY DEF LoopTypeOK
  <1>2. \A i \in DOMAIN queue : [queue[i] EXCEPT !.reply = FALSE] \in Command
    BY <1>1 DEF Command, Batch
  <1>3. \A i \in DOMAIN queue : Orphan(kinds, from)[i] \in Command
    BY <1>1, <1>2 DEF Orphan
  <1>4. DOMAIN Orphan(kinds, from) = 1..Len(queue) /\ Len(queue) \in Nat
    BY DEF Orphan, LoopTypeOK
  <1> QED BY <1>3, <1>4 DEF Orphan, LoopTypeOK

\* The loop keeps its own types.
LEMMA TypeDequeue ==
    ASSUME LoopTypeOK, Dequeue
    PROVE  LoopTypeOK' /\ Head(queue) \in Command
  <1> DEFINE m == Head(queue)
  <1>1. queue \in Seq(Command) /\ queue # <<>>
    BY DEF LoopTypeOK, Dequeue
  <1>2. m \in Command /\ Tail(queue) \in Seq(Command)
    BY <1>1
  <1>3. \A e \in Nat : ChangeEpoch(e) \in [Key -> Controller \cup {None}]
    BY DEF ChangeEpoch, AllUp, LoopTypeOK
  <1>4. CASE m.kind = "epoch"
    BY <1>1, <1>2, <1>3, <1>4 DEF LoopTypeOK, Dequeue, SetEpoch, Command, Batch
  <1>5. CASE m.kind # "epoch"
    <2>1. m.down = {} \/ Presser(m) \in Controller
      BY <1>2, <1>5 DEF Command, Batch, Presser, Controller
    <2>2. m.epoch \in Nat
      BY <1>2 DEF Command, Batch
    <2> QED BY <1>1, <1>2, <1>3, <1>5, <2>1, <2>2 DEF LoopTypeOK, Dequeue, Apply
  <1> QED BY <1>4, <1>5

\* State::remember.
LEMMA TypeRemember ==
    ASSUME ended \in Seq(Take), NEW id \in Take, Remember(id)
    PROVE  ended' \in Seq(Take)
  <1>1. Len(ended) >= RecentEnds => Tail(ended) \in Seq(Take)
    BY ControlAssumption
  <1>2. \A s \in Seq(Take) : Append(s, id) \in Seq(Take)
    OBVIOUS
  <1>3. CASE Len(ended) >= RecentEnds
    BY <1>1, <1>2, <1>3 DEF Remember
  <1>4. CASE ~(Len(ended) >= RecentEnds)
    BY <1>2, <1>4 DEF Remember
  <1> QED BY <1>3, <1>4

-----------------------------------------------------------------------------
(* Type correctness *)

\* SessionControl::advance.
LEMMA TypeAdvance ==
    ASSUME TypeOK, NEW x \in Slot, NEW o \in Owner, Advance(x, o)
    PROVE  epoch' \in Nat /\ trans' \in [Slot -> Transition]
  BY DEF TypeOK, Advance, Transition

\* SessionControl::transition.
LEMMA TypePend ==
    ASSUME TypeOK, NEW x \in Slot, NEW o \in Owner, NEW r \in SUBSET Key, Pend(x, r, o)
    PROVE  epoch' \in Nat /\ trans' \in [Slot -> Transition]
  BY DEF TypeOK, Pend, Transition

\* SessionControl::end_lease.
LEMMA TypeEndLease ==
    ASSUME TypeOK, NEW x \in Slot, NEW o \in Owner, EndLease(x, o)
    PROVE  epoch' \in Nat /\ trans' \in [Slot -> Transition]
  BY TypeAdvance, TypePend DEF EndLease

\* SessionControl::take_human.
LEMMA TypeTakeHuman ==
    ASSUME TypeOK, TakeHuman
    PROVE  lease' \in Lease /\ ended' \in Seq(Take) /\ logged' \in Controller
  <1>1. lease.id \in Take
    BY DEF TypeOK, TakeHuman, Lease, NoLease
  <1>2. ended' \in Seq(Take)
    BY <1>1, TypeRemember DEF TakeHuman, TypeOK
  <1> QED BY <1>2 DEF TypeOK, TakeHuman, Lease, Controller

\* agent_takeover_locked.
LEMMA TypeAgentTakeover ==
    ASSUME TypeOK, NEW x \in Slot, AgentTakeoverLocked(x)
    PROVE  /\ lease' \in Lease /\ ended' \in Seq(Take) /\ logged' \in Controller
           /\ epoch' \in Nat /\ trans' \in [Slot -> Transition]
  <1>1. lease.id \in Take
    BY DEF TypeOK, AgentTakeoverLocked, Lease, NoLease
  <1>2. ended' \in Seq(Take)
    BY <1>1, TypeRemember DEF AgentTakeoverLocked, TypeOK
  <1>3. "task" \in Owner
    BY DEF Owner
  <1> QED BY <1>2, <1>3, TypeEndLease DEF TypeOK, AgentTakeoverLocked, Lease, Controller

\* The end of a discharge.
LEMMA TypeDischarged ==
    ASSUME TypeOK, NEW x \in Slot, NEW ok, Discharged(x, ok)
    PROVE  LoopTypeOK' /\ trans' \in [Slot -> Transition]
  <1>1. NoTrans \in Transition
    BY DEF NoTrans, Transition
  <1>2. LoopTypeOK'
    BY TypeOrphan DEF TypeOK, LoopTypeOK, Discharged
  <1> QED BY <1>1, <1>2 DEF TypeOK, Discharged

\* The last critical section of a take.
LEMMA TypeFinish ==
    ASSUME TypeOK, NEW t \in Take, NEW ok, Finish(t, ok)
    PROVE  lease' \in Lease /\ tpc' \in [Take -> TakePc]
  <1>1. tpc' \in [Take -> TakePc]
    BY DEF TypeOK, Finish, TakePc
  <1>2. ASSUME lease.id = t PROVE [lease EXCEPT !.granted = TRUE] \in Lease
    <2>1. lease # NoLease
      BY <1>2, LoopAssumption DEF NoLease
    <2>2. lease \in [id : Take, granted : BOOLEAN, held : SUBSET Key]
      BY <2>1 DEF TypeOK, Lease
    <2> QED BY <2>2 DEF Lease
  <1> QED BY <1>1, <1>2 DEF TypeOK, Finish, Lease

\* Take requests.
LEMMA TypeTakeNext ==
    ASSUME TypeOK, NEW t \in Take, TakeNext(t)
    PROVE  TypeOK'
  <1> USE DEF controlVars, loopVars
  <1>0. t \in Owner
    BY DEF Owner
  <1>1. CASE TakeParts(t)
    BY <1>1 DEF TypeOK, LoopTypeOK, TakeParts, TakePc
  <1>2. CASE TakeFromAgent(t)
    <2>1. ended' \in Seq(Take)
      BY <1>2, TypeRemember DEF TypeOK, TakeFromAgent, Lease, NoLease
    <2> QED BY <1>2, <2>1 DEF TypeOK, LoopTypeOK, TakeFromAgent, TakePc, Waiting, Pending, Lease
  <1>3. CASE TakeSettled(t)
    BY <1>3 DEF TypeOK, LoopTypeOK, TakeSettled, TakePc, Waiting
  <1>4. CASE TakeBusy(t)
    BY <1>4 DEF TypeOK, LoopTypeOK, TakeBusy, TakePc, Lease
  <1>5. CASE TakeMoveReleased(t)
    <2>1. \E ok \in BOOLEAN : Finish(t, ok)
      BY <1>5 DEF TakeMoveReleased
    <2> QED BY <1>5, <2>1, TypeFinish DEF TypeOK, LoopTypeOK, TakeMoveReleased, Finish
  <1>6. CASE TakeRecord(t)
    BY <1>6 DEF TypeOK, LoopTypeOK, TakeRecord, TakePc, Controller
  <1>7. CASE TakeDropped(t)
    <2>1. queue' \in Seq(Command)
      <3>1. \A i \in DOMAIN queue : queue[i] \in Command
        BY DEF TypeOK, LoopTypeOK
      <3>2. \A i \in DOMAIN queue : [queue[i] EXCEPT !.reply = FALSE] \in Command
        BY <3>1 DEF Command, Batch
      <3>3. DOMAIN queue = 1..Len(queue) /\ Len(queue) \in Nat
        BY DEF TypeOK, LoopTypeOK
      <3>4. DOMAIN queue' = 1..Len(queue) /\ \A i \in DOMAIN queue : queue'[i] \in Command
        BY <1>7, <3>1, <3>2, <3>3 DEF TakeDropped
      <3> QED BY <1>7, <3>3, <3>4 DEF TakeDropped
    <2>2. trans' \in [Slot -> Transition]
      BY <1>7 DEF TakeDropped, TypeOK, NoTrans, Transition
    <2> QED BY <1>7, <2>1, <2>2 DEF TypeOK, LoopTypeOK, TakeDropped, TakePc, Lease
  <1>8. ASSUME NEW x \in Slot, TakeFromTab(t, x) PROVE TypeOK'
    <2>1. lease.id \in Take
      BY <1>8 DEF TypeOK, TakeFromTab, Lease, NoLease
    <2>2. ended' \in Seq(Take)
      BY <1>8, <2>1, TypeRemember DEF TypeOK, TakeFromTab
    <2>3. epoch' \in Nat /\ trans' \in [Slot -> Transition]
      BY <1>0, <1>8, TypeAdvance DEF TakeFromTab
    <2> QED BY <1>8, <2>2, <2>3
            DEF TypeOK, LoopTypeOK, TakeFromTab, TakePc, Waiting, Pending, Lease, Controller
  <1>9. ASSUME NEW x \in Slot, TakeAdvance(t, x) PROVE TypeOK'
    <2>1. epoch' \in Nat /\ trans' \in [Slot -> Transition]
      BY <1>0, <1>9, TypeAdvance DEF TakeAdvance, TypeOK
    <2> QED BY <1>9, <2>1 DEF TypeOK, LoopTypeOK, TakeAdvance, TakePc, Waiting
  <1>10. ASSUME NEW x \in Slot, TakeConfirmed(t, x) PROVE TypeOK'
    <2>1. LoopTypeOK' /\ trans' \in [Slot -> Transition]
      BY <1>10, TypeDischarged DEF TakeConfirmed
    <2>2. lease' \in Lease /\ tpc' \in [Take -> TakePc]
      BY <1>10, TypeFinish DEF TakeConfirmed
    <2> QED BY <1>10, <2>1, <2>2 DEF TypeOK, TakeConfirmed, Finish
  <1>11. ASSUME NEW x \in Slot, TakeMoved(t, x) PROVE TypeOK'
    <2>1. LoopTypeOK' /\ trans' \in [Slot -> Transition]
      BY <1>11, TypeDischarged DEF TakeMoved
    <2>2. lease' \in Lease /\ tpc' \in [Take -> TakePc]
      BY <1>11, TypeFinish DEF TakeMoved, TypeOK, TakePc, Waiting
    <2> QED BY <1>11, <2>1, <2>2 DEF TypeOK, TakeMoved, Finish
  <1> QED BY <1>1, <1>2, <1>3, <1>4, <1>5, <1>6, <1>7, <1>8, <1>9, <1>10, <1>11 DEF TakeNext

\* Requests of the holder.
LEMMA TypeHolderNext ==
    ASSUME TypeOK, NEW t \in Take, HolderNext(t)
    PROVE  TypeOK'
  <1> USE DEF controlVars, callerVars, loopVars
  <1>0. "request" \in Owner /\ t # None
    BY LoopAssumption DEF Owner
  <1>1. Held(t) => lease \in [id : Take, granted : BOOLEAN, held : SUBSET Key]
    BY <1>0 DEF TypeOK, Lease, NoLease, Held
  <1>2. ASSUME NEW x \in Slot, Blur(t, x) PROVE TypeOK'
    <2>1. epoch' \in Nat /\ trans' \in [Slot -> Transition]
      BY <1>0, <1>1, <1>2, TypePend DEF Blur
    <2> QED BY <1>1, <1>2, <2>1 DEF TypeOK, LoopTypeOK, Blur, Lease
  <1>3. ASSUME NEW x \in Slot, ReleaseLease(t, x) PROVE TypeOK'
    <2>1. epoch' \in Nat /\ trans' \in [Slot -> Transition]
      BY <1>0, <1>3, TypeAdvance DEF ReleaseLease
    <2>2. ended' \in Seq(Take)
      BY <1>3, TypeRemember DEF ReleaseLease, TypeOK
    <2> QED BY <1>3, <2>1, <2>2 DEF TypeOK, LoopTypeOK, ReleaseLease, Lease, Controller
  <1>4. ASSUME NEW k \in Key, NEW press \in BOOLEAN, NEW fenced \in BOOLEAN,
               InputEvent(t, k, press, fenced)
        PROVE  TypeOK'
    <2>1. (IF inp.by = None THEN epoch ELSE inp.at) \in Nat
      BY DEF TypeOK, InputReq, NoInput
    <2>2. CASE ~Held(t)
      BY <1>4, <2>2 DEF TypeOK, LoopTypeOK, InputEvent, InputReq
    <2>3. CASE Held(t)
      <3>1. lease' \in Lease
        BY <1>1, <1>4, <2>3 DEF InputEvent, Lease
      <3>2. inp' \in InputReq
        BY <1>1, <1>4, <2>1, <2>3, ControlAssumption DEF InputEvent, InputReq
      <3> QED BY <1>4, <3>1, <3>2 DEF TypeOK, LoopTypeOK, InputEvent
    <2> QED BY <2>2, <2>3
  <1> QED BY <1>2, <1>3, <1>4 DEF HolderNext

\* Ends of a lease by the daemon.
LEMMA TypeDaemonNext ==
    ASSUME TypeOK, DaemonNext
    PROVE  TypeOK'
  <1> USE DEF controlVars, callerVars, loopVars
  <1>0. "sweep" \in Owner /\ "task" \in Owner
    BY DEF Owner
  <1>1. CASE SweepJudge
    BY <1>1 DEF TypeOK, LoopTypeOK, SweepJudge, Lease, NoLease
  <1>2. CASE EndHumanOnClose
    BY <1>2, TypeTakeHuman DEF TypeOK, LoopTypeOK, EndHumanOnClose
  <1>3. ASSUME NEW x \in Slot, SweepEnd(x) PROVE TypeOK'
    <2>1. CASE TakeHuman /\ EndLease(x, "sweep")
      BY <1>0, <1>3, <2>1, TypeTakeHuman, TypeEndLease DEF TypeOK, LoopTypeOK, SweepEnd
    <2>2. CASE UNCHANGED <<lease, ended, logged, epoch, trans>>
      BY <1>3, <2>2 DEF TypeOK, LoopTypeOK, SweepEnd
    <2> QED BY <1>3, <2>1, <2>2 DEF SweepEnd
  <1>4. ASSUME NEW x \in Slot, EndHuman(x) PROVE TypeOK'
    BY <1>0, <1>4, TypeTakeHuman, TypeEndLease DEF TypeOK, LoopTypeOK, EndHuman
  <1>5. ASSUME NEW x \in Slot, EndHumanEnded(x) PROVE TypeOK'
    BY <1>0, <1>5, TypeTakeHuman, TypePend DEF TypeOK, LoopTypeOK, EndHumanEnded
  <1>6. ASSUME NEW x \in Slot, AgentTakeover(x) PROVE TypeOK'
    BY <1>6, TypeAgentTakeover DEF TypeOK, LoopTypeOK, AgentTakeover
  <1> QED BY <1>1, <1>2, <1>3, <1>4, <1>5, <1>6 DEF DaemonNext

\* Discharges.
LEMMA TypeDischargeNext ==
    ASSUME TypeOK, DischargeNext
    PROVE  TypeOK'
  <1> USE DEF controlVars, callerVars, loopVars
  <1>1. ASSUME NEW x \in Slot, SendEpoch(x) PROVE TypeOK'
    <2>1. trans[x].epoch \in Nat
      BY DEF TypeOK, Transition
    <2>2. LoopTypeOK'
      BY <1>1, <2>1, TypeEnqueue DEF SendEpoch, TypeOK
    <2> QED BY <1>1, <2>2 DEF TypeOK, SendEpoch, Transition
  <1>2. ASSUME NEW x \in Slot, SendReleases(x) PROVE TypeOK'
    <2>1. trans[x].at \in Nat /\ trans[x].release \in SUBSET Key
      BY DEF TypeOK, Transition
    <2>2. LoopTypeOK'
      BY <1>2, <2>1, TypeEnqueue DEF SendReleases, TypeOK, LoopTypeOK
    <2>3. \A p \in {"sent", "done"} : [trans[x] EXCEPT !.phase = p] \in Transition
      BY DEF TypeOK, Transition
    <2>4. trans' \in [Slot -> Transition]
      BY <1>2, <2>3 DEF SendReleases, TypeOK
    <2> QED BY <1>2, <2>2, <2>4 DEF TypeOK, SendReleases
  <1>3. ASSUME NEW x \in Slot, DischargeReturns(x) PROVE TypeOK'
    BY <1>3, TypeDischarged DEF TypeOK, DischargeReturns
  <1>4. ASSUME NEW x \in Slot, DischargeDropped(x) PROVE TypeOK'
    <2>1. NoTrans \in Transition
      BY DEF NoTrans, Transition
    <2>2. LoopTypeOK'
      BY <1>4, TypeOrphan DEF TypeOK, LoopTypeOK, DischargeDropped
    <2> QED BY <1>4, <2>1, <2>2 DEF TypeOK, DischargeDropped
  <1> QED BY <1>1, <1>2, <1>3, <1>4 DEF DischargeNext

\* Agent and Cua calls.
LEMMA TypeAgentNext ==
    ASSUME TypeOK, AgentNext
    PROVE  TypeOK'
  <1> USE DEF controlVars, loopVars
  <1>1. ASSUME NEW c \in Call, AdmitAgent(c) PROVE TypeOK'
    BY <1>1 DEF TypeOK, LoopTypeOK, AdmitAgent, Act
  <1>2. ASSUME NEW c \in Call, AgentBatch(c) PROVE TypeOK'
    <2>1. acts[c].at \in Nat /\ acts[c].key \in Key
      BY DEF TypeOK, Act
    <2>2. LoopTypeOK'
      BY <1>2, <2>1, TypeEnqueue DEF AgentBatch, TypeOK
    <2> QED BY <1>2, <2>2 DEF TypeOK, AgentBatch, Act
  <1>3. ASSUME NEW c \in Call, AgentReturns(c) PROVE TypeOK'
    BY <1>3 DEF TypeOK, LoopTypeOK, AgentReturns, Act
  <1>4. ASSUME NEW c \in Cua, CuaForward(c) PROVE TypeOK'
    BY <1>4 DEF TypeOK, LoopTypeOK, CuaForward
  <1>5. ASSUME NEW c \in Cua, CuaFinished(c) PROVE TypeOK'
    BY <1>5 DEF TypeOK, LoopTypeOK, CuaFinished
  <1>6. ASSUME NEW c \in Cua, NEW x \in Slot, NEW takeover \in BOOLEAN, AdmitCua(c, x, takeover)
        PROVE  TypeOK'
    <2>1. CASE UNCHANGED <<lease, ended, logged, epoch, trans>>
      BY <1>6, <2>1 DEF TypeOK, LoopTypeOK, AdmitCua
    <2>2. CASE AgentTakeoverLocked(x)
      BY <1>6, <2>2, TypeAgentTakeover DEF TypeOK, LoopTypeOK, AdmitCua
    <2> QED BY <1>6, <2>1, <2>2 DEF AdmitCua
  <1> QED BY <1>1, <1>2, <1>3, <1>4, <1>5, <1>6 DEF AgentNext

\* Input requests and the loop.
LEMMA TypeLoopNext ==
    ASSUME TypeOK, LoopNext
    PROVE  TypeOK'
  <1> USE DEF controlVars, callerVars, loopVars
  <1>1. CASE InputSend
    <2>1. /\ inp.at \in Nat /\ inp.by \in Take
          /\ inp.down \in SUBSET Key /\ inp.up \in SUBSET Key
      BY <1>1 DEF InputSend, TypeOK, InputReq, NoInput
    <2>2. LoopTypeOK'
      BY <1>1, <2>1, TypeEnqueue DEF InputSend, TypeOK
    <2>3. inp' \in InputReq
      BY <1>1, <2>1 DEF InputSend, TypeOK, InputReq, NoInput
    <2> QED BY <1>1, <2>2, <2>3 DEF TypeOK, InputSend
  <1>2. CASE InputReturns
    <2>1. LoopTypeOK'
      BY <1>2, TypeOrphan DEF TypeOK, LoopTypeOK, InputReturns
    <2> QED BY <1>2, <2>1 DEF TypeOK, InputReturns, InputReq
  <1>3. CASE LoopStep
    <2> DEFINE m == Head(queue)
    <2>1. LoopTypeOK' /\ m \in Command
      BY <1>3, TypeDequeue DEF LoopStep, TypeOK
    <2>2. trans' \in [Slot -> Transition]
      <3>1. CASE UNCHANGED trans
        BY <3>1 DEF TypeOK
      <3>2. CASE trans' = [trans EXCEPT ![m.from].phase = "done"]
        <4>1. \A x \in Slot : [trans[x] EXCEPT !.phase = "done"] \in Transition
          BY DEF TypeOK, Transition
        <4> QED BY <3>2, <4>1 DEF TypeOK
      <3> QED BY <1>3, <3>1, <3>2 DEF LoopStep, Answer
    <2>3. inp' \in InputReq
      <3>1. CASE UNCHANGED inp
        BY <3>1 DEF TypeOK
      <3>2. CASE inp' \in {NoInput, [inp EXCEPT !.phase = "check"]}
        BY <3>2 DEF TypeOK, InputReq, NoInput
      <3> QED BY <1>3, <3>1, <3>2 DEF LoopStep, Answer
    <2>4. acts' \in [Call -> Act]
      <3>1. CASE UNCHANGED acts
        BY <3>1 DEF TypeOK
      <3>2. CASE acts' = [acts EXCEPT ![m.from].pc = "done"]
        BY <3>2 DEF TypeOK, Act
      <3>3. CASE acts' = [acts EXCEPT ![m.from].pc = IF acts[m.from].pressed THEN "done" ELSE "ready",
                                      ![m.from].pressed = TRUE]
        <4>1. \A c \in Call : \A pc \in {"done", "ready"} :
                 [acts[c] EXCEPT !.pc = pc, !.pressed = TRUE] \in Act
          BY DEF TypeOK, Act
        <4>2. \A c \in Call : c = m.from =>
                 acts'[c] = [acts[c] EXCEPT !.pc = IF acts[m.from].pressed THEN "done" ELSE "ready",
                                            !.pressed = TRUE]
          BY <3>3 DEF TypeOK
        <4>3. \A c \in Call : c # m.from => acts'[c] = acts[c]
          BY <3>3 DEF TypeOK
        <4> QED BY <3>3, <4>1, <4>2, <4>3 DEF TypeOK
      <3> QED BY <1>3, <3>1, <3>2, <3>3 DEF LoopStep, Answer
    <2> QED BY <1>3, <2>1, <2>2, <2>3, <2>4 DEF TypeOK, LoopStep
  <1>4. CASE LoopEnds
    <2>1. LoopTypeOK'
      <3>1. <<>> \in Seq(Command)
        OBVIOUS
      <3> QED BY <1>4, <3>1 DEF LoopEnds, Stop, TypeOK, LoopTypeOK
    <2> QED BY <1>4, <2>1 DEF TypeOK, LoopEnds
  <1> QED BY <1>1, <1>2, <1>3, <1>4 DEF LoopNext

\* Every variable keeps its type: commands in the channel name a task of the
\* right kind, an input request that sends has a holder, a granted lease has an id
\* (control.rs State, Lease, Transition; session_loop.rs LoopCommand).
THEOREM TypeCorrect == Spec => []TypeOK
  <1>1. Init => TypeOK
    <2> SUFFICES ASSUME Init PROVE TypeOK
      OBVIOUS
    <2>1. LoopTypeOK
      BY DEF Init, LoopInit, LoopTypeOK, AllUp
    <2>2. lease \in Lease /\ inp \in InputReq /\ logged \in Controller
      BY DEF Init, Lease, InputReq, Controller
    <2>3. trans \in [Slot -> Transition]
      BY DEF Init, NoTrans, Transition
    <2>4. acts \in [Call -> Act]
      BY DEF Init, Act
    <2> QED BY <2>1, <2>2, <2>3, <2>4 DEF Init, TypeOK, TakePc
  <1>2. TypeOK /\ [Next]_vars => TypeOK'
    <2>1. ASSUME TypeOK, UNCHANGED vars PROVE TypeOK'
      BY <2>1 DEF TypeOK, LoopTypeOK, vars, loopVars, controlVars, callerVars
    <2>2. ASSUME TypeOK, Next PROVE TypeOK'
      BY <2>2, TypeTakeNext, TypeHolderNext, TypeDaemonNext, TypeDischargeNext,
         TypeAgentNext, TypeLoopNext DEF Next
    <2> QED BY <2>1, <2>2
  <1> QED BY <1>1, <1>2, PTL DEF Spec

-----------------------------------------------------------------------------
(* Cua calls in flight *)

\* Only finitely many calls are in flight.
LEMMA CuaFinite == IsFiniteSet(CuaInFlight)
  BY ControlAssumption, FS_Subset DEF CuaInFlight

\* admit_cua and cua_finished keep the count exact.
LEMMA InflightStep ==
    ASSUME TypeOK, InflightIsExact, [Next]_vars
    PROVE  InflightIsExact'
  <1>1. CASE UNCHANGED <<inflight, cua>>
    BY <1>1 DEF InflightIsExact, CuaInFlight
  <1>2. ASSUME NEW c \in Cua, NEW x \in Slot, NEW takeover \in BOOLEAN, AdmitCua(c, x, takeover)
        PROVE  InflightIsExact'
    <2>1. c \notin CuaInFlight /\ CuaInFlight' = CuaInFlight \cup {c} /\ inflight' = inflight + 1
      BY <1>2 DEF AdmitCua, CuaInFlight, TypeOK
    <2> QED BY <2>1, CuaFinite, FS_AddElement DEF InflightIsExact
  <1>3. ASSUME NEW c \in Cua, CuaForward(c) PROVE InflightIsExact'
    <2>1. CuaInFlight' = CuaInFlight /\ UNCHANGED inflight
      BY <1>3 DEF CuaForward, CuaInFlight, TypeOK, controlVars
    <2> QED BY <2>1 DEF InflightIsExact
  <1>4. ASSUME NEW c \in Cua, CuaFinished(c) PROVE InflightIsExact'
    <2>1. c \in CuaInFlight /\ CuaInFlight' = CuaInFlight \ {c}
      BY <1>4 DEF CuaFinished, CuaInFlight, TypeOK
    <2>2. Cardinality(CuaInFlight') = Cardinality(CuaInFlight) - 1
      BY <2>1, CuaFinite, FS_RemoveElement
    <2>3. Cardinality(CuaInFlight) \in Nat /\ Cardinality(CuaInFlight) # 0
      BY <2>1, CuaFinite, FS_CardinalityType, FS_EmptySet
    <2> QED BY <1>4, <2>2, <2>3 DEF InflightIsExact, CuaFinished
  <1>5. CASE UNCHANGED vars
    BY <1>1, <1>5 DEF vars, controlVars, callerVars
  <1>6. CASE Next /\ ~UNCHANGED <<inflight, cua>>
    <2>1. ASSUME NEW t \in Take, TakeNext(t) PROVE FALSE
      BY <1>6, <2>1 DEF TakeNext, TakeParts, TakeFromAgent, TakeSettled, TakeBusy, TakeMoveReleased,
         TakeRecord, TakeDropped, TakeFromTab, TakeAdvance, TakeConfirmed, TakeMoved, Finish, controlVars
    <2>2. ASSUME NEW t \in Take, HolderNext(t) PROVE FALSE
      BY <1>6, <2>2 DEF HolderNext, Blur, ReleaseLease, InputEvent, callerVars
    <2>3. CASE DaemonNext
      BY <1>6, <2>3 DEF DaemonNext, SweepJudge, EndHumanOnClose, SweepEnd, EndHuman, EndHumanEnded,
         AgentTakeover, controlVars
    <2>4. CASE DischargeNext
      BY <1>6, <2>4 DEF DischargeNext, SendEpoch, SendReleases, DischargeReturns, DischargeDropped, callerVars
    <2>5. CASE LoopNext
      BY <1>6, <2>5 DEF LoopNext, InputSend, InputReturns, LoopStep, LoopEnds, controlVars, callerVars
    <2>6. CASE AgentNext
      BY <1>2, <1>3, <1>4, <1>6, <2>6 DEF AgentNext, AdmitAgent, AgentBatch, AgentReturns, controlVars
    <2> QED BY <1>6, <2>1, <2>2, <2>3, <2>4, <2>5, <2>6 DEF Next
  <1> QED BY <1>1, <1>5, <1>6

\* A take past its first wait keeps the count at zero.
LEMMA SettledStep ==
    ASSUME TypeOK, SettledHasNoCua, InflightIsExact, [Next]_vars
    PROVE  SettledHasNoCua'
  <1> USE LoopAssumption DEF SettledHasNoCua, Waiting
  <1>1. CASE UNCHANGED vars
    BY <1>1 DEF vars, controlVars, callerVars
  <1>2. ASSUME NEW t \in Take, TakeNext(t) PROVE SettledHasNoCua'
    <2>1. CASE TakeParts(t) \/ TakeFromAgent(t) \/ TakeSettled(t) \/ TakeBusy(t) \/ TakeRecord(t) \/ TakeDropped(t)
      BY <2>1 DEF TypeOK, Lease, NoLease, Pending, controlVars,
         TakeParts, TakeFromAgent, TakeSettled, TakeBusy, TakeRecord, TakeDropped
    <2>2. CASE \E x \in Slot : TakeFromTab(t, x) \/ TakeAdvance(t, x)
      BY <2>2 DEF TypeOK, Lease, NoLease, Pending, TakeFromTab, TakeAdvance
    <2>3. ASSUME NEW ok \in BOOLEAN, Finish(t, ok), tpc[t] \in {"moving", "movewait", "confirming"}
          PROVE  SettledHasNoCua'
      BY <2>3 DEF TypeOK, Lease, NoLease, Finish
    <2>4. CASE TakeMoveReleased(t)
      BY <2>3, <2>4 DEF TakeMoveReleased
    <2>5. CASE \E x \in Slot : TakeConfirmed(t, x)
      BY <2>3, <2>5 DEF TakeConfirmed
    <2>6. ASSUME NEW x \in Slot, TakeMoved(t, x) PROVE SettledHasNoCua'
      <3>1. CASE tpc' = [tpc EXCEPT ![t] = "movewait"] /\ UNCHANGED <<lease, inflight>>
        BY <2>6, <3>1 DEF TakeMoved, TypeOK
      <3> QED BY <2>3, <2>6, <3>1 DEF TakeMoved
    <2> QED BY <1>2, <2>1, <2>2, <2>4, <2>5, <2>6 DEF TakeNext
  <1>3. ASSUME NEW t \in Take, HolderNext(t) PROVE SettledHasNoCua'
    BY <1>3 DEF HolderNext, Blur, ReleaseLease, InputEvent, Held, callerVars, TypeOK, Lease, NoLease
  <1>4. CASE DaemonNext
    BY <1>4 DEF DaemonNext, SweepJudge, EndHumanOnClose, SweepEnd, EndHuman, EndHumanEnded,
       AgentTakeover, AgentTakeoverLocked, TakeHuman, controlVars, NoLease
  <1>5. CASE DischargeNext
    BY <1>5 DEF DischargeNext, SendEpoch, SendReleases, DischargeReturns, DischargeDropped, callerVars
  <1>6. CASE LoopNext
    BY <1>6 DEF LoopNext, InputSend, InputReturns, LoopStep, LoopEnds, controlVars, callerVars
  <1>7. CASE AgentNext
    <2>1. CASE \E c \in Call : AdmitAgent(c) \/ AgentBatch(c) \/ AgentReturns(c)
      BY <2>1 DEF AdmitAgent, AgentBatch, AgentReturns, controlVars
    <2>2. ASSUME NEW c \in Cua, CuaForward(c) \/ CuaFinished(c) PROVE SettledHasNoCua'
      BY <2>2 DEF CuaForward, CuaFinished, controlVars, TypeOK
    <2>3. ASSUME NEW c \in Cua, NEW x \in Slot, NEW takeover \in BOOLEAN, AdmitCua(c, x, takeover)
          PROVE  SettledHasNoCua'
      BY <2>3 DEF AdmitCua, AgentTakeoverLocked, NoLease
    <2> QED BY <1>7, <2>1, <2>2, <2>3 DEF AgentNext
  <1> QED BY <1>1, <1>2, <1>3, <1>4, <1>5, <1>6, <1>7 DEF Next

\* The count of in-flight Cua calls is exact and no call is in flight while a
\* human holds the lease (admit_cua, cua_finished, take_within).
THEOREM CuaExclusion == Spec => [](InflightIsExact /\ GrantedHasNoCua)
  <1>1. Init => InflightIsExact /\ SettledHasNoCua
    <2> SUFFICES ASSUME Init PROVE InflightIsExact /\ SettledHasNoCua
      OBVIOUS
    <2>1. CuaInFlight = {} /\ inflight = 0 /\ lease = NoLease
      BY DEF Init, CuaInFlight
    <2> QED BY <2>1, FS_EmptySet DEF InflightIsExact, SettledHasNoCua, NoLease
  <1>2. ASSUME TypeOK, InflightIsExact, SettledHasNoCua, [Next]_vars
        PROVE  InflightIsExact' /\ SettledHasNoCua'
    BY <1>2, InflightStep, SettledStep
  <1>3. ASSUME TypeOK, InflightIsExact, SettledHasNoCua
        PROVE  GrantedHasNoCua
    BY <1>3, CuaFinite, FS_EmptySet, LoopAssumption
       DEF GrantedHasNoCua, InflightIsExact, SettledHasNoCua, TypeOK, Lease, NoLease
  <1> QED BY <1>1, <1>2, <1>3, TypeCorrect, PTL DEF Spec

-----------------------------------------------------------------------------
(* SyncInv of SessionControl is inductive: the lease, the take requests, the   *)
(* transitions, the commands in the channel and the epoch of the loop agree.   *)
(* The handover builds on it.                                                  *)

-----------------------------------------------------------------------------
(* The channel, element by element *)

\* The channel after a send: the old commands, then the new one (send_input).
LEMMA EnqueueAt ==
    ASSUME LoopTypeOK, NEW kind, NEW e, NEW down, NEW up, NEW from,
           Enqueue(kind, e, down, up, from)
    PROVE  /\ loopUp /\ loopUp' /\ UNCHANGED <<loopEpoch, pressed>>
           /\ \E n \in Nat :
                 /\ DOMAIN queue = 1..n /\ DOMAIN queue' = 1..(n + 1)
                 /\ \A i \in 1..n : queue'[i] = queue[i]
                 /\ queue'[n + 1].kind = kind /\ queue'[n + 1].epoch = e
                 /\ queue'[n + 1].down = down /\ queue'[n + 1].up = up
                 /\ queue'[n + 1].from = from /\ queue'[n + 1].reply
  <1>1. /\ Len(queue) \in Nat /\ DOMAIN queue = 1..Len(queue)
        /\ DOMAIN queue' = 1..(Len(queue) + 1)
        /\ \A i \in 1..Len(queue) : queue'[i] = queue[i]
        /\ queue'[Len(queue) + 1] = [kind |-> kind, epoch |-> e, down |-> down,
                                     up |-> up, from |-> from, reply |-> TRUE]
    BY DEF LoopTypeOK, Enqueue
  <1>2. loopUp /\ loopUp' /\ UNCHANGED <<loopEpoch, pressed>>
    BY DEF Enqueue, Room
  <1>3. \A n : n = Len(queue) =>
           /\ n \in Nat
           /\ DOMAIN queue = 1..n /\ DOMAIN queue' = 1..(n + 1)
           /\ \A i \in 1..n : queue'[i] = queue[i]
           /\ queue'[n + 1].kind = kind /\ queue'[n + 1].epoch = e
           /\ queue'[n + 1].down = down /\ queue'[n + 1].up = up
           /\ queue'[n + 1].from = from /\ queue'[n + 1].reply
    BY <1>1
  <1> QED BY <1>2, <1>3

\* The channel after the loop took a command.
LEMMA DequeueAt ==
    ASSUME LoopTypeOK, Dequeue
    PROVE  /\ Len(queue) \in Nat \ {0} /\ DOMAIN queue = 1..Len(queue)
           /\ DOMAIN queue' = 1..(Len(queue) - 1)
           /\ \A i \in 1..(Len(queue) - 1) : queue'[i] = queue[i + 1]
           /\ Head(queue) = queue[1]
           /\ loopUp /\ loopUp'
  BY DEF LoopTypeOK, Dequeue

\* A sender that stops waiting changes no command but its reply.
LEMMA OrphanAt ==
    ASSUME LoopTypeOK, NEW kinds, NEW from, queue' = Orphan(kinds, from)
    PROVE  /\ DOMAIN queue' = DOMAIN queue
           /\ \A i \in DOMAIN queue :
                 /\ queue'[i].kind = queue[i].kind /\ queue'[i].epoch = queue[i].epoch
                 /\ queue'[i].from = queue[i].from
                 /\ queue'[i].down = queue[i].down /\ queue'[i].up = queue[i].up
                 /\ queue'[i].reply => /\ queue[i].reply
                                       /\ ~(queue[i].kind \in kinds /\ queue[i].from = from)
  <1>1. \A i \in DOMAIN queue : queue[i] \in Command
    BY DEF LoopTypeOK
  <1>2. \A i \in DOMAIN queue :
           queue'[i] = IF queue[i].kind \in kinds /\ queue[i].from = from
                       THEN [queue[i] EXCEPT !.reply = FALSE] ELSE queue[i]
    BY DEF Orphan
  <1> QED BY <1>1, <1>2 DEF Orphan, Command, Batch

-----------------------------------------------------------------------------
(* SyncInv: steps that leave the channel and the loop alone *)

\* A take request that only asks.
LEMMA SyncTakeParts ==
    ASSUME TypeOK, SyncInv, NEW t \in Take, TakeParts(t)
    PROVE  SyncInv'
  BY DEF TypeOK, SyncInv, TakeParts, loopVars, controlVars, EpochBound, LeaseAgrees, SlotAgrees, ReplyAgrees, Wanted, GrantedIsConfirmed, Waiting, Lease, NoLease

\* Advance registers a transition of the new epoch in a free slot.
LEMMA AdvanceAt ==
    ASSUME TypeOK, SyncInv, NEW x \in Slot, NEW o, Advance(x, o)
    PROVE  /\ trans[x].phase = "none" /\ trans[x].owner = None
           /\ epoch \in Nat /\ epoch' = epoch + 1
           /\ trans'[x].epoch = epoch + 1 /\ trans'[x].at = epoch + 1
           /\ trans'[x].owner = o /\ trans'[x].phase = "new"
           /\ \A y \in Slot : y # x => trans'[y] = trans[y]
  BY DEF TypeOK, SyncInv, SlotAgrees, Advance

\* Pend registers a transition of the current epoch in a free slot.
LEMMA PendAt ==
    ASSUME TypeOK, SyncInv, NEW x \in Slot, NEW o, NEW r, Pend(x, r, o)
    PROVE  /\ trans[x].phase = "none" /\ trans[x].owner = None
           /\ epoch \in Nat /\ epoch' = epoch
           /\ trans'[x].epoch = 0 /\ trans'[x].at = epoch
           /\ trans'[x].owner = o /\ trans'[x].phase = "new"
           /\ \A y \in Slot : y # x => trans'[y] = trans[y]
  BY DEF TypeOK, SyncInv, SlotAgrees, Pend

\* A new transition answers no command of the channel.
LEMMA RepliesKeep ==
    ASSUME TypeOK, SyncInv, NEW x \in Slot, trans[x].phase = "none",
           \A y \in Slot : y # x => trans'[y] = trans[y],
           UNCHANGED queue
    PROVE  \A i \in DOMAIN queue' : ReplyAgrees(i)'
  <1>1. \A i \in DOMAIN queue : Wanted(i) => queue[i].from \in Slot /\ queue[i].from # x
    BY DEF TypeOK, LoopTypeOK, SyncInv, ReplyAgrees, Wanted, Command, Batch
  <1> QED BY <1>1 DEF SyncInv, ReplyAgrees, Wanted

\* An epoch change keeps every epoch within the new one.
LEMMA EpochBoundAdvance ==
    ASSUME TypeOK, SyncInv, NEW x \in Slot, NEW o, Advance(x, o),
           UNCHANGED <<queue, loopEpoch, acts, inp>>
    PROVE  EpochBound'
  <1>1. /\ epoch' = epoch + 1 /\ \A y \in Slot : y # x => trans'[y] = trans[y]
        /\ trans'[x].epoch = epoch + 1 /\ trans'[x].at = epoch + 1
    BY AdvanceAt
  <1>2. /\ epoch \in Nat /\ loopEpoch \in Nat /\ inp.at \in Nat
        /\ \A y \in Slot : trans[y].epoch \in Nat /\ trans[y].at \in Nat
        /\ \A c \in Call : acts[c].at \in Nat
        /\ \A i \in DOMAIN queue : queue[i].epoch \in Nat
    BY DEF TypeOK, LoopTypeOK, Transition, Act, InputReq, NoInput, Command, Batch
  <1> QED BY <1>1, <1>2 DEF SyncInv, EpochBound

\* take_within marks the take while the agent controls.
LEMMA SyncTakeFromAgent ==
    ASSUME TypeOK, SyncInv, NEW t \in Take, TakeFromAgent(t)
    PROVE  SyncInv'
  BY LoopAssumption DEF TypeOK, SyncInv, TakeFromAgent, Pending, loopVars, controlVars, EpochBound, LeaseAgrees, SlotAgrees, ReplyAgrees, Wanted, GrantedIsConfirmed, Waiting, Lease, NoLease

\* take_within moves the lease from another tab.
LEMMA SyncTakeFromTab ==
    ASSUME TypeOK, SyncInv, NEW t \in Take, NEW x \in Slot, TakeFromTab(t, x)
    PROVE  SyncInv'
  <1> USE DEF loopVars
  <1>1. EpochBound'
    BY EpochBoundAdvance DEF TakeFromTab
  <1>2. LeaseAgrees'
    BY DEF TakeFromTab, LeaseAgrees, Pending, TypeOK, Waiting
  <1>3. ASSUME NEW y \in Slot PROVE SlotAgrees(y)'
    <2>1. trans[x].owner = None /\ trans'[x].owner = t /\ trans'[x].epoch = epoch + 1
          /\ trans'[x].phase = "new" /\ epoch' = epoch + 1 /\ epoch \in Nat
          /\ \A z \in Slot : z # x => trans'[z] = trans[z]
      BY AdvanceAt DEF TakeFromTab
    <2>2. \A z \in Slot : trans[z].owner # t
      BY DEF SyncInv, SlotAgrees, TakeFromTab
    <2>3. tpc' = [tpc EXCEPT ![t] = "moving"] /\ lease'.id = t /\ UNCHANGED loopEpoch
      BY DEF TakeFromTab, Pending
    <2>4. CASE y = x
      BY <2>1, <2>2, <2>3, <2>4 DEF SlotAgrees, TypeOK
    <2>5. CASE y # x
      BY <2>1, <2>2, <2>3, <2>5, LoopAssumption DEF SyncInv, SlotAgrees, TypeOK
    <2> QED BY <2>4, <2>5
  <1>4. \A i \in DOMAIN queue' : ReplyAgrees(i)'
    BY AdvanceAt, RepliesKeep DEF TakeFromTab
  <1> QED BY <1>1, <1>2, <1>3, <1>4
          DEF SyncInv, TakeFromTab, Pending, GrantedIsConfirmed, TypeOK

\* A take that found no agent work, or that records its grant.
LEMMA SyncTakeSettled ==
    ASSUME TypeOK, SyncInv, NEW t \in Take, TakeSettled(t) \/ TakeRecord(t)
    PROVE  SyncInv'
  BY LoopAssumption DEF TypeOK, SyncInv, TakeSettled, TakeRecord, loopVars, controlVars, EpochBound, LeaseAgrees, SlotAgrees, ReplyAgrees, Wanted, GrantedIsConfirmed, Waiting, Lease, NoLease

\* A take that gives up.
LEMMA SyncTakeBusy ==
    ASSUME TypeOK, SyncInv, NEW t \in Take, TakeBusy(t)
    PROVE  SyncInv'
  BY LoopAssumption DEF TypeOK, SyncInv, TakeBusy, loopVars, controlVars, EpochBound, LeaseAgrees, SlotAgrees, ReplyAgrees, Wanted, GrantedIsConfirmed, Waiting, Lease, NoLease

\* The end of a take from another tab.
LEMMA SyncTakeMoveReleased ==
    ASSUME TypeOK, SyncInv, NEW t \in Take, TakeMoveReleased(t)
    PROVE  SyncInv'
  BY LoopAssumption DEF TypeOK, SyncInv, TakeMoveReleased, Finish, loopVars, controlVars, EpochBound, LeaseAgrees, SlotAgrees, ReplyAgrees, Wanted, GrantedIsConfirmed, Waiting, Lease, NoLease

\* A step that touches neither the lease nor the channel nor a transition.
LEMMA SyncQuiet ==
    ASSUME TypeOK, SyncInv, UNCHANGED <<loopVars, lease, epoch, trans, tpc, inp, acts>>
    PROVE  SyncInv'
  BY LoopAssumption DEF TypeOK, SyncInv, loopVars, controlVars, EpochBound, LeaseAgrees, SlotAgrees, ReplyAgrees, Wanted, GrantedIsConfirmed

\* The lease ends with a closed session.
LEMMA SyncEndHumanOnClose ==
    ASSUME TypeOK, SyncInv, EndHumanOnClose
    PROVE  SyncInv'
  BY LoopAssumption DEF TypeOK, SyncInv, EndHumanOnClose, TakeHuman, loopVars, controlVars, EpochBound, LeaseAgrees, SlotAgrees, ReplyAgrees, Wanted, GrantedIsConfirmed, Waiting, Lease, NoLease

\* A native call is admitted, or fails with the session.
LEMMA SyncAgentCall ==
    ASSUME TypeOK, SyncInv, NEW c \in Call, AdmitAgent(c) \/ AgentReturns(c)
    PROVE  SyncInv'
  <1>1. UNCHANGED <<loopVars, controlVars, tpc, inp>>
    BY DEF AdmitAgent, AgentReturns
  <1>2. \A d \in Call : acts[d].at \in Nat /\ acts'[d].at \in {acts[d].at, epoch}
    BY DEF AdmitAgent, AgentReturns, TypeOK, Act
  <1>3. \A d \in Call : acts'[d].at <= epoch
    BY <1>2 DEF SyncInv, EpochBound, TypeOK
  <1> QED BY <1>1, <1>3 DEF SyncInv, loopVars, controlVars, EpochBound, LeaseAgrees,
                            SlotAgrees, ReplyAgrees, Wanted, GrantedIsConfirmed

\* One event of a viewer input request.
LEMMA SyncInputEvent ==
    ASSUME TypeOK, SyncInv, NEW t \in Take, NEW k \in Key, NEW press \in BOOLEAN, NEW fenced \in BOOLEAN,
           InputEvent(t, k, press, fenced)
    PROVE  SyncInv'
  <1>1. /\ lease'.id = lease.id /\ lease'.granted = lease.granted
        /\ inp'.at \in {0, epoch, inp.at}
    BY DEF TypeOK, Lease, NoLease, InputEvent, Held, NoInput
  <1>2. inp.at \in Nat /\ epoch \in Nat
    BY DEF TypeOK, InputReq, NoInput
  <1>3. inp'.at <= epoch
    BY <1>1, <1>2 DEF SyncInv, EpochBound
  <1> QED BY <1>1, <1>3 DEF InputEvent, TypeOK, SyncInv, loopVars, EpochBound, LeaseAgrees, SlotAgrees, ReplyAgrees, Wanted, GrantedIsConfirmed

\* The lease goes and an epoch change begins.
LEMMA SyncAdvance ==
    ASSUME TypeOK, SyncInv, NEW x \in Slot, NEW o \in {"request", "sweep", "task"},
           Advance(x, o), lease' = NoLease, UNCHANGED <<loopVars, tpc, inp, acts>>
    PROVE  SyncInv'
  <1> USE DEF loopVars
  <1>1. EpochBound'
    BY EpochBoundAdvance
  <1>2. LeaseAgrees' /\ GrantedIsConfirmed' /\ lease'.id = None
    BY DEF LeaseAgrees, GrantedIsConfirmed, NoLease
  <1>3. ASSUME NEW y \in Slot PROVE SlotAgrees(y)'
    <2>1. trans'[x].owner = o /\ trans'[x].phase = "new" 
          /\ \A z \in Slot : z # x => trans'[z] = trans[z]
      BY AdvanceAt
    <2>2. o \notin Take
      BY ControlAssumption
    <2> QED BY <1>2, <2>1, <2>2, LoopAssumption DEF SyncInv, SlotAgrees
  <1>4. \A i \in DOMAIN queue' : ReplyAgrees(i)'
    BY AdvanceAt, RepliesKeep
  <1> QED BY <1>1, <1>2, <1>3, <1>4 DEF SyncInv

\* A transition without an epoch change begins; the lease goes or stays.
LEMMA SyncPend ==
    ASSUME TypeOK, SyncInv, NEW x \in Slot, NEW o \in {"request", "sweep", "task"}, NEW r,
           Pend(x, r, o), UNCHANGED <<loopVars, tpc, inp, acts>>,
           \/ lease' = NoLease
           \/ lease'.id = lease.id /\ lease'.granted = lease.granted
    PROVE  SyncInv'
  <1> USE DEF loopVars
  <1>0. /\ trans'[x].owner = o /\ trans'[x].phase = "new" /\ trans'[x].epoch = 0
        /\ trans'[x].at = epoch /\ epoch' = epoch /\ epoch \in Nat
        /\ \A z \in Slot : z # x => trans'[z] = trans[z]
    BY PendAt
  <1>1. EpochBound'
    BY <1>0 DEF SyncInv, EpochBound
  <1>2. LeaseAgrees' /\ GrantedIsConfirmed'
    BY <1>0 DEF SyncInv, LeaseAgrees, GrantedIsConfirmed, NoLease
  <1>3. ASSUME NEW y \in Slot PROVE SlotAgrees(y)'
    <2>2. o \notin Take
      BY ControlAssumption
    <2> QED BY <1>0, <2>2, LoopAssumption DEF SyncInv, SlotAgrees, NoLease
  <1>4. \A i \in DOMAIN queue' : ReplyAgrees(i)'
    BY PendAt, RepliesKeep
  <1> QED BY <1>0, <1>1, <1>2, <1>3, <1>4 DEF SyncInv, NoLease

\* Blur and release.
LEMMA SyncHolder ==
    ASSUME TypeOK, SyncInv, NEW t \in Take, NEW x \in Slot, Blur(t, x) \/ ReleaseLease(t, x)
    PROVE  SyncInv'
  <1>1. CASE Blur(t, x)
    BY <1>1, SyncPend DEF Blur, callerVars, TypeOK, Lease, NoLease
  <1>2. CASE ReleaseLease(t, x)
    BY <1>2, SyncAdvance DEF ReleaseLease
  <1> QED BY <1>1, <1>2

\* end_lease: either kind of transition.
LEMMA SyncEndLease ==
    ASSUME TypeOK, SyncInv, NEW x \in Slot, NEW o \in {"request", "sweep", "task"},
           lease' = NoLease, EndLease(x, o), UNCHANGED <<loopVars, tpc, inp, acts>>
    PROVE  SyncInv'
  BY SyncAdvance, SyncPend DEF EndLease

\* The sweeper, the viewer stop, the session end and the takeover command.
LEMMA SyncDaemonNext ==
    ASSUME TypeOK, SyncInv, DaemonNext
    PROVE  SyncInv'
  <1>1. CASE SweepJudge
    BY <1>1, SyncQuiet DEF SweepJudge, controlVars
  <1>2. CASE EndHumanOnClose
    BY <1>2, SyncEndHumanOnClose
  <1>3. ASSUME NEW x \in Slot, SweepEnd(x) PROVE SyncInv'
    BY <1>3, SyncEndLease, SyncQuiet DEF SweepEnd, TakeHuman
  <1>4. ASSUME NEW x \in Slot, EndHuman(x) PROVE SyncInv'
    BY <1>4, SyncEndLease DEF EndHuman, TakeHuman
  <1>5. ASSUME NEW x \in Slot, EndHumanEnded(x) PROVE SyncInv'
    BY <1>5, SyncPend DEF EndHumanEnded, TakeHuman
  <1>6. ASSUME NEW x \in Slot, AgentTakeover(x) PROVE SyncInv'
    BY <1>6, SyncEndLease DEF AgentTakeover, AgentTakeoverLocked
  <1> QED BY <1>1, <1>2, <1>3, <1>4, <1>5, <1>6 DEF DaemonNext

-----------------------------------------------------------------------------
(* SyncInv: commands enter the channel *)

\* The batch of a task that is no transition.
LEMMA SyncEnqueueBatch ==
    ASSUME TypeOK, SyncInv, NEW kind \in {"agent", "tab"}, NEW e, NEW down, NEW up, NEW from,
           Enqueue(kind, e, down, up, from), e <= epoch,
           UNCHANGED <<lease, epoch, trans, tpc>>,
           \A c \in Call : acts'[c].at = acts[c].at, inp'.at = inp.at
    PROVE  SyncInv'
  <1>0. LoopTypeOK
    BY DEF TypeOK
  <1>u. loopUp' /\ UNCHANGED loopEpoch
    BY <1>0, EnqueueAt
  <1>1. PICK n \in Nat :
           /\ DOMAIN queue = 1..n /\ DOMAIN queue' = 1..(n + 1)
           /\ \A i \in 1..n : queue'[i] = queue[i]
           /\ queue'[n + 1].kind = kind /\ queue'[n + 1].epoch = e
    BY <1>0, EnqueueAt
  <1>2. \A i \in DOMAIN queue' : i \in DOMAIN queue \/ i = n + 1
    BY <1>1
  <1>3. EpochBound'
    BY <1>u, <1>1, <1>2 DEF SyncInv, EpochBound
  <1>4. ~Wanted(n + 1)'
    BY <1>1 DEF Wanted
  <1>5. \A i \in DOMAIN queue : Wanted(i)' = Wanted(i)
    BY <1>1 DEF Wanted
  <1>6. \A i \in DOMAIN queue' : ReplyAgrees(i)'
    BY <1>1, <1>2, <1>4, <1>5 DEF SyncInv, ReplyAgrees
  <1> QED BY <1>u, <1>3, <1>6 DEF SyncInv, LeaseAgrees, SlotAgrees, GrantedIsConfirmed

\* A viewer input request or a native call sends a batch.
LEMMA SyncSenders ==
    ASSUME TypeOK, SyncInv, InputSend \/ \E c \in Call : AgentBatch(c)
    PROVE  SyncInv'
  <1>1. CASE InputSend
    <2>1. inp'.at = inp.at
      BY <1>1 DEF InputSend, TypeOK, InputReq, NoInput
    <2> QED BY <1>1, <2>1, SyncEnqueueBatch DEF InputSend, controlVars, SyncInv, EpochBound
  <1>2. ASSUME NEW c \in Call, AgentBatch(c) PROVE SyncInv'
    <2>1. \A d \in Call : acts'[d].at = acts[d].at
      BY <1>2 DEF AgentBatch, TypeOK, Act
    <2>2. acts[c].at <= epoch
      BY DEF SyncInv, EpochBound
    <2> QED BY <1>2, <2>1, <2>2, SyncEnqueueBatch DEF AgentBatch, controlVars
  <1> QED BY <1>1, <1>2

\* The command of a transition.
LEMMA SyncEnqueueTransition ==
    ASSUME TypeOK, SyncInv, NEW x \in Slot, NEW kind \in {"epoch", "release"}, NEW e, NEW up,
           Enqueue(kind, e, {}, up, x), e <= epoch,
           trans[x].phase = "new", trans[x].epoch = IF kind = "epoch" THEN e ELSE 0,
           trans' = [trans EXCEPT ![x].phase = "sent"],
           UNCHANGED <<lease, epoch, tpc, acts, inp>>
    PROVE  SyncInv'
  <1>0. LoopTypeOK
    BY DEF TypeOK
  <1>u. loopUp' /\ UNCHANGED loopEpoch
    BY <1>0, EnqueueAt
  <1>1. PICK n \in Nat :
           /\ DOMAIN queue = 1..n /\ DOMAIN queue' = 1..(n + 1)
           /\ \A i \in 1..n : queue'[i] = queue[i]
           /\ queue'[n + 1].kind = kind /\ queue'[n + 1].epoch = e /\ queue'[n + 1].from = x
    BY <1>0, EnqueueAt
  <1>2. \A i \in DOMAIN queue' : i \in DOMAIN queue \/ i = n + 1
    BY <1>1
  <1>t. /\ trans'[x].phase = "sent" /\ trans'[x].epoch = trans[x].epoch
        /\ trans'[x].owner = trans[x].owner /\ trans'[x].at = trans[x].at
        /\ \A y \in Slot : y # x => trans'[y] = trans[y]
    BY DEF TypeOK, Transition
  <1>3. EpochBound'
    BY <1>u, <1>1, <1>2, <1>t DEF SyncInv, EpochBound
  <1>4. \A y \in Slot : SlotAgrees(y)'
    BY <1>u, <1>t DEF SyncInv, SlotAgrees
  <1>5. \A i \in DOMAIN queue : Wanted(i)' = Wanted(i)
    BY <1>1 DEF Wanted
  <1>6. \A i \in DOMAIN queue : Wanted(i) => queue[i].from \in Slot /\ queue[i].from # x
    BY DEF TypeOK, LoopTypeOK, SyncInv, ReplyAgrees, Wanted, Command, Batch
  <1>7. ASSUME NEW i \in DOMAIN queue' PROVE ReplyAgrees(i)'
    <2>1. CASE i \in DOMAIN queue
      BY <1>1, <1>2, <1>5, <1>6, <1>t, <2>1 DEF SyncInv, ReplyAgrees
    <2>2. CASE i = n + 1
      BY <1>1, <1>2, <1>5, <1>6, <1>t, <2>2 DEF SyncInv, ReplyAgrees
    <2> QED BY <1>2, <2>1, <2>2
  <1> QED BY <1>u, <1>3, <1>4, <1>7 DEF SyncInv, LeaseAgrees, GrantedIsConfirmed

\* discharge_within sends its command.
LEMMA SyncSend ==
    ASSUME TypeOK, SyncInv, NEW x \in Slot, SendEpoch(x) \/ SendReleases(x)
    PROVE  SyncInv'
  <1>0. trans[x].epoch <= epoch /\ trans[x].at <= epoch
    BY DEF SyncInv, EpochBound
  <1>1. CASE SendEpoch(x)
    BY <1>0, <1>1, SyncEnqueueTransition DEF SendEpoch, callerVars
  <1>2. CASE SendReleases(x) /\ trans[x].release # {}
    BY <1>0, <1>2, SyncEnqueueTransition DEF SendReleases, callerVars
  <1>3. CASE SendReleases(x) /\ trans[x].release = {}
    <2>1. /\ trans'[x].phase = "done" /\ trans'[x].epoch = trans[x].epoch /\ trans[x].epoch = 0
          /\ trans'[x].owner = trans[x].owner /\ trans'[x].at = trans[x].at
          /\ \A y \in Slot : y # x => trans'[y] = trans[y]
          /\ UNCHANGED <<loopVars, lease, epoch, tpc, acts, inp>> /\ loopEpoch \in Nat
          /\ trans[x].phase = "new"
      BY <1>3 DEF SendReleases, callerVars, TypeOK, Transition, LoopTypeOK
    <2>2. \A i \in DOMAIN queue : Wanted(i) => queue[i].from \in Slot /\ queue[i].from # x
      BY <2>1 DEF TypeOK, LoopTypeOK, SyncInv, ReplyAgrees, Wanted, Command, Batch
    <2>3. \A i \in DOMAIN queue' : ReplyAgrees(i)'
      BY <2>1, <2>2 DEF SyncInv, ReplyAgrees, Wanted, loopVars
    <2>4. \A y \in Slot : SlotAgrees(y)'
      BY <2>1 DEF SyncInv, SlotAgrees, loopVars
    <2> QED BY <2>1, <2>3, <2>4 DEF SyncInv, EpochBound, LeaseAgrees, GrantedIsConfirmed, loopVars
  <1> QED BY <1>1, <1>2, <1>3

-----------------------------------------------------------------------------
(* SyncInv: waits that end *)

\* Commands stay, some without the task that waited for them.
LEMMA RepliesOrphan ==
    ASSUME TypeOK, SyncInv, NEW kinds, NEW from, queue' = Orphan(kinds, from), 
           \A y \in Slot : trans'[y] = trans[y] \/ (from = y /\ {"epoch", "release"} \subseteq kinds)
    PROVE  \A i \in DOMAIN queue' : ReplyAgrees(i)'
  <1>1. LoopTypeOK
    BY DEF TypeOK
  <1>2. /\ DOMAIN queue' = DOMAIN queue
        /\ \A i \in DOMAIN queue :
                 /\ queue'[i].kind = queue[i].kind /\ queue'[i].epoch = queue[i].epoch
                 /\ queue'[i].from = queue[i].from
                 /\ queue'[i].reply => /\ queue[i].reply
                                       /\ ~(queue[i].kind \in kinds /\ queue[i].from = from)
    BY <1>1, OrphanAt
  <1>3. \A i \in DOMAIN queue : Wanted(i)' => Wanted(i) /\ (queue[i].from = from => ~({"epoch", "release"} \subseteq kinds))
    BY <1>2 DEF Wanted
  <1>4. \A i \in DOMAIN queue : Wanted(i) => queue[i].from \in Slot
    BY <1>1 DEF LoopTypeOK, Wanted, Command, Batch
  <1> QED BY <1>2, <1>3, <1>4 DEF SyncInv, ReplyAgrees

\* A viewer input request ends.
LEMMA SyncInputReturns ==
    ASSUME TypeOK, SyncInv, InputReturns
    PROVE  SyncInv'
  <1>1. /\ UNCHANGED <<loopUp, loopEpoch, lease, epoch, trans, tpc, acts>>
        /\ queue' = Orphan({"tab"}, inp.by) /\ inp' = NoInput
    BY DEF InputReturns, controlVars
  <1>2. LoopTypeOK
    BY DEF TypeOK
  <1>3. \A i \in DOMAIN queue' : ReplyAgrees(i)'
    BY <1>1, RepliesOrphan
  <1>4. DOMAIN queue' = DOMAIN queue /\ \A i \in DOMAIN queue : queue'[i].epoch = queue[i].epoch
    BY <1>1, <1>2, OrphanAt
  <1>5. EpochBound'
    BY <1>1, <1>4 DEF SyncInv, EpochBound, NoInput, TypeOK
  <1>6. queue = <<>> => queue' = <<>>
    BY <1>1, <1>2 DEF Orphan, LoopTypeOK
  <1> QED BY <1>1, <1>3, <1>5, <1>6 DEF SyncInv, LeaseAgrees, SlotAgrees, GrantedIsConfirmed

\* A transition leaves its slot.
LEMMA SyncDrop ==
    ASSUME TypeOK, SyncInv, NEW x \in Slot, trans' = [trans EXCEPT ![x] = NoTrans],
           queue' = Orphan({"epoch", "release"}, x),
           UNCHANGED <<loopUp, loopEpoch, epoch, acts, inp>>
    PROVE  /\ EpochBound'
           /\ \A i \in DOMAIN queue' : ReplyAgrees(i)'
           /\ ~loopUp' => queue' = <<>>
           /\ \A y \in Slot : y # x => trans'[y] = trans[y]
           /\ trans'[x] = NoTrans
  <1>1. trans'[x] = NoTrans /\ \A y \in Slot : y # x => trans'[y] = trans[y]
    BY DEF TypeOK
  <1>2. LoopTypeOK
    BY DEF TypeOK
  <1>3. \A i \in DOMAIN queue' : ReplyAgrees(i)'
    BY <1>1, RepliesOrphan
  <1>4. DOMAIN queue' = DOMAIN queue /\ \A i \in DOMAIN queue : queue'[i].epoch = queue[i].epoch
    BY <1>2, OrphanAt
  <1>5. EpochBound'
    BY <1>1, <1>4 DEF SyncInv, EpochBound, NoTrans, TypeOK
  <1>6. queue = <<>> => queue' = <<>>
    BY <1>2 DEF Orphan, LoopTypeOK
  <1> QED BY <1>1, <1>3, <1>5, <1>6 DEF SyncInv

\* discharge_within returns, or its caller is dropped.
LEMMA SyncDischarge ==
    ASSUME TypeOK, SyncInv, NEW x \in Slot, DischargeReturns(x) \/ DischargeDropped(x)
    PROVE  SyncInv'
  <1>1. /\ trans' = [trans EXCEPT ![x] = NoTrans] /\ queue' = Orphan({"epoch", "release"}, x)
        /\ UNCHANGED <<loopUp, loopEpoch, lease, epoch, tpc, acts, inp>>
    BY DEF DischargeReturns, DischargeDropped, Discharged, callerVars
  <1>2. /\ EpochBound' /\ \A i \in DOMAIN queue' : ReplyAgrees(i)'
        /\ ~loopUp' => queue' = <<>>
        /\ \A y \in Slot : y # x => trans'[y] = trans[y]
        /\ trans'[x] = NoTrans
    BY <1>1, SyncDrop
  <1>3. \A y \in Slot : SlotAgrees(y)'
    BY <1>1, <1>2, LoopAssumption DEF SyncInv, SlotAgrees, NoTrans
  <1> QED BY <1>1, <1>2, <1>3 DEF SyncInv, LeaseAgrees, GrantedIsConfirmed

\* A take whose epoch change was answered while it has the lease is at the epoch
\* of the loop.
LEMMA ConfirmedEpoch ==
    ASSUME TypeOK, SyncInv, NEW t \in Take, NEW x \in Slot, trans[x].owner = t,
           Discharged(x, TRUE), lease.id = t
    PROVE  loopEpoch = epoch
  <1>1. trans[x].phase = "done" /\ trans[x].epoch = epoch
    BY DEF SyncInv, SlotAgrees, Discharged
  <1>2. epoch <= loopEpoch /\ loopEpoch <= epoch
    BY <1>1 DEF SyncInv, SlotAgrees, EpochBound
  <1> QED BY <1>2 DEF TypeOK, LoopTypeOK

\* A take's transition ends and the take goes on to `pc'.
LEMMA SlotsAfterTake ==
    ASSUME TypeOK, SyncInv, NEW t \in Take, NEW x \in Slot, NEW pc,
           trans[x].owner = t, tpc' = [tpc EXCEPT ![t] = pc],
           trans'[x] = NoTrans, \A y \in Slot : y # x => trans'[y] = trans[y],
           UNCHANGED <<epoch, loopEpoch>>, lease' = NoLease \/ lease'.id = lease.id
    PROVE  \A y \in Slot : SlotAgrees(y)'
  <1>1. \A y \in Slot : y # x => trans[y].owner # t
    BY DEF SyncInv, SlotAgrees
  <1> QED BY <1>1, LoopAssumption DEF SyncInv, SlotAgrees, NoTrans, NoLease, TypeOK

\* The epoch change of a take is confirmed or not.
LEMMA SyncTakeDischarged ==
    ASSUME TypeOK, SyncInv, NEW t \in Take, NEW x \in Slot,
           TakeConfirmed(t, x) \/ TakeMoved(t, x)
    PROVE  SyncInv'
  <1>0. trans[x].owner = t
    BY DEF TakeConfirmed, TakeMoved
  <1>1. PICK ok \in BOOLEAN : /\ Discharged(x, ok)
                              /\ \/ Finish(t, ok)
                                 \/ /\ ok /\ tpc' = [tpc EXCEPT ![t] = "movewait"]
                                    /\ tpc[t] = "moving"
                                    /\ UNCHANGED <<lease, epoch, inflight, ended, sweep, inp, acts, cua, logged>>
    BY DEF TakeConfirmed, TakeMoved
  <1>2. /\ trans' = [trans EXCEPT ![x] = NoTrans] /\ queue' = Orphan({"epoch", "release"}, x)
        /\ UNCHANGED <<loopUp, loopEpoch, epoch, acts, inp>>
    BY <1>1 DEF Discharged, Finish
  <1>3. /\ EpochBound' /\ \A i \in DOMAIN queue' : ReplyAgrees(i)'
        /\ ~loopUp' => queue' = <<>>
        /\ \A y \in Slot : y # x => trans'[y] = trans[y]
        /\ trans'[x] = NoTrans
    BY <1>2, SyncDrop
  <1>4. ok /\ lease.id = t => loopEpoch = epoch
    BY <1>0, <1>1, ConfirmedEpoch
  <1>5. CASE Finish(t, ok)
    <2>1. lease' = NoLease \/ lease'.id = lease.id
      BY <1>5 DEF Finish, TypeOK, Lease, NoLease
    <2>2. \A y \in Slot : SlotAgrees(y)'
      <3>1. PICK pc : tpc' = [tpc EXCEPT ![t] = pc]
        BY <1>5 DEF Finish
      <3> QED BY <1>0, <1>2, <1>3, <2>1, <3>1, SlotsAfterTake
    <2>3. LeaseAgrees' /\ (lease'.id # None /\ tpc'[lease'.id] = "movewait" => loopEpoch' = epoch')
      BY <1>2, <1>5 DEF Finish, SyncInv, LeaseAgrees, TypeOK, Lease, NoLease, Waiting
    <2>4. GrantedIsConfirmed'
      BY <1>2, <1>4, <1>5 DEF Finish, SyncInv, GrantedIsConfirmed, TypeOK, Lease, NoLease
    <2> QED BY <1>3, <2>2, <2>3, <2>4 DEF SyncInv
  <1>6. CASE /\ ok /\ tpc' = [tpc EXCEPT ![t] = "movewait"] /\ tpc[t] = "moving"
             /\ UNCHANGED <<lease, epoch, inflight, ended, sweep, inp, acts, cua, logged>>
    <2>1. \A y \in Slot : SlotAgrees(y)'
      BY <1>0, <1>2, <1>3, <1>6, SlotsAfterTake
    <2>2. LeaseAgrees' /\ GrantedIsConfirmed'
      BY <1>2, <1>6 DEF SyncInv, LeaseAgrees, GrantedIsConfirmed, TypeOK, Waiting, Lease, NoLease
    <2>3. lease'.id # None /\ tpc'[lease'.id] = "movewait" => loopEpoch' = epoch'
      BY <1>2, <1>4, <1>6 DEF SyncInv, TypeOK, Lease, NoLease
    <2> QED BY <1>3, <2>1, <2>2, <2>3 DEF SyncInv
  <1> QED BY <1>1, <1>5, <1>6

\* PendingTake::drop.
LEMMA SyncTakeDropped ==
    ASSUME TypeOK, SyncInv, NEW t \in Take, TakeDropped(t)
    PROVE  SyncInv'
  <1>1. /\ UNCHANGED <<loopUp, loopEpoch, epoch, acts, inp>>
        /\ tpc' = [tpc EXCEPT ![t] = "undone"]
        /\ lease' = IF lease.id = t THEN NoLease ELSE lease
        /\ \A y \in Slot : trans'[y] = IF trans[y].owner = t THEN NoTrans ELSE trans[y]
    BY DEF TakeDropped
  <1>2. \A i \in DOMAIN queue : queue[i] \in Command
    BY DEF TypeOK, LoopTypeOK
  <1>3. /\ DOMAIN queue' = DOMAIN queue
        /\ \A i \in DOMAIN queue :
              queue'[i] = IF queue[i].kind = "epoch" /\ trans[queue[i].from].owner = t
                          THEN [queue[i] EXCEPT !.reply = FALSE] ELSE queue[i]
    BY DEF TakeDropped
  <1>4. \A i \in DOMAIN queue :
           /\ queue'[i].kind = queue[i].kind /\ queue'[i].epoch = queue[i].epoch
           /\ queue'[i].from = queue[i].from
           /\ queue'[i].reply => queue[i].reply /\ ~(queue[i].kind = "epoch" /\ trans[queue[i].from].owner = t)
    BY <1>2, <1>3 DEF Command, Batch
  <1>5. EpochBound'
    BY <1>1, <1>3, <1>4 DEF SyncInv, EpochBound, NoTrans, TypeOK
  <1>6. LeaseAgrees' /\ GrantedIsConfirmed'
        /\ (lease'.id # None /\ tpc'[lease'.id] = "movewait" => loopEpoch' = epoch')
    BY <1>1 DEF SyncInv, LeaseAgrees, GrantedIsConfirmed, TypeOK, Lease, NoLease
  <1>7. \A y \in Slot : SlotAgrees(y)'
    BY <1>1, LoopAssumption DEF SyncInv, SlotAgrees, NoTrans, NoLease, TypeOK
  <1>8. \A i \in DOMAIN queue : Wanted(i)' => Wanted(i) /\ trans'[queue[i].from] = trans[queue[i].from]
    <2> SUFFICES ASSUME NEW i \in DOMAIN queue, Wanted(i)'
                 PROVE  Wanted(i) /\ trans'[queue[i].from] = trans[queue[i].from]
      OBVIOUS
    <2>1. Wanted(i) /\ ~(queue[i].kind = "epoch" /\ trans[queue[i].from].owner = t)
      BY <1>4 DEF Wanted
    <2>2. queue[i].from \in Slot
      BY <1>2, <2>1 DEF Wanted, Command, Batch
    <2>3. queue[i].kind = "release" => trans[queue[i].from].epoch = 0
      BY <2>1 DEF SyncInv, ReplyAgrees
    <2>4. trans[queue[i].from].owner # t
      BY <2>1, <2>2, <2>3 DEF SyncInv, SlotAgrees, Wanted
    <2> QED BY <1>1, <2>1, <2>2, <2>4
  <1>9. \A i \in DOMAIN queue' : ReplyAgrees(i)'
    BY <1>3, <1>4, <1>8 DEF SyncInv, ReplyAgrees
  <1>10. queue = <<>> => queue' = <<>>
    BY DEF TakeDropped, TypeOK, LoopTypeOK
  <1> QED BY <1>1, <1>5, <1>6, <1>7, <1>9, <1>10 DEF SyncInv

\* The second critical section of take_within.
LEMMA SyncTakeAdvance ==
    ASSUME TypeOK, SyncInv, NEW t \in Take, NEW x \in Slot, TakeAdvance(t, x)
    PROVE  SyncInv'
  <1> USE DEF loopVars
  <1>n. \A z \in Slot : trans[z].owner # t
    BY DEF SyncInv, SlotAgrees, TakeAdvance
  <1>1. CASE lease.id = t
    <2>1. /\ Advance(x, t) /\ tpc' = [tpc EXCEPT ![t] = "confirming"]
          /\ UNCHANGED <<loopVars, lease, inp, acts>>
      BY <1>1 DEF TakeAdvance
    <2>2. EpochBound'
      BY <2>1, EpochBoundAdvance
    <2>3. LeaseAgrees' /\ ~lease.granted /\ tpc'[lease'.id] # "movewait"
      BY <1>1, <2>1, LoopAssumption DEF SyncInv, LeaseAgrees, TypeOK, Waiting, TakeAdvance
    <2>4. trans'[x].owner = t /\ trans'[x].epoch = epoch + 1
          /\ trans'[x].phase = "new" /\ epoch' = epoch + 1 /\ epoch \in Nat
          /\ \A z \in Slot : z # x => trans'[z] = trans[z]
      BY <2>1, AdvanceAt
    <2>5. \A y \in Slot : SlotAgrees(y)'
      BY <1>1, <1>n, <2>1, <2>4, LoopAssumption DEF SyncInv, SlotAgrees, TypeOK
    <2>6. \A i \in DOMAIN queue' : ReplyAgrees(i)'
      BY <2>1, AdvanceAt, RepliesKeep
    <2> QED BY <2>1, <2>2, <2>3, <2>5, <2>6 DEF SyncInv, GrantedIsConfirmed
  <1>2. CASE lease.id # t
    <2>1. /\ tpc' = [tpc EXCEPT ![t] = "lost"]
          /\ UNCHANGED <<loopVars, lease, epoch, trans, inp, acts>>
      BY <1>2 DEF TakeAdvance
    <2> QED BY <1>2, <1>n, <2>1, LoopAssumption DEF TypeOK, SyncInv, EpochBound, LeaseAgrees, SlotAgrees,
               ReplyAgrees, Wanted, GrantedIsConfirmed, Lease, NoLease
  <1> QED BY <1>1, <1>2

-----------------------------------------------------------------------------
(* SyncInv: the loop *)

\* What a command does to the epoch of the loop.
LEMMA DequeueEpoch ==
    ASSUME TypeOK, SyncInv, Dequeue
    PROVE  /\ loopEpoch' \in Nat /\ loopEpoch <= loopEpoch' /\ loopEpoch' <= epoch
           /\ Head(queue).kind = "epoch" => Head(queue).epoch <= loopEpoch'
  <1> DEFINE m == Head(queue)
  <1>1. m \in Command /\ m.epoch \in Nat
    BY TypeDequeue DEF TypeOK, Command, Batch
  <1>2. m.epoch <= epoch /\ loopEpoch <= epoch /\ loopEpoch \in Nat /\ epoch \in Nat
    BY DequeueAt DEF SyncInv, EpochBound, TypeOK, LoopTypeOK
  <1>3. CASE m.kind = "epoch"
    BY <1>1, <1>2, <1>3 DEF Dequeue, SetEpoch
  <1>4. CASE m.kind # "epoch"
    BY <1>1, <1>2, <1>4 DEF Dequeue, Apply, Stale
  <1> QED BY <1>3, <1>4

\* The answer to a command reaches the transition that waits for it.
LEMMA AnswerAt ==
    ASSUME TypeOK, SyncInv, LoopStep
    PROVE  /\ \A x \in Slot :
                 /\ trans'[x].epoch = trans[x].epoch /\ trans'[x].at = trans[x].at
                 /\ trans'[x].owner = trans[x].owner
                 /\ trans'[x] # trans[x] => /\ trans'[x].phase = "done" /\ trans[x].phase = "sent"
                                            /\ Wanted(1) /\ queue[1].from = x
           /\ Wanted(1) => trans'[queue[1].from].phase = "done"
           /\ \A c \in Call : acts'[c].at = acts[c].at
           /\ inp'.at \in {0, inp.at}
  <1> DEFINE m == Head(queue)
  <1>1. Dequeue /\ Answer(m)
    BY DEF LoopStep
  <1>2. m = queue[1] /\ 1 \in DOMAIN queue /\ m \in Command
    BY <1>1, DequeueAt, TypeDequeue DEF TypeOK
  <1>3. m.kind \in {"epoch", "release"} => m.from \in Slot
    BY <1>2 DEF Command, Batch
  <1>4. m.kind = "agent" => m.from \in Call
    BY <1>2 DEF Command, Batch
  <1>5. Wanted(1) = (m.reply /\ m.kind \in {"epoch", "release"})
    BY <1>2 DEF Wanted
  <1>6. Wanted(1) => trans[m.from].phase = "sent"
    BY <1>2 DEF SyncInv, ReplyAgrees
  <1>7. trans' = IF Wanted(1) THEN [trans EXCEPT ![m.from].phase = "done"] ELSE trans
    BY <1>1, <1>5 DEF Answer
  <1>8. \A c \in Call : acts'[c].at = acts[c].at
    BY <1>1, <1>4 DEF Answer, TypeOK, Act
  <1>9. inp'.at \in {0, inp.at}
    BY <1>1 DEF Answer, TypeOK, InputReq, NoInput
  <1>10. \A x \in Slot :
            /\ trans'[x].epoch = trans[x].epoch /\ trans'[x].at = trans[x].at
            /\ trans'[x].owner = trans[x].owner
            /\ trans'[x].phase = IF Wanted(1) /\ m.from = x THEN "done" ELSE trans[x].phase
            /\ ~(Wanted(1) /\ m.from = x) => trans'[x] = trans[x]
    BY <1>3, <1>5, <1>7 DEF TypeOK, Transition
  <1> QED BY <1>2, <1>3, <1>5, <1>6, <1>8, <1>9, <1>10

\* The loop takes a command and answers.
LEMMA SyncLoopStep ==
    ASSUME TypeOK, SyncInv, LoopStep
    PROVE  SyncInv'
  <1>1. Dequeue /\ UNCHANGED <<lease, epoch, tpc>> /\ LoopTypeOK
    BY DEF LoopStep, TypeOK
  <1>2. /\ loopEpoch' \in Nat /\ loopEpoch <= loopEpoch' /\ loopEpoch' <= epoch
        /\ Head(queue).kind = "epoch" => Head(queue).epoch <= loopEpoch'
    BY <1>1, DequeueEpoch
  <1>3. PICK n \in Nat :
           /\ DOMAIN queue = 1..(n + 1) /\ DOMAIN queue' = 1..n
           /\ \A i \in 1..n : queue'[i] = queue[i + 1]
           /\ Head(queue) = queue[1] /\ loopUp'
    <2>1. \A n : n = Len(queue) - 1 =>
             /\ n \in Nat /\ DOMAIN queue = 1..(n + 1) /\ DOMAIN queue' = 1..n
             /\ \A i \in 1..n : queue'[i] = queue[i + 1]
             /\ Head(queue) = queue[1] /\ loopUp'
      BY <1>1, DequeueAt
    <2> QED BY <2>1
  <1>4. /\ \A x \in Slot :
                 /\ trans'[x].epoch = trans[x].epoch /\ trans'[x].at = trans[x].at
                 /\ trans'[x].owner = trans[x].owner
                 /\ trans'[x] # trans[x] => /\ trans'[x].phase = "done" /\ trans[x].phase = "sent"
                                            /\ Wanted(1) /\ queue[1].from = x
        /\ \A c \in Call : acts'[c].at = acts[c].at
        /\ inp'.at \in {0, inp.at}
    BY AnswerAt
  <1>5. EpochBound'
    <2>1. \A i \in DOMAIN queue' : queue'[i].epoch <= epoch
      BY <1>3 DEF SyncInv, EpochBound
    <2>2. inp'.at <= epoch
      BY <1>4 DEF SyncInv, EpochBound, TypeOK
    <2> QED BY <1>1, <1>2, <1>4, <2>1, <2>2 DEF SyncInv, EpochBound
  <1>6. GrantedIsConfirmed' /\ (lease'.id # None /\ tpc'[lease'.id] = "movewait" => loopEpoch' = epoch')
    BY <1>1, <1>2 DEF SyncInv, GrantedIsConfirmed, TypeOK, LoopTypeOK
  <1>7. ASSUME NEW y \in Slot PROVE SlotAgrees(y)'
    <2>1. trans[y].epoch \in Nat /\ loopEpoch \in Nat
      BY DEF TypeOK, Transition, LoopTypeOK
    <2>2. trans'[y] # trans[y] => trans[y].epoch <= loopEpoch'
      BY <1>2, <1>3, <1>4, <2>1 DEF SyncInv, ReplyAgrees, Wanted
    <2>3. trans'[y].phase = "done" => trans'[y].epoch <= loopEpoch'
      BY <1>2, <1>4, <2>1, <2>2 DEF SyncInv, SlotAgrees
    <2> QED BY <1>1, <1>4, <2>3 DEF SyncInv, SlotAgrees
  <1>8. ASSUME NEW i \in DOMAIN queue' PROVE ReplyAgrees(i)'
    <2>1. /\ i + 1 \in DOMAIN queue /\ queue'[i] = queue[i + 1] /\ i + 1 # 1 /\ 1 \in DOMAIN queue
          /\ \A j \in DOMAIN queue' : j + 1 \in DOMAIN queue /\ queue'[j] = queue[j + 1]
      BY <1>3
    <2>2. Wanted(i)' = Wanted(i + 1) /\ \A j \in DOMAIN queue' : Wanted(j)' = Wanted(j + 1)
      BY <2>1 DEF Wanted
    <2>3. Wanted(i + 1) => queue[i + 1].from \in Slot /\ ~(Wanted(1) /\ queue[1].from = queue[i + 1].from)
      BY <2>1 DEF SyncInv, ReplyAgrees, Wanted, TypeOK, LoopTypeOK, Command, Batch
    <2>4. Wanted(i + 1) => trans'[queue[i + 1].from] = trans[queue[i + 1].from]
      BY <1>4, <2>3
    <2> QED BY <1>3, <2>1, <2>2, <2>4 DEF SyncInv, ReplyAgrees
  <1> QED BY <1>1, <1>3, <1>5, <1>6, <1>7, <1>8 DEF SyncInv, LeaseAgrees

\* The loop ends.
LEMMA SyncLoopEnds ==
    ASSUME TypeOK, SyncInv, LoopEnds
    PROVE  SyncInv'
  BY DEF SyncInv, LoopEnds, Stop, controlVars, callerVars, EpochBound, LeaseAgrees, SlotAgrees,
         ReplyAgrees, Wanted, GrantedIsConfirmed, TypeOK

\* SyncInv holds at first.
LEMMA SyncInit == ASSUME Init PROVE SyncInv
  BY LoopAssumption DEF Init, LoopInit, SyncInv, EpochBound, LeaseAgrees, SlotAgrees, ReplyAgrees,
         GrantedIsConfirmed, NoLease, NoTrans, NoInput

\* SyncInv is kept by every step.
LEMMA SyncStep ==
    ASSUME TypeOK, SyncInv, [Next]_vars
    PROVE  SyncInv'
  <1>1. CASE UNCHANGED vars
    BY <1>1, SyncQuiet DEF vars, controlVars, callerVars
  <1>2. ASSUME NEW t \in Take, TakeNext(t) PROVE SyncInv'
    BY <1>2, SyncTakeParts, SyncTakeFromAgent, SyncTakeSettled, SyncTakeBusy,
       SyncTakeMoveReleased, SyncTakeDropped, SyncTakeFromTab, SyncTakeAdvance,
       SyncTakeDischarged DEF TakeNext
  <1>3. ASSUME NEW t \in Take, HolderNext(t) PROVE SyncInv'
    BY <1>3, SyncHolder, SyncInputEvent DEF HolderNext
  <1>4. CASE DaemonNext
    BY <1>4, SyncDaemonNext
  <1>5. CASE DischargeNext
    BY <1>5, SyncSend, SyncDischarge DEF DischargeNext
  <1>6. CASE AgentNext
    <2>1. ASSUME NEW c \in Cua, CuaForward(c) \/ CuaFinished(c) PROVE SyncInv'
      BY <2>1, SyncQuiet DEF CuaForward, CuaFinished, controlVars
    <2>2. ASSUME NEW c \in Cua, NEW x \in Slot, NEW takeover \in BOOLEAN, AdmitCua(c, x, takeover)
          PROVE  SyncInv'
      BY <2>2, SyncQuiet, SyncEndLease DEF AdmitCua, AgentTakeoverLocked
    <2> QED BY <1>6, <2>1, <2>2, SyncAgentCall, SyncSenders DEF AgentNext
  <1>7. CASE LoopNext
    BY <1>7, SyncSenders, SyncInputReturns, SyncLoopStep, SyncLoopEnds DEF LoopNext
  <1> QED BY <1>1, <1>2, <1>3, <1>4, <1>5, <1>6, <1>7 DEF Next

-----------------------------------------------------------------------------
(* The handover of SessionControl: whoever holds the lease, the session's keys *)
(* are his.  OwnerInv is about stamps: who acted, or may still act, with which *)
(* input epoch.  A step stamps nothing new, advances to an epoch nobody        *)
(* stamped, or stamps the current epoch for the current controller.            *)

-----------------------------------------------------------------------------
(* CallAgrees *)

\* Commands that were queued keep agreeing with their calls.
LEMMA CallsKeep ==
    ASSUME TypeOK, \A i \in DOMAIN queue : CallAgrees(i),
           \A i \in DOMAIN queue' : \E j \in DOMAIN queue :
               /\ queue'[i].kind = queue[j].kind /\ queue'[i].from = queue[j].from
               /\ queue'[i].epoch = queue[j].epoch,
           \A c \in Call : acts'[c].at = acts[c].at /\ (acts'[c].pc = "idle" => acts[c].pc = "idle")
    PROVE  \A i \in DOMAIN queue' : CallAgrees(i)'
  <1>1. \A j \in DOMAIN queue : queue[j].kind = "agent" => queue[j].from \in Call
    BY DEF TypeOK, LoopTypeOK, Command, Batch
  <1> QED BY <1>1 DEF CallAgrees

\* Channel and calls unchanged.
LEMMA CallsQuiet ==
    ASSUME TypeOK, \A i \in DOMAIN queue : CallAgrees(i), UNCHANGED <<queue, acts>>
    PROVE  \A i \in DOMAIN queue' : CallAgrees(i)'
  BY DEF CallAgrees

\* A sender stops waiting.
LEMMA CallsOrphan ==
    ASSUME TypeOK, \A i \in DOMAIN queue : CallAgrees(i), NEW kinds, NEW from,
           queue' = Orphan(kinds, from), UNCHANGED acts
    PROVE  \A i \in DOMAIN queue' : CallAgrees(i)'
  <1>1. LoopTypeOK
    BY DEF TypeOK
  <1> QED BY <1>1, OrphanAt DEF CallAgrees

\* A command is queued.
LEMMA CallsEnqueue ==
    ASSUME TypeOK, \A i \in DOMAIN queue : CallAgrees(i), NEW kind, NEW e, NEW down, NEW up, NEW from,
           Enqueue(kind, e, down, up, from),
           kind = "agent" => from \in Call /\ acts[from].at = e /\ acts'[from].pc # "idle",
           \A c \in Call : acts'[c].at = acts[c].at /\ (acts'[c].pc = "idle" => acts[c].pc = "idle")
    PROVE  \A i \in DOMAIN queue' : CallAgrees(i)'
  <1>0. LoopTypeOK
    BY DEF TypeOK
  <1>1. PICK n \in Nat :
           /\ DOMAIN queue = 1..n /\ DOMAIN queue' = 1..(n + 1)
           /\ \A i \in 1..n : queue'[i] = queue[i]
           /\ queue'[n + 1].kind = kind /\ queue'[n + 1].epoch = e /\ queue'[n + 1].from = from
    BY <1>0, EnqueueAt
  <1>2. \A j \in DOMAIN queue : queue[j].kind = "agent" => queue[j].from \in Call
    BY DEF TypeOK, LoopTypeOK, Command, Batch
  <1>3. \A i \in DOMAIN queue : CallAgrees(i)'
    BY <1>1, <1>2 DEF CallAgrees
  <1>4. CallAgrees(n + 1)'
    BY <1>1 DEF CallAgrees
  <1>5. \A i \in DOMAIN queue' : i \in DOMAIN queue \/ i = n + 1
    BY <1>1
  <1> QED BY <1>3, <1>4, <1>5

\* Take requests do not touch native calls.
LEMMA CallsTake ==
    ASSUME TypeOK, \A i \in DOMAIN queue : CallAgrees(i), NEW t \in Take, TakeNext(t)
    PROVE  \A i \in DOMAIN queue' : CallAgrees(i)'
  <1>1. CASE TakeDropped(t)
    <2>1. \A i \in DOMAIN queue : queue[i] \in Command
      BY DEF TypeOK, LoopTypeOK
    <2>2. /\ DOMAIN queue' = DOMAIN queue
          /\ \A i \in DOMAIN queue :
                queue'[i] = IF queue[i].kind = "epoch" /\ trans[queue[i].from].owner = t
                            THEN [queue[i] EXCEPT !.reply = FALSE] ELSE queue[i]
      BY <1>1 DEF TakeDropped
    <2>3. \A i \in DOMAIN queue : /\ queue'[i].kind = queue[i].kind /\ queue'[i].epoch = queue[i].epoch
                                  /\ queue'[i].from = queue[i].from
      BY <2>1, <2>2 DEF Command, Batch
    <2> QED BY <1>1, <2>2, <2>3 DEF TakeDropped, CallAgrees
  <1>2. ASSUME NEW x \in Slot, TakeConfirmed(t, x) \/ TakeMoved(t, x)
        PROVE  \A i \in DOMAIN queue' : CallAgrees(i)'
    BY <1>2, CallsOrphan DEF TakeConfirmed, TakeMoved, Discharged, Finish
  <1>3. CASE ~TakeDropped(t) /\ ~\E x \in Slot : TakeConfirmed(t, x) \/ TakeMoved(t, x)
    BY <1>3, CallsQuiet DEF TakeNext, TakeParts, TakeFromAgent, TakeSettled, TakeBusy, TakeMoveReleased,
       Finish, TakeRecord, TakeFromTab, TakeAdvance, loopVars
  <1> QED BY <1>1, <1>2, <1>3

\* CallAgrees is kept by every step.
LEMMA CallsStep ==
    ASSUME TypeOK, SyncInv, \A i \in DOMAIN queue : CallAgrees(i), [Next]_vars
    PROVE  \A i \in DOMAIN queue' : CallAgrees(i)'
  <1> DEFINE Goal == \A i \in DOMAIN queue' : CallAgrees(i)'
  <1> USE DEF loopVars
  <1>1. CASE UNCHANGED vars
    BY <1>1, CallsQuiet DEF vars, callerVars
  <1>2. ASSUME NEW t \in Take, TakeNext(t) PROVE Goal
    BY <1>2, CallsTake
  <1>3. ASSUME NEW t \in Take, HolderNext(t) PROVE Goal
    BY <1>3, CallsQuiet DEF HolderNext, Blur, ReleaseLease, InputEvent, callerVars
  <1>4. CASE DaemonNext
    BY <1>4, CallsQuiet DEF DaemonNext, SweepJudge, EndHumanOnClose, SweepEnd, EndHuman,
       EndHumanEnded, AgentTakeover
  <1>5. ASSUME NEW x \in Slot, SendEpoch(x) PROVE Goal
    BY <1>5, CallsEnqueue DEF SendEpoch, callerVars
  <1>6. ASSUME NEW x \in Slot, SendReleases(x) PROVE Goal
    BY <1>6, CallsEnqueue, CallsQuiet DEF SendReleases, callerVars
  <1>7. ASSUME NEW x \in Slot, DischargeReturns(x) \/ DischargeDropped(x) PROVE Goal
    BY <1>7, CallsOrphan DEF DischargeReturns, DischargeDropped, Discharged, callerVars
  <1>8. ASSUME NEW c \in Call, AdmitAgent(c) PROVE Goal
    <2>1. \A j \in DOMAIN queue : queue[j].kind = "agent" => queue[j].from \in Call /\ queue[j].from # c
      BY <1>8 DEF AdmitAgent, CallAgrees, TypeOK, LoopTypeOK, Command, Batch
    <2>2. UNCHANGED queue /\ \A d \in Call : d # c => acts'[d] = acts[d]
      BY <1>8 DEF AdmitAgent, TypeOK
    <2> QED BY <2>1, <2>2 DEF CallAgrees
  <1>9. ASSUME NEW c \in Call, AgentBatch(c) PROVE Goal
    <2>1. /\ \A d \in Call : acts'[d].at = acts[d].at /\ (acts'[d].pc = "idle" => acts[d].pc = "idle")
          /\ acts'[c].pc = "wait"
      BY <1>9 DEF AgentBatch, TypeOK, Act
    <2> QED BY <1>9, <2>1, CallsEnqueue DEF AgentBatch
  <1>10. ASSUME NEW c \in Call, AgentReturns(c) PROVE Goal
    BY <1>10 DEF AgentReturns, SyncInv, CallAgrees
  <1>11. CASE \E c \in Cua : \/ CuaForward(c) \/ CuaFinished(c)
                             \/ \E x \in Slot, takeover \in BOOLEAN : AdmitCua(c, x, takeover)
    BY <1>11, CallsQuiet DEF CuaForward, CuaFinished, AdmitCua
  <1>12. CASE InputSend
    BY <1>12, CallsEnqueue DEF InputSend
  <1>13. CASE InputReturns
    BY <1>13, CallsOrphan DEF InputReturns
  <1>14. CASE LoopStep
    <2>1. Dequeue /\ LoopTypeOK /\ Answer(Head(queue)) /\ Head(queue) \in Command
      BY <1>14, TypeDequeue DEF LoopStep, TypeOK
    <2>2. \A i \in DOMAIN queue' : \E j \in DOMAIN queue : queue'[i] = queue[j]
      <3>1. \A i \in DOMAIN queue' : i + 1 \in DOMAIN queue /\ queue'[i] = queue[i + 1]
        BY <2>1, DequeueAt
      <3> QED BY <3>1
    <2>3. \A c \in Call : acts'[c].at = acts[c].at
      BY <1>14, AnswerAt
    <2>4. \A c \in Call : acts'[c].pc = "idle" => acts[c].pc = "idle"
      <3>1. Head(queue).kind = "agent" => Head(queue).from \in Call
        BY <2>1 DEF Command, Batch
      <3>2. CASE UNCHANGED acts
        BY <3>2
      <3>3. ASSUME NEW c \in Call, NEW pc \in {"done", "ready"}, Head(queue).from = c,
                   \/ acts' = [acts EXCEPT ![c].pc = pc]
                   \/ acts' = [acts EXCEPT ![c].pc = pc, ![c].pressed = TRUE]
            PROVE  \A d \in Call : acts'[d].pc = "idle" => acts[d].pc = "idle"
        BY <3>3 DEF TypeOK, Act
      <3> QED BY <2>1, <3>1, <3>2, <3>3 DEF Answer
    <2> QED BY <2>2, <2>3, <2>4, CallsKeep
  <1>15. CASE LoopEnds
    BY <1>15 DEF LoopEnds, Stop
  <1> QED BY <1>1, <1>2, <1>3, <1>4, <1>5, <1>6, <1>7, <1>8, <1>9, <1>10, <1>11, <1>12, <1>13,
             <1>14, <1>15 DEF Next, DischargeNext, AgentNext, LoopNext

-----------------------------------------------------------------------------
(* Stamps *)

\* Stamps depend on channel, calls, input request and loop only.
LEMMA StampQuiet ==
    ASSUME UNCHANGED <<queue, acts, inp, loopEpoch, pressed>>, NEW e, NEW b
    PROVE  Stamp(e, b)' = Stamp(e, b)
  BY DEF Stamp, Presser

\* No epoch beyond the current one is stamped.
LEMMA StampBound ==
    ASSUME TypeOK, SyncInv, NEW b \in Controller
    PROVE  ~Stamp(epoch + 1, b)
  <1>1. /\ epoch \in Nat /\ loopEpoch \in Nat /\ inp.at \in Nat
        /\ \A c \in Call : acts[c].at \in Nat
        /\ \A i \in DOMAIN queue : queue[i].epoch \in Nat
    BY DEF TypeOK, LoopTypeOK, Act, InputReq, NoInput, Command, Batch
  <1>2. /\ loopEpoch # epoch + 1 /\ inp.at # epoch + 1
        /\ \A c \in Call : acts[c].at # epoch + 1
        /\ \A i \in DOMAIN queue : queue[i].epoch # epoch + 1
    BY <1>1 DEF SyncInv, EpochBound
  <1> QED BY <1>2 DEF Stamp

\* A sender that stops waiting adds no stamp.
LEMMA StampOrphan ==
    ASSUME TypeOK, NEW kinds, NEW from, queue' = Orphan(kinds, from),
           UNCHANGED <<acts, loopEpoch, pressed>>,
           inp' = inp \/ inp' = NoInput, NEW e, NEW b \in Controller, Stamp(e, b)'
    PROVE  Stamp(e, b)
  <1>1. LoopTypeOK
    BY DEF TypeOK
  <1>2. DOMAIN queue' = DOMAIN queue /\ \A i \in DOMAIN queue :
           /\ queue'[i].kind = queue[i].kind /\ queue'[i].epoch = queue[i].epoch
           /\ queue'[i].from = queue[i].from
    BY <1>1, OrphanAt
  <1>3. b # None
    BY LoopAssumption DEF Controller
  <1> QED BY <1>2, <1>3 DEF Stamp, Presser, NoInput

\* A command that is queued stamps only what its sender stamped already.
LEMMA StampEnqueue ==
    ASSUME TypeOK, NEW kind, NEW at, NEW down, NEW up, NEW from,
           Enqueue(kind, at, down, up, from),
           kind = "agent" => Stamp(at, Agent),
           kind = "tab" => Stamp(at, from),
           \A c \in Call : /\ acts'[c].at = acts[c].at
                           /\ acts'[c].pc \in {"ready", "wait"} => acts[c].pc \in {"ready", "wait"},
           inp'.by = inp.by, inp'.at = inp.at,
           NEW e, NEW b \in Controller, Stamp(e, b)'
    PROVE  Stamp(e, b)
  <1>0. LoopTypeOK
    BY DEF TypeOK
  <1>1. PICK n \in Nat :
           /\ DOMAIN queue = 1..n /\ DOMAIN queue' = 1..(n + 1)
           /\ \A i \in 1..n : queue'[i] = queue[i]
           /\ queue'[n + 1].kind = kind /\ queue'[n + 1].epoch = at /\ queue'[n + 1].from = from
    BY <1>0, EnqueueAt
  <1>2. UNCHANGED <<loopEpoch, pressed>>
    BY <1>0, EnqueueAt
  <1>3. CASE \E i \in DOMAIN queue' : /\ queue'[i].kind \in {"agent", "tab"}
                                      /\ queue'[i].epoch = e /\ Presser(queue'[i]) = b
    <2>1. PICK i \in DOMAIN queue' : /\ queue'[i].kind \in {"agent", "tab"}
                                     /\ queue'[i].epoch = e /\ Presser(queue'[i]) = b
      BY <1>3
    <2>2. CASE i \in 1..n
      BY <1>1, <2>1, <2>2 DEF Stamp
    <2>3. CASE i = n + 1
      BY <1>1, <2>1, <2>3 DEF Presser
    <2> QED BY <1>1, <2>2, <2>3
  <1>4. CASE ~\E i \in DOMAIN queue' : /\ queue'[i].kind \in {"agent", "tab"}
                                       /\ queue'[i].epoch = e /\ Presser(queue'[i]) = b
    BY <1>2, <1>4 DEF Stamp, Presser
  <1> QED BY <1>3, <1>4

-----------------------------------------------------------------------------
(* OwnerInv: three kinds of steps *)

\* Nothing new is stamped and nobody gains control.
LEMMA OwnerKeep ==
    ASSUME TypeOK, SyncInv, OwnerInv, UNCHANGED <<epoch, loopEpoch, pressed>>,
           \A e \in 0..epoch, b \in Controller : Stamp(e, b)' => Stamp(e, b),
           loopUp' => loopUp,
           loopUp' => ControllerNow' = ControllerNow,
           HandingOver' => HandingOver,
           lease'.granted => lease.granted /\ lease'.id = lease.id
    PROVE  OwnerInv'
  <1>1. epoch \in 0..epoch
    BY DEF TypeOK
  <1>2. EpochHasOneController'
    BY <1>1 DEF OwnerInv, EpochHasOneController
  <1>3. EpochIsFresh'
    BY <1>1 DEF OwnerInv, EpochIsFresh
  <1> QED BY <1>2, <1>3 DEF OwnerInv, GrantedKeysAreTheHolders, OneControllerPresses

\* Nothing that carries a stamp changes.
LEMMA OwnerQuiet ==
    ASSUME TypeOK, SyncInv, OwnerInv, UNCHANGED <<queue, acts, inp, loopEpoch, pressed, epoch>>,
           loopUp' => loopUp,
           loopUp' => ControllerNow' = ControllerNow,
           HandingOver' => HandingOver,
           lease'.granted => lease.granted /\ lease'.id = lease.id
    PROVE  OwnerInv'
  <1>1. \A e \in 0..epoch, b \in Controller : Stamp(e, b)' => Stamp(e, b)
    BY StampQuiet
  <1> QED BY <1>1, OwnerKeep

\* The epoch advances: nobody has acted with the new one, and nobody is granted.
LEMMA OwnerAdvance ==
    ASSUME TypeOK, SyncInv, OwnerInv, UNCHANGED <<loopVars, acts, inp>>,
           epoch' = epoch + 1, ~lease'.granted
    PROVE  OwnerInv'
  <1>0. UNCHANGED <<queue, loopUp, loopEpoch, pressed>>
    BY DEF loopVars
  <1>1. \A e, b : Stamp(e, b)' = Stamp(e, b)
    BY <1>0, StampQuiet
  <1>2. \A b \in Controller : ~Stamp(epoch + 1, b)
    BY StampBound
  <1>3. \A e \in 0..epoch' : e \in 0..epoch \/ e = epoch + 1
    BY DEF TypeOK
  <1>4. EpochHasOneController'
    BY <1>0, <1>1, <1>2, <1>3 DEF OwnerInv, EpochHasOneController
  <1>5. loopEpoch # epoch + 1
    BY DEF SyncInv, EpochBound, TypeOK, LoopTypeOK
  <1>6. EpochIsFresh'
    BY <1>0, <1>1, <1>2, <1>5 DEF EpochIsFresh
  <1> QED BY <1>0, <1>4, <1>6 DEF OwnerInv, GrantedKeysAreTheHolders, OneControllerPresses

\* A take that waits for its epoch is granted: the epoch is unused.
LEMMA OwnerGrant ==
    ASSUME TypeOK, SyncInv, OwnerInv, HandingOver, loopEpoch = epoch,
           UNCHANGED <<loopUp, loopEpoch, pressed, epoch, acts, inp>>,
           \A e \in 0..epoch, b \in Controller : Stamp(e, b)' => Stamp(e, b),
           ~HandingOver'
    PROVE  OwnerInv'
  <1>1. epoch \in 0..epoch
    BY DEF TypeOK
  <1>2. EpochHasOneController'
    BY <1>1 DEF OwnerInv, EpochHasOneController, EpochIsFresh
  <1> QED BY <1>2 DEF OwnerInv, EpochIsFresh, GrantedKeysAreTheHolders, OneControllerPresses

-----------------------------------------------------------------------------
(* OwnerInv: one lemma per group of actions *)

\* A take asks, is marked, waits, gives up or records.
LEMMA OwnerTakeWaits ==
    ASSUME TypeOK, SyncInv, OwnerInv, NEW t \in Take,
           TakeParts(t) \/ TakeFromAgent(t) \/ TakeSettled(t) \/ TakeBusy(t) \/ TakeRecord(t)
    PROVE  OwnerInv'
  <1> USE DEF loopVars, controlVars
  <1>1. UNCHANGED <<queue, loopUp, acts, inp, loopEpoch, pressed, epoch>>
    BY DEF TakeParts, TakeFromAgent, TakeSettled, TakeBusy, TakeRecord
  <1>2. /\ lease'.granted => lease.granted /\ lease'.id = lease.id
        /\ ControllerNow' = ControllerNow
        /\ HandingOver' => HandingOver
    BY LoopAssumption DEF SyncInv, LeaseAgrees, TypeOK, Lease, NoLease, Pending, Waiting, ControllerNow,
       HandingOver, TakeParts, TakeFromAgent, TakeSettled, TakeBusy, TakeRecord
  <1> QED BY <1>1, <1>2, OwnerQuiet

\* The two places where a take advances the epoch.
LEMMA OwnerTakeAdvance ==
    ASSUME TypeOK, SyncInv, OwnerInv, NEW t \in Take, NEW x \in Slot,
           TakeFromTab(t, x) \/ TakeAdvance(t, x)
    PROVE  OwnerInv'
  <1>1. CASE TakeFromTab(t, x)
    BY <1>1, OwnerAdvance DEF TakeFromTab, Advance, Pending
  <1>2. CASE TakeAdvance(t, x) /\ lease.id = t
    <2>1. ~lease.granted
      BY <1>2, LoopAssumption DEF SyncInv, LeaseAgrees, TakeAdvance
    <2> QED BY <1>2, <2>1, OwnerAdvance DEF TakeAdvance, Advance
  <1>3. CASE TakeAdvance(t, x) /\ lease.id # t
    <2>1. UNCHANGED <<queue, loopUp, acts, inp, loopEpoch, pressed, epoch, lease>>
          /\ tpc' = [tpc EXCEPT ![t] = "lost"]
      BY <1>3 DEF TakeAdvance, loopVars
    <2>2. ControllerNow' = ControllerNow /\ (HandingOver' => HandingOver)
      BY <1>3, <2>1 DEF ControllerNow, HandingOver, TypeOK, Lease, NoLease
    <2> QED BY <2>1, <2>2, OwnerQuiet
  <1> QED BY <1>1, <1>2, <1>3

\* A take is granted once its epoch is confirmed, or is undone.
LEMMA OwnerTakeDischarged ==
    ASSUME TypeOK, SyncInv, OwnerInv, NEW t \in Take, NEW x \in Slot,
           TakeConfirmed(t, x) \/ TakeMoved(t, x)
    PROVE  OwnerInv'
  <1>1. /\ queue' = Orphan({"epoch", "release"}, x)
        /\ UNCHANGED <<loopUp, loopEpoch, pressed, epoch, acts, inp>>
    BY DEF TakeConfirmed, TakeMoved, Discharged, Finish
  <1>2. \A e \in 0..epoch, b \in Controller : Stamp(e, b)' => Stamp(e, b)
    BY <1>1, StampOrphan
  <1>3. trans[x].owner = t /\ tpc[t] \in {"moving", "confirming"}
    BY DEF TakeConfirmed, TakeMoved
  <1>4. CASE lease.id = t /\ Discharged(x, TRUE) /\ Finish(t, TRUE)
    <2>1. loopEpoch = epoch
      BY <1>3, <1>4, ConfirmedEpoch
    <2>2. HandingOver /\ ~HandingOver'
      BY <1>3, <1>4, LoopAssumption DEF HandingOver, Finish, TypeOK, Lease, NoLease
    <2> QED BY <1>1, <1>2, <2>1, <2>2, OwnerGrant
  <1>5. CASE ~(lease.id = t /\ Discharged(x, TRUE) /\ Finish(t, TRUE))
    <2>1. /\ lease'.granted => lease.granted /\ lease'.id = lease.id
          /\ ControllerNow' = ControllerNow
          /\ HandingOver' => HandingOver
      <3>1. \/ lease.id # t /\ Finish(t, TRUE)
            \/ Finish(t, FALSE)
            \/ tpc' = [tpc EXCEPT ![t] = "movewait"] /\ UNCHANGED lease
        BY <1>5 DEF TakeConfirmed, TakeMoved, Finish
      <3>2. CASE Finish(t, FALSE) \/ (lease.id # t /\ Finish(t, TRUE))
        <4>1. lease.id = t => ~lease.granted
          BY <1>3, LoopAssumption DEF SyncInv, LeaseAgrees
        <4> QED BY <1>3, <3>2, <4>1, LoopAssumption DEF Finish, TypeOK, Lease, NoLease, ControllerNow, HandingOver
      <3>3. CASE tpc' = [tpc EXCEPT ![t] = "movewait"] /\ UNCHANGED lease
        BY <1>3, <3>3, LoopAssumption DEF TypeOK, Lease, NoLease, ControllerNow, HandingOver
      <3> QED BY <3>1, <3>2, <3>3
    <2> QED BY <1>1, <1>2, <2>1, OwnerKeep
  <1> QED BY <1>4, <1>5

\* A take from another tab is granted, or is undone.
LEMMA OwnerTakeMoveReleased ==
    ASSUME TypeOK, SyncInv, OwnerInv, NEW t \in Take, TakeMoveReleased(t)
    PROVE  OwnerInv'
  <1>1. UNCHANGED <<queue, loopUp, loopEpoch, pressed, epoch, acts, inp>>
    BY DEF TakeMoveReleased, Finish, loopVars
  <1>2. CASE lease.id = t /\ Finish(t, TRUE)
    <2>1. loopEpoch = epoch
      BY <1>2, LoopAssumption DEF SyncInv, TakeMoveReleased
    <2>2. HandingOver /\ ~HandingOver'
      BY <1>2, LoopAssumption DEF HandingOver, Finish, TypeOK, Lease, NoLease, TakeMoveReleased
    <2>3. \A e \in 0..epoch, b \in Controller : Stamp(e, b)' => Stamp(e, b)
      BY <1>1, StampQuiet
    <2> QED BY <1>1, <2>1, <2>2, <2>3, OwnerGrant
  <1>3. CASE ~(lease.id = t /\ Finish(t, TRUE))
    <2>1. /\ lease'.granted => lease.granted /\ lease'.id = lease.id
          /\ ControllerNow' = ControllerNow
          /\ HandingOver' => HandingOver
      BY <1>3, LoopAssumption DEF TakeMoveReleased, Finish, SyncInv, LeaseAgrees,
         TypeOK, Lease, NoLease, ControllerNow, HandingOver
    <2> QED BY <1>1, <2>1, OwnerQuiet
  <1> QED BY <1>2, <1>3

\* PendingTake::drop.
LEMMA OwnerTakeDropped ==
    ASSUME TypeOK, SyncInv, OwnerInv, NEW t \in Take, TakeDropped(t)
    PROVE  OwnerInv'
  <1>1. \A i \in DOMAIN queue : queue[i] \in Command
    BY DEF TypeOK, LoopTypeOK
  <1>2. /\ DOMAIN queue' = DOMAIN queue
        /\ \A i \in DOMAIN queue :
              queue'[i] = IF queue[i].kind = "epoch" /\ trans[queue[i].from].owner = t
                          THEN [queue[i] EXCEPT !.reply = FALSE] ELSE queue[i]
        /\ UNCHANGED <<loopUp, loopEpoch, pressed, epoch, acts, inp>>
    BY DEF TakeDropped
  <1>3. \A i \in DOMAIN queue : queue[i].kind \in {"agent", "tab"} \/ queue'[i].kind \in {"agent", "tab"}
                                   => queue'[i] = queue[i]
    BY <1>1, <1>2 DEF Command, Batch
  <1>4. \A e \in 0..epoch, b \in Controller : Stamp(e, b)' => Stamp(e, b)
    BY <1>2, <1>3 DEF Stamp, Presser
  <1>5. /\ lease'.granted => lease.granted /\ lease'.id = lease.id
        /\ ControllerNow' = ControllerNow
        /\ HandingOver' => HandingOver
    BY LoopAssumption DEF TakeDropped, SyncInv, LeaseAgrees, TypeOK, Lease, NoLease, Waiting,
       ControllerNow, HandingOver
  <1> QED BY <1>2, <1>4, <1>5, OwnerKeep

\* A lease ends: an epoch change if it was granted.
LEMMA OwnerEndLease ==
    ASSUME TypeOK, SyncInv, OwnerInv, NEW x \in Slot, NEW o, EndLease(x, o), lease' = NoLease,
           UNCHANGED <<loopVars, acts, inp>>
    PROVE  OwnerInv'
  <1>1. CASE lease.granted
    BY <1>1, OwnerAdvance DEF EndLease, Advance, NoLease
  <1>2. CASE ~lease.granted
    <2>1. ControllerNow' = ControllerNow /\ ~HandingOver' /\ ~lease'.granted
      BY <1>2 DEF ControllerNow, HandingOver, NoLease
    <2> QED BY <1>2, <2>1, OwnerQuiet DEF EndLease, Pend, loopVars
  <1> QED BY <1>1, <1>2

\* The lease ends after the loop.
LEMMA OwnerSessionOver ==
    ASSUME TypeOK, SyncInv, OwnerInv, ~loopUp', lease' = NoLease,
           UNCHANGED <<queue, loopEpoch, pressed, epoch, acts, inp>>
    PROVE  OwnerInv'
  <1>1. ~HandingOver' /\ ~lease'.granted
    BY DEF HandingOver, NoLease
  <1> QED BY <1>1, OwnerQuiet

\* The sweeper, the viewer stop, the session end and the takeover command.
LEMMA OwnerDaemonNext ==
    ASSUME TypeOK, SyncInv, OwnerInv, DaemonNext
    PROVE  OwnerInv'
  <1> USE DEF loopVars
  <1>1. CASE SweepJudge
    BY <1>1, OwnerQuiet DEF SweepJudge, controlVars, ControllerNow, HandingOver
  <1>2. CASE EndHumanOnClose
    BY <1>2, OwnerSessionOver DEF EndHumanOnClose, TakeHuman
  <1>3. ASSUME NEW x \in Slot, SweepEnd(x) PROVE OwnerInv'
    <2>1. CASE lease.id = None /\ UNCHANGED <<lease, ended, logged, epoch, trans>>
      BY <1>3, <2>1, OwnerQuiet DEF SweepEnd, ControllerNow, HandingOver
    <2> QED BY <1>3, <2>1, OwnerEndLease DEF SweepEnd, TakeHuman
  <1>4. ASSUME NEW x \in Slot, EndHuman(x) PROVE OwnerInv'
    BY <1>4, OwnerEndLease DEF EndHuman, TakeHuman
  <1>5. ASSUME NEW x \in Slot, EndHumanEnded(x) PROVE OwnerInv'
    BY <1>5, OwnerSessionOver DEF EndHumanEnded, TakeHuman, Pend
  <1>6. ASSUME NEW x \in Slot, AgentTakeover(x) PROVE OwnerInv'
    BY <1>6, OwnerEndLease DEF AgentTakeover, AgentTakeoverLocked
  <1> QED BY <1>1, <1>2, <1>3, <1>4, <1>5, <1>6 DEF DaemonNext

\* Blur and release.
LEMMA OwnerHolder ==
    ASSUME TypeOK, SyncInv, OwnerInv, NEW t \in Take, NEW x \in Slot, Blur(t, x) \/ ReleaseLease(t, x)
    PROVE  OwnerInv'
  <1>1. CASE Blur(t, x)
    <2>1. lease'.id = lease.id /\ lease'.granted = lease.granted
      BY <1>1 DEF Blur, TypeOK, Lease, NoLease
    <2> QED BY <1>1, <2>1, OwnerQuiet DEF Blur, Pend, callerVars, loopVars, ControllerNow, HandingOver
  <1>2. CASE ReleaseLease(t, x)
    BY <1>2, OwnerAdvance DEF ReleaseLease, Advance, NoLease
  <1> QED BY <1>1, <1>2

\* Transitions are discharged.
LEMMA OwnerDischargeNext ==
    ASSUME TypeOK, SyncInv, OwnerInv, DischargeNext
    PROVE  OwnerInv'
  <1>1. UNCHANGED <<lease, tpc, epoch, acts, inp, loopUp, loopEpoch, pressed>>
    BY DEF DischargeNext, SendEpoch, SendReleases, DischargeReturns, DischargeDropped, Discharged,
       Enqueue, callerVars, loopVars
  <1>2. \A e \in 0..epoch, b \in Controller : Stamp(e, b)' => Stamp(e, b)
    <2>1. ASSUME NEW x \in Slot, SendEpoch(x), NEW e \in 0..epoch, NEW b \in Controller, Stamp(e, b)'
          PROVE  Stamp(e, b)
      BY <1>1, <2>1, StampEnqueue DEF SendEpoch
    <2>2. ASSUME NEW x \in Slot, SendReleases(x), NEW e \in 0..epoch, NEW b \in Controller, Stamp(e, b)'
          PROVE  Stamp(e, b)
      BY <1>1, <2>2, StampEnqueue, StampQuiet DEF SendReleases, loopVars
    <2>3. ASSUME NEW x \in Slot, DischargeReturns(x) \/ DischargeDropped(x),
                 NEW e \in 0..epoch, NEW b \in Controller, Stamp(e, b)'
          PROVE  Stamp(e, b)
      BY <1>1, <2>3, StampOrphan DEF DischargeReturns, DischargeDropped, Discharged
    <2> QED BY <2>1, <2>2, <2>3 DEF DischargeNext
  <1>3. ControllerNow' = ControllerNow /\ HandingOver' = HandingOver
    BY <1>1 DEF ControllerNow, HandingOver
  <1> QED BY <1>1, <1>2, <1>3, OwnerKeep

\* The holder's request stamps the holder's epoch.
LEMMA OwnerInputEvent ==
    ASSUME TypeOK, SyncInv, OwnerInv, NEW t \in Take, NEW k \in Key,
           NEW press \in BOOLEAN, NEW fenced \in BOOLEAN, InputEvent(t, k, press, fenced)
    PROVE  OwnerInv'
  <1>1. /\ UNCHANGED <<queue, loopUp, loopEpoch, pressed, epoch, acts, tpc>>
        /\ lease'.id = lease.id /\ lease'.granted = lease.granted
    BY DEF InputEvent, loopVars, TypeOK, Lease, NoLease, Held
  <1>2. ControllerNow' = ControllerNow /\ HandingOver' = HandingOver
    BY <1>1 DEF ControllerNow, HandingOver
  <1>3. CASE inp'.by = None
    <2>1. \A e \in 0..epoch, b \in Controller : Stamp(e, b)' => Stamp(e, b)
      BY <1>1, <1>3, LoopAssumption DEF Stamp, Presser, Controller
    <2> QED BY <1>1, <1>2, <2>1, OwnerKeep
  <1>4. CASE inp'.by # None
    <2>1. inp'.by = t /\ Held(t) /\ inp'.at \in {epoch, inp.at} /\ (inp'.at = epoch \/ inp.by = t)
      BY <1>4 DEF InputEvent, NoInput
    <2>2. ControllerNow = t /\ lease.granted /\ t \in Controller
      BY <2>1 DEF Held, ControllerNow, Controller
    <2>3. ~HandingOver
      BY <2>2, LoopAssumption DEF SyncInv, LeaseAgrees, HandingOver
    <2>4. \A e \in 0..epoch, b \in Controller :
             Stamp(e, b)' => Stamp(e, b) \/ (e = epoch /\ b = t)
      BY <1>1, <2>1 DEF Stamp, Presser
    <2>5. epoch \in 0..epoch
      BY DEF TypeOK
    <2>6. EpochHasOneController'
      BY <1>1, <1>2, <2>2, <2>4, <2>5 DEF OwnerInv, EpochHasOneController
    <2> QED BY <1>1, <1>2, <2>3, <2>6 DEF OwnerInv, EpochIsFresh, GrantedKeysAreTheHolders,
                                          OneControllerPresses
  <1> QED BY <1>3, <1>4

\* An admitted call stamps the agent's epoch.
LEMMA OwnerAdmitAgent ==
    ASSUME TypeOK, SyncInv, OwnerInv, NEW c \in Call, AdmitAgent(c)
    PROVE  OwnerInv'
  <1>1. /\ UNCHANGED <<queue, loopUp, loopEpoch, pressed, epoch, inp, tpc, lease>> /\ lease.id = None
    BY DEF AdmitAgent, loopVars, controlVars
  <1>2. ControllerNow = Agent /\ ControllerNow' = ControllerNow /\ ~HandingOver' /\ Agent \in Controller
    BY <1>1, LoopAssumption DEF ControllerNow, HandingOver, TypeOK, Lease, NoLease, Controller
  <1>3. \A d \in Call : d # c => acts'[d] = acts[d]
    BY DEF AdmitAgent, TypeOK
  <1>4. acts'[c].at = epoch
    BY DEF AdmitAgent, TypeOK, Act
  <1>5. \A e \in 0..epoch, b \in Controller :
           Stamp(e, b)' => Stamp(e, b) \/ (e = epoch /\ b = Agent)
    BY <1>1, <1>3, <1>4 DEF Stamp, Presser
  <1>6. epoch \in 0..epoch
    BY DEF TypeOK
  <1>7. EpochHasOneController'
    BY <1>1, <1>2, <1>5, <1>6 DEF OwnerInv, EpochHasOneController
  <1> QED BY <1>1, <1>2, <1>7 DEF OwnerInv, EpochIsFresh, GrantedKeysAreTheHolders, OneControllerPresses

\* A viewer input request or a native call sends a batch.
LEMMA OwnerSenders ==
    ASSUME TypeOK, SyncInv, OwnerInv, InputSend \/ \E c \in Call : AgentBatch(c)
    PROVE  OwnerInv'
  <1>1. UNCHANGED <<lease, tpc, epoch, loopUp, loopEpoch, pressed>>
    BY DEF InputSend, AgentBatch, Enqueue, controlVars
  <1>2. ControllerNow' = ControllerNow /\ HandingOver' = HandingOver
    BY <1>1 DEF ControllerNow, HandingOver
  <1>3. CASE InputSend
    <2>1. inp'.by = inp.by /\ inp'.at = inp.at /\ UNCHANGED acts
      BY <1>3 DEF InputSend, TypeOK, InputReq, NoInput
    <2>2. Stamp(inp.at, inp.by)
      BY DEF Stamp
    <2>3. \A e \in 0..epoch, b \in Controller : Stamp(e, b)' => Stamp(e, b)
      BY <1>3, <2>1, <2>2, StampEnqueue DEF InputSend
    <2> QED BY <1>1, <1>2, <2>3, OwnerKeep
  <1>4. ASSUME NEW c \in Call, AgentBatch(c) PROVE OwnerInv'
    <2>1. \A d \in Call : /\ acts'[d].at = acts[d].at
                          /\ acts'[d].pc \in {"ready", "wait"} => acts[d].pc \in {"ready", "wait"}
      BY <1>4 DEF AgentBatch, TypeOK, Act
    <2>2. Stamp(acts[c].at, Agent) /\ UNCHANGED inp
      BY <1>4 DEF Stamp, AgentBatch
    <2>3. \A e \in 0..epoch, b \in Controller : Stamp(e, b)' => Stamp(e, b)
      BY <1>4, <2>1, <2>2, StampEnqueue DEF AgentBatch
    <2> QED BY <1>1, <1>2, <2>3, OwnerKeep
  <1> QED BY <1>3, <1>4

\* A viewer input request or a native call ends.
LEMMA OwnerReturns ==
    ASSUME TypeOK, SyncInv, OwnerInv, InputReturns \/ \E c \in Call : AgentReturns(c)
    PROVE  OwnerInv'
  <1>1. UNCHANGED <<lease, tpc, epoch, loopUp, loopEpoch, pressed>>
    BY DEF InputReturns, AgentReturns, loopVars, controlVars
  <1>2. ControllerNow' = ControllerNow /\ HandingOver' = HandingOver
    BY <1>1 DEF ControllerNow, HandingOver
  <1>3. CASE InputReturns
    <2>1. \A e \in 0..epoch, b \in Controller : Stamp(e, b)' => Stamp(e, b)
      BY <1>3, StampOrphan DEF InputReturns
    <2> QED BY <1>1, <1>2, <2>1, OwnerKeep
  <1>4. ASSUME NEW c \in Call, AgentReturns(c) PROVE OwnerInv'
    <2>1. \A d \in Call : /\ acts'[d].at = acts[d].at
                          /\ acts'[d].pc \in {"ready", "wait"} => acts[d].pc \in {"ready", "wait"}
      BY <1>4 DEF AgentReturns, TypeOK, Act
    <2>2. UNCHANGED <<queue, inp>>
      BY <1>4 DEF AgentReturns, loopVars
    <2>3. \A e \in 0..epoch, b \in Controller : Stamp(e, b)' => Stamp(e, b)
      BY <1>1, <2>1, <2>2 DEF Stamp, Presser
    <2> QED BY <1>1, <1>2, <2>3, OwnerKeep
  <1> QED BY <1>3, <1>4

\* Cua calls carry no input epoch.
LEMMA OwnerCua ==
    ASSUME TypeOK, SyncInv, OwnerInv, NEW c \in Cua,
           \/ CuaForward(c) \/ CuaFinished(c)
           \/ \E x \in Slot, takeover \in BOOLEAN : AdmitCua(c, x, takeover)
    PROVE  OwnerInv'
  <1> USE DEF loopVars
  <1>1. CASE CuaForward(c) \/ CuaFinished(c)
    BY <1>1, OwnerQuiet DEF CuaForward, CuaFinished, controlVars, ControllerNow, HandingOver
  <1>2. ASSUME NEW x \in Slot, NEW takeover \in BOOLEAN, AdmitCua(c, x, takeover) PROVE OwnerInv'
    <2>1. CASE UNCHANGED <<lease, ended, logged, epoch, trans>>
      BY <1>2, <2>1, OwnerQuiet DEF AdmitCua, ControllerNow, HandingOver
    <2>2. CASE AgentTakeoverLocked(x)
      BY <1>2, <2>2, OwnerEndLease DEF AdmitCua, AgentTakeoverLocked
    <2> QED BY <1>2, <2>1, <2>2 DEF AdmitCua
  <1> QED BY <1>1, <1>2

\* What is down after a batch was down before at the same epoch, or the batch
\* pressed it.
LEMMA DequeuePressed ==
    ASSUME TypeOK, Dequeue, NEW k \in Key, pressed'[k] # None
    PROVE  \/ loopEpoch' = loopEpoch /\ pressed'[k] = pressed[k]
           \/ /\ Head(queue).kind \in {"agent", "tab"} /\ loopEpoch' = Head(queue).epoch
              /\ Presser(Head(queue)) = pressed'[k]
  <1> DEFINE m == Head(queue)
  <1>1. m \in Command
    BY TypeDequeue DEF TypeOK
  <1>2. m.epoch \in Nat /\ loopEpoch \in Nat
    BY <1>1 DEF Command, Batch, TypeOK, LoopTypeOK
  <1>3. CASE m.kind = "epoch"
    BY <1>2, <1>3 DEF Dequeue, SetEpoch, ChangeEpoch, AllUp
  <1>4. CASE m.kind # "epoch"
    <2>1. m.kind \notin {"agent", "tab"} => m.down = {}
      BY <1>1, <1>4 DEF Command, Batch
    <2>2. Apply(m)
      BY <1>4 DEF Dequeue
    <2>3. CASE Stale(m)
      BY <2>2, <2>3 DEF Apply
    <2>4. CASE ~Stale(m)
      <3>1. loopEpoch' = m.epoch /\ loopEpoch <= m.epoch
        BY <1>2, <2>2, <2>4 DEF Apply, Stale
      <3>2. pressed'[k] = IF k \in m.up THEN None
                          ELSE IF k \in m.down /\ ChangeEpoch(m.epoch)[k] = None
                               THEN Presser(m) ELSE ChangeEpoch(m.epoch)[k]
        BY <2>2, <2>4 DEF Apply
      <3>3. ChangeEpoch(m.epoch)[k] # None => m.epoch = loopEpoch /\ ChangeEpoch(m.epoch)[k] = pressed[k]
        BY <1>2, <3>1 DEF ChangeEpoch, AllUp
      <3> QED BY <2>1, <3>1, <3>2, <3>3
    <2> QED BY <2>3, <2>4
  <1> QED BY <1>3, <1>4

\* The loop presses keys for nobody who had not stamped the epoch.
LEMMA StampLoopStep ==
    ASSUME TypeOK, SyncInv, \A i \in DOMAIN queue : CallAgrees(i), LoopStep,
           NEW e \in Nat, NEW b \in Controller, Stamp(e, b)'
    PROVE  Stamp(e, b)
  <1> DEFINE m == Head(queue)
  <1>1. Dequeue /\ Answer(m) /\ LoopTypeOK
    BY DEF LoopStep, TypeOK
  <1>2. /\ m = queue[1] /\ 1 \in DOMAIN queue /\ m \in Command
        /\ \A i \in DOMAIN queue' : i + 1 \in DOMAIN queue /\ queue'[i] = queue[i + 1]
    BY <1>1, DequeueAt, TypeDequeue
  <1>3. b # None
    BY LoopAssumption DEF Controller
  <1>4. CASE \E i \in DOMAIN queue' : /\ queue'[i].kind \in {"agent", "tab"}
                                      /\ queue'[i].epoch = e /\ Presser(queue'[i]) = b
    BY <1>2, <1>4 DEF Stamp
  <1>5. CASE b = Agent /\ \E c \in Call : acts'[c].pc \in {"ready", "wait"} /\ acts'[c].at = e
    <2>1. PICK c \in Call : acts'[c].pc \in {"ready", "wait"} /\ acts'[c].at = e
      BY <1>5
    <2>2. acts'[c].at = acts[c].at
      BY AnswerAt
    <2>3. CASE acts'[c] = acts[c]
      BY <1>5, <2>1, <2>3 DEF Stamp
    <2>4. CASE acts'[c] # acts[c]
      <3>1. m.kind = "agent" /\ m.from = c
        BY <1>1, <2>4 DEF Answer, TypeOK
      <3>2. m.epoch = acts[c].at
        BY <1>2, <3>1 DEF CallAgrees
      <3> QED BY <1>2, <1>5, <2>1, <2>2, <3>1, <3>2 DEF Stamp, Presser
    <2> QED BY <2>3, <2>4
  <1>6. CASE b = inp'.by /\ inp'.at = e
    <2>1. inp' = NoInput \/ (inp'.by = inp.by /\ inp'.at = inp.at)
      BY <1>1 DEF Answer, TypeOK, InputReq, NoInput
    <2> QED BY <1>3, <1>6, <2>1 DEF Stamp, NoInput
  <1>7. CASE loopEpoch' = e /\ \E k \in Key : pressed'[k] = b
    <2>1. PICK k \in Key : pressed'[k] = b
      BY <1>7
    <2>2. \/ loopEpoch' = loopEpoch /\ pressed'[k] = pressed[k]
          \/ /\ m.kind \in {"agent", "tab"} /\ loopEpoch' = m.epoch
             /\ Presser(m) = pressed'[k]
      BY <1>1, <1>3, <2>1, DequeuePressed
    <2> QED BY <1>2, <1>7, <2>1, <2>2 DEF Stamp
  <1> QED BY <1>4, <1>5, <1>6, <1>7 DEF Stamp, Presser

\* The loop takes a command and answers.
LEMMA OwnerLoopStep ==
    ASSUME TypeOK, SyncInv, \A i \in DOMAIN queue : CallAgrees(i), OwnerInv, LoopStep, TypeOK', SyncInv'
    PROVE  OwnerInv'
  <1>1. UNCHANGED <<lease, tpc, epoch>> /\ loopUp /\ loopUp' /\ epoch \in Nat
    BY DEF LoopStep, Dequeue, TypeOK
  <1>2. ControllerNow' = ControllerNow /\ HandingOver' = HandingOver
    BY <1>1 DEF ControllerNow, HandingOver
  <1>3. \A e \in 0..epoch, b \in Controller : Stamp(e, b)' => Stamp(e, b)
    BY StampLoopStep
  <1>4. epoch \in 0..epoch
    BY <1>1
  <1>5. loopEpoch' \in 0..epoch
    BY <1>1 DEF SyncInv, EpochBound, TypeOK, LoopTypeOK
  <1>6. \A k \in Key : pressed'[k] # None => pressed'[k] \in Controller
    BY DEF TypeOK, LoopTypeOK
  <1>7. \A e \in 0..epoch, b \in Controller, k \in Key :
           loopEpoch' = e /\ pressed'[k] = b => Stamp(e, b)
    <2>1. \A e \in 0..epoch, b \in Controller, k \in Key :
             loopEpoch' = e /\ pressed'[k] = b => Stamp(e, b)'
      BY DEF Stamp
    <2> QED BY <1>3, <2>1
  <1>8. EpochHasOneController'
    BY <1>1, <1>2, <1>3, <1>4 DEF OwnerInv, EpochHasOneController
  <1>9. EpochIsFresh'
    BY <1>1, <1>2, <1>3, <1>4, <1>6, <1>7 DEF OwnerInv, EpochIsFresh
  <1>10. OneControllerPresses'
    BY <1>1, <1>5, <1>6, <1>7 DEF OwnerInv, EpochHasOneController, OneControllerPresses
  <1>11. GrantedKeysAreTheHolders'
    BY <1>1, <1>4, <1>6, <1>7 DEF OwnerInv, EpochHasOneController, GrantedKeysAreTheHolders, ControllerNow,
       SyncInv, GrantedIsConfirmed
  <1> QED BY <1>8, <1>9, <1>10, <1>11 DEF OwnerInv

\* The loop ends.
LEMMA OwnerLoopEnds ==
    ASSUME TypeOK, SyncInv, OwnerInv, LoopEnds
    PROVE  OwnerInv'
  <1>1. ~loopUp' /\ UNCHANGED <<lease, tpc, epoch, loopEpoch, pressed>>
    BY DEF LoopEnds, Stop, controlVars, callerVars
  <1> QED BY <1>1 DEF OwnerInv, EpochHasOneController, EpochIsFresh, HandingOver, GrantedKeysAreTheHolders,
             OneControllerPresses

\* OwnerInv holds at first.
LEMMA OwnerInit == ASSUME Init PROVE OwnerInv /\ \A i \in DOMAIN queue : CallAgrees(i)
  <1>1. /\ queue = <<>> /\ pressed = AllUp /\ inp = NoInput /\ lease = NoLease
        /\ \A c \in Call : acts[c].pc = "idle"
    BY DEF Init, LoopInit
  <1>2. \A e, b : b \in Controller => ~Stamp(e, b)
    BY <1>1, LoopAssumption DEF Stamp, AllUp, NoInput, Controller
  <1> QED BY <1>1, <1>2 DEF OwnerInv, EpochHasOneController, EpochIsFresh, HandingOver, NoLease, AllUp,
             GrantedKeysAreTheHolders, OneControllerPresses

\* OwnerInv is kept by every step.
LEMMA OwnerStep ==
    ASSUME TypeOK, HandoverInv, [Next]_vars, TypeOK', SyncInv'
    PROVE  OwnerInv'
  <1>0. SyncInv /\ OwnerInv /\ \A i \in DOMAIN queue : CallAgrees(i)
    BY DEF HandoverInv
  <1>1. CASE UNCHANGED vars
    BY <1>0, <1>1, OwnerQuiet DEF vars, loopVars, controlVars, callerVars, ControllerNow, HandingOver
  <1>2. ASSUME NEW t \in Take, TakeNext(t) PROVE OwnerInv'
    BY <1>0, <1>2, OwnerTakeWaits, OwnerTakeAdvance, OwnerTakeDischarged, OwnerTakeMoveReleased,
       OwnerTakeDropped DEF TakeNext
  <1>3. ASSUME NEW t \in Take, HolderNext(t) PROVE OwnerInv'
    BY <1>0, <1>3, OwnerHolder, OwnerInputEvent DEF HolderNext
  <1>4. CASE DaemonNext \/ DischargeNext
    BY <1>0, <1>4, OwnerDaemonNext, OwnerDischargeNext
  <1>5. CASE AgentNext
    BY <1>0, <1>5, OwnerAdmitAgent, OwnerSenders, OwnerReturns, OwnerCua DEF AgentNext
  <1>6. CASE LoopNext
    BY <1>0, <1>6, OwnerSenders, OwnerReturns, OwnerLoopStep, OwnerLoopEnds DEF LoopNext
  <1> QED BY <1>1, <1>2, <1>3, <1>4, <1>5, <1>6 DEF Next

\* HandoverInv is an invariant: every epoch has one controller, the current epoch
\* has the current one, and the epoch of a take that waits is unused (control.rs
\* epochs, LoopInput).
THEOREM HandoverInvariant == Spec => []HandoverInv
  <1>1. Init => HandoverInv
    BY SyncInit, OwnerInit DEF HandoverInv
  <1>2. ASSUME TypeOK, HandoverInv, [Next]_vars, TypeOK' PROVE HandoverInv'
    <2>1. SyncInv'
      BY <1>2, SyncStep DEF HandoverInv
    <2>2. \A i \in DOMAIN queue' : CallAgrees(i)'
      BY <1>2, CallsStep DEF HandoverInv
    <2> QED BY <1>2, <2>1, <2>2, OwnerStep DEF HandoverInv
  <1> QED BY <1>1, <1>2, TypeCorrect, PTL DEF Spec

\* Unrefused input of the current epoch is the holder's.
LEMMA LateInput ==
    ASSUME TypeOK, HandoverInv
    PROVE  LateInputIsStale
  <1> SUFFICES ASSUME lease.granted, NEW i \in DOMAIN queue, queue[i].kind \in {"agent", "tab"},
                      Presser(queue[i]) # lease.id, ~Stale(queue[i])
               PROVE  FALSE
    BY DEF LateInputIsStale
  <1>1. queue[i] \in Command /\ queue[i].epoch \in Nat
    BY DEF TypeOK, LoopTypeOK, Command, Batch
  <1>2. queue[i].epoch = epoch
    BY <1>1 DEF HandoverInv, SyncInv, EpochBound, GrantedIsConfirmed, Stale, TypeOK, LoopTypeOK
  <1>3. Presser(queue[i]) \in Controller
    BY <1>1 DEF Presser, Controller, Command, Batch
  <1>4. loopUp
    BY DEF HandoverInv, SyncInv
  <1>5. Stamp(epoch, Presser(queue[i]))
    BY <1>2 DEF Stamp
  <1>6. Presser(queue[i]) = lease.id
    BY <1>3, <1>4, <1>5 DEF HandoverInv, OwnerInv, EpochHasOneController, ControllerNow
  <1> QED BY <1>6

\* The handover is safe for every number of takes, calls, keys and transitions and
\* under every fault: a human is granted the lease only at a confirmed epoch, no
\* other controller's key is down while he holds it, keys of two controllers are
\* never down together, and late input of anyone else is refused.
THEOREM Handover ==
    Spec => [](GrantedIsConfirmed /\ GrantedKeysAreTheHolders /\ OneControllerPresses /\ LateInputIsStale)
  <1>1. ASSUME TypeOK, HandoverInv
        PROVE  GrantedIsConfirmed /\ GrantedKeysAreTheHolders /\ OneControllerPresses /\ LateInputIsStale
    BY <1>1, LateInput DEF HandoverInv, SyncInv, OwnerInv
  <1> QED BY <1>1, TypeCorrect, HandoverInvariant, PTL

-----------------------------------------------------------------------------
(* Where no deadline passes and nothing is dropped: what is pending is sent,   *)
(* performed and answered.                                                     *)

\* The loop is at the current epoch, or the change to it is on its way.
Reached ==
    /\ loopUp
    /\ \/ loopEpoch = epoch
       \/ \E x \in Slot : trans[x].phase \in {"new", "sent"} /\ trans[x].epoch = epoch

\* A step that leaves the change to the current epoch on its way.
LEMMA ReachedKeep ==
    ASSUME TypeOK, SyncInv, SyncInv', Reached, UNCHANGED <<loopUp, loopEpoch, epoch>>,
           \A x \in Slot : /\ trans[x].phase \in {"new", "sent"} /\ trans[x].epoch = epoch
                          /\ epoch # 0
                          => trans'[x].phase \in {"new", "sent"} /\ trans'[x].epoch = trans[x].epoch
    PROVE  Reached'
  <1>1. CASE epoch = 0
    BY <1>1 DEF Reached, SyncInv, EpochBound, TypeOK, LoopTypeOK
  <1>2. CASE epoch # 0
    BY <1>2 DEF Reached
  <1> QED BY <1>1, <1>2

\* A change of the epoch is registered, or there is none.
LEMMA ReachedEndLease ==
    ASSUME TypeOK, SyncInv, SyncInv', Reached, UNCHANGED <<loopUp, loopEpoch>>, NEW x \in Slot, NEW o,
           EndLease(x, o) \/ Advance(x, o) \/ (\E r : Pend(x, r, o)) \/ UNCHANGED <<epoch, trans>>
    PROVE  Reached'
  <1>1. CASE Advance(x, o)
    BY <1>1, AdvanceAt DEF Reached
  <1>2. CASE \E r : Pend(x, r, o)
    <2>1. UNCHANGED epoch /\ trans[x].phase = "none" /\ \A y \in Slot : y # x => trans'[y] = trans[y]
      BY <1>2, PendAt
    <2> QED BY <2>1, ReachedKeep
  <1>3. CASE UNCHANGED <<epoch, trans>>
    BY <1>3, ReachedKeep
  <1> QED BY <1>1, <1>2, <1>3 DEF EndLease

\* Without a fault a discharge ends only with the loop's answer.
LEMMA ReachedDischarged ==
    ASSUME TypeOK, SyncInv, SyncInv', Reached, Faults = {}, NEW x \in Slot, NEW ok \in BOOLEAN,
           Discharged(x, ok), UNCHANGED epoch
    PROVE  Reached'
  <1>1. trans[x].phase = "done" /\ UNCHANGED <<loopUp, loopEpoch>>
    BY DEF Discharged, Reached
  <1>2. \A y \in Slot : y # x => trans'[y] = trans[y]
    BY DEF Discharged, TypeOK
  <1> QED BY <1>1, <1>2, ReachedKeep

\* The loop performs the change, or another command.
LEMMA ReachedLoopStep ==
    ASSUME TypeOK, SyncInv, SyncInv', Reached, LoopStep
    PROVE  Reached'
  <1> DEFINE m == Head(queue)
  <1>1. /\ Dequeue /\ Answer(m) /\ LoopTypeOK /\ loopUp' /\ UNCHANGED epoch
        /\ m \in Command /\ m = queue[1] /\ 1 \in DOMAIN queue
    BY TypeDequeue, DequeueAt DEF LoopStep, Dequeue, TypeOK
  <1>2. /\ loopEpoch' \in Nat /\ loopEpoch <= loopEpoch' /\ loopEpoch' <= epoch
        /\ m.kind = "epoch" => m.epoch <= loopEpoch'
        /\ loopEpoch \in Nat /\ epoch \in Nat
    BY <1>1, DequeueEpoch DEF TypeOK, LoopTypeOK
  <1>3. CASE loopEpoch = epoch
    BY <1>1, <1>2, <1>3 DEF Reached
  <1>4. ASSUME NEW x \in Slot, trans[x].phase \in {"new", "sent"}, trans[x].epoch = epoch
        PROVE  Reached'
    <2>1. CASE trans'[x] = trans[x]
      BY <1>1, <1>4, <2>1 DEF Reached
    <2>2. CASE trans'[x] # trans[x]
      <3>1. m.reply /\ m.kind \in {"epoch", "release"} /\ m.from = x
        BY <1>1, <2>2 DEF Answer, TypeOK
      <3>2. epoch = IF m.kind = "epoch" THEN m.epoch ELSE 0
        BY <1>1, <1>4, <3>1 DEF SyncInv, ReplyAgrees, Wanted
      <3>3. loopEpoch' = epoch
        BY <1>2, <3>1, <3>2
      <3> QED BY <1>1, <3>3 DEF Reached
    <2> QED BY <2>1, <2>2
  <1> QED BY <1>3, <1>4 DEF Reached

\* Reached is kept by every step.
LEMMA ReachedStep ==
    ASSUME TypeOK, SyncInv, SyncInv', Reached, Faults = {}, [Next]_vars
    PROVE  Reached'
  <1> USE DEF loopVars, controlVars, callerVars
  <1>1. CASE UNCHANGED <<loopUp, loopEpoch, epoch, trans>>
    BY <1>1, ReachedKeep
  <1>2. ASSUME NEW t \in Take, TakeNext(t) PROVE Reached'
    <2>1. CASE TakeParts(t) \/ TakeFromAgent(t) \/ TakeSettled(t) \/ TakeMoveReleased(t) \/ TakeRecord(t)
      BY <1>1, <2>1 DEF TakeParts, TakeFromAgent, TakeSettled, TakeMoveReleased, TakeRecord, Finish
    <2>2. ~TakeBusy(t) /\ ~TakeDropped(t)
      BY DEF TakeBusy, TakeDropped
    <2>3. ASSUME NEW x \in Slot, TakeFromTab(t, x) \/ TakeAdvance(t, x) PROVE Reached'
      BY <2>3, ReachedEndLease DEF TakeFromTab, TakeAdvance
    <2>4. ASSUME NEW x \in Slot, TakeConfirmed(t, x) \/ TakeMoved(t, x) PROVE Reached'
      BY <2>4, ReachedDischarged DEF TakeConfirmed, TakeMoved, Finish
    <2> QED BY <1>2, <2>1, <2>2, <2>3, <2>4 DEF TakeNext
  <1>3. ASSUME NEW t \in Take, HolderNext(t) PROVE Reached'
    <2>1. ASSUME NEW x \in Slot, Blur(t, x) \/ ReleaseLease(t, x) PROVE Reached'
      BY <2>1, ReachedEndLease DEF Blur, ReleaseLease
    <2> QED BY <1>1, <1>3, <2>1 DEF HolderNext, InputEvent
  <1>4. CASE DaemonNext
    <2>1. ASSUME NEW x \in Slot, \/ SweepEnd(x) \/ EndHuman(x) \/ EndHumanEnded(x) \/ AgentTakeover(x)
          PROVE  Reached'
      BY <2>1, ReachedEndLease DEF SweepEnd, EndHuman, EndHumanEnded, AgentTakeover, AgentTakeoverLocked
    <2> QED BY <1>1, <1>4, <2>1 DEF DaemonNext, SweepJudge, EndHumanOnClose
  <1>5. ASSUME NEW x \in Slot, SendEpoch(x) \/ SendReleases(x) PROVE Reached'
    <2>1. UNCHANGED <<loopUp, loopEpoch, epoch>>
      BY <1>5 DEF SendEpoch, SendReleases, Enqueue
    <2>2. /\ \A y \in Slot : y # x => trans'[y] = trans[y]
          /\ trans'[x].epoch = trans[x].epoch
          /\ trans'[x].phase = "sent" \/ trans[x].epoch = 0
      BY <1>5 DEF SendEpoch, SendReleases, TypeOK, Transition
    <2> QED BY <2>1, <2>2, ReachedKeep
  <1>6. ASSUME NEW x \in Slot, DischargeReturns(x) \/ DischargeDropped(x) PROVE Reached'
    BY <1>6, ReachedDischarged DEF DischargeReturns, DischargeDropped
  <1>7. CASE AgentNext
    <2>1. ASSUME NEW c \in Cua, NEW x \in Slot, NEW takeover \in BOOLEAN, AdmitCua(c, x, takeover)
          PROVE  Reached'
      BY <2>1, ReachedEndLease DEF AdmitCua, AgentTakeoverLocked
    <2> QED BY <1>1, <1>7, <2>1 DEF AgentNext, AdmitAgent, AgentBatch, AgentReturns, CuaForward,
               CuaFinished, Enqueue
  <1>8. CASE LoopNext
    BY <1>1, <1>8, ReachedLoopStep DEF LoopNext, InputSend, InputReturns, Enqueue, LoopEnds
  <1>9. CASE UNCHANGED vars
    BY <1>1, <1>9 DEF vars
  <1> QED BY <1>2, <1>3, <1>4, <1>5, <1>6, <1>7, <1>8, <1>9 DEF Next, DischargeNext

\* With nothing pending and no lease granted, nobody but the agent has a key down.
LEMMA QuietIsAgents ==
    ASSUME TypeOK, HandoverInv, Reached, NoPending, ~lease.granted, NEW k \in Key
    PROVE  pressed[k] \in {None, Agent}
  <1>1. loopEpoch = epoch
    BY DEF Reached, NoPending
  <1>2. pressed[k] \in Controller \cup {None}
    BY DEF TypeOK, LoopTypeOK
  <1>3. pressed[k] \in Controller => Stamp(epoch, pressed[k])
    BY <1>1 DEF Stamp
  <1> QED BY <1>2, <1>3 DEF HandoverInv, OwnerInv, EpochHasOneController, ControllerNow, Reached

\* Where no deadline passes and nothing is dropped, an agent's Cua call reaches the
\* guest only when no human's key or button is down in the session: the wait for the
\* pending transitions is enough (forward_cua, wait_released, control.rs 20-25).
THEOREM CuaWaitsForReleases == ASSUME Faults = {} PROVE Spec => CuaAfterReleases
  <1> DEFINE Inv == TypeOK /\ HandoverInv /\ InflightIsExact /\ GrantedHasNoCua
  <1>1. Init => Reached
    BY DEF Init, LoopInit, Reached
  <1>2. TypeOK /\ HandoverInv /\ HandoverInv' /\ Reached /\ [Next]_vars => Reached'
    BY ReachedStep DEF HandoverInv
  <1>3. ASSUME TypeOK, HandoverInv, GrantedHasNoCua, Reached, [Next]_vars
        PROVE  \A c \in Cua : cua[c] = "admitted" /\ cua'[c] = "forwarded"
                  => \A k \in Key : pressed[k] \in {None, Agent}
    <2> SUFFICES ASSUME NEW c \in Cua, cua[c] = "admitted", cua'[c] = "forwarded"
                 PROVE  \A k \in Key : pressed[k] \in {None, Agent}
      OBVIOUS
    <2>1. ~lease.granted
      BY <1>3 DEF GrantedHasNoCua, CuaInFlight
    <2>2. NoPending
      <3> USE DEF loopVars, controlVars, callerVars, TypeOK
      <3>1. cua' # cua
        OBVIOUS
      <3>2. ASSUME NEW t \in Take, TakeNext(t) \/ HolderNext(t) PROVE FALSE
        BY <3>1, <3>2 DEF TakeNext, TakeParts, TakeFromAgent, TakeSettled, TakeBusy, TakeMoveReleased,
           TakeRecord, TakeDropped, TakeFromTab, TakeAdvance, TakeConfirmed, TakeMoved, Finish,
           HolderNext, Blur, ReleaseLease, InputEvent
      <3>3. ~DaemonNext
        BY <3>1 DEF DaemonNext, SweepJudge, EndHumanOnClose, SweepEnd, EndHuman, EndHumanEnded, AgentTakeover
      <3>4. ~DischargeNext /\ ~LoopNext /\ ~UNCHANGED vars
        BY <3>1 DEF DischargeNext, SendEpoch, SendReleases, DischargeReturns, DischargeDropped,
           LoopNext, InputSend, InputReturns, LoopStep, LoopEnds, vars
      <3>5. AgentNext
        BY <1>3, <3>2, <3>3, <3>4 DEF Next
      <3>6. ASSUME NEW d \in Cua, \/ CuaFinished(d)
                                 \/ \E x \in Slot, takeover \in BOOLEAN : AdmitCua(d, x, takeover)
            PROVE  FALSE
        BY <1>3, <3>6 DEF CuaFinished, AdmitCua
      <3> QED BY <3>1, <3>5, <3>6 DEF AgentNext, AdmitAgent, AgentBatch, AgentReturns, CuaForward
    <2> QED BY <1>3, <2>1, <2>2, QuietIsAgents
  <1>4. TypeOK /\ HandoverInv /\ GrantedHasNoCua /\ Reached /\ [Next]_vars =>
           [\A c \in Cua : cua[c] = "admitted" /\ cua'[c] = "forwarded"
                  => \A k \in Key : pressed[k] \in {None, Agent}]_vars
    BY <1>3
  <1> QED BY <1>1, <1>2, <1>4, TypeCorrect, HandoverInvariant, CuaExclusion, PTL DEF Spec, CuaAfterReleases
-----------------------------------------------------------------------------
(* Lost takes and remembered ends *)

\* `ended' holds leases that ended, each once; as long as none of them had to make
\* room, every take that is past its request and has no lease, unless it was
\* undone, is among them.
NothingForgotten ==
    Len(ended) < RecentEnds \/ (IsFiniteSet(Take) /\ Cardinality(Take) <= RecentEnds)
LossInv ==
    /\ \A i, j \in DOMAIN ended : ended[i] = ended[j] => i = j
    /\ \A i \in DOMAIN ended : ended[i] # lease.id /\ tpc[ended[i]] \notin {"idle", "asked"}
    /\ NothingForgotten =>
          \A t \in Take : tpc[t] \notin {"idle", "asked", "undone"} /\ lease.id # t
              => \E i \in DOMAIN ended : ended[i] = t

\* Different takes among finitely many: there is room for one more.
LEMMA RoomForOne ==
    ASSUME NEW s \in Seq(Take), \A i, j \in DOMAIN s : s[i] = s[j] => i = j,
           NEW id \in Take, \A i \in DOMAIN s : s[i] # id,
           IsFiniteSet(Take), Cardinality(Take) <= RecentEnds
    PROVE  Len(s) < RecentEnds
  <1> DEFINE n == Len(s)
             f == [i \in 1..(n + 1) |-> IF i = n + 1 THEN id ELSE s[i]]
  <1>1. n \in Nat /\ DOMAIN s = 1..n /\ RecentEnds \in Nat /\ Cardinality(Take) \in Nat
    BY ControlAssumption, FS_CardinalityType
  <1>2. f \in [1..(n + 1) -> Take]
    BY <1>1
  <1>3. \A i, j \in 1..(n + 1) : f[i] = f[j] => i = j
    BY <1>1
  <1>4. IsFiniteSet(1..(n + 1)) /\ Cardinality(1..(n + 1)) = n + 1
    BY <1>1, FS_Interval
  <1> HIDE DEF f
  <1>5. ~(Cardinality(Take) < n + 1)
    <2> SUFFICES ASSUME Cardinality(Take) < n + 1 PROVE FALSE
      OBVIOUS
    <2>1. Cardinality(Take) < Cardinality(1..(n + 1))
      BY <1>4
    <2>2. \E i, j \in 1..(n + 1) : i # j /\ f[i] = f[j]
      BY <1>2, <1>4, <2>1, FS_PigeonHole
    <2> QED BY <1>3, <2>2
  <1> QED BY <1>1, <1>5

\* State::remember: the new end is the last one, and nothing is forgotten or the
\* oldest end is.
LEMMA RememberAt ==
    ASSUME ended \in Seq(Take), NEW id \in Take, Remember(id)
    PROVE  \E n \in Nat, d \in {0, 1} :
              /\ DOMAIN ended = 1..(n + d) /\ Len(ended) = n + d
              /\ DOMAIN ended' = 1..(n + 1) /\ Len(ended') = n + 1
              /\ \A i \in 1..n : ended'[i] = ended[i + d]
              /\ ended'[n + 1] = id
              /\ d = 1 => Len(ended) >= RecentEnds
              /\ d = 0 => Len(ended) < RecentEnds
  <1> DEFINE recent == IF Len(ended) >= RecentEnds THEN Tail(ended) ELSE ended
  <1>0. RecentEnds \in Nat \ {0} /\ Len(ended) \in Nat
    BY ControlAssumption
  <1>1. ended' = Append(recent, id)
    BY DEF Remember
  <1>2. CASE Len(ended) >= RecentEnds
    <2>0. Len(ended) - 1 \in Nat
      BY <1>0, <1>2
    <2>1. PICK n \in Nat : Len(ended) = n + 1 /\ ended # <<>>
      BY <2>0
    <2>2. /\ recent \in Seq(Take) /\ Len(recent) = n
          /\ \A i \in 1..n : recent[i] = ended[i + 1]
      BY <1>2, <2>1
    <2>3. /\ DOMAIN ended' = 1..(n + 1) /\ Len(ended') = n + 1
          /\ \A i \in 1..n : ended'[i] = recent[i]
          /\ ended'[n + 1] = id
      <3> HIDE DEF recent
      <3> QED BY <1>1, <2>1, <2>2
    <2>4. DOMAIN ended = 1..(n + 1)
      BY <2>1
    <2> HIDE DEF recent
    <2> QED BY <1>2, <2>1, <2>2, <2>3, <2>4
  <1>3. CASE ~(Len(ended) >= RecentEnds)
    <2>1. PICK n \in Nat : n = Len(ended) /\ recent = ended /\ n < RecentEnds
      BY <1>0, <1>3
    <2>3. /\ DOMAIN ended' = 1..(n + 1) /\ Len(ended') = n + 1
          /\ \A i \in 1..n : ended'[i] = ended[i]
          /\ ended'[n + 1] = id
      BY <1>1, <2>1
    <2> HIDE DEF recent
    <2>4. DOMAIN ended = 1..n
      BY <2>1
    <2>5. n + 0 = n /\ \A i \in 1..n : i + 0 = i
      OBVIOUS
    <2>6. \A i \in 1..n : ended'[i] = ended[i + 0]
      BY <2>3, <2>5
    <2> QED BY <1>0, <2>1, <2>3, <2>4, <2>5, <2>6
  <1> QED BY <1>2, <1>3

\* The list of ends stays, no take enters it anew, and no lease begins.
LEMMA LossKeep ==
    ASSUME TypeOK, LossInv, UNCHANGED ended,
           lease'.id # lease.id => \A i \in DOMAIN ended : ended[i] # lease'.id,
           \A t \in Take : tpc'[t] \in {"idle", "asked"} => tpc[t] = "idle" \/ tpc[t] = tpc'[t],
           \A t \in Take : /\ tpc'[t] \notin {"idle", "asked", "undone"} /\ lease'.id # t
                           => tpc[t] \notin {"idle", "asked", "undone"} /\ lease.id # t
    PROVE  LossInv'
  BY DEF LossInv, NothingForgotten, TypeOK

\* A lease ends and is remembered.
LEMMA LossRemember ==
    ASSUME TypeOK, LossInv, LeaseAgrees, lease.id # None, Remember(lease.id),
           lease'.id # lease.id, \A i \in DOMAIN ended : ended[i] # lease'.id,
           \A t \in Take : tpc'[t] # tpc[t] => tpc[t] = "asked" /\ tpc'[t] # "idle" /\ lease'.id = t
    PROVE  LossInv'
  <1>1. lease.id \in Take /\ tpc[lease.id] \notin {"idle", "asked"} /\ ended \in Seq(Take)
    BY LoopAssumption DEF TypeOK, Lease, NoLease, LeaseAgrees, Waiting
  <1>2. \A i \in DOMAIN ended : ended[i] # lease.id /\ ended[i] \in Take /\ tpc[ended[i]] \notin {"idle", "asked"}
    BY <1>1 DEF LossInv
  <1>3. PICK n \in Nat, d \in {0, 1} :
              /\ DOMAIN ended = 1..(n + d) /\ Len(ended) = n + d
              /\ DOMAIN ended' = 1..(n + 1) /\ Len(ended') = n + 1
              /\ \A i \in 1..n : ended'[i] = ended[i + d]
              /\ ended'[n + 1] = lease.id
              /\ d = 1 => Len(ended) >= RecentEnds
              /\ d = 0 => Len(ended) < RecentEnds
    BY <1>1, RememberAt
  <1>4. \A i \in 1..n : i + d \in DOMAIN ended
    BY <1>3
  <1>5. \A i \in DOMAIN ended' : i \in 1..n \/ i = n + 1
    BY <1>3
  <1>6. \A i, j \in DOMAIN ended' : ended'[i] = ended'[j] => i = j
    <2>1. \A i, j \in 1..n : ended'[i] = ended'[j] => i = j
      <3> SUFFICES ASSUME NEW i \in 1..n, NEW j \in 1..n, ended'[i] = ended'[j] PROVE i = j
        OBVIOUS
      <3>1. ended[i + d] = ended[j + d] /\ i + d \in DOMAIN ended /\ j + d \in DOMAIN ended
        BY <1>3, <1>4
      <3>2. i + d = j + d
        BY <3>1 DEF LossInv
      <3> QED BY <3>2
    <2>2. \A i \in 1..n : ended'[i] # ended'[n + 1]
      BY <1>2, <1>3, <1>4
    <2> QED BY <1>5, <2>1, <2>2
  <1>7. \A i \in DOMAIN ended' : ended'[i] # lease'.id /\ tpc'[ended'[i]] \notin {"idle", "asked"}
    <2>1. ASSUME NEW i \in 1..n PROVE ended'[i] # lease'.id /\ tpc'[ended'[i]] \notin {"idle", "asked"}
      <3>1. ended'[i] = ended[i + d] /\ i + d \in DOMAIN ended
        BY <1>3, <1>4
      <3>2. ended[i + d] \in Take /\ tpc[ended[i + d]] \notin {"idle", "asked"} /\ ended[i + d] # lease'.id
        BY <1>2, <3>1
      <3>3. tpc'[ended[i + d]] = tpc[ended[i + d]]
        BY <3>2
      <3> QED BY <3>1, <3>2, <3>3
    <2>2. tpc'[lease.id] \notin {"idle", "asked"}
      BY <1>1
    <2> QED BY <1>3, <1>5, <2>1, <2>2
  <1>8. NothingForgotten' => d = 0 /\ NothingForgotten
    <2>1. RecentEnds \in Nat
      BY ControlAssumption
    <2>2. IsFiniteSet(Take) /\ Cardinality(Take) <= RecentEnds => Len(ended) < RecentEnds
      BY <1>1, <1>2, RoomForOne DEF LossInv
    <2>3. Len(ended') < RecentEnds => Len(ended) < RecentEnds
      BY <1>3, <2>1
    <2> QED BY <1>3, <2>1, <2>2, <2>3 DEF NothingForgotten
  <1>9. ASSUME NothingForgotten', NEW t \in Take,
               tpc'[t] \notin {"idle", "asked", "undone"}, lease'.id # t
        PROVE  \E i \in DOMAIN ended' : ended'[i] = t
    <2>1. tpc[t] \notin {"idle", "asked", "undone"}
      BY <1>9
    <2>2. CASE t = lease.id
      BY <1>3, <2>2
    <2>3. CASE t # lease.id
      <3>1. PICK i \in DOMAIN ended : ended[i] = t
        BY <1>8, <1>9, <2>1, <2>3 DEF LossInv
      <3>2. i \in 1..n /\ ended'[i] = ended[i] /\ i \in DOMAIN ended'
        BY <1>3, <1>8, <1>9
      <3> QED BY <3>1, <3>2
    <2> QED BY <2>2, <2>3
  <1> QED BY <1>6, <1>7, <1>9 DEF LossInv

\* LossInv is kept by every step.
LEMMA LossStep ==
    ASSUME TypeOK, SyncInv, LossInv, [Next]_vars
    PROVE  LossInv'
  <1> USE DEF loopVars, controlVars, callerVars
  <1>0. /\ LeaseAgrees /\ \A i \in DOMAIN ended : ended[i] \in Take /\ ended[i] # None
        /\ \A t \in Take : t # None
    BY LoopAssumption DEF SyncInv, TypeOK
  <1>1. CASE UNCHANGED <<ended, tpc>> /\ lease'.id = lease.id
    BY <1>1, LossKeep
  <1>2. ASSUME NEW t \in Take, TakeNext(t) PROVE LossInv'
    <2>1. CASE TakeParts(t)
      BY <2>1, LossKeep DEF TakeParts, TypeOK
    <2>2. CASE TakeFromAgent(t)
      <3>1. /\ lease'.id = t /\ lease'.id # lease.id /\ tpc[t] = "asked"
            /\ \A u \in Take : u # t => tpc'[u] = tpc[u]
            /\ tpc'[t] = "settling"
            /\ \A i \in DOMAIN ended : ended[i] # t
        BY <1>0, <2>2 DEF TakeFromAgent, Pending, TypeOK, LossInv, LeaseAgrees, Waiting
      <3>2. CASE lease.id = None
        BY <1>0, <2>2, <3>1, <3>2, LossKeep DEF TakeFromAgent
      <3>3. CASE lease.id # None
        BY <1>0, <2>2, <3>1, <3>3, LossRemember DEF TakeFromAgent
      <3> QED BY <3>2, <3>3
    <2>3. ASSUME NEW x \in Slot, TakeFromTab(t, x) PROVE LossInv'
      <3>1. /\ lease'.id = t /\ lease'.id # lease.id /\ tpc[t] = "asked" /\ lease.id # None
            /\ \A u \in Take : u # t => tpc'[u] = tpc[u]
            /\ tpc'[t] = "moving"
            /\ \A i \in DOMAIN ended : ended[i] # t
        BY <1>0, <2>3 DEF TakeFromTab, Pending, TypeOK, LossInv, LeaseAgrees, Waiting, Lease, NoLease
      <3> QED BY <1>0, <2>3, <3>1, LossRemember DEF TakeFromTab
    <2>4. CASE TakeSettled(t) \/ TakeRecord(t)
      BY <1>0, <2>4, LossKeep DEF TakeSettled, TakeRecord, TypeOK
    <2>5. CASE TakeBusy(t) \/ TakeDropped(t)
      BY <1>0, <2>5, LossKeep DEF TakeBusy, TakeDropped, TypeOK, NoLease, Waiting
    <2>6. ASSUME tpc[t] \in {"moving", "movewait", "confirming"}, NEW ok \in BOOLEAN, Finish(t, ok)
          PROVE  LossInv'
      BY <1>0, <2>6, LossKeep DEF Finish, TypeOK, NoLease, Lease
    <2>7. CASE TakeMoveReleased(t)
      BY <2>6, <2>7 DEF TakeMoveReleased
    <2>8. ASSUME NEW x \in Slot, TakeConfirmed(t, x) PROVE LossInv'
      BY <2>6, <2>8 DEF TakeConfirmed
    <2>9. ASSUME NEW x \in Slot, TakeMoved(t, x) PROVE LossInv'
      <3>1. CASE tpc' = [tpc EXCEPT ![t] = "movewait"] /\ UNCHANGED <<lease, ended>>
        BY <2>9, <3>1, LossKeep DEF TakeMoved, TypeOK
      <3> QED BY <2>6, <2>9, <3>1 DEF TakeMoved
    <2>10. ASSUME NEW x \in Slot, TakeAdvance(t, x) PROVE LossInv'
      BY <2>10, LossKeep DEF TakeAdvance, TypeOK
    <2> QED BY <1>2, <2>1, <2>2, <2>3, <2>4, <2>5, <2>7, <2>8, <2>9, <2>10 DEF TakeNext
  <1>3. ASSUME UNCHANGED tpc, lease' = NoLease, lease.id # None, Remember(lease.id) PROVE LossInv'
    BY <1>0, <1>3, LossRemember DEF NoLease
  <1>4. ASSUME NEW t \in Take, HolderNext(t) PROVE LossInv'
    <2>1. ASSUME NEW x \in Slot, ReleaseLease(t, x) PROVE LossInv'
      BY <1>0, <1>3, <2>1 DEF ReleaseLease, Held
    <2>2. CASE \E x \in Slot : Blur(t, x)
      BY <1>1, <2>2 DEF Blur, Lease, NoLease, TypeOK
    <2>3. CASE \E k \in Key, press, fenced \in BOOLEAN : InputEvent(t, k, press, fenced)
      BY <1>1, <2>3 DEF InputEvent, Lease, NoLease, TypeOK
    <2> QED BY <1>4, <2>1, <2>2, <2>3 DEF HolderNext
  <1>5. CASE DaemonNext
    <2>1. CASE SweepJudge
      BY <1>1, <2>1 DEF SweepJudge
    <2>2. CASE TakeHuman /\ UNCHANGED tpc
      BY <1>3, <2>2 DEF TakeHuman
    <2>3. ASSUME NEW x \in Slot, AgentTakeover(x) PROVE LossInv'
      BY <1>3, <2>3 DEF AgentTakeover, AgentTakeoverLocked
    <2> QED BY <1>1, <1>5, <2>1, <2>2, <2>3 DEF DaemonNext, EndHumanOnClose, SweepEnd, EndHuman, EndHumanEnded
  <1>6. CASE DischargeNext \/ LoopNext
    BY <1>1, <1>6 DEF DischargeNext, SendEpoch, SendReleases, DischargeReturns, DischargeDropped,
       LoopNext, InputSend, InputReturns, LoopStep, LoopEnds
  <1>7. CASE AgentNext
    <2>1. ASSUME NEW c \in Cua, NEW x \in Slot, NEW takeover \in BOOLEAN, AdmitCua(c, x, takeover)
          PROVE  LossInv'
      BY <1>1, <1>3, <2>1 DEF AdmitCua, AgentTakeoverLocked
    <2> QED BY <1>1, <1>7, <2>1 DEF AgentNext, AdmitAgent, AgentBatch, AgentReturns, CuaForward, CuaFinished
  <1>8. CASE UNCHANGED vars
    BY <1>1, <1>8 DEF vars
  <1> QED BY <1>2, <1>4, <1>5, <1>6, <1>7, <1>8 DEF Next

\* A tab that lost its lease or its take finds it among the remembered ends, under
\* every fault: until RecentEnds ends are remembered for any number of takes, and for
\* ever if there are no more takes than that (State::remember, loss_of).
THEOREM LossIsTold == Spec => [](NothingForgotten => LossIsKnown)
  <1>1. Init => LossInv
    BY DEF Init, LossInv, NoLease
  <1>2. TypeOK /\ HandoverInv /\ LossInv /\ [Next]_vars => LossInv'
    BY LossStep DEF HandoverInv
  <1>3. TypeOK /\ HandoverInv /\ LossInv => (NothingForgotten => LossIsKnown)
    BY LoopAssumption DEF LossInv, LossIsKnown, HandoverInv, SyncInv, LeaseAgrees, Waiting
  <1> QED BY <1>1, <1>2, <1>3, TypeCorrect, HandoverInvariant, PTL DEF Spec
-----------------------------------------------------------------------------
(* Keys that are down, where no deadline passes and nothing is dropped *)

\* input_lock: a batch of a viewer request is queued only while that request waits
\* for it and no release is on its way; the request's tab has been granted its
\* lease, and while it still has it the request's epoch is the current one.
InputAlone ==
    inp.by # None => \A x \in Slot : ~(trans[x].phase = "sent" /\ trans[x].epoch = 0)
BatchIsAwaited ==
    \A i \in DOMAIN queue : queue[i].kind = "tab" =>
        /\ inp.by = queue[i].from /\ inp.phase = "wait" /\ queue[i].epoch = inp.at
        /\ queue[i].reply
        /\ \A j \in DOMAIN queue : queue[j].kind = "tab" => j = i
InputIsCurrent ==
    inp.by # None => tpc[inp.by] = "holding" /\ (Held(inp.by) => inp.at = epoch)

\* A release that is waited for carries what its transition registered, and a
\* change of the epoch that is waited for is one.
ReleaseAgrees ==
    \A i \in DOMAIN queue : Wanted(i) =>
        /\ queue[i].kind = "epoch" => queue[i].epoch > 0
        /\ queue[i].kind = "release" =>
              /\ queue[i].up = trans[queue[i].from].release
              /\ queue[i].epoch = trans[queue[i].from].at

LockInv == InputAlone /\ BatchIsAwaited /\ InputIsCurrent /\ ReleaseAgrees

\* Key k is in releases of the current epoch that are registered, or also on their way.
ReleaseNew(k) ==
    \E x \in Slot : /\ trans[x].phase = "new" /\ trans[x].epoch = 0
                    /\ trans[x].at = epoch /\ k \in trans[x].release
ReleaseDue(k) ==
    \E x \in Slot : /\ trans[x].phase \in {"new", "sent"} /\ trans[x].epoch = 0
                    /\ trans[x].at = epoch /\ k \in trans[x].release

\* The holder's input request presses or releases k next, or waits for the loop to.
InputUp(k) == inp.phase = "send" /\ inp.at = epoch /\ k \in inp.up
InputDown(k) == inp.phase = "send" /\ inp.at = epoch /\ k \in inp.down
QueuedUp(k) ==
    \E i \in DOMAIN queue : queue[i].kind = "tab" /\ queue[i].epoch = epoch /\ k \in queue[i].up
QueuedDown(k) ==
    \E i \in DOMAIN queue : queue[i].kind = "tab" /\ queue[i].epoch = epoch /\ k \in queue[i].down

\* A key that is down is in the lease, or its release is on its way; a key that will
\* be pressed is in the lease, or its release will come after the press.
KeysInv ==
    lease.granted => \A k \in Key :
        /\ pressed[k] # None => k \in lease.held \/ ReleaseDue(k) \/ InputUp(k) \/ QueuedUp(k)
        /\ InputDown(k) \/ QueuedDown(k) => k \in lease.held \/ ReleaseNew(k)

-----------------------------------------------------------------------------
(* LockInv, by kinds of steps *)

\* A slot is filled, or none; channel and input request stay.
LEMMA LockQuiet ==
    ASSUME TypeOK, SyncInv, LockInv, UNCHANGED <<queue, inp>>,
           \A x \in Slot : trans[x].phase # "none" => trans'[x] = trans[x],
           \A x \in Slot : trans[x].phase = "none" => trans'[x].phase \in {"none", "new"},
           \A t \in Take : tpc[t] = "holding" => tpc'[t] = "holding",
           \A t \in Take : tpc[t] = "holding" /\ Held(t)' => Held(t) /\ epoch' = epoch
    PROVE  LockInv'
  <1>1. InputAlone'
    BY DEF LockInv, InputAlone
  <1>2. BatchIsAwaited'
    BY DEF LockInv, BatchIsAwaited
  <1>3. InputIsCurrent'
    <2>1. inp.by # None => inp.by \in Take
      BY DEF TypeOK, InputReq, NoInput
    <2> QED BY <2>1 DEF LockInv, InputIsCurrent
  <1>4. ReleaseAgrees'
    <2>1. \A i \in DOMAIN queue : Wanted(i) => queue[i].from \in Slot /\ trans[queue[i].from].phase = "sent"
      BY DEF SyncInv, ReplyAgrees, Wanted, TypeOK, LoopTypeOK, Command, Batch
    <2> QED BY <2>1 DEF LockInv, ReleaseAgrees, Wanted
  <1> QED BY <1>1, <1>2, <1>3, <1>4 DEF LockInv

\* A command other than a batch of a viewer request is queued.
LEMMA LockEnqueue ==
    ASSUME TypeOK, SyncInv, LockInv, NEW kind \in {"agent", "epoch", "release"},
           NEW e, NEW down, NEW up, NEW from,
           Enqueue(kind, e, down, up, from), UNCHANGED <<inp, tpc, lease, epoch>>,
           kind # "agent" => from \in Slot /\ trans[from].phase = "new",
           kind = "release" => /\ inp.by = None /\ up = trans[from].release /\ e = trans[from].at,
           kind = "epoch" => trans[from].epoch > 0 /\ e > 0,
           kind = "agent" => UNCHANGED trans,
           \A x \in Slot : /\ trans'[x].release = trans[x].release /\ trans'[x].at = trans[x].at
                           /\ trans'[x].epoch = trans[x].epoch
                           /\ x # from => trans'[x] = trans[x]
    PROVE  LockInv'
  <1>0. LoopTypeOK
    BY DEF TypeOK
  <1>1. PICK n \in Nat :
           /\ DOMAIN queue = 1..n /\ DOMAIN queue' = 1..(n + 1)
           /\ \A i \in 1..n : queue'[i] = queue[i]
           /\ queue'[n + 1].kind = kind /\ queue'[n + 1].epoch = e /\ queue'[n + 1].from = from
           /\ queue'[n + 1].down = down /\ queue'[n + 1].up = up
    BY <1>0, EnqueueAt
  <1>2. \A i \in DOMAIN queue' : i \in DOMAIN queue \/ i = n + 1
    BY <1>1
  <1>3. InputAlone'
    <2>1. ASSUME NEW x \in Slot, inp.by # None, trans'[x].phase = "sent", trans'[x].epoch = 0 PROVE FALSE
      <3>1. CASE x = from /\ kind # "agent"
        BY <2>1, <3>1
      <3>2. CASE x # from \/ kind = "agent"
        BY <2>1, <3>2 DEF LockInv, InputAlone
      <3> QED BY <3>1, <3>2
    <2> QED BY <2>1 DEF InputAlone
  <1>4. BatchIsAwaited'
    BY <1>1, <1>2 DEF LockInv, BatchIsAwaited
  <1>5. InputIsCurrent'
    BY DEF LockInv, InputIsCurrent, Held
  <1>6. ReleaseAgrees'
    <2> SUFFICES ASSUME NEW i \in DOMAIN queue', queue'[i].reply, queue'[i].kind \in {"release", "epoch"}
                 PROVE  /\ queue'[i].kind = "epoch" => queue'[i].epoch > 0
                        /\ queue'[i].kind = "release" =>
                              /\ queue'[i].up = trans'[queue'[i].from].release
                              /\ queue'[i].epoch = trans'[queue'[i].from].at
      BY DEF ReleaseAgrees, Wanted
    <2>1. CASE i \in DOMAIN queue
      <3>1. queue'[i] = queue[i] /\ queue[i].from \in Slot
        BY <1>1, <2>1 DEF TypeOK, LoopTypeOK, Command, Batch
      <3> QED BY <2>1, <3>1 DEF LockInv, ReleaseAgrees, Wanted
    <2>2. CASE i = n + 1
      BY <1>1, <2>2
    <2> QED BY <1>2, <2>1, <2>2
  <1> QED BY <1>3, <1>4, <1>5, <1>6 DEF LockInv

\* Releases without a key are discharged at once.
LEMMA LockSendNothing ==
    ASSUME TypeOK, SyncInv, LockInv, NEW x \in Slot, trans[x].phase = "new",
           trans' = [trans EXCEPT ![x].phase = "done"],
           UNCHANGED <<queue, inp, tpc, lease, epoch>>
    PROVE  LockInv'
  <1>1. \A y \in Slot : /\ trans'[y].release = trans[y].release /\ trans'[y].at = trans[y].at
                        /\ trans'[y].phase = "sent" => trans'[y] = trans[y]
    BY DEF TypeOK, Transition
  <1>2. \A i \in DOMAIN queue : queue[i].kind = "release" => queue[i].from \in Slot
    BY DEF TypeOK, LoopTypeOK, Command, Batch
  <1> QED BY <1>1, <1>2 DEF LockInv, InputAlone, BatchIsAwaited, InputIsCurrent, ReleaseAgrees, Wanted, Held

\* A transition that the loop has performed is discharged.
LEMMA LockDischarged ==
    ASSUME TypeOK, SyncInv, LockInv, NEW x \in Slot, Discharged(x, TRUE), UNCHANGED <<inp, epoch>>,
           \A t \in Take : tpc[t] = "holding" => tpc'[t] = "holding",
           \A t \in Take : tpc[t] = "holding" /\ Held(t)' => Held(t)
    PROVE  LockInv'
  <1>0. LoopTypeOK
    BY DEF TypeOK
  <1>1. /\ trans[x].phase = "done" /\ trans'[x] = NoTrans /\ queue' = Orphan({"epoch", "release"}, x)
        /\ \A y \in Slot : y # x => trans'[y] = trans[y]
    BY DEF Discharged, TypeOK
  <1>2. /\ DOMAIN queue' = DOMAIN queue
        /\ \A i \in DOMAIN queue :
              /\ queue'[i].kind = queue[i].kind /\ queue'[i].epoch = queue[i].epoch
              /\ queue'[i].from = queue[i].from /\ queue'[i].up = queue[i].up
              /\ queue'[i].reply => queue[i].reply
    BY <1>0, <1>1, OrphanAt
  <1>3. \A i \in DOMAIN queue : queue[i].kind = "tab" => queue'[i].reply = queue[i].reply
    <2>1. \A i \in DOMAIN queue : queue[i].kind = "tab" => queue'[i] = queue[i]
      BY <1>1 DEF Orphan
    <2> QED BY <2>1
  <1>4. InputAlone'
    BY <1>1 DEF LockInv, InputAlone, NoTrans
  <1>5. BatchIsAwaited'
    BY <1>2, <1>3 DEF LockInv, BatchIsAwaited
  <1>6. InputIsCurrent'
    <2>1. inp.by # None => inp.by \in Take
      BY DEF TypeOK, InputReq, NoInput
    <2> QED BY <2>1 DEF LockInv, InputIsCurrent
  <1>7. ReleaseAgrees'
    <2>1. \A i \in DOMAIN queue : Wanted(i) => queue[i].from \in Slot /\ trans[queue[i].from].phase = "sent"
      BY DEF SyncInv, ReplyAgrees, Wanted, TypeOK, LoopTypeOK, Command, Batch
    <2>2. \A i \in DOMAIN queue : Wanted(i)' => Wanted(i)
      BY <1>2 DEF Wanted
    <2> QED BY <1>1, <1>2, <2>1, <2>2 DEF LockInv, ReleaseAgrees
  <1> QED BY <1>4, <1>5, <1>6, <1>7 DEF LockInv
\* A viewer request locks the input, or goes on with its next event.
LEMMA LockInputEvent ==
    ASSUME TypeOK, SyncInv, LockInv, NEW t \in Take, NEW k \in Key, NEW press \in BOOLEAN,
           NEW fenced \in BOOLEAN, InputEvent(t, k, press, fenced)
    PROVE  LockInv'
  <1>1. UNCHANGED <<queue, trans, tpc, epoch>> /\ tpc[t] = "holding"
    BY DEF InputEvent, loopVars
  <1>2. /\ lease'.id = lease.id /\ lease'.granted = lease.granted
    BY DEF InputEvent, TypeOK, Lease, NoLease, Held
  <1>3. inp.by = None \/ (inp.by = t /\ inp.phase = "check")
    BY DEF InputEvent
  <1>4. \A i \in DOMAIN queue : queue[i].kind # "tab"
    <2>1. \A i \in DOMAIN queue : queue[i].kind = "tab" => queue[i].from \in Take
      BY DEF TypeOK, LoopTypeOK, Command, Batch
    <2> QED BY <1>3, <2>1, LoopAssumption DEF LockInv, BatchIsAwaited
  <1>5. \/ inp' = NoInput
        \/ /\ inp'.by = t /\ Held(t) /\ inp'.at = IF inp.by = None THEN epoch ELSE inp.at
    BY DEF InputEvent
  <1>6. InputAlone'
    <2>1. CASE inp.by = None
      BY <1>1, <2>1 DEF InputEvent, LockFree, InputAlone, LockInv, LoopAssumption, NoInput
    <2>2. CASE inp.by = t
      BY <1>1, <2>2, LoopAssumption DEF InputAlone, LockInv
    <2> QED BY <1>3, <2>1, <2>2
  <1>7. BatchIsAwaited' /\ ReleaseAgrees'
    BY <1>1, <1>4 DEF LockInv, BatchIsAwaited, ReleaseAgrees, Wanted
  <1>8. InputIsCurrent'
    BY <1>1, <1>2, <1>3, <1>5 DEF LockInv, InputIsCurrent, Held, NoInput
  <1> QED BY <1>6, <1>7, <1>8 DEF LockInv

\* The request's batch is queued.
LEMMA LockInputSend ==
    ASSUME TypeOK, SyncInv, LockInv, InputSend
    PROVE  LockInv'
  <1>0. LoopTypeOK
    BY DEF TypeOK
  <1>1. /\ inp.by \in Take /\ inp'.by = inp.by /\ inp'.at = inp.at /\ inp'.phase = "wait"
        /\ inp.phase = "send" /\ UNCHANGED <<trans, tpc, epoch, lease>>
    BY DEF InputSend, TypeOK, InputReq, NoInput, controlVars
  <1>2. PICK n \in Nat :
           /\ DOMAIN queue = 1..n /\ DOMAIN queue' = 1..(n + 1)
           /\ \A i \in 1..n : queue'[i] = queue[i]
           /\ queue'[n + 1].kind = "tab" /\ queue'[n + 1].epoch = inp.at /\ queue'[n + 1].from = inp.by
           /\ queue'[n + 1].reply
    BY <1>0, EnqueueAt DEF InputSend
  <1>3. \A i \in DOMAIN queue : queue[i].kind # "tab"
    BY <1>1 DEF LockInv, BatchIsAwaited
  <1>4. \A i \in DOMAIN queue' : i \in DOMAIN queue \/ i = n + 1
    BY <1>2
  <1>5. BatchIsAwaited'
    BY <1>1, <1>2, <1>3, <1>4 DEF BatchIsAwaited
  <1>6. ReleaseAgrees'
    BY <1>1, <1>2, <1>4 DEF LockInv, ReleaseAgrees, Wanted
  <1>7. InputAlone' /\ InputIsCurrent'
    BY <1>1 DEF LockInv, InputAlone, InputIsCurrent, Held
  <1> QED BY <1>5, <1>6, <1>7 DEF LockInv

\* Without a fault a request ends between two of its events.
LEMMA LockInputReturns ==
    ASSUME TypeOK, SyncInv, LockInv, loopUp, Faults = {}, InputReturns
    PROVE  LockInv' /\ UNCHANGED <<queue, trans, lease, epoch, pressed>> /\ inp' = NoInput /\ inp.phase = "check"
  <1>1. /\ inp.phase = "check" /\ inp' = NoInput /\ queue' = Orphan({"tab"}, inp.by)
        /\ UNCHANGED <<trans, tpc, epoch, lease, pressed>>
    BY DEF InputReturns, controlVars
  <1>2. \A i \in DOMAIN queue : queue[i].kind # "tab"
    BY <1>1 DEF LockInv, BatchIsAwaited
  <1>3. queue' = queue
    <2>1. queue' = [i \in DOMAIN queue |-> queue[i]]
      BY <1>1, <1>2 DEF Orphan
    <2>2. queue \in Seq(Command)
      BY DEF TypeOK, LoopTypeOK
    <2> QED BY <2>1, <2>2
  <1> QED BY <1>1, <1>2, <1>3 DEF LockInv, InputAlone, BatchIsAwaited, InputIsCurrent, ReleaseAgrees, Wanted, NoInput

\* The loop takes a command and answers.
LEMMA LockLoopStep ==
    ASSUME TypeOK, SyncInv, LockInv, LoopStep
    PROVE  LockInv'
  <1> DEFINE m == Head(queue)
  <1>0. LoopTypeOK /\ Dequeue /\ Answer(m) /\ UNCHANGED <<tpc, epoch, lease>>
    BY DEF LoopStep, TypeOK
  <1>1. /\ m = queue[1] /\ 1 \in DOMAIN queue
        /\ \A i \in DOMAIN queue' : i + 1 \in DOMAIN queue /\ i \in Nat \ {0} /\ queue'[i] = queue[i + 1]
    BY <1>0, DequeueAt
  <1>2. \A x \in Slot :
                 /\ trans'[x].epoch = trans[x].epoch /\ trans'[x].at = trans[x].at
                 /\ trans'[x].release = trans[x].release
                 /\ trans'[x].phase \in {trans[x].phase, "done"}
    <2>1. CASE UNCHANGED trans
      BY <2>1
    <2>2. CASE trans' = [trans EXCEPT ![m.from].phase = "done"]
      BY <2>2 DEF TypeOK, Transition
    <2> QED BY <1>0, <2>1, <2>2 DEF Answer
  <1>3. \/ inp' = inp /\ ~(m.reply /\ m.kind = "tab")
        \/ inp' = NoInput
        \/ inp'.by = inp.by /\ inp'.at = inp.at /\ m.kind = "tab"
    <2>1. CASE m.reply /\ m.kind = "tab"
      BY <1>0, <2>1 DEF Answer, TypeOK, InputReq, NoInput
    <2>2. CASE ~(m.reply /\ m.kind = "tab")
      BY <1>0, <2>2 DEF Answer
    <2> QED BY <2>1, <2>2
  <1>4. m.kind = "tab" => \A i \in DOMAIN queue' : queue'[i].kind # "tab"
    <2>1. m.kind = "tab" => \A j \in DOMAIN queue : queue[j].kind = "tab" => j = 1
      BY <1>1 DEF LockInv, BatchIsAwaited
    <2> QED BY <1>1, <2>1
  <1>5. InputAlone'
    BY <1>2, <1>3 DEF LockInv, InputAlone, NoInput
  <1>6. BatchIsAwaited'
    <2> SUFFICES ASSUME NEW i \in DOMAIN queue', queue'[i].kind = "tab"
                 PROVE  /\ inp'.by = queue'[i].from /\ inp'.phase = "wait" /\ queue'[i].epoch = inp'.at
                        /\ queue'[i].reply
                        /\ \A j \in DOMAIN queue' : queue'[j].kind = "tab" => j = i
      BY DEF BatchIsAwaited
    <2>1. m.kind # "tab"
      BY <1>4
    <2>2. inp' = inp
      BY <1>0, <2>1 DEF Answer
    <2>3. i + 1 \in DOMAIN queue /\ queue'[i] = queue[i + 1]
      BY <1>1
    <2>4. \A j \in DOMAIN queue' : queue'[j].kind = "tab" => j + 1 = i + 1
      BY <1>1, <2>3 DEF LockInv, BatchIsAwaited
    <2>5. \A j \in DOMAIN queue' : queue'[j].kind = "tab" => j = i
      BY <1>1, <2>4
    <2> QED BY <2>2, <2>3, <2>5 DEF LockInv, BatchIsAwaited
  <1>7. InputIsCurrent'
    BY <1>0, <1>3 DEF LockInv, InputIsCurrent, Held, NoInput
  <1>8. ReleaseAgrees'
    <2> SUFFICES ASSUME NEW i \in DOMAIN queue', queue'[i].reply, queue'[i].kind \in {"release", "epoch"}
                 PROVE  /\ queue'[i].kind = "epoch" => queue'[i].epoch > 0
                        /\ queue'[i].kind = "release" =>
                              /\ queue'[i].up = trans'[queue'[i].from].release
                              /\ queue'[i].epoch = trans'[queue'[i].from].at
      BY DEF ReleaseAgrees, Wanted
    <2>1. i + 1 \in DOMAIN queue /\ queue'[i] = queue[i + 1]
      BY <1>1
    <2>2. queue[i + 1].from \in Slot
      BY <2>1 DEF TypeOK, LoopTypeOK, Command, Batch
    <2> QED BY <1>2, <2>1, <2>2 DEF LockInv, ReleaseAgrees, Wanted
  <1> QED BY <1>5, <1>6, <1>7, <1>8 DEF LockInv

\* LockInv is kept by every step.
LEMMA LockStep ==
    ASSUME TypeOK, HandoverInv, LockInv, loopUp, Faults = {}, [Next]_vars
    PROVE  LockInv'
  <1> USE DEF loopVars, controlVars, callerVars
  <1>0. SyncInv /\ LeaseAgrees /\ \A t \in Take : t # None
    BY LoopAssumption DEF HandoverInv, SyncInv
  <1>q. ASSUME UNCHANGED <<queue, inp, trans, tpc, epoch>>,
               lease'.granted => lease.granted /\ lease'.id = lease.id
        PROVE  LockInv'
    BY <1>0, <1>q, LockQuiet DEF TypeOK, Transition, Held
  <1>r. ASSUME UNCHANGED <<queue, inp, tpc>>, NEW x \in Slot, NEW o,
               Advance(x, o) \/ \E r : Pend(x, r, o),
               lease'.granted => lease.granted /\ lease'.id = lease.id /\ UNCHANGED epoch
        PROVE  LockInv'
    <2>1. /\ trans[x].phase = "none" /\ trans'[x].phase = "new"
          /\ \A y \in Slot : y # x => trans'[y] = trans[y]
      BY <1>0, <1>r, AdvanceAt, PendAt
    <2> QED BY <1>0, <1>r, <2>1, LockQuiet DEF TypeOK, Transition, Held
  <1>e. ASSUME UNCHANGED <<queue, inp, tpc>>, NEW x \in Slot, NEW o, EndLease(x, o), lease' = NoLease
        PROVE  LockInv'
    BY <1>e, <1>r DEF EndLease, NoLease
  <1>2. ASSUME NEW t \in Take, TakeNext(t) PROVE LockInv'
    <2>1. CASE TakeParts(t) \/ TakeFromAgent(t) \/ TakeSettled(t) \/ TakeRecord(t)
      <3>1. UNCHANGED <<queue, inp, trans, epoch>> /\ \A x \in Slot : trans[x].phase = "none" => trans'[x] = trans[x]
        BY <2>1 DEF TakeParts, TakeFromAgent, TakeSettled, TakeRecord
      <3>2. \A u \in Take : tpc[u] = "holding" => tpc'[u] = "holding"
        BY <2>1 DEF TakeParts, TakeFromAgent, TakeSettled, TakeRecord, TypeOK
      <3>3. UNCHANGED lease \/ ~lease'.granted
        <4>1. UNCHANGED lease \/ lease' = Pending(t)
          BY <2>1 DEF TakeParts, TakeFromAgent, TakeSettled, TakeRecord
        <4>2. ~Pending(t).granted
          BY DEF Pending
        <4> QED BY <4>1, <4>2
      <3>4. \A u \in Take : tpc[u] = "holding" /\ Held(u)' => Held(u) /\ epoch' = epoch
        BY <3>1, <3>3 DEF Held
      <3> QED BY <1>0, <3>1, <3>2, <3>4, LockQuiet
    <2>2. ~TakeBusy(t) /\ ~TakeDropped(t)
      BY DEF TakeBusy, TakeDropped
    <2>3. ASSUME NEW x \in Slot, TakeFromTab(t, x) PROVE LockInv'
      <3>1. /\ trans[x].phase = "none" /\ trans'[x].phase = "new"
            /\ \A y \in Slot : y # x => trans'[y] = trans[y]
        BY <1>0, <2>3, AdvanceAt DEF TakeFromTab
      <3> QED BY <1>0, <2>3, <3>1, LockQuiet DEF TakeFromTab, TypeOK, Transition, Held, Pending
    <2>4. ASSUME NEW x \in Slot, TakeAdvance(t, x), lease.id = t PROVE LockInv'
      <3>1. /\ trans[x].phase = "none" /\ trans'[x].phase = "new"
            /\ \A y \in Slot : y # x => trans'[y] = trans[y]
            /\ tpc' = [tpc EXCEPT ![t] = "confirming"] /\ UNCHANGED <<queue, inp, lease>>
        BY <1>0, <2>4, AdvanceAt DEF TakeAdvance
      <3>2. ~lease.granted
        BY <1>0, <2>4 DEF LeaseAgrees, TakeAdvance
      <3> QED BY <1>0, <2>4, <3>1, <3>2, LockQuiet DEF TakeAdvance, TypeOK, Transition, Held
    <2>5. ASSUME NEW x \in Slot, TakeAdvance(t, x), lease.id # t PROVE LockInv'
      BY <1>0, <2>5, LockQuiet DEF TakeAdvance, TypeOK, Transition, Held
    <2>6. ASSUME NEW pc, tpc' = [tpc EXCEPT ![t] = pc], tpc[t] # "holding",
                 lease'.granted => \/ lease'.id = t
                                   \/ lease.granted /\ lease'.id = lease.id
          PROVE  /\ \A u \in Take : tpc[u] = "holding" => tpc'[u] = "holding"
                 /\ \A u \in Take : tpc[u] = "holding" /\ Held(u)' => Held(u)
      BY <2>6 DEF TypeOK, Held
    <2>7. ASSUME tpc[t] \in {"moving", "movewait", "confirming"}, NEW ok \in BOOLEAN, Finish(t, ok)
          PROVE  /\ \A u \in Take : tpc[u] = "holding" => tpc'[u] = "holding"
                 /\ \A u \in Take : tpc[u] = "holding" /\ Held(u)' => Held(u)
                 /\ UNCHANGED <<epoch, inp>>
      <3>1. lease'.granted => lease'.id = t \/ (lease.granted /\ lease'.id = lease.id)
        BY <2>7 DEF Finish, NoLease, TypeOK, Lease
      <3>2. \E pc : tpc' = [tpc EXCEPT ![t] = pc]
        BY <2>7 DEF Finish
      <3> QED BY <2>6, <2>7, <3>1, <3>2 DEF Finish
    <2>8. CASE TakeMoveReleased(t)
      <3>1. UNCHANGED <<queue, trans>> /\ \E ok \in BOOLEAN : Finish(t, ok)
        BY <2>8 DEF TakeMoveReleased
      <3> QED BY <1>0, <2>7, <2>8, <3>1, LockQuiet DEF TakeMoveReleased, TypeOK, Transition
    <2>9. ASSUME NEW x \in Slot, TakeConfirmed(t, x) PROVE LockInv'
      <3>1. PICK ok \in BOOLEAN : Discharged(x, ok) /\ Finish(t, ok) /\ tpc[t] = "confirming"
        BY <2>9 DEF TakeConfirmed
      <3>2. ok = TRUE
        BY <3>1 DEF Discharged
      <3> QED BY <1>0, <2>7, <3>1, <3>2, LockDischarged
    <2>10. ASSUME NEW x \in Slot, TakeMoved(t, x) PROVE LockInv'
      <3>1. ~Discharged(x, FALSE)
        BY DEF Discharged
      <3>2. /\ Discharged(x, TRUE) /\ tpc[t] = "moving" /\ tpc' = [tpc EXCEPT ![t] = "movewait"]
            /\ UNCHANGED <<lease, epoch, inp>>
        BY <2>10, <3>1 DEF TakeMoved
      <3> QED BY <1>0, <2>6, <3>2, LockDischarged
    <2> QED BY <1>2, <2>1, <2>2, <2>3, <2>4, <2>5, <2>8, <2>9, <2>10 DEF TakeNext
  <1>3. ASSUME NEW t \in Take, HolderNext(t) PROVE LockInv'
    <2>1. ASSUME NEW x \in Slot, Blur(t, x) PROVE LockInv'
      <3>1. lease'.id = lease.id /\ lease'.granted = lease.granted /\ UNCHANGED epoch
        BY <2>1 DEF Blur, Pend, TypeOK, Lease, NoLease
      <3> QED BY <1>r, <2>1, <3>1 DEF Blur
    <2>2. ASSUME NEW x \in Slot, ReleaseLease(t, x) PROVE LockInv'
      BY <1>r, <2>2 DEF ReleaseLease, NoLease
    <2> QED BY <1>0, <1>3, <2>1, <2>2, LockInputEvent DEF HolderNext
  <1>4. CASE DaemonNext
    <2>1. CASE SweepJudge \/ EndHumanOnClose
      BY <1>q, <2>1 DEF SweepJudge, EndHumanOnClose, TakeHuman, NoLease
    <2>2. ASSUME NEW x \in Slot, SweepEnd(x) PROVE LockInv'
      BY <1>q, <1>e, <2>2 DEF SweepEnd, TakeHuman
    <2>3. ASSUME NEW x \in Slot, EndHuman(x) \/ EndHumanEnded(x) PROVE LockInv'
      BY <1>e, <1>r, <2>3 DEF EndHuman, EndHumanEnded, TakeHuman, NoLease
    <2>4. ASSUME NEW x \in Slot, AgentTakeover(x) PROVE LockInv'
      BY <1>e, <2>4 DEF AgentTakeover, AgentTakeoverLocked
    <2> QED BY <1>4, <2>1, <2>2, <2>3, <2>4 DEF DaemonNext
  <1>5. ASSUME NEW x \in Slot, SendEpoch(x) PROVE LockInv'
    <2>1. \A y \in Slot : /\ trans'[y].release = trans[y].release /\ trans'[y].at = trans[y].at
                          /\ trans'[y].epoch = trans[y].epoch
                          /\ y # x => trans'[y] = trans[y]
      BY <1>5 DEF SendEpoch, TypeOK, Transition
    <2> QED BY <1>0, <1>5, <2>1, LockEnqueue DEF SendEpoch
  <1>6. ASSUME NEW x \in Slot, SendReleases(x) PROVE LockInv'
    <2>1. CASE trans[x].release = {}
      BY <1>0, <1>6, <2>1, LockSendNothing DEF SendReleases
    <2>2. CASE trans[x].release # {}
      <3>1. /\ trans' = [trans EXCEPT ![x].phase = "sent"]
            /\ Enqueue("release", trans[x].at, {}, trans[x].release, x)
            /\ trans[x].phase = "new" /\ inp.by = None /\ UNCHANGED <<inp, tpc, lease, epoch>>
        BY <1>6, <2>2 DEF SendReleases, LockFree
      <3>2. \A y \in Slot : /\ trans'[y].release = trans[y].release /\ trans'[y].at = trans[y].at
                            /\ trans'[y].epoch = trans[y].epoch
                            /\ y # x => trans'[y] = trans[y]
        BY <3>1 DEF TypeOK, Transition
      <3> QED BY <1>0, <3>1, <3>2, LockEnqueue
    <2> QED BY <2>1, <2>2
  <1>7. ASSUME NEW x \in Slot, DischargeReturns(x) \/ DischargeDropped(x) PROVE LockInv'
    <2>1. Discharged(x, TRUE) /\ UNCHANGED <<inp, epoch, tpc, lease>>
      BY <1>7 DEF DischargeReturns, DischargeDropped, Discharged
    <2> QED BY <1>0, <2>1, LockDischarged DEF Held
  <1>8. CASE AgentNext
    <2>1. CASE \E c \in Call : AdmitAgent(c) \/ AgentReturns(c)
      BY <1>q, <2>1 DEF AdmitAgent, AgentReturns
    <2>2. ASSUME NEW c \in Call, AgentBatch(c) PROVE LockInv'
      BY <1>0, <2>2, LockEnqueue DEF AgentBatch
    <2>3. CASE \E c \in Cua : CuaForward(c) \/ CuaFinished(c)
      BY <1>q, <2>3 DEF CuaForward, CuaFinished
    <2>4. ASSUME NEW c \in Cua, NEW x \in Slot, NEW takeover \in BOOLEAN, AdmitCua(c, x, takeover)
          PROVE  LockInv'
      BY <1>q, <1>e, <2>4 DEF AdmitCua, AgentTakeoverLocked
    <2> QED BY <1>8, <2>1, <2>2, <2>3, <2>4 DEF AgentNext
  <1>9. CASE LoopNext
    BY <1>0, <1>9, LockInputSend, LockInputReturns, LockLoopStep DEF LoopNext, LoopEnds
  <1>10. CASE UNCHANGED vars
    BY <1>q, <1>10 DEF vars
  <1> QED BY <1>2, <1>3, <1>4, <1>5, <1>6, <1>7, <1>8, <1>9, <1>10 DEF Next, DischargeNext
-----------------------------------------------------------------------------
(* KeysInv, by kinds of steps *)

\* The holder stays: what tracked a key still does, and nothing new is pressed or
\* announced.
LEMMA KeysKeep ==
    ASSUME KeysInv, lease'.granted => lease.granted,
           \A k \in Key : pressed'[k] # None =>
               /\ pressed[k] # None
               /\ ReleaseDue(k) => ReleaseDue(k)'
               /\ InputUp(k) => InputUp(k)' \/ QueuedUp(k)'
               /\ QueuedUp(k) => QueuedUp(k)',
           lease'.granted => \A k \in Key : k \in lease.held => k \in lease'.held \/ ReleaseNew(k)',
           \A k \in Key : InputDown(k)' \/ QueuedDown(k)' =>
               (InputDown(k) \/ QueuedDown(k)) /\ (ReleaseNew(k) => ReleaseNew(k)')
    PROVE  KeysInv'
  <1>1. \A k \in Key : ReleaseNew(k)' => ReleaseDue(k)'
    BY DEF ReleaseNew, ReleaseDue
  <1> QED BY <1>1 DEF KeysInv

\* No step of channel, loop or input request; slots are filled or nothing.
LEMMA KeysQuiet ==
    ASSUME KeysInv, UNCHANGED <<queue, inp, pressed>>,
           lease'.granted =>
               /\ lease.granted /\ UNCHANGED epoch
               /\ \A x \in Slot : trans[x].phase # "none" => trans'[x] = trans[x]
               /\ \A k \in Key : k \in lease.held => k \in lease'.held \/ ReleaseNew(k)'
    PROVE  KeysInv'
  <1>1. CASE ~lease'.granted
    BY <1>1 DEF KeysInv
  <1>2. CASE lease'.granted
    <2>1. \A k \in Key : /\ ReleaseDue(k) => ReleaseDue(k)'
                         /\ ReleaseNew(k) => ReleaseNew(k)'
      BY <1>2 DEF ReleaseDue, ReleaseNew
    <2>2. \A k \in Key : /\ InputUp(k)' = InputUp(k) /\ InputDown(k)' = InputDown(k)
                         /\ QueuedUp(k)' = QueuedUp(k) /\ QueuedDown(k)' = QueuedDown(k)
      BY <1>2 DEF InputUp, InputDown, QueuedUp, QueuedDown
    <2> QED BY <1>2, <2>1, <2>2, KeysKeep
  <1> QED BY <1>1, <1>2

\* A take is granted: its epoch is unused, so nothing is down or announced.
LEMMA KeysGrant ==
    ASSUME TypeOK, HandoverInv, loopUp, HandingOver, loopEpoch = epoch, UNCHANGED <<pressed, epoch, inp>>,
           DOMAIN queue' = DOMAIN queue,
           \A i \in DOMAIN queue : /\ queue'[i].kind = queue[i].kind /\ queue'[i].epoch = queue[i].epoch
    PROVE  KeysInv'
  <1>1. /\ \A k \in Key : pressed[k] = None
        /\ \A b \in Controller : ~Stamp(epoch, b)
    BY DEF HandoverInv, OwnerInv, EpochIsFresh
  <1>2. \A i \in DOMAIN queue : ~(queue[i].kind = "tab" /\ queue[i].epoch = epoch)
    <2>1. \A i \in DOMAIN queue : queue[i].kind = "tab" => Presser(queue[i]) \in Controller
      BY DEF TypeOK, LoopTypeOK, Command, Batch, Presser, Controller
    <2> QED BY <1>1, <2>1 DEF Stamp
  <1>3. ~(inp.phase = "send" /\ inp.at = epoch)
    <2>1. inp.phase = "send" => inp.by \in Controller
      BY DEF TypeOK, InputReq, NoInput, Controller
    <2> QED BY <1>1, <2>1 DEF Stamp
  <1> QED BY <1>1, <1>2, <1>3 DEF KeysInv, InputDown, QueuedDown

\* A command other than a batch of a viewer request is queued, or none; a slot whose
\* releases go out is that of a time without viewer input.
LEMMA KeysSend ==
    ASSUME TypeOK, KeysInv, LockInv, NEW kind \in {"agent", "epoch", "release"},
           NEW e, NEW down, NEW up, NEW from,
           Enqueue(kind, e, down, up, from) \/ UNCHANGED loopVars, UNCHANGED <<inp, lease, epoch>>,
           \A x \in Slot : \/ trans'[x] = trans[x]
                           \/ trans[x].epoch > 0
                           \/ /\ inp.by = None /\ trans[x].phase = "new"
                              /\ trans'[x].epoch = trans[x].epoch /\ trans'[x].at = trans[x].at
                              /\ trans'[x].release = trans[x].release
                              /\ trans'[x].phase = "sent" \/ trans[x].release = {}
    PROVE  KeysInv'
  <1>0. LoopTypeOK /\ \A x \in Slot : trans[x].epoch > 0 => trans[x].epoch # 0
    BY DEF TypeOK, Transition
  <1>1. \A k \in Key : /\ QueuedUp(k)' = QueuedUp(k) /\ QueuedDown(k)' = QueuedDown(k)
    <2>1. CASE UNCHANGED loopVars
      BY <2>1 DEF loopVars, QueuedUp, QueuedDown
    <2>2. CASE Enqueue(kind, e, down, up, from)
      <3>1. PICK n \in Nat :
               /\ DOMAIN queue = 1..n /\ DOMAIN queue' = 1..(n + 1)
               /\ \A i \in 1..n : queue'[i] = queue[i]
               /\ queue'[n + 1].kind = kind
        BY <1>0, <2>2, EnqueueAt
      <3>2. \A i \in DOMAIN queue' : queue'[i].kind = "tab" => i \in DOMAIN queue /\ queue'[i] = queue[i]
        BY <3>1
      <3>3. \A i \in DOMAIN queue : i \in DOMAIN queue' /\ queue'[i] = queue[i]
        BY <3>1
      <3> QED BY <3>2, <3>3 DEF QueuedUp, QueuedDown
    <2> QED BY <2>1, <2>2
  <1>2. UNCHANGED pressed
    BY DEF Enqueue, loopVars
  <1>3. \A k \in Key : ReleaseDue(k) => ReleaseDue(k)'
    BY <1>0 DEF ReleaseDue
  <1>4. \A k \in Key : InputDown(k) \/ QueuedDown(k) => (ReleaseNew(k) => ReleaseNew(k)')
    <2>1. inp.by = None => inp.phase # "send" /\ \A i \in DOMAIN queue : queue[i].kind # "tab"
      BY LoopAssumption DEF TypeOK, LoopTypeOK, Command, Batch, InputReq, NoInput, LockInv, BatchIsAwaited
    <2>2. CASE inp.by = None
      BY <2>1, <2>2 DEF InputDown, QueuedDown
    <2>3. CASE inp.by # None
      BY <1>0, <2>3 DEF ReleaseNew
    <2> QED BY <2>2, <2>3
  <1> QED BY <1>1, <1>2, <1>3, <1>4, KeysKeep DEF InputUp, InputDown

\* A transition that the loop has performed is discharged.
LEMMA KeysDischarged ==
    ASSUME TypeOK, KeysInv, NEW x \in Slot, Discharged(x, TRUE), UNCHANGED <<inp, epoch>>,
           lease' = lease \/ ~lease'.granted
    PROVE  KeysInv'
  <1>0. LoopTypeOK /\ UNCHANGED pressed
    BY DEF TypeOK, Discharged
  <1>1. /\ trans[x].phase = "done" /\ queue' = Orphan({"epoch", "release"}, x)
        /\ \A y \in Slot : y # x => trans'[y] = trans[y]
    BY DEF Discharged, TypeOK
  <1>2. /\ DOMAIN queue' = DOMAIN queue
        /\ \A i \in DOMAIN queue :
              /\ queue'[i].kind = queue[i].kind /\ queue'[i].epoch = queue[i].epoch
              /\ queue'[i].down = queue[i].down /\ queue'[i].up = queue[i].up
    BY <1>0, <1>1, OrphanAt
  <1>3. \A k \in Key : /\ QueuedUp(k)' = QueuedUp(k) /\ QueuedDown(k)' = QueuedDown(k)
    BY <1>2 DEF QueuedUp, QueuedDown
  <1>4. \A k \in Key : /\ ReleaseDue(k) => ReleaseDue(k)'
                       /\ ReleaseNew(k) => ReleaseNew(k)'
    BY <1>1 DEF ReleaseDue, ReleaseNew
  <1>5. \A k \in Key : InputUp(k)' = InputUp(k) /\ InputDown(k)' = InputDown(k)
    BY DEF InputUp, InputDown
  <1> QED BY <1>0, <1>3, <1>4, <1>5, KeysKeep

\* A viewer request presses or releases a key, or releases the buttons.
LEMMA KeysInputEvent ==
    ASSUME TypeOK, SyncInv, LockInv, KeysInv, NEW t \in Take, NEW k \in Key, NEW press \in BOOLEAN,
           NEW fenced \in BOOLEAN, InputEvent(t, k, press, fenced)
    PROVE  KeysInv'
  <1>1. UNCHANGED <<queue, pressed, trans, epoch>>
    BY DEF InputEvent, loopVars
  <1>2. inp.by = None \/ (inp.by = t /\ inp.phase = "check")
    BY DEF InputEvent
  <1>3. (\A i \in DOMAIN queue : queue[i].kind # "tab") /\ inp.phase # "send"
    <2>1. \A i \in DOMAIN queue : queue[i].kind = "tab" => queue[i].from \in Take
      BY DEF TypeOK, LoopTypeOK, Command, Batch
    <2>2. inp.by = None => inp.phase # "send"
      BY LoopAssumption DEF TypeOK, InputReq, NoInput
    <2> QED BY <1>2, <2>1, <2>2, LoopAssumption DEF LockInv, BatchIsAwaited
  <1>4. \A j \in Key : /\ ~QueuedUp(j) /\ ~QueuedDown(j) /\ ~QueuedDown(j)' /\ ~InputUp(j) /\ ~InputDown(j)
                       /\ ReleaseDue(j)' = ReleaseDue(j)
    BY <1>1, <1>3 DEF QueuedUp, QueuedDown, InputUp, InputDown, ReleaseDue
  <1>5. CASE ~Held(t)
    <2>1. inp' = NoInput /\ UNCHANGED lease
      BY <1>5 DEF InputEvent
    <2>2. \A j \in Key : ~InputDown(j)'
      BY <2>1 DEF InputDown, NoInput
    <2> QED BY <1>1, <1>4, <2>1, <2>2 DEF KeysInv
  <1>6. CASE Held(t)
    <2>1. (IF inp.by = None THEN epoch ELSE inp.at) = epoch
      BY <1>2, <1>6, LoopAssumption DEF LockInv, InputIsCurrent
    <2>2. lease.granted /\ lease \in [id : Take, granted : BOOLEAN, held : SUBSET Key]
      BY <1>6, LoopAssumption DEF Held, TypeOK, Lease, NoLease
    <2>3. CASE fenced
      <3>1. /\ lease'.held = lease.held \ Button
            /\ \A j \in Key : ~InputDown(j)'
            /\ \A j \in Key : j \in lease.held \cap Button => InputUp(j)'
        BY <1>1, <1>6, <2>1, <2>2, <2>3 DEF InputEvent, InputUp, InputDown
      <3> QED BY <1>1, <1>4, <2>2, <3>1 DEF KeysInv
    <2>4. CASE ~fenced /\ press
      <3>1. /\ lease'.held = lease.held \cup {k}
            /\ \A j \in Key : InputDown(j)' => j = k
        BY <1>1, <1>6, <2>1, <2>2, <2>4 DEF InputEvent, InputUp, InputDown
      <3> QED BY <1>1, <1>4, <2>2, <3>1 DEF KeysInv
    <2>5. CASE ~fenced /\ ~press
      <3>1. /\ lease'.held = lease.held \ {k}
            /\ \A j \in Key : ~InputDown(j)'
            /\ InputUp(k)'
        BY <1>1, <1>6, <2>1, <2>2, <2>5 DEF InputEvent, InputUp, InputDown
      <3> QED BY <1>1, <1>4, <2>2, <3>1 DEF KeysInv
    <2> QED BY <2>3, <2>4, <2>5
  <1> QED BY <1>5, <1>6

\* The request's batch is queued.
LEMMA KeysInputSend ==
    ASSUME TypeOK, LockInv, KeysInv, InputSend
    PROVE  KeysInv'
  <1>0. LoopTypeOK /\ UNCHANGED <<pressed, trans, epoch, lease>> /\ inp.phase = "send"
    BY DEF InputSend, TypeOK, Enqueue, controlVars
  <1>1. PICK n \in Nat :
           /\ DOMAIN queue = 1..n /\ DOMAIN queue' = 1..(n + 1)
           /\ \A i \in 1..n : queue'[i] = queue[i]
           /\ queue'[n + 1].kind = "tab" /\ queue'[n + 1].epoch = inp.at
           /\ queue'[n + 1].down = inp.down /\ queue'[n + 1].up = inp.up
    BY <1>0, EnqueueAt DEF InputSend
  <1>2. inp'.phase = "wait"
    BY DEF InputSend, TypeOK, InputReq, NoInput
  <1>3. \A i \in DOMAIN queue' : (i \in DOMAIN queue /\ queue'[i] = queue[i]) \/ i = n + 1
    BY <1>1
  <1>4. \A i \in DOMAIN queue : i \in DOMAIN queue' /\ queue'[i] = queue[i]
    BY <1>1
  <1>5. \A k \in Key : /\ InputUp(k) => QueuedUp(k)'
                       /\ QueuedUp(k) => QueuedUp(k)'
                       /\ QueuedDown(k)' => QueuedDown(k) \/ InputDown(k)
                       /\ ~InputDown(k)'
    <2>1. n + 1 \in DOMAIN queue'
      BY <1>1
    <2> QED BY <1>0, <1>1, <1>2, <1>3, <1>4, <2>1 DEF InputUp, InputDown, QueuedUp, QueuedDown
  <1>6. \A k \in Key : ReleaseDue(k)' = ReleaseDue(k) /\ ReleaseNew(k)' = ReleaseNew(k)
    BY <1>0 DEF ReleaseDue, ReleaseNew
  <1> QED BY <1>0, <1>5, <1>6, KeysKeep
\* At the current epoch, what is down after a command was down before and is not
\* released by it, or a batch of the current epoch presses it.
LEMMA DequeueCurrent ==
    ASSUME TypeOK, SyncInv, Dequeue, loopEpoch = epoch, NEW k \in Key, pressed'[k] # None
    PROVE  \/ /\ pressed[k] # None
              /\ Head(queue).kind # "epoch" /\ Head(queue).epoch = epoch => k \notin Head(queue).up
           \/ /\ Head(queue).kind \in {"agent", "tab"} /\ Head(queue).epoch = epoch
              /\ k \in Head(queue).down
  <1> DEFINE m == Head(queue)
  <1>1. m \in Command /\ m = queue[1] /\ 1 \in DOMAIN queue
    BY TypeDequeue, DequeueAt DEF TypeOK
  <1>2. m.epoch \in Nat /\ epoch \in Nat /\ m.epoch <= epoch
    BY <1>1 DEF Command, Batch, TypeOK, SyncInv, EpochBound
  <1>3. ChangeEpoch(m.epoch) = pressed
    BY <1>2 DEF ChangeEpoch
  <1>4. CASE m.kind = "epoch"
    BY <1>3, <1>4 DEF Dequeue, SetEpoch
  <1>5. CASE m.kind # "epoch" /\ Stale(m)
    <2>1. UNCHANGED pressed /\ m.epoch # epoch
      BY <1>2, <1>5 DEF Dequeue, Apply, Stale
    <2> QED BY <2>1
  <1>6. CASE m.kind # "epoch" /\ ~Stale(m)
    <2>1. m.kind \notin {"agent", "tab"} => m.down = {}
      BY <1>1, <1>6 DEF Command, Batch
    <2>2. m.epoch = epoch
      BY <1>2, <1>6 DEF Stale
    <2>3. pressed'[k] = IF k \in m.up THEN None
                        ELSE IF k \in m.down /\ pressed[k] = None THEN Presser(m) ELSE pressed[k]
      BY <1>3, <1>6 DEF Dequeue, Apply
    <2> QED BY <2>1, <2>2, <2>3
  <1> QED BY <1>4, <1>5, <1>6

\* The loop takes a command and answers.
LEMMA KeysLoopStep ==
    ASSUME TypeOK, HandoverInv, LockInv, KeysInv, LoopStep
    PROVE  KeysInv'
  <1> DEFINE m == Head(queue)
  <1>0. /\ SyncInv /\ Dequeue /\ Answer(m) /\ UNCHANGED <<lease, epoch>> /\ LoopTypeOK
        /\ LateInputIsStale
    BY LateInput DEF HandoverInv, LoopStep, TypeOK
  <1>1. /\ m = queue[1] /\ 1 \in DOMAIN queue
        /\ \A i \in DOMAIN queue' : i + 1 \in DOMAIN queue /\ queue'[i] = queue[i + 1]
        /\ \A i \in DOMAIN queue : i = 1 \/ (i - 1 \in DOMAIN queue' /\ queue'[i - 1] = queue[i])
    <2>1. /\ Len(queue) \in Nat \ {0} /\ DOMAIN queue = 1..Len(queue)
          /\ DOMAIN queue' = 1..(Len(queue) - 1)
          /\ \A i \in 1..(Len(queue) - 1) : queue'[i] = queue[i + 1]
          /\ Head(queue) = queue[1]
      BY <1>0, DequeueAt
    <2>2. \A i \in DOMAIN queue : i # 1 => i - 1 \in 1..(Len(queue) - 1) /\ (i - 1) + 1 = i
      BY <2>1
    <2> QED BY <2>1, <2>2
  <1>2. \A x \in Slot : trans'[x] # trans[x] => trans[x].phase = "sent" /\ Wanted(1) /\ queue[1].from = x
    BY <1>0, AnswerAt
  <1>3. /\ inp'.phase = "send" => inp' = inp
        /\ inp.phase = "send" => inp' = inp
    <2>1. m.kind = "tab" => inp.phase = "wait"
      BY <1>1 DEF LockInv, BatchIsAwaited
    <2>2. inp' = inp \/ (inp'.phase # "send" /\ m.kind = "tab")
      BY <1>0 DEF Answer, TypeOK, InputReq, NoInput
    <2> QED BY <2>1, <2>2
  <1> SUFFICES ASSUME lease.granted, NEW k \in Key
               PROVE  /\ pressed'[k] # None => k \in lease.held \/ ReleaseDue(k)' \/ InputUp(k)' \/ QueuedUp(k)'
                      /\ InputDown(k)' \/ QueuedDown(k)' => k \in lease.held \/ ReleaseNew(k)'
    BY <1>0 DEF KeysInv
  <1>4. loopEpoch = epoch
    BY <1>0 DEF SyncInv, GrantedIsConfirmed
  <1>5. ReleaseNew(k) => ReleaseNew(k)' /\ ReleaseDue(k)'
    BY <1>0, <1>2 DEF ReleaseNew, ReleaseDue
  <1>6. InputDown(k)' \/ QueuedDown(k)' => InputDown(k) \/ QueuedDown(k)
    BY <1>0, <1>1, <1>3 DEF InputDown, QueuedDown
  <1>7. ASSUME pressed[k] # None, m.kind # "epoch" /\ m.epoch = epoch => k \notin m.up
        PROVE  k \in lease.held \/ ReleaseDue(k)' \/ InputUp(k)' \/ QueuedUp(k)'
    <2>1. InputUp(k) => InputUp(k)'
      BY <1>0, <1>3 DEF InputUp
    <2>2. QueuedUp(k) => QueuedUp(k)'
      BY <1>0, <1>1, <1>7 DEF QueuedUp
    <2>3. ASSUME NEW x \in Slot, trans[x].phase \in {"new", "sent"}, trans[x].epoch = 0,
                 trans[x].at = epoch, k \in trans[x].release
          PROVE  ReleaseDue(k)'
      <3>1. CASE trans'[x] = trans[x]
        BY <1>0, <2>3, <3>1 DEF ReleaseDue
      <3>2. CASE trans'[x] # trans[x]
        <4>1. Wanted(1) /\ m.from = x
          BY <1>1, <1>2, <3>2
        <4>2. m.kind # "epoch"
          <5>1. m.kind = "epoch" => m.epoch > 0 /\ m.epoch = 0 /\ m.epoch \in Nat
            BY <1>0, <1>1, <2>3, <4>1, TypeDequeue
               DEF LockInv, ReleaseAgrees, SyncInv, ReplyAgrees, Command, Batch
          <5> QED BY <5>1
        <4>3. m.kind = "release" /\ m.up = trans[x].release /\ m.epoch = epoch
          BY <1>1, <2>3, <4>1, <4>2 DEF LockInv, ReleaseAgrees, Wanted
        <4> QED BY <1>7, <2>3, <4>3
      <3> QED BY <3>1, <3>2
    <2>4. ReleaseDue(k) => ReleaseDue(k)'
      BY <2>3 DEF ReleaseDue
    <2> QED BY <1>7, <2>1, <2>2, <2>4 DEF KeysInv
  <1>8. ASSUME m.kind \in {"agent", "tab"}, m.epoch = epoch, k \in m.down
        PROVE  k \in lease.held \/ ReleaseDue(k)'
    <2>1. ~Stale(m)
      BY <1>4, <1>8 DEF Stale, TypeOK
    <2>2. Presser(m) = lease.id
      BY <1>0, <1>1, <1>8, <2>1 DEF LateInputIsStale
    <2>3. lease.id # Agent
      BY LoopAssumption DEF TypeOK, Lease, NoLease
    <2>4. m.kind = "tab"
      BY <1>8, <2>2, <2>3 DEF Presser
    <2>5. QueuedDown(k)
      BY <1>1, <1>8, <2>4 DEF QueuedDown
    <2> QED BY <1>5, <2>5 DEF KeysInv
  <1>9. pressed'[k] # None => k \in lease.held \/ ReleaseDue(k)' \/ InputUp(k)' \/ QueuedUp(k)'
    BY <1>0, <1>4, <1>7, <1>8, DequeueCurrent
  <1>10. InputDown(k)' \/ QueuedDown(k)' => k \in lease.held \/ ReleaseNew(k)'
    BY <1>5, <1>6 DEF KeysInv
  <1> QED BY <1>9, <1>10

\* KeysInv is kept by every step.
LEMMA KeysStep ==
    ASSUME TypeOK, HandoverInv, LockInv, KeysInv, loopUp, Faults = {}, [Next]_vars
    PROVE  KeysInv'
  <1> USE DEF loopVars, controlVars, callerVars
  <1>0. SyncInv /\ LeaseAgrees
    BY DEF HandoverInv, SyncInv
  <1>s. \A x \in Slot : trans[x].phase = "none" \/ trans[x].phase # "none"
    OBVIOUS
  <1>q. ASSUME UNCHANGED <<queue, inp, pressed>>, ~lease'.granted \/ UNCHANGED <<lease, epoch, trans>>
        PROVE  KeysInv'
    BY <1>q, KeysQuiet
  <1>2. ASSUME NEW t \in Take, TakeNext(t) PROVE KeysInv'
    <2>1. CASE TakeParts(t) \/ TakeFromAgent(t) \/ TakeSettled(t) \/ TakeRecord(t)
      <3>1. UNCHANGED <<queue, inp, pressed>>
        BY <2>1 DEF TakeParts, TakeFromAgent, TakeSettled, TakeRecord
      <3>2. lease' = Pending(t) \/ UNCHANGED <<lease, epoch, trans>>
        BY <2>1 DEF TakeParts, TakeFromAgent, TakeSettled, TakeRecord
      <3>3. ~Pending(t).granted
        BY DEF Pending
      <3> QED BY <1>q, <3>1, <3>2, <3>3
    <2>2. ~TakeBusy(t) /\ ~TakeDropped(t)
      BY DEF TakeBusy, TakeDropped
    <2>3. ASSUME NEW x \in Slot, TakeFromTab(t, x) PROVE KeysInv'
      <3>1. ~Pending(t).granted
        BY DEF Pending
      <3> QED BY <1>q, <2>3, <3>1 DEF TakeFromTab
    <2>4. ASSUME NEW x \in Slot, TakeAdvance(t, x) PROVE KeysInv'
      <3>1. lease.id = t => ~lease.granted
        BY <1>0, <2>4, LoopAssumption DEF LeaseAgrees, TakeAdvance
      <3> QED BY <1>q, <2>4, <3>1 DEF TakeAdvance
    <2>5. CASE TakeMoveReleased(t)
      <3>1. /\ Finish(t, TRUE) /\ UNCHANGED <<queue, pressed, trans, epoch, inp>> /\ tpc[t] = "movewait"
        BY <2>5 DEF TakeMoveReleased, Finish
      <3>2. CASE lease.id # t
        BY <1>q, <3>1, <3>2 DEF Finish
      <3>3. CASE lease.id = t
        BY <1>0, <3>1, <3>3, KeysGrant, LoopAssumption DEF HandingOver, SyncInv
      <3> QED BY <3>2, <3>3
    <2>6. ASSUME NEW x \in Slot, TakeConfirmed(t, x) PROVE KeysInv'
      <3>1. PICK ok \in BOOLEAN : Discharged(x, ok) /\ Finish(t, ok) /\ tpc[t] = "confirming" /\ trans[x].owner = t
        BY <2>6 DEF TakeConfirmed
      <3>2. ok = TRUE
        BY <3>1 DEF Discharged
      <3>3. Discharged(x, TRUE) /\ Finish(t, TRUE) /\ UNCHANGED <<inp, epoch>>
        BY <3>1, <3>2 DEF Finish
      <3>4. CASE lease.id # t
        BY <3>3, <3>4, KeysDischarged DEF Finish
      <3>5. CASE lease.id = t
        <4>1. loopEpoch = epoch /\ HandingOver
          BY <1>0, <3>1, <3>3, <3>5, ConfirmedEpoch, LoopAssumption DEF HandingOver
        <4>2. LoopTypeOK /\ queue' = Orphan({"epoch", "release"}, x) /\ UNCHANGED pressed
          BY <3>3 DEF TypeOK, Discharged
        <4>3. /\ DOMAIN queue' = DOMAIN queue
              /\ \A i \in DOMAIN queue : queue'[i].kind = queue[i].kind /\ queue'[i].epoch = queue[i].epoch
          BY <4>2, OrphanAt
        <4> QED BY <3>3, <4>1, <4>2, <4>3, KeysGrant
      <3> QED BY <3>4, <3>5
    <2>7. ASSUME NEW x \in Slot, TakeMoved(t, x) PROVE KeysInv'
      <3>1. Discharged(x, TRUE) /\ UNCHANGED <<lease, epoch, inp>>
        BY <2>7 DEF TakeMoved, Discharged
      <3> QED BY <3>1, KeysDischarged
    <2> QED BY <1>2, <2>1, <2>2, <2>3, <2>4, <2>5, <2>6, <2>7 DEF TakeNext
  <1>3. ASSUME NEW t \in Take, HolderNext(t) PROVE KeysInv'
    <2>1. ASSUME NEW x \in Slot, Blur(t, x) PROVE KeysInv'
      <3>1. /\ UNCHANGED <<queue, inp, pressed, epoch>> /\ lease.granted
            /\ trans[x].phase = "none"
            /\ \A y \in Slot : y # x => trans'[y] = trans[y]
        BY <2>1 DEF Blur, Pend, Held, TypeOK
      <3>2. /\ trans'[x].phase = "new" /\ trans'[x].epoch = 0 /\ trans'[x].at = epoch
            /\ trans'[x].release = lease.held
        BY <2>1 DEF Blur, Pend, TypeOK
      <3>3. \A k \in Key : k \in lease.held => ReleaseNew(k)'
        BY <3>1, <3>2 DEF ReleaseNew
      <3> QED BY <3>1, <3>3, KeysQuiet
    <2>2. ASSUME NEW x \in Slot, ReleaseLease(t, x) PROVE KeysInv'
      BY <1>q, <2>2 DEF ReleaseLease, NoLease
    <2> QED BY <1>0, <1>3, <2>1, <2>2, KeysInputEvent DEF HolderNext
  <1>4. CASE DaemonNext
    <2>1. CASE SweepJudge \/ EndHumanOnClose
      BY <1>q, <2>1 DEF SweepJudge, EndHumanOnClose, TakeHuman, NoLease
    <2>2. ASSUME NEW x \in Slot, SweepEnd(x) \/ EndHuman(x) \/ EndHumanEnded(x) \/ AgentTakeover(x) PROVE KeysInv'
      <3>1. UNCHANGED <<queue, inp, pressed>>
        BY <2>2 DEF SweepEnd, EndHuman, EndHumanEnded, AgentTakeover
      <3>2. lease' = NoLease \/ UNCHANGED <<lease, epoch, trans>>
        BY <2>2 DEF SweepEnd, EndHuman, EndHumanEnded, TakeHuman, AgentTakeover, AgentTakeoverLocked
      <3>3. ~NoLease.granted
        BY DEF NoLease
      <3> QED BY <1>q, <3>1, <3>2, <3>3
    <2> QED BY <1>4, <2>1, <2>2 DEF DaemonNext
  <1>5. ASSUME NEW x \in Slot, SendEpoch(x) PROVE KeysInv'
    <2>1. \A y \in Slot : trans'[y] = trans[y] \/ trans[y].epoch > 0
      BY <1>5 DEF SendEpoch, TypeOK
    <2> QED BY <1>5, <2>1, KeysSend DEF SendEpoch
  <1>6. ASSUME NEW x \in Slot, SendReleases(x) PROVE KeysInv'
    <2>1. /\ inp.by = None /\ trans[x].phase = "new" /\ UNCHANGED <<inp, lease, epoch>>
          /\ Enqueue("release", trans[x].at, {}, trans[x].release, x) \/ UNCHANGED loopVars
      BY <1>6 DEF SendReleases, LockFree
    <2>2. /\ \A y \in Slot : y # x => trans'[y] = trans[y]
          /\ trans'[x].epoch = trans[x].epoch /\ trans'[x].at = trans[x].at
          /\ trans'[x].release = trans[x].release
          /\ trans'[x].phase = "sent" \/ trans[x].release = {}
      <3>1. trans \in [Slot -> Transition]
        BY DEF TypeOK
      <3>2. PICK p \in {"done", "sent"} : /\ trans' = [trans EXCEPT ![x].phase = p]
                                          /\ p = "sent" \/ trans[x].release = {}
        BY <1>6 DEF SendReleases
      <3> QED BY <3>1, <3>2 DEF Transition
    <2> QED BY <2>1, <2>2, KeysSend
  <1>7. ASSUME NEW x \in Slot, DischargeReturns(x) \/ DischargeDropped(x) PROVE KeysInv'
    <2>1. Discharged(x, TRUE) /\ UNCHANGED <<inp, epoch, lease>>
      BY <1>7 DEF DischargeReturns, DischargeDropped, Discharged
    <2> QED BY <2>1, KeysDischarged
  <1>8. CASE AgentNext
    <2>1. CASE \E c \in Call : AdmitAgent(c) \/ AgentReturns(c)
      BY <1>q, <2>1 DEF AdmitAgent, AgentReturns
    <2>2. ASSUME NEW c \in Call, AgentBatch(c) PROVE KeysInv'
      BY <2>2, KeysSend DEF AgentBatch
    <2>3. CASE \E c \in Cua : CuaForward(c) \/ CuaFinished(c)
      BY <1>q, <2>3 DEF CuaForward, CuaFinished
    <2>4. ASSUME NEW c \in Cua, NEW x \in Slot, NEW takeover \in BOOLEAN, AdmitCua(c, x, takeover)
          PROVE  KeysInv'
      BY <1>q, <2>4 DEF AdmitCua, AgentTakeoverLocked, NoLease
    <2> QED BY <1>8, <2>1, <2>2, <2>3, <2>4 DEF AgentNext
  <1>9. CASE LoopNext
    <2>1. CASE InputReturns
      <3>1. UNCHANGED <<queue, trans, lease, epoch, pressed>> /\ inp' = NoInput /\ inp.phase = "check"
        BY <1>0, <2>1, LockInputReturns
      <3>2. \A k \in Key : /\ ~InputUp(k) /\ ~InputDown(k)'
                           /\ QueuedUp(k)' = QueuedUp(k) /\ QueuedDown(k)' = QueuedDown(k)
                           /\ ReleaseDue(k)' = ReleaseDue(k) /\ ReleaseNew(k)' = ReleaseNew(k)
        BY <3>1 DEF InputUp, InputDown, QueuedUp, QueuedDown, ReleaseDue, ReleaseNew, NoInput
      <3> QED BY <3>1, <3>2, KeysKeep
    <2> QED BY <1>9, <2>1, KeysInputSend, KeysLoopStep DEF LoopNext, LoopEnds
  <1>10. CASE UNCHANGED vars
    BY <1>q, <1>10 DEF vars
  <1> QED BY <1>2, <1>3, <1>4, <1>5, <1>6, <1>7, <1>8, <1>9, <1>10 DEF Next, DischargeNext

\* Where no deadline passes and nothing is dropped, every key that is down under a
\* granted lease is one the lease tracks, once input, releases and channel are quiet:
\* a blur or a fence releases all of them (viewer input, blur, Lease.held).
THEOREM KeysAreTracked == ASSUME Faults = {} PROVE Spec => []PressedIsTracked
  <1>1. Init => Reached /\ LockInv /\ KeysInv
    <2> SUFFICES ASSUME Init PROVE Reached /\ LockInv /\ KeysInv
      OBVIOUS
    <2>1. queue = <<>> /\ inp = NoInput /\ lease = NoLease /\ DOMAIN queue = {}
      BY DEF Init, LoopInit
    <2> QED BY <2>1 DEF Init, LoopInit, Reached, LockInv, InputAlone, BatchIsAwaited, InputIsCurrent,
               ReleaseAgrees, KeysInv, NoInput, NoLease
  <1>2. TypeOK /\ HandoverInv /\ HandoverInv' /\ Reached /\ LockInv /\ KeysInv /\ [Next]_vars
           => Reached' /\ LockInv' /\ KeysInv'
    BY ReachedStep, LockStep, KeysStep DEF HandoverInv, Reached
  <1>3. TypeOK /\ KeysInv => PressedIsTracked
    <2> SUFFICES ASSUME TypeOK, KeysInv, lease.granted, inp.by = None, NoPending, queue = <<>>,
                        NEW k \in Key, pressed[k] # None
                 PROVE  k \in lease.held
      BY DEF PressedIsTracked
    <2>1. inp.phase # "send"
      BY LoopAssumption DEF TypeOK, InputReq, NoInput
    <2>2. ~ReleaseDue(k) /\ ~InputUp(k) /\ ~QueuedUp(k)
      BY <2>1 DEF NoPending, ReleaseDue, InputUp, QueuedUp
    <2> QED BY <2>2 DEF KeysInv
  <1> QED BY <1>1, <1>2, <1>3, TypeCorrect, HandoverInvariant, PTL DEF Spec
=============================================================================
