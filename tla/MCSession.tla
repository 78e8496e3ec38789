------------------------------ MODULE MCSession ------------------------------
(* Small instances of what serves one session, side by side: a behaviour is one *)
(* of its control ("control"), of its connection, loop and end ("life") or of   *)
(* the pictures the viewer serves of it ("frames"); the parts share no state,   *)
(* so their state graphs add up.                                                *)
EXTENDS SessionControl, SessionLife, FrameCache

VARIABLE part

servedVars == <<part, vars, sessionLifeVars, frameCacheVars>>

ServedInit == part \in {"control", "life", "frames"} /\ Init /\ SessionLifeInit /\ FrameCacheInit

ServedNext ==
    /\ UNCHANGED part
    /\ \/ part = "control" /\ Next /\ UNCHANGED <<sessionLifeVars, frameCacheVars>>
       \/ part = "life" /\ SessionLifeNext /\ UNCHANGED <<vars, frameCacheVars>>
       \/ part = "frames" /\ FrameCacheNext /\ UNCHANGED <<vars, sessionLifeVars>>

ServedSpec == ServedInit /\ [][ServedNext]_servedVars

\* Control: the daemon's tasks and the loop thread keep running, and a Cua call is
\* answered.  Nothing is assumed of the viewer, of the agent's next call or of the
\* sweeper's judgement.  An agent call waits from the start, hence InControl; the
\* fair actions of the other parts are disabled in their initial states.
InControl(A) == part = "control" /\ A

ControlFairness ==
    /\ WF_vars(InControl(LoopStep))
    /\ WF_vars(InControl(InputSend)) /\ WF_vars(InControl(InputReturns))
    /\ \A x \in Slot : /\ WF_vars(InControl(SendEpoch(x))) /\ WF_vars(InControl(SendReleases(x)))
                       /\ WF_vars(InControl(DischargeReturns(x)))
    /\ \A t \in Take :
          /\ WF_vars(InControl(TakeSettled(t))) /\ WF_vars(InControl(TakeMoveReleased(t)))
          /\ WF_vars(InControl(TakeRecord(t)))
          /\ WF_vars(InControl(\E x \in Slot : TakeAdvance(t, x)))
          /\ WF_vars(InControl(\E x \in Slot : TakeConfirmed(t, x) \/ TakeMoved(t, x)))
    /\ \A c \in Call : /\ WF_vars(InControl(AdmitAgent(c))) /\ WF_vars(InControl(AgentBatch(c)))
                       /\ WF_vars(InControl(AgentReturns(c)))
    /\ \A c \in Cua : WF_vars(InControl(CuaForward(c))) /\ WF_vars(InControl(CuaFinished(c)))

ServedFair == ServedSpec /\ ControlFairness /\ SessionLifeFairness /\ FrameCacheFairness

\* Nobody who waits for control waits for ever: NobodyWaits (take_within,
\* admit_agent, forward_cua), said of the behaviours in which control moves.
ControlIsSettled == (part = "control") => NobodyWaits
=============================================================================
