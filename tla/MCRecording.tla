---------------------------- MODULE MCRecording -----------------------------
(* Small instances of the recording modules, side by side: a behaviour is one   *)
(* of a session log with its readers ("log"), of one recorder fed by            *)
(* annotations ("recorder") or of the service ("service"); the parts share no   *)
(* state, so their state graphs add up.                                         *)
EXTENDS Recorder, RecordingService

VARIABLE part

recordingVars == <<part, recorderVars, serviceVars>>

Sizes == [s \in Screen |-> IF s = "wide" THEN 2 ELSE 1]

Init ==
    /\ part \in {"log", "recorder", "service"}
    /\ RecorderInit(IF part = "log" THEN Verb ELSE {})
    /\ ServiceInit

Next ==
    /\ UNCHANGED part
    /\ \/ part = "log" /\ SessionNext /\ UNCHANGED serviceVars
       \/ part = "recorder" /\ RecorderNext /\ UNCHANGED serviceVars
       \/ part = "service" /\ ServiceNext /\ UNCHANGED recorderVars

Spec == Init /\ [][Next]_recordingVars

\* The tasks of the requests run, a recorder whose queue has closed ends, and a
\* log that nobody has is dropped.
InService(A) == part = "service" /\ A /\ UNCHANGED <<part, recorderVars>>

Fairness ==
    /\ \A r \in Req : /\ WF_recordingVars(InService(ReqStep(r)))
                      /\ WF_recordingVars(InService(tape[r].ends /\ RecorderStops(r)))
    /\ \A l \in Log : WF_recordingVars(InService(LogDropped(l)))

FairSpec == Spec /\ Fairness
=============================================================================
