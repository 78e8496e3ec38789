-------------------------- MODULE RecordingService --------------------------
(***************************************************************************)
(* The recording service of the daemon (recording/mod.rs) and the          *)
(* recordings directory (recording/store.rs): requests of several clients  *)
(* start, stop and annotate recordings, sessions close, recorder threads   *)
(* end by themselves, the daemon shuts down, is killed and starts again.   *)
(*                                                                         *)
(* A step of a request is what it does under one lock of the service or    *)
(* of a session log, or one operation on the directory.  A recording has   *)
(* the number of the request that starts it, and a size of 1.  What the    *)
(* recorder thread writes is in Recorder.                                  *)
(***************************************************************************)
EXTENDS Naturals, Sequences, FiniteSets

CONSTANTS
    Log,          \* session logs
    Req,          \* requests
    StoreBudget,  \* budget_bytes, in recordings
    MaxBoot,      \* bound: runs of the daemon
    Ops           \* what happens: operations of requests, and faults

ASSUME RecordingAssumption ==
    /\ "none" \notin Log
    /\ Req \subseteq Nat \ {0}
    /\ StoreBudget \in Nat /\ MaxBoot \in Nat
    /\ Ops \subseteq {"start", "stop", "close", "annotate", "keep", "abandon", "fail",
                      "shutdown", "crash"}

VARIABLES
    slog,         \* per session log: its session is open, and its sink
    service,      \* RecordingService.state, and the run of the daemon
    req,          \* the requests
    tape,         \* per recording: its recorder thread and its directory
    minted        \* recording ids, oldest first

serviceVars == <<slog, service, req, tape, minted>>

NoRec == 0
Idle == [pc |-> "idle", op |-> "none", log |-> "none", hands |-> {}, writing |-> {}]
NoTape == [log |-> "none", thread |-> "none", ends |-> FALSE, dir |-> "none", kept |-> FALSE, boot |-> 0]

ServiceTypeOK ==
    /\ slog \in [Log -> [open : BOOLEAN, sink : Req \cup {NoRec}]]
    /\ service.life \in {"starting", "up", "stopping", "down"}
    /\ service.active \in [Log -> Req \cup {NoRec}]
    /\ service.starting \subseteq Log /\ service.closing \subseteq Req
    /\ service.todo \subseteq Req /\ service.missed \subseteq Req
    /\ \A r \in Req : tape[r].dir \in {"none", "open", "done", "gone"}
                      /\ tape[r].thread \in {"none", "run", "done"}

ServiceInit ==
    /\ slog = [l \in Log |-> [open |-> TRUE, sink |-> NoRec]]
    /\ service = [life |-> "up", boot |-> 1, active |-> [l \in Log |-> NoRec],
                  starting |-> {}, closing |-> {}, todo |-> {}, missed |-> {}]
    /\ req = [r \in Req |-> Idle]
    /\ tape = [r \in Req |-> NoTape]
    /\ minted = <<>>

Running(r) == tape[r].thread = "run"
Serving == service.life \in {"up", "stopping"}
To(r, pc) == req' = [req EXCEPT ![r].pc = pc]
Over(r) == req' = [req EXCEPT ![r] = [Idle EXCEPT !.pc = "over"]]

\* Somebody has the log of a session: the registry, or a request.
Held(l) == slog[l].open \/ \E r \in Req : req[r].log = l

\* detach_sink, wherever its log still exists: the sink gets its last event
\* and its queue closes.
Detached(logs) ==
    LET gone == {slog[l].sink : l \in {k \in logs : Held(k)}} \ {NoRec}
    IN  /\ slog' = [l \in Log |-> IF slog[l].sink \in gone
                                  THEN [slog[l] EXCEPT !.sink = NoRec] ELSE slog[l]]
        /\ tape' = [r \in Req |-> IF r \in gone THEN [tape[r] EXCEPT !.ends = TRUE] ELSE tape[r]]

LogsOf(recs) == {l \in Log : service.active[l] \in recs}
Without(active, recs) == [l \in Log |-> IF active[l] \in recs THEN NoRec ELSE active[l]]

-----------------------------------------------------------------------------
(* Requests *)

\* Mutant: the dead entry goes, and its sink stays attached.
ReapForgets(r, op, l) ==
    LET dead == {q \in Req : q \in {service.active[k] : k \in Log} /\ ~Running(q)}
    IN  /\ service' = [service EXCEPT !.active = Without(@, dead),
                                      !.closing = {q \in @ : Running(q)}]
        /\ req' = [req EXCEPT ![r] = [Idle EXCEPT !.pc = "reaped", !.op = op, !.log = l]]

\* reap, first part: entries whose recorder has ended leave `active'.  The
\* request that finds them has them in its hands.
Reap(r, op, l) ==
    LET dead == {q \in Req : q \in {service.active[k] : k \in Log} /\ ~Running(q)}
    IN  /\ service' = [service EXCEPT !.active = Without(@, dead),
                                      !.closing = {q \in @ : Running(q)}]
        /\ req' = [req EXCEPT ![r] = [Idle EXCEPT !.pc = "reaped", !.op = op, !.log = l,
                                                  !.hands = {p \in Req \X Log :
                                                     /\ p[1] \in dead
                                                     /\ service.active[p[2]] = p[1]}]]

\* A request on an open session reaps first.
Begin(r, op, l) ==
    /\ service.life = "up" /\ req[r].pc = "idle"
    /\ op \in Ops \cap {"start", "stop", "annotate"} /\ slog[l].open
    /\ Reap(r, op, l)
    /\ UNCHANGED <<slog, tape, minted>>

\* The registry has removed the session; session_closed looks whether it is
\* being recorded and then stops the recording.
SessionClosed(r, l) ==
    /\ service.life = "up" /\ req[r].pc = "idle"
    /\ "close" \in Ops /\ slog[l].open
    /\ slog' = [slog EXCEPT ![l].open = FALSE]
    /\ IF service.active[l] = NoRec THEN Over(r) /\ UNCHANGED service
       ELSE Reap(r, "stop", l)
    /\ UNCHANGED <<tape, minted>>

\* reap, second part.
ReapDetach(r) ==
    /\ Serving /\ req[r].pc = "reaped"
    /\ Detached({p[2] : p \in req[r].hands})
    /\ service' = [service EXCEPT !.closing = @ \cup {p[1] : p \in req[r].hands}]
    /\ req' = [req EXCEPT ![r].pc = req[r].op, ![r].hands = {}]
    /\ UNCHANGED minted

\* annotate: record_detached offers the text to the sink.
Annotate(r) ==
    /\ Serving /\ req[r].pc = "annotate"
    /\ Over(r)
    /\ UNCHANGED <<slog, service, tape, minted>>

\* stop, under the lock; then the sink.
StopTake(r) ==
    LET l == req[r].log
        q == service.active[l]
    IN  /\ Serving /\ req[r].pc = "stop"
        /\ IF q = NoRec THEN Over(r) /\ UNCHANGED service
           ELSE /\ service' = [service EXCEPT !.active[l] = NoRec]
                /\ req' = [req EXCEPT ![r].pc = "detach", ![r].hands = {<<q, l>>}]
        /\ UNCHANGED <<slog, tape, minted>>

StopDetach(r) ==
    /\ Serving /\ req[r].pc = "detach"
    /\ Detached({req[r].log})
    /\ service' = [service EXCEPT !.closing = @ \cup {p[1] : p \in req[r].hands}]
    /\ Over(r)
    /\ UNCHANGED minted

-----------------------------------------------------------------------------
(* start *)

\* Refused while the session is recording or another start is under way.
StartAdmit(r) ==
    LET l == req[r].log
    IN  /\ Serving /\ req[r].pc = "start"
        /\ IF service.active[l] # NoRec \/ l \in service.starting
           THEN Over(r) /\ UNCHANGED service
           ELSE To(r, "inner") /\ service' = [service EXCEPT !.starting = @ \cup {l}]
        /\ UNCHANGED <<slog, tape, minted>>

\* writing_ids.
WritingIds ==
    ({service.active[l] : l \in Log} \ {NoRec}) \cup {q \in service.closing : Running(q)}

\* start_inner up to the blocking part: the id, and what is being written now.
StartInner(r) ==
    /\ Serving /\ req[r].pc = "inner"
    /\ minted' = Append(minted, r)
    /\ req' = [req EXCEPT ![r].pc = "scan", ![r].writing = WritingIds]
    /\ UNCHANGED <<slog, service, tape>>

\* Recording p has the older id.
Older(p, q) == \E i, j \in DOMAIN minted : i < j /\ minted[i] = p /\ minted[j] = q

\* Mutant: an unfinished recording counts as one nobody writes.
VictimsOfAny(writing, aged) ==
    LET found == {q \in Req : tape[q].dir \in {"open", "done"} /\ ~tape[q].kept}
        free  == found \ writing
        old   == free \cap {minted[i] : i \in 1..aged}
        cands == free \ old
        total == Cardinality(found \ old)
    IN  old \cup {q \in cands : total > StoreBudget + Cardinality({p \in cands : Older(p, q)})}

\* prune decides on a scan: the unkept finished recordings nobody writes that
\* are over the age (the oldest `aged' ids), then the oldest while the rest of the
\* unkept ones is over the budget.
Victims(writing, aged) ==
    LET found == {q \in Req : tape[q].dir \in {"open", "done"} /\ ~tape[q].kept}
        free  == {q \in found \ writing : tape[q].dir = "done"}
        old   == free \cap {minted[i] : i \in 1..aged}
        cands == free \ old
        total == Cardinality(found \ old)
    IN  old \cup {q \in cands : total > StoreBudget + Cardinality({p \in cands : Older(p, q)})}

PruneScan(r) ==
    /\ Serving /\ req[r].pc = "scan"
    /\ \E aged \in 0..Len(minted) :
          req' = [req EXCEPT ![r].pc = "prune", ![r].hands = Victims(req[r].writing, aged)]
    /\ UNCHANGED <<slog, service, tape, minted>>

\* The directories of the scan go one after the other; one that cannot be removed
\* stays.
PruneDelete(r) ==
    /\ Serving /\ req[r].pc = "prune"
    /\ IF req[r].hands = {} THEN To(r, "create") /\ UNCHANGED tape
       ELSE \E q \in req[r].hands :
               /\ \/ tape' = [tape EXCEPT ![q].dir = "gone", ![q].kept = FALSE]
                  \/ "fail" \in Ops /\ UNCHANGED tape
               /\ req' = [req EXCEPT ![r].hands = @ \ {q}]
    /\ UNCHANGED <<slog, service, minted>>

\* The directory with its manifest.  A start whose future was dropped ends here:
\* the blocking part runs on, and nothing comes after it.
Create(r) ==
    /\ Serving /\ req[r].pc = "create"
    /\ \/ /\ tape' = [tape EXCEPT ![r].dir = "open", ![r].boot = service.boot, ![r].log = req[r].log]
          /\ IF req[r].op = "dropped" THEN Over(r) ELSE To(r, "attach")
       \/ /\ "fail" \in Ops
          /\ IF req[r].op = "dropped" THEN Over(r) ELSE To(r, "refused")
          /\ UNCHANGED tape
    /\ UNCHANGED <<slog, service, minted>>

\* The caller of a start goes away while the blocking part runs (the viewer's
\* HTTP connection): the log is let go, `starting' keeps its entry.
StartDropped(r) ==
    /\ "abandon" \in Ops /\ Serving
    /\ req[r].pc \in {"scan", "prune", "create"} /\ req[r].op = "start"
    /\ req' = [req EXCEPT ![r].op = "dropped", ![r].log = "none"]
    /\ UNCHANGED <<slog, service, tape, minted>>

\* The thread starts, then its queue is attached to the log, unless the log has
\* a sink: the queue is dropped then, which ends the thread.
Attach(r) ==
    LET l == req[r].log
        free == slog[l].sink = NoRec
    IN  /\ Serving /\ req[r].pc = "attach"
        /\ slog' = IF free THEN [slog EXCEPT ![l].sink = r] ELSE slog
        /\ tape' = [tape EXCEPT ![r].thread = "run", ![r].ends = ~free]
        /\ To(r, IF free THEN "enter" ELSE "refused")
        /\ UNCHANGED <<service, minted>>

StartEnds(r) ==
    LET l == req[r].log
    IN  /\ Serving /\ req[r].pc \in {"enter", "refused"}
        /\ service' = [service EXCEPT !.starting = @ \ {l},
                                      !.active[l] = IF req[r].pc = "enter" THEN r ELSE @]
        /\ Over(r)
        /\ UNCHANGED <<slog, tape, minted>>

-----------------------------------------------------------------------------
(* Recorders, logs, keep marks, the daemon *)

\* A recorder ends when its queue has closed, or by itself when it cannot write;
\* its manifest is finished unless that cannot be written either.
RecorderStops(q) ==
    /\ Serving /\ Running(q)
    /\ tape[q].ends \/ "fail" \in Ops
    /\ \E dir \in {"done"} \cup (IF "fail" \in Ops /\ ~tape[q].ends THEN {tape[q].dir} ELSE {}) :
          tape' = [tape EXCEPT ![q].thread = "done",
                               ![q].dir = IF @ = "gone" THEN @ ELSE dir]
    /\ UNCHANGED <<slog, service, req, minted>>

\* Mutant: the log of a closed session keeps its sink.
LogDroppedKeeps(l) ==
    /\ Serving /\ ~Held(l) /\ slog[l].sink # NoRec
    /\ slog' = [slog EXCEPT ![l].sink = NoRec]
    /\ UNCHANGED <<service, req, tape, minted>>

\* Nobody has the log any more: its sink is dropped with it.
LogDropped(l) ==
    /\ Serving /\ ~Held(l) /\ slog[l].sink # NoRec
    /\ slog' = [slog EXCEPT ![l].sink = NoRec]
    /\ tape' = [tape EXCEPT ![slog[l].sink].ends = TRUE]
    /\ UNCHANGED <<service, req, minted>>

\* set_keep: every recording with a manifest can be marked and unmarked.
Keep(q) ==
    /\ "keep" \in Ops /\ service.life = "up"
    /\ tape[q].dir \in {"open", "done"}
    /\ tape' = [tape EXCEPT ![q].kept = ~@]
    /\ UNCHANGED <<slog, service, req, minted>>

\* shutdown: every recording is stopped ...
Shutdown ==
    /\ "shutdown" \in Ops /\ service.life = "up"
    /\ Detached(LogsOf(Req))
    /\ service' = [service EXCEPT !.life = "stopping", !.active = [l \in Log |-> NoRec],
                      !.closing = @ \cup ({service.active[l] : l \in Log} \ {NoRec})]
    /\ UNCHANGED <<req, minted>>

ProcessEnds ==
    /\ slog' = [l \in Log |-> [open |-> FALSE, sink |-> NoRec]]
    /\ service' = [life |-> "down", boot |-> service.boot, active |-> [l \in Log |-> NoRec],
                   starting |-> {}, closing |-> {}, todo |-> {}, missed |-> {}]
    /\ req' = [r \in Req |-> IF req[r].pc = "idle" THEN Idle ELSE [Idle EXCEPT !.pc = "over"]]
    /\ tape' = [q \in Req |-> IF Running(q) THEN [tape[q] EXCEPT !.thread = "done"] ELSE tape[q]]
    /\ UNCHANGED minted

\* ... and joined, for 10 s at most.
ShutdownEnds == service.life = "stopping" /\ ProcessEnds

Kill == "crash" \in Ops /\ service.life # "down" /\ ProcessEnds

Unfinished == {q \in Req : tape[q].dir = "open"}

\* A new daemon, with new sessions.  Before it accepts requests it scans for what
\* its predecessors left unfinished.
Boot ==
    /\ service.life = "down" /\ service.boot < MaxBoot
    /\ service' = [service EXCEPT !.life = "starting", !.boot = @ + 1, !.todo = Unfinished]
    /\ slog' = [l \in Log |-> [open |-> TRUE, sink |-> NoRec]]
    /\ UNCHANGED <<req, tape, minted>>

\* Mutant: the rest is left when a manifest cannot be written.
FinalizeOrStop ==
    /\ service.life = "starting"
    /\ \E q \in service.todo :
          \/ /\ tape' = [tape EXCEPT ![q].dir = "done"]
             /\ service' = [service EXCEPT !.todo = @ \ {q}]
          \/ /\ "fail" \in Ops
             /\ service' = [service EXCEPT !.todo = {}, !.missed = @ \cup {q}]
             /\ UNCHANGED tape
    /\ UNCHANGED <<slog, req, minted>>

\* finalize_leftovers, one directory at a time: each is tried once, and stays as it
\* is when its manifest cannot be written.
FinalizeLeftover ==
    /\ service.life = "starting"
    /\ \E q \in service.todo :
          \/ /\ tape' = [tape EXCEPT ![q].dir = "done"]
             /\ service' = [service EXCEPT !.todo = @ \ {q}]
          \/ /\ "fail" \in Ops
             /\ service' = [service EXCEPT !.todo = @ \ {q}, !.missed = @ \cup {q}]
             /\ UNCHANGED tape
    /\ UNCHANGED <<slog, req, minted>>

\* Then the prune, before the first request is accepted.
Startup ==
    /\ service.life = "starting" /\ service.todo = {}
    /\ \E aged \in 0..Len(minted) : \E stuck \in SUBSET Req :
          /\ stuck # {} => "fail" \in Ops
          /\ tape' = [q \in Req |-> IF q \in Victims({}, aged) \ stuck
                                    THEN [tape[q] EXCEPT !.dir = "gone"] ELSE tape[q]]
    /\ service' = [service EXCEPT !.life = "up"]
    /\ UNCHANGED <<slog, req, minted>>

\* The settings cannot be read, or the blocking task dies: requests are accepted all
\* the same.
StartupFails ==
    /\ "fail" \in Ops /\ service.life = "starting"
    /\ service' = [service EXCEPT !.life = "up", !.todo = {}, !.missed = @ \cup service.todo]
    /\ UNCHANGED <<slog, req, tape, minted>>

StartStep(r) ==
    StartAdmit(r) \/ StartInner(r) \/ PruneScan(r) \/ PruneDelete(r) \/ Create(r) \/ Attach(r)
    \/ StartEnds(r)

ReqStep(r) == ReapDetach(r) \/ Annotate(r) \/ StopTake(r) \/ StopDetach(r) \/ StartStep(r)

ServiceNext ==
    \/ \E r \in Req, l \in Log, op \in Ops : Begin(r, op, l)
    \/ \E r \in Req, l \in Log : SessionClosed(r, l)
    \/ \E r \in Req : ReqStep(r) \/ StartDropped(r) \/ RecorderStops(r) \/ Keep(r)
    \/ \E l \in Log : LogDropped(l)
    \/ Shutdown \/ ShutdownEnds \/ Kill \/ Boot \/ FinalizeLeftover \/ Startup \/ StartupFails

ServiceSpec == ServiceInit /\ [][ServiceNext]_serviceVars

-----------------------------------------------------------------------------
(* Properties *)

\* Who holds recording q of log l: it is active, or a request is about to enter
\* it or to detach it.
InHand(q, l) ==
    \/ service.active[l] = q
    \/ req[q].pc = "enter"
    \/ \E r \in Req : req[r].pc \in {"reaped", "detach"} /\ <<q, l>> \in req[r].hands

\* While anybody has a session's log, its sink belongs to a recording that can
\* still be stopped, and a request that detaches the sink of a recording it took
\* out of `active' never hits the sink of a later one: no order of starts,
\* stops, closes and dead recorders leaves a session recorded that nobody can
\* stop, or stops what nobody asked to stop (start, reap, stop, shutdown).
RecordingsCanBeStopped ==
    /\ \A l \in Log :
          service.life = "up" /\ Held(l) /\ slog[l].sink # NoRec => InHand(slog[l].sink, l)
    /\ \A r \in Req : req[r].pc \in {"reaped", "detach"} =>
          \A p \in req[r].hands : Held(p[2]) => slog[p[2]].sink \in {NoRec, p[1]}

\* A directory goes only after its recorder has finished its manifest: a scan
\* made before a recording started, or while it was stopping, does not take it
\* (start_inner, prune).
UnfinishedStays ==
    [][\A q \in Req : tape[q].dir = "open" => tape'[q].dir # "gone"]_serviceVars

\* Once requests are accepted, an unfinished recording belongs to this daemon, or
\* this daemon failed to finish it, or to begin with that, at its start: also when
\* a daemon died while it was finishing the recordings of the one before it.  The
\* comment of startup, "after it, every unfinished recording belongs to this
\* daemon" (mod.rs:276-278), is without that exception.
UnfinishedIsOurs ==
    Serving => \A q \in Req : tape[q].dir = "open" =>
                  tape[q].boot = service.boot \/ q \in service.missed

\* `starting' holds the "session logs whose recording is being set up".
StartingIsBeingSetUp ==
    \A l \in service.starting : \E r \in Req : req[r].log = l /\ req[r].pc # "over"

\* The recorders of a session that has closed end, also the one whose start was
\* under way when session_closed looked (session_closed, start, Drop for
\* QueueSink).
ClosedIsFinished ==
    \A l \in Log : (service.life = "up" /\ ~slog[l].open) ~>
        (service.life # "up" \/ \A q \in Req : tape[q].log = l => ~Running(q))
=============================================================================
