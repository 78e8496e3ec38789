------------------------------ MODULE ClientCall ------------------------------
(***************************************************************************)
(* One call of a client program (crates/rdpilot-cli, rdpilot-mcp) on the   *)
(* daemon (rdpilot-ipc transport.rs, rdpilot-daemon ipc/unix.rs,           *)
(* ipc/windows.rs, ipc/mod.rs serve_connection, dispatch.rs, server.rs     *)
(* run): the client's own checks, a daemon found or started, the probe of  *)
(* its version, the request, its answer, the acknowledgement of a connect, *)
(* and what the exit code says of all that.                                *)
(*                                                                         *)
(* Daemon processes start, stop, fail and are killed at any step.  `name'  *)
(* is the socket file on Unix; on Windows the pipe's name is in use as     *)
(* long as a process has an instance of it.  What a request does to a      *)
(* session is in the modules of its part: here it is done or refused,      *)
(* except for the file a `get' writes.                                     *)
(***************************************************************************)
EXTENDS Naturals, FiniteSets

CONSTANTS
    Caller,      \* client processes
    MaxProcess,  \* bound on the daemon processes
    Verb,        \* the verbs that are called, of the names of VerbCall below
    Platforms,   \* subset of {"unix", "windows"}
    MaxTries     \* length of the backoff sequence

ASSUME ClientAssumption == MaxTries \in Nat /\ MaxProcess \in Nat \ {0} /\ Platforms \subseteq {"unix", "windows"}
ASSUME CallerAssumption == Caller \cap {"unnamed", "absent", "theirs", "whole"} = {}

\* In the order in which they are started; 0 is none.
DaemonProcess == 1 .. MaxProcess

VARIABLES
    platform,
    name,    \* the process whose socket file has the path
    proc,    \* each daemon process: [pc, saw, ours]; ours: of the client's wire version
    raced,   \* a socket file was removed under a process that listened on it
    cl,      \* each client: [verb, pc, to, tries, exit, told]; exit: a class of CliError
    link,    \* its connection: [srv, up, down]; up a request, down an answer or an error
    ses,     \* the session of its connect: "none", "opening", "open", "kept"
    did,     \* whether the daemon has done what the client asked for
    dest     \* the local file of a `get': "unnamed", "absent", "theirs", "whole", or whose part it is

callVars == <<platform, name, proc, raced, cl, link, ses, did, dest>>

-----------------------------------------------------------------------------
(* The vocabulary: what a verb asks for, what it takes for success, what the *)
(* daemon answers, and the way of an error to an exit code.                  *)

\* What each verb sends and the only answer it takes for success; `replace' is
\* `get --force', `cua' is rdpilot-mcp.
Sent(op, ok) == [op |-> op, ok |-> ok]
SessionVerbs == [connect |-> Sent("Connect", "Connected"), list |-> Sent("List", "SessionList")]
OwnerVerbs == [takeover |-> Sent("Takeover", "TakenOver"), disconnect |-> Sent("Disconnect", "Ack"), ping |-> Sent("Ping", "Ack")]
InputVerbs == [click |-> Sent("Mouse", "Ack"), key |-> Sent("Key", "Ack")]
PerceiveVerbs == [screenshot |-> Sent("Screenshot", "Screenshot")]
FileVerbs == [put |-> Sent("Put", "Transfer"), get |-> Sent("Get", "Transfer"), replace |-> Sent("Get", "Transfer")]
RecordVerbs ==
    [record |-> Sent("RecordStart", "RecordingChanged"), stop |-> Sent("RecordStop", "RecordingChanged"),
     annotate |-> Sent("Annotate", "RecordingChanged"), keep |-> Sent("RecordingKeep", "RecordingChanged"),
     recordings |-> Sent("RecordingList", "Recordings")]
ViewVerb == [view |-> Sent("ViewerStart", "ViewerStarted")]
McpVerb == [cua |-> Sent("CuaAttach", "CuaAttached")]
VerbCall ==
    [connect |-> SessionVerbs.connect, list |-> SessionVerbs.list, takeover |-> OwnerVerbs.takeover,
     disconnect |-> OwnerVerbs.disconnect, ping |-> OwnerVerbs.ping, click |-> InputVerbs.click, key |-> InputVerbs.key,
     screenshot |-> PerceiveVerbs.screenshot, put |-> FileVerbs.put, get |-> FileVerbs.get, replace |-> FileVerbs.replace,
     record |-> RecordVerbs.record, stop |-> RecordVerbs.stop, annotate |-> RecordVerbs.annotate, keep |-> RecordVerbs.keep,
     recordings |-> RecordVerbs.recordings, view |-> ViewVerb.view, cua |-> McpVerb.cua]

\* Beside these there is a verb that needs no daemon.
ASSUME VerbAssumption == Verb \subseteq DOMAIN VerbCall \cup {"config"}

\* SessionScoped: the requests that name a session.
Scoped ==
    {"Disconnect", "Ping", "Screenshot", "Mouse", "Key", "Put", "Get", "CuaAttach", "RecordStart", "RecordStop",
     "Annotate", "Takeover"}

\* What dispatch_for_ipc answers when the operation succeeds; CuaAttach and
\* ViewerStart are answered by serve_connection, which then holds the connection.
Answer ==
    [List |-> "SessionList", Connect |-> "Connected", Disconnect |-> "Ack", Ping |-> "Ack", Screenshot |-> "Screenshot",
     Put |-> "Transfer", Get |-> "Transfer", Mouse |-> "Ack", Key |-> "Ack", Takeover |-> "TakenOver",
     RecordStart |-> "RecordingChanged", RecordStop |-> "RecordingChanged", Annotate |-> "RecordingChanged",
     RecordingList |-> "Recordings", RecordingKeep |-> "RecordingChanged"]
Held == [ViewerStart |-> "ViewerStarted", CuaAttach |-> "CuaAttached"]

\* The errors before anything is done: a session that is not live, a lease that a
\* human has, a recording that cannot be, a name that is taken or a bundle that
\* cannot be had.
LiveSession(op) == IF op \in Scoped THEN {"not found"} ELSE {}
Admission(op) == IF op \in {"Mouse", "Key"} THEN {"human control"} ELSE {}
Refusals(op) ==
    IF op = "Connect" THEN {"duplicate", "bundle"}
    ELSE IF op \in {"CuaAttach", "ViewerStart"} THEN {"connect"}
    ELSE LiveSession(op) \cup Admission(op) \cup (IF op = "RecordingKeep" THEN {"recording"} ELSE {})

\* The errors of work that had begun.
TransferErrors(op) == IF op \in {"Put", "Get"} THEN {"checksum", "path traversal", "session closed"} ELSE {}
Failures(op) ==
    IF op \in {"CuaAttach", "ViewerStart"} THEN {"connect"} ELSE {"sdk"} \cup Admission(op) \cup TransferErrors(op)

\* rdpilot::Error and DaemonError to the code on the wire.
wire_code_for_sdk_error(e) == IF e = "checksum" THEN "checksum-mismatch" ELSE IF e = "path traversal" THEN "path-traversal" ELSE "internal"
WireError(e) ==
    CASE e = "duplicate" -> "duplicate-session"
      [] e = "not found" -> "session-not-found"
      [] e = "bundle" -> "bundle-unavailable"
      [] e = "human control" -> "human-control"
      [] e = "recording" -> "recording"
      [] e = "session closed" -> "transfer-failed"
      [] OTHER -> wire_code_for_sdk_error(e)

\* The exit code of a class of CliError or of a code of the wire.
code_for(e) ==
    CASE e = "ok" -> 0
      [] e = "session-not-found" -> 2
      [] e = "daemon-unreachable" -> 3
      [] e = "transfer-failed" -> 4
      [] e = "path-traversal" -> 5
      [] e = "checksum-mismatch" -> 6
      [] e = "duplicate-session" -> 7
      [] e = "no-clobber" -> 8
      [] e = "bundle-unavailable" -> 9
      [] e = "human-control" -> 10
      [] e = "daemon-incompatible" -> 12
      [] OTHER -> 1

WireCode == {WireError(e) : e \in UNION {Refusals(VerbCall[v].op) \cup Failures(VerbCall[v].op) : v \in DOMAIN VerbCall}}

-----------------------------------------------------------------------------
NoProc == [pc |-> "none", saw |-> 0, ours |-> TRUE]
NoCall == [verb |-> "none", pc |-> "idle", to |-> 0, tries |-> 0, exit |-> "none", told |-> "nothing"]
NoConnection == [srv |-> "none", up |-> "none", down |-> "none"]

\* A daemon of any version may be there already.
ClientInit ==
    /\ platform \in Platforms
    /\ \E ours \in BOOLEAN :
          \/ proc = [p \in DaemonProcess |-> NoProc] /\ name = 0
          \/ /\ proc = [p \in DaemonProcess |-> IF p = 1 THEN [NoProc EXCEPT !.pc = "serving", !.ours = ours] ELSE NoProc]
             /\ name = IF platform = "unix" THEN 1 ELSE 0
    /\ raced = FALSE
    /\ cl = [c \in Caller |-> NoCall]
    /\ link = [c \in Caller |-> NoConnection]
    /\ ses = [c \in Caller |-> "none"]
    /\ did = [c \in Caller |-> FALSE]
    /\ dest = "unnamed"

Listens(d) == proc[d].pc \in {"bound", "serving", "draining"}
Alive(d) == proc[d].pc \notin {"none", "ended"}
At(d, c) == cl[c].to = d /\ link[c].srv \notin {"none", "closed"}

\* Where a connect of a client or of a probing daemon arrives.  A pipe instance
\* takes one client, and the next one is made when that one is accepted.
Reached ==
    IF platform = "unix" THEN {d \in DaemonProcess : d = name /\ Listens(d)}
    ELSE {d \in DaemonProcess : Listens(d) /\ \A c \in Caller : ~(At(d, c) /\ link[c].srv = "queued")}

\* Only a handle that is open keeps a pipe's name.
NameInUse(d) == \E e \in DaemonProcess \ {d} : Listens(e) \/ (proc[e].pc \in {"deaf", "leaving"} /\ \E c \in Caller : At(e, c))

-----------------------------------------------------------------------------
(* The start of a daemon: bind, then run up to its accept loop.             *)

\* unix::bind asks first whether the path exists.
Started(p) == [p EXCEPT !.pc = IF platform = "unix" /\ name # 0 THEN "probe" ELSE "bind"]

Startable(d) == proc[d].pc = "none" /\ \A e \in 1 .. d - 1 : proc[e].pc # "none"

DaemonRuns(d) ==
    /\ Startable(d)
    /\ proc' = [proc EXCEPT ![d] = Started(@)]
    /\ UNCHANGED <<platform, name, raced, cl, link, ses, did, dest>>

\* Mutant: a daemon that answers the probe is taken for a stale file as well.
BindProbesBlindly(d) ==
    /\ proc[d].pc = "probe"
    /\ proc' = [proc EXCEPT ![d].pc = "unlink", ![d].saw = name]
    /\ UNCHANGED <<platform, name, raced, cl, link, ses, did, dest>>

\* A connect that succeeds is a live daemon, one that fails a stale file.
BindProbes(d) ==
    /\ proc[d].pc = "probe"
    /\ proc' = [proc EXCEPT ![d].pc = IF Reached = {} THEN "unlink" ELSE "ended",
                            ![d].saw = IF Reached = {} THEN name ELSE 0]
    /\ UNCHANGED <<platform, name, raced, cl, link, ses, did, dest>>

\* remove_file takes whatever has the path by now; without a file it fails, and
\* the daemon with it.
BindUnlinks(d) ==
    /\ proc[d].pc = "unlink"
    /\ proc' = [proc EXCEPT ![d].pc = IF name = 0 THEN "ended" ELSE "bind", ![d].saw = 0]
    /\ name' = 0
    /\ raced' = (raced \/ (name # proc[d].saw /\ Reached # {}))
    /\ UNCHANGED <<platform, cl, link, ses, did, dest>>

\* The loser of a race finds the address in use and ends without an error.
BindEnds(d) ==
    /\ proc[d].pc = "bind"
    /\ IF platform = "unix"
         THEN /\ proc' = [proc EXCEPT ![d].pc = IF name = 0 THEN "bound" ELSE "ended"]
              /\ name' = IF name = 0 THEN d ELSE name
         ELSE /\ proc' = [proc EXCEPT ![d].pc = IF NameInUse(d) THEN "ended" ELSE "bound"]
              /\ UNCHANGED name
    /\ UNCHANGED <<platform, raced, cl, link, ses, did, dest>>

\* Sink, connector, recordings, orphans, watchers; then the accept loop.
DaemonServes(d) ==
    /\ proc[d].pc = "bound"
    /\ proc' = [proc EXCEPT ![d].pc = "serving"]
    /\ UNCHANGED <<platform, name, raced, cl, link, ses, did, dest>>

-----------------------------------------------------------------------------
(* The end of a daemon.                                                     *)

\* A connection ends with the process; what was written is still read.
Cut(d) ==
    /\ link' = [c \in Caller |-> IF At(d, c) THEN [link[c] EXCEPT !.srv = "closed", !.up = "none"] ELSE link[c]]
    /\ ses' = [c \in Caller |-> IF At(d, c) /\ ses[c] # "kept" THEN "none" ELSE ses[c]]

\* The empty watcher: no session is there.
DaemonDrains(d) ==
    /\ proc[d].pc \in {"serving", "deaf"}
    /\ \A c \in Caller : cl[c].to = d => ses[c] = "none"
    /\ proc' = [proc EXCEPT ![d].pc = IF @ = "deaf" THEN "leaving" ELSE "draining"]
    /\ UNCHANGED <<platform, name, raced, cl, link, ses, did, dest>>

\* The path is removed last, by its name.
DaemonExits(d) ==
    /\ proc[d].pc \in {"draining", "leaving"}
    /\ proc' = [proc EXCEPT ![d].pc = "ended"]
    /\ name' = 0
    /\ raced' = (raced \/ (name # d /\ Reached # {}))
    /\ Cut(d)
    /\ UNCHANGED <<platform, cl, did, dest>>

\* kill -9, or a start that fails behind the bind: the file stays.
DaemonDies(d) ==
    /\ Alive(d)
    /\ proc' = [proc EXCEPT ![d].pc = "ended", ![d].saw = 0]
    /\ Cut(d)
    /\ UNCHANGED <<platform, name, raced, cl, did, dest>>

-----------------------------------------------------------------------------
(* accept_and_authorize and serve_connection.                               *)

\* A peer of another user is dropped before a frame is read, and so is one whose
\* accept fails.
Accepts(c) ==
    LET d == cl[c].to IN
    /\ link[c].srv = "queued" /\ proc[d].pc = "serving"
    /\ \E s \in {"read", "closed"} : link' = [link EXCEPT ![c].srv = s]
    /\ UNCHANGED <<platform, name, proc, raced, cl, ses, did, dest>>

\* Windows: the pending instance was taken out and no new one could be made.
AcceptFails(c) ==
    LET d == cl[c].to IN
    /\ platform = "windows" /\ link[c].srv = "queued" /\ proc[d].pc = "serving"
    /\ link' = [link EXCEPT ![c].srv = "closed"]
    /\ proc' = [proc EXCEPT ![d].pc = "deaf"]
    /\ UNCHANGED <<platform, name, raced, cl, ses, did, dest>>

Gone(c) == cl[c].pc = "done"

Op(c) == VerbCall[cl[c].verb].op

\* A list is answered at once; the others are worked on.
ServeReads(c) ==
    /\ link[c].srv = "read" /\ link[c].up # "none"
    /\ link' = [link EXCEPT ![c].up = "none",
                            ![c].srv = IF link[c].up = "List" THEN "read" ELSE "work",
                            ![c].down = IF link[c].up = "List" THEN Answer["List"] ELSE @]
    /\ ses' = [ses EXCEPT ![c] = IF link[c].up = "Connect" THEN "opening" ELSE @]
    /\ UNCHANGED <<platform, name, proc, raced, cl, did, dest>>

\* The peer is gone: read_frame fails, and the watch of a connect cancels it.  A
\* request that is not watched is done all the same.
ServeGone(c) ==
    /\ Gone(c) /\ link[c].up = "none"
    /\ \/ link[c].srv \in {"read", "acking", "holding"}
       \/ link[c].srv = "work" /\ Op(c) = "Connect"
    /\ link' = [link EXCEPT ![c].srv = "closed"]
    /\ ses' = [ses EXCEPT ![c] = IF @ = "kept" THEN @ ELSE "none"]
    /\ UNCHANGED <<platform, name, proc, raced, cl, did, dest>>

\* An error is the answer, and a connection that should be held ends with it.
Refused(c, e) ==
    /\ dest # c
    /\ link' = [link EXCEPT ![c].srv = IF Op(c) \in DOMAIN Held THEN "closed" ELSE "read",
                            ![c].down = WireError(e)]
    /\ ses' = [ses EXCEPT ![c] = "none"]

DispatchRefuses(c) ==
    /\ link[c].srv = "work" /\ ~did[c]
    /\ \E e \in Refusals(Op(c)) : Refused(c, e)
    /\ UNCHANGED <<platform, name, proc, raced, cl, did, dest>>

\* A drag that a take interrupts, a transfer that a close interrupts: part of the
\* work may be done.
DispatchFails(c) ==
    /\ link[c].srv = "work"
    /\ \E e \in Failures(Op(c)) : Refused(c, e)
    /\ did' = [did EXCEPT ![c] = TRUE]
    /\ UNCHANGED <<platform, name, proc, raced, cl, dest>>

Dispatched(c) ==
    /\ link[c].srv = "work" /\ Op(c) \notin {"Connect", "Get"} \cup DOMAIN Held
    /\ did' = [did EXCEPT ![c] = TRUE]
    /\ link' = [link EXCEPT ![c].down = Answer[Op(c)], ![c].srv = "read"]
    /\ UNCHANGED <<platform, name, proc, raced, cl, ses, dest>>

\* A screenshot above MAX_FRAME_LEN: the connection ends without an answer.
AnswerUnwritten(c) ==
    /\ link[c].srv = "work" /\ Op(c) = "Screenshot"
    /\ did' = [did EXCEPT ![c] = TRUE]
    /\ link' = [link EXCEPT ![c].srv = "closed"]
    /\ UNCHANGED <<platform, name, proc, raced, cl, ses, dest>>

\* The viewer or the Cua stream has the connection from here on.
DispatchHolds(c) ==
    /\ link[c].srv = "work" /\ Op(c) \in DOMAIN Held
    /\ did' = [did EXCEPT ![c] = TRUE]
    /\ link' = [link EXCEPT ![c].down = Held[Op(c)], ![c].srv = "holding"]
    /\ UNCHANGED <<platform, name, proc, raced, cl, ses, dest>>

\* download_file: the destination is created new, filled, and removed if that
\* fails or its sum is wrong; a sum that cannot be read leaves it whole.  A forced `get' names the file of a private directory instead.
GetCreates(c) ==
    /\ link[c].srv = "work" /\ cl[c].verb = "get" /\ dest = "absent"
    /\ dest' = c
    /\ UNCHANGED <<platform, name, proc, raced, cl, link, ses, did>>

GetEnds(c) ==
    /\ link[c].srv = "work"
    /\ \/ cl[c].verb = "get" /\ dest = c /\ dest' = "whole"
       \/ cl[c].verb = "replace" /\ UNCHANGED dest
    /\ did' = [did EXCEPT ![c] = TRUE]
    /\ link' = [link EXCEPT ![c].srv = "read", ![c].down = Answer["Get"]]
    /\ UNCHANGED <<platform, name, proc, raced, cl, ses>>

GetFails(c) ==
    /\ link[c].srv = "work" /\ dest = c
    /\ dest' \in {"absent", "whole"}
    /\ \E e \in Failures("Get") : link' = [link EXCEPT ![c].srv = "read", ![c].down = WireError(e)]
    /\ UNCHANGED <<platform, name, proc, raced, cl, ses, did>>

\* dispatch_connect: prepared, open, recorded, booted; the answer is written.
ConnectOpens(c) ==
    /\ link[c].srv = "work" /\ ses[c] = "opening"
    /\ ses' = [ses EXCEPT ![c] = "open"]
    /\ link' = [link EXCEPT ![c].srv = "acking", ![c].down = Answer["Connect"]]
    /\ did' = [did EXCEPT ![c] = TRUE]
    /\ UNCHANGED <<platform, name, proc, raced, cl, dest>>

ConnectAcked(c) ==
    /\ link[c].srv = "acking" /\ link[c].up = "ConnectAck"
    /\ ses' = [ses EXCEPT ![c] = "kept"]
    /\ link' = [link EXCEPT ![c].srv = "read", ![c].up = "none", ![c].down = "Ack"]
    /\ UNCHANGED <<platform, name, proc, raced, cl, did, dest>>

\* CONNECT_ACK_TIMEOUT: the session is closed by its lease.
AckTimesOut(c) ==
    /\ link[c].srv = "acking"
    /\ ses' = [ses EXCEPT ![c] = "none"]
    /\ link' = [link EXCEPT ![c].srv = "closed"]
    /\ UNCHANGED <<platform, name, proc, raced, cl, did, dest>>

-----------------------------------------------------------------------------
(* The client: what it does before it opens a connection.                   *)

Exits(c, code) == cl' = [cl EXCEPT ![c].pc = "done", ![c].exit = code]

\* What is found at the destination of a `get'.
Found(v) == IF v \in {"get", "replace"} /\ dest = "unnamed" THEN {"absent", "theirs"} ELSE {dest}

\* `config resolve' needs no daemon.  The others build their request: session ids
\* and key names that parse, a target with its password, a path that is absolute.
Begins(c, v) ==
    /\ cl[c].pc = "idle"
    /\ cl' = [cl EXCEPT ![c].verb = v, ![c].pc = IF v = "config" THEN "done" ELSE "open",
                        ![c].exit = IF v = "config" THEN "ok" ELSE "none"]
    /\ dest' \in Found(v) /\ (v = "get" => dest' = "absent")
    /\ did' = [did EXCEPT ![c] = (v = "config")]
    /\ UNCHANGED <<platform, name, proc, raced, link, ses>>

\* An empty session id, an unknown key name, a hosts file, a missing value; a list
\* has no arguments.
BeginFails(c, v) ==
    /\ cl[c].pc = "idle" /\ v \notin {"list", "recordings"}
    /\ cl' = [cl EXCEPT ![c].verb = v, ![c].pc = "done", ![c].exit = "config"]
    /\ UNCHANGED <<platform, name, proc, raced, link, ses, did, dest>>

\* PasswordCommand: it does not start, fails, prints nothing, or is killed after
\* its timeout.
PasswordFails(c, v) ==
    /\ cl[c].pc = "idle" /\ v = "connect"
    /\ cl' = [cl EXCEPT ![c].verb = v, ![c].pc = "done", ![c].exit = "config"]
    /\ UNCHANGED <<platform, name, proc, raced, link, ses, did, dest>>

\* No private directory beside the destination of a forced `get'.
StageFails(c, v) ==
    /\ cl[c].pc = "idle" /\ v = "replace"
    /\ cl' = [cl EXCEPT ![c].verb = v, ![c].pc = "done", ![c].exit = "internal"]
    /\ UNCHANGED <<platform, name, proc, raced, link, ses, did, dest>>

\* `get' looks for its destination before it asks.
BeginRefuses(c, v) ==
    /\ cl[c].pc = "idle" /\ v = "get"
    /\ dest' \in Found(v) \ {"absent"}
    /\ cl' = [cl EXCEPT ![c].verb = v, ![c].pc = "done", ![c].exit = "no-clobber"]
    /\ UNCHANGED <<platform, name, proc, raced, link, ses, did>>

\* Any other program.
OtherWrites ==
    /\ dest = "absent"
    /\ dest' = "theirs"
    /\ UNCHANGED <<platform, name, proc, raced, cl, link, ses, did>>

-----------------------------------------------------------------------------
(* connect_or_spawn and connect_existing.                                   *)

Opens(c) ==
    /\ cl[c].pc = "open"
    /\ \E d \in Reached :
          /\ cl' = [cl EXCEPT ![c].pc = "probe", ![c].to = d]
          /\ link' = [link EXCEPT ![c] = [srv |-> "queued", up |-> "List", down |-> "none"]]
    /\ UNCHANGED <<platform, name, proc, raced, ses, did, dest>>

\* The first failure starts a daemon of the client's own version.
OpenSpawns(c) ==
    /\ cl[c].pc = "open" /\ Reached = {} /\ cl[c].tries = 0 /\ cl[c].verb # "view"
    /\ \E d \in DaemonProcess :
          /\ Startable(d)
          /\ proc' = [proc EXCEPT ![d] = Started(@)]
    /\ cl' = [cl EXCEPT ![c].tries = 1]
    /\ UNCHANGED <<platform, name, raced, link, ses, did, dest>>

OpenRetries(c) ==
    /\ cl[c].pc = "open" /\ Reached = {} /\ cl[c].tries \in 1 .. MaxTries
    /\ cl' = [cl EXCEPT ![c].tries = @ + 1]
    /\ UNCHANGED <<platform, name, proc, raced, link, ses, did, dest>>

\* No daemon and a verb that starts none, no executable to start, or the end of
\* the backoff.
OpenFails(c) ==
    /\ cl[c].pc = "open" /\ Reached = {}
    /\ cl[c].tries \in {0, MaxTries + 1}
    /\ Exits(c, "daemon-unreachable")
    /\ UNCHANGED <<platform, name, proc, raced, link, ses, did, dest>>

-----------------------------------------------------------------------------
(* verified_round_trip, connect_round_trip and what each verb expects.      *)

Sends(c, pc, message) ==
    /\ cl' = [cl EXCEPT ![c].pc = pc, ![c].told = message]
    /\ link' = [link EXCEPT ![c].down = "none", ![c].up = message]

\* Mutant: a list is a list, whatever its version.
validate_preflight_lax(d) == d \in DaemonProcess

validate_preflight(d) == proc[d].ours

Probed(c) ==
    /\ cl[c].pc = "probe" /\ link[c].down = "SessionList"
    /\ IF ~validate_preflight(cl[c].to)
         THEN Exits(c, "daemon-incompatible") /\ UNCHANGED <<link, did>>
       ELSE IF cl[c].verb = "list"
         THEN Exits(c, "ok") /\ did' = [did EXCEPT ![c] = TRUE] /\ UNCHANGED link
       ELSE Sends(c, "request", Op(c)) /\ UNCHANGED did
    /\ UNCHANGED <<platform, name, proc, raced, ses, dest>>

AnsweredError(c) ==
    /\ cl[c].pc = "request" /\ link[c].down \in WireCode
    /\ Exits(c, link[c].down)
    /\ UNCHANGED <<platform, name, proc, raced, link, ses, did, dest>>

AnsweredConnect(c) ==
    /\ cl[c].pc = "request" /\ link[c].down = "Connected"
    /\ Sends(c, "acked", "ConnectAck")
    /\ UNCHANGED <<platform, name, proc, raced, ses, did, dest>>

Acked(c) ==
    /\ cl[c].pc = "acked" /\ link[c].down = "Ack"
    /\ Exits(c, "ok")
    /\ UNCHANGED <<platform, name, proc, raced, link, ses, did, dest>>

\* A forced `get' renames the file it has by now; an answer of another kind is an
\* internal error.
AnsweredOk(c) ==
    /\ cl[c].pc = "request" /\ link[c].down \notin WireCode \cup {"none", "Connected"} /\ Op(c) \notin DOMAIN Held
    /\ Exits(c, IF link[c].down = VerbCall[cl[c].verb].ok THEN "ok" ELSE "unexpected")
    /\ dest' = IF cl[c].verb = "replace" THEN "whole" ELSE dest
    /\ UNCHANGED <<platform, name, proc, raced, link, ses, did>>

\* `view' prints its addresses and rdpilot-mcp forwards lines: both hold on.
AnsweredHeld(c) ==
    /\ cl[c].pc = "request" /\ Op(c) \in DOMAIN Held /\ link[c].down = VerbCall[cl[c].verb].ok
    /\ cl' = [cl EXCEPT ![c].pc = "held"]
    /\ link' = [link EXCEPT ![c].down = "none"]
    /\ UNCHANGED <<platform, name, proc, raced, ses, did, dest>>

\* The answer is there and cannot be shown, written or renamed.
RenderFails(c) ==
    /\ cl[c].pc = "request" /\ link[c].down \in {"Screenshot", "Transfer", "SessionList"}
    /\ Exits(c, "internal")
    /\ UNCHANGED <<platform, name, proc, raced, link, ses, did, dest>>

\* The end of the stream, a frame that does not decode.
Lost(c) ==
    /\ cl[c].pc \in {"probe", "request", "acked"} /\ link[c].down = "none" /\ link[c].srv = "closed"
    /\ Exits(c, "transport")
    /\ UNCHANGED <<platform, name, proc, raced, link, ses, did, dest>>

\* ATTACH_TIMEOUT of rdpilot-mcp, over the probe and the attach.
AttachTimesOut(c) ==
    /\ cl[c].pc \in {"probe", "request"} /\ cl[c].verb = "cua"
    /\ Exits(c, "transport")
    /\ UNCHANGED <<platform, name, proc, raced, link, ses, did, dest>>

\* view: Ctrl-C, or the daemon has closed the stream.
ViewEnds(c) ==
    /\ cl[c].pc = "held" /\ cl[c].verb = "view"
    /\ \/ Exits(c, "ok")
       \/ link[c].srv = "closed" /\ Exits(c, "daemon-unreachable")
    /\ UNCHANGED <<platform, name, proc, raced, link, ses, did, dest>>

\* rdpilot-mcp: the caller's end of input, or an error of either direction.
ProxyEnds(c) ==
    /\ cl[c].pc = "held" /\ cl[c].verb = "cua"
    /\ Exits(c, "ok") \/ Exits(c, "transport")
    /\ UNCHANGED <<platform, name, proc, raced, link, ses, did, dest>>

\* The process is killed, or interrupted.
CallerDies(c) ==
    /\ cl[c].pc \notin {"idle", "done"}
    /\ Exits(c, "killed")
    /\ UNCHANGED <<platform, name, proc, raced, link, ses, did, dest>>

-----------------------------------------------------------------------------
ClientNext ==
    \/ \E d \in DaemonProcess :
          \/ DaemonRuns(d) \/ BindProbes(d) \/ BindUnlinks(d) \/ BindEnds(d) \/ DaemonServes(d)
          \/ DaemonDrains(d) \/ DaemonExits(d) \/ DaemonDies(d)
    \/ OtherWrites
    \/ \E c \in Caller :
          \/ Accepts(c) \/ AcceptFails(c) \/ ServeReads(c) \/ ServeGone(c)
          \/ DispatchRefuses(c) \/ Dispatched(c) \/ DispatchFails(c) \/ DispatchHolds(c) \/ AnswerUnwritten(c)
          \/ GetCreates(c) \/ GetEnds(c) \/ GetFails(c)
          \/ ConnectOpens(c) \/ ConnectAcked(c) \/ AckTimesOut(c)
          \/ \E v \in Verb : Begins(c, v) \/ BeginFails(c, v) \/ BeginRefuses(c, v) \/ PasswordFails(c, v) \/ StageFails(c, v)
          \/ Opens(c) \/ OpenSpawns(c) \/ OpenRetries(c) \/ OpenFails(c)
          \/ Probed(c) \/ AnsweredError(c) \/ AnsweredConnect(c) \/ Acked(c) \/ AnsweredOk(c) \/ AnsweredHeld(c)
          \/ RenderFails(c) \/ Lost(c) \/ AttachTimesOut(c) \/ ViewEnds(c) \/ ProxyEnds(c) \/ CallerDies(c)

ClientSpec == ClientInit /\ [][ClientNext]_callVars

-----------------------------------------------------------------------------
(* Properties.                                                              *)

\* unix::bind, windows::bind and the end of run: two daemons listen at once only
\* after a socket file was removed under the daemon that listened on it, by one
\* that had probed the file of another; on Windows they never do.
DaemonsAreOne ==
    raced \/ Cardinality({d \in DaemonProcess : Listens(d)}) <= 1

\* What an exit code promises (verified_round_trip, connect_round_trip, get,
\* exit_codes.rs).  0: the daemon has done it, keeps the session of a connect and
\* has the whole file of a get.  8 and 12: nothing but a list has left the client,
\* so a daemon of another version never sees a credential; nor does 3, except from
\* `view'.  7 and 9: nothing was done.  No answer is of a kind its verb does not
\* expect.  No error of a get leaves a part of its file, and a connection that has
\* ended has left no session that nobody acknowledged.
ExitIsTrue ==
    \A c \in Caller :
        LET code == code_for(cl[c].exit)
            verb == cl[c].verb IN
        /\ code = 0 => /\ did[c]
                       /\ verb = "connect" => ses[c] = "kept"
                       /\ verb \in {"get", "replace"} => dest = "whole"
        /\ code \in {8, 12} \/ cl[c].exit = "config" => cl[c].told = "nothing" /\ ~did[c]
        /\ code = 3 => verb = "view" \/ cl[c].told = "nothing"
        /\ code \in {7, 9} => ~did[c] /\ ses[c] = "none"
        /\ cl[c].exit # "unexpected"
        /\ cl[c].told # "nothing" => proc[cl[c].to].ours
        /\ link[c].srv = "closed" => ses[c] \in {"none", "kept"}
        /\ dest = c => verb = "get" /\ cl[c].exit \in {"none", "killed", "transport"}
=============================================================================
