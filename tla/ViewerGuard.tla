----------------------------- MODULE ViewerGuard -----------------------------
(***************************************************************************)
(* The live viewer as a server (crates/rdpilot-daemon/src/viewer, ipc/     *)
(* mod.rs hold_viewer, the viewer surfaces of registry.rs): one viewer at  *)
(* a time, its addresses, its connections, the checks every request runs   *)
(* through, and the human leases, which end with the viewer.               *)
(*                                                                         *)
(* Everything up to the first await of a request is one step.  A dropped   *)
(* ViewerHandle only asks its tasks to end: the accept task, and with it   *)
(* each connection, is dropped by a later step, and may work until then.   *)
(* What control, recordings and frames do is in SessionControl,            *)
(* RecordingService and FrameCache; here a lease is who holds it, and a    *)
(* write is the effect a request has.                                      *)
(***************************************************************************)
EXTENDS Naturals, FiniteSets

CONSTANTS
    Viewer,         \* connections of `rdpilot view' to the daemon
    Client,         \* TCP connections of browsers
    MaxConnections, \* Limits.max_connections
    Params,         \* what `rdpilot view' may ask for
    Interfaces,     \* interface lists the host may have
    InRange,        \* the addresses of 100.64.0.0/10
    HttpRequest     \* requests that may arrive

ASSUME ViewerAssumption ==
    /\ MaxConnections \in Nat \ {0}
    /\ "lo" \notin InRange
    /\ "none" \notin Viewer \cup Client
    /\ \A p \in Params : p.read_only \in BOOLEAN

VARIABLES
    gate,      \* ViewerGate
    view,      \* each viewer: [pc, read_only, addrs, accepting, permits]
    client,    \* each connection: [pc, viewer, effect]
    human      \* the human lease: [by, viewer, granted, late]

guardVars == <<gate, view, client, human>>

NoView == [pc |-> "idle", read_only |-> FALSE, addrs |-> {}, accepting |-> FALSE, permits |-> MaxConnections]
NoClient == [pc |-> "closed", viewer |-> "none", effect |-> "none"]
NoHuman == [by |-> "none", viewer |-> "none", granted |-> FALSE, late |-> FALSE]

ViewerInit ==
    /\ gate = FALSE
    /\ view = [v \in Viewer |-> NoView]
    /\ client = [c \in Client |-> NoClient]
    /\ human = NoHuman

-----------------------------------------------------------------------------
(* bind.rs                                                                  *)

\* The tailnet address, if there is one without doubt.
select_tailnet_address(interfaces, params) ==
    LET candidates == {i.addr : i \in {j \in interfaces : j.tailscale /\ j.addr \in InRange}} IN
    IF params.bind = "loopback" THEN {}
    ELSE IF params.override # "none"
      THEN {a \in {params.override} : a \in InRange /\ \E i \in interfaces : i.addr = a}
    ELSE IF Cardinality(candidates) = 1 THEN candidates ELSE {}

\* The sets of addresses that may come out of it: the tailnet address on the port
\* of the loopback address, or the loopback address alone.
bind_listeners(tailnet) == {{"lo"}, {"lo"} \cup (tailnet \cap InRange)}

-----------------------------------------------------------------------------
(* hold_viewer and viewer::start                                            *)

\* The gate is taken before anything is bound.
ViewerStarts(v) ==
    /\ view[v].pc = "idle" /\ ~gate
    /\ gate' = TRUE
    /\ view' = [view EXCEPT ![v].pc = "binding"]
    /\ UNCHANGED <<client, human>>

ViewerRefused(v) ==
    /\ view[v].pc = "idle"
    /\ \/ gate
       \/ TRUE    \* no viewer in this daemon, or an address that does not parse
    /\ view' = [view EXCEPT ![v].pc = "off"]
    /\ UNCHANGED <<gate, client, human>>

\* Listeners, token, state, accept tasks and the sweeper.
ViewerBinds(v) ==
    /\ view[v].pc = "binding"
    /\ \E i \in Interfaces, p \in Params :
          \E a \in bind_listeners(select_tailnet_address(i, p)) :
             view' = [view EXCEPT ![v].pc = "answering", ![v].addrs = a, ![v].accepting = TRUE,
                                  ![v].read_only = p.read_only]
    /\ UNCHANGED <<gate, client, human>>

\* No loopback address, or no token.
ViewerBindFails(v) ==
    /\ view[v].pc = "binding"
    /\ gate' = FALSE
    /\ view' = [view EXCEPT ![v].pc = "off"]
    /\ UNCHANGED <<client, human>>

ViewerAnswered(v) ==
    /\ view[v].pc = "answering"
    /\ view' = [view EXCEPT ![v].pc = "holding"]
    /\ UNCHANGED <<gate, client, human>>

\* The early return drops the handle and ends no lease: nobody had the token.
ViewerAnswerFails(v) ==
    /\ view[v].pc = "answering"
    /\ gate' = FALSE
    /\ view' = [view EXCEPT ![v].pc = "off"]
    /\ UNCHANGED <<client, human>>

\* The peer is gone: the handle is dropped, its tasks asked to end, the gate freed.
ViewerStops(v) ==
    /\ view[v].pc = "holding"
    /\ gate' = FALSE
    /\ view' = [view EXCEPT ![v].pc = "stopping"]
    /\ UNCHANGED <<client, human>>

\* Mutant: only the leases of takes that were granted are ended.
EndAllGranted(v) ==
    /\ view[v].pc = "stopping"
    /\ human' = IF human.granted THEN NoHuman ELSE human
    /\ view' = [view EXCEPT ![v].pc = "off"]
    /\ UNCHANGED <<gate, client>>

\* end_all: every human lease ends, whoever serves it by now.
EndAll(v) ==
    /\ view[v].pc = "stopping"
    /\ human' = NoHuman
    /\ view' = [view EXCEPT ![v].pc = "off"]
    /\ UNCHANGED <<gate, client>>

AcceptDropped(v) ==
    /\ view[v].pc \in {"stopping", "off"} /\ view[v].accepting
    /\ view' = [view EXCEPT ![v].accepting = FALSE]
    /\ UNCHANGED <<gate, client, human>>

\* The sweeper of a viewer with control ends a lease whose heartbeat or input
\* has stopped.
Sweep(v) ==
    /\ view[v].accepting /\ ~view[v].read_only
    /\ human.by # "none"
    /\ human' = NoHuman
    /\ UNCHANGED <<gate, view, client>>

-----------------------------------------------------------------------------
(* accept_loop and serve_connection                                         *)

\* Without a permit the stream is dropped at once.
Accept(c, v) ==
    /\ client[c].pc = "closed" /\ view[v].accepting /\ view[v].permits > 0
    /\ view' = [view EXCEPT ![v].permits = @ - 1]
    /\ client' = [client EXCEPT ![c] = [NoClient EXCEPT !.pc = "open", !.viewer = v]]
    /\ UNCHANGED <<gate, human>>

\* A take whose future is dropped before it is granted is undone.
Undone(c) == human' = IF human.by = c /\ ~human.granted THEN NoHuman ELSE human

\* The peer closes, its headers come too late, its writes stall, or the accept
\* task that owned the connection is gone.
ConnectionEnds(c) ==
    /\ client[c].pc # "closed"
    /\ client' = [client EXCEPT ![c] = NoClient]
    /\ view' = [view EXCEPT ![client[c].viewer].permits = @ + 1]
    /\ Undone(c)
    /\ UNCHANGED <<gate>>

Respond(c) == client' = [client EXCEPT ![c] = [NoClient EXCEPT !.pc = "open", !.viewer = client[c].viewer]]

-----------------------------------------------------------------------------
(* AuthPolicy                                                               *)

authorities(v) == view[v].addrs \cup {"localhost"}

\* Host, Origin, Sec-Fetch-Site, then the token: of the query for the document,
\* of the Authorization header for everything else.
check(v, r) ==
    /\ r.host \in authorities(v)
    /\ r.origin \in {"absent"} \cup authorities(v)
    /\ \/ r.site \in {"absent", "same-origin", "none"}
       \/ r.path = "/" /\ r.method = "GET" /\ r.navigation
    /\ r.token = (IF r.path = "/" THEN "query" ELSE "bearer")

\* Mutant: the extra check trusts a request without an Origin.
check_control_lax(v, r) ==
    /\ r.origin \in {"absent"} \cup authorities(v)
    /\ r.site \in {"absent", "same-origin"}

check_control(v, r) ==
    /\ r.origin \in authorities(v)
    /\ r.site \in {"absent", "same-origin"}

-----------------------------------------------------------------------------
(* Route and handle                                                         *)

Reads == {"/", "sessions", "frame", "events"}
Replays == {"recordings", "recording", "recording events", "segment"}
Writes == {"record", "annotate", "keep", "control", "input"}

\* An id that does not parse is a route of its own, for every method.
allows(route, method) ==
    \/ route = "bad id"
    \/ route \in Reads /\ method = "GET"
    \/ route \in Replays /\ method \in {"GET", "HEAD"}
    \/ route \in Writes /\ method = "POST"

\* What a request is let through to, or "refused" for a status and no effect.
handle(v, r) ==
    LET control == r.path \in {"control", "input"} IN
    IF /\ check(v, r)
       /\ r.path \in Reads \cup Replays \cup Writes      \* parse_route
       /\ allows(r.path, r.method)
       /\ ~(r.method = "POST" /\ view[v].read_only)
       /\ control => check_control(v, r)
      THEN r.path ELSE "refused"

Kind(to) == IF to \in {"control", "input"} THEN to ELSE "note"

\* Nobody has the token before the answer to `rdpilot view'.
TokenIsOut(v) == view[v].pc \in {"holding", "stopping", "off"}

\* A read is answered (a long-poll of frames takes its time), a write reads its
\* body first; a refused request leaves nothing behind.  Taken by an open connection.
Request(c, r) ==
    LET v == client[c].viewer
        to == handle(v, r) IN
    /\ r.token # "none" => TokenIsOut(v)
    /\ to # "refused"
    /\ client' = [client EXCEPT ![c].pc = IF to \in Writes THEN "body" ELSE "replying",
                                ![c].effect = IF to \in Writes THEN Kind(to) ELSE "none"]
    /\ UNCHANGED <<gate, view, human>>

\* read_json refuses: media type, length, time, syntax; or the value is not one of
\* the route's.
BodyRefused(c) ==
    /\ client[c].pc = "body"
    /\ Respond(c)
    /\ UNCHANGED <<gate, view, human>>

\* post_recording, post_annotation, post_keep.
Posted(c) ==
    /\ client[c].pc = "body" /\ client[c].effect = "note"
    /\ client' = [client EXCEPT ![c].pc = "replying", ![c].effect = "none"]
    /\ UNCHANGED <<gate, view, human>>

Replied(c) ==
    /\ client[c].pc = "replying"
    /\ Respond(c)
    /\ UNCHANGED <<gate, view, human>>

-----------------------------------------------------------------------------
(* viewer/control.rs                                                        *)

\* Rates::allow: the buckets fill with time, so any request may find its own
\* empty; the answer is 429.
TooMany(c) ==
    /\ client[c].pc = "body" /\ client[c].effect \in {"control", "input"}
    /\ Respond(c)
    /\ UNCHANGED <<gate, view, human>>

\* A take displaces whoever has the lease and then waits for the session loop.
TakeBegins(c) ==
    /\ client[c].pc = "body" /\ client[c].effect = "control"
    /\ human' = [by |-> c, viewer |-> client[c].viewer, granted |-> FALSE,
                 late |-> view[client[c].viewer].pc # "holding"]
    /\ client' = [client EXCEPT ![c].pc = "taking"]
    /\ UNCHANGED <<gate, view>>

\* Granted, or lost to another take, the sweeper or the end of a viewer.
TakeEnds(c) ==
    /\ client[c].pc = "taking"
    /\ human' = IF human.by = c THEN [human EXCEPT !.granted = TRUE] ELSE human
    /\ Respond(c)
    /\ UNCHANGED <<gate, view>>

\* A take that found no session, was refused or timed out.
TakeFails(c) ==
    /\ client[c].pc = "taking"
    /\ Undone(c)
    /\ Respond(c)
    /\ UNCHANGED <<gate, view>>

\* The holder releases; heartbeat and blur leave the lease where it is.
Released(c) ==
    /\ client[c].pc = "body" /\ client[c].effect = "control"
    /\ \/ human.granted /\ human' = NoHuman
       \/ UNCHANGED human
    /\ client' = [client EXCEPT ![c].pc = "replying", ![c].effect = "none"]
    /\ UNCHANGED <<gate, view>>

\* post_input: at most MAX_EVENTS events, within the rate.
Input(c) ==
    /\ client[c].pc = "body" /\ client[c].effect = "input"
    /\ client' = [client EXCEPT ![c].pc = "replying", ![c].effect = "none"]
    /\ UNCHANGED <<gate, view, human>>

-----------------------------------------------------------------------------
ViewerNext ==
    \/ \E v \in Viewer :
          \/ ViewerStarts(v) \/ ViewerRefused(v) \/ ViewerBinds(v) \/ ViewerBindFails(v)
          \/ ViewerAnswered(v) \/ ViewerAnswerFails(v) \/ ViewerStops(v) \/ EndAll(v)
          \/ AcceptDropped(v) \/ Sweep(v)
    \/ \E c \in Client :
          \/ ConnectionEnds(c) \/ BodyRefused(c) \/ Posted(c) \/ Replied(c)
          \/ TooMany(c) \/ TakeBegins(c) \/ TakeEnds(c) \/ TakeFails(c) \/ Released(c) \/ Input(c)
          \/ \E v \in Viewer : Accept(c, v)
          \/ client[c].pc = "open" /\ \E r \in HttpRequest : Request(c, r)

ViewerSpec == ViewerInit /\ [][ViewerNext]_guardVars

-----------------------------------------------------------------------------
(* Properties.                                                              *)

\* What gets through, of all requests (viewer/http.rs, auth.rs, bind.rs): whatever has an effect
\* carried the token to an address the viewer bound itself; another site reaches
\* nothing but the page; a read-only viewer is never written through; control and
\* input are reached only by a page of the viewer's own origin; no address outside
\* loopback and the tailnet is bound, and no more connections are served than allowed.
ViewerIsGuarded ==
    /\ \A v \in Viewer : view[v].accepting => \A r \in HttpRequest :
         LET to == handle(v, r)
             own == view[v].addrs \cup {"localhost"} IN
         to # "refused" =>
           /\ r.token # "none" /\ r.host \in own /\ r.origin \in own \cup {"absent"}
           /\ r.site = "cross-site" => to = "/" /\ r.token = "query" /\ r.navigation
           /\ to \in Writes => r.method = "POST" /\ r.token = "bearer" /\ ~view[v].read_only
           /\ to \in {"control", "input"} => r.origin \in own
    /\ \A v \in Viewer : view[v].addrs \subseteq {"lo"} \cup InRange
    /\ \A v \in Viewer :
          Cardinality({c \in Client : client[c].viewer = v}) = MaxConnections - view[v].permits
    /\ Cardinality({v \in Viewer : view[v].pc \in {"binding", "answering", "holding"}}) =
          (IF gate THEN 1 ELSE 0)

\* "Every human lease ends with the viewer" (hold_viewer): a lease of a viewer that
\* is off is one whose take began after the handle was dropped, in a connection
\* that had not been told yet; and every lease is of a viewer that has control.
LeasesEndWithViewer ==
    human.by # "none" =>
        /\ ~view[human.viewer].read_only
        /\ view[human.viewer].pc = "off" => human.late
=============================================================================
