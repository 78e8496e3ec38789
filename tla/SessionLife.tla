---------------------------- MODULE SessionLife -----------------------------
(***************************************************************************)
(* The life of one RDP session (crates/rdpilot/src/session.rs, connect.rs, *)
(* session_loop.rs, lifecycle.rs, framebuffer.rs): the future of           *)
(* Session::connect, the rdpilot-session thread it starts, the handshake,  *)
(* the loop with its frames and reactivations, the lifecycle everybody     *)
(* watches, and the tasks that close or drop the session meanwhile.        *)
(*                                                                         *)
(* The future, the thread and the closers run on different threads, so     *)
(* LifecycleOwner::end and SharedFrame::write are two steps each: the      *)
(* lifecycle and then the frame's flag, the slot and then the signal.      *)
(* The PDUs of the server, failures and deadlines are nondeterministic.    *)
(* Input, epochs and bridge messages of the same loop are in SessionLoop   *)
(* and Carrier; here they are work that writes.                            *)
(***************************************************************************)
EXTENDS Naturals, Sequences

CONSTANTS
    Closer,       \* tasks that may call Session::close
    DesktopSize,  \* desktop sizes a server activates
    FirstSize,    \* the size of the handshake
    MaxFrames     \* bound on the frames that are captured

ASSUME SessionLifeAssumption == FirstSize \in DesktopSize /\ MaxFrames \in Nat

VARIABLES
    future,   \* the future of Session::connect, then the Session it returned
    thread,   \* what the rdpilot-session thread does
    outs,     \* ActiveStageOutputs the loop has still to handle
    failing,  \* the end cause the thread is about to report
    life,     \* Lifecycle: "none" before the handshake ended
    size,     \* SessionState.desktop_size
    image,    \* size of the loop's DecodedImage
    slot,     \* the shared frame: size and number of the last write
    signal,   \* FrameStatus: number and ended flag
    stop,     \* permit of bridge.shutdown
    join,     \* CloseState.result
    closers,  \* what each caller of close does
    watcher   \* an observer of the frame: [pc, woken, got]

endVars == <<life, signal>>
frameVars == <<size, image, slot>>
sessionLifeVars == <<future, thread, outs, failing, life, size, image, slot, signal, stop, join, closers,
                     watcher>>

Handshaking == {"tcp", "negotiate", "tls", "finalize"}
Running == {"select", "outputs", "signalling", "reactivating"}
Over(t) == t \in {"none", "ended"}

SessionLifeInit ==
    /\ future = "resolving" /\ thread = "none"
    /\ outs = <<>> /\ failing = "none"
    /\ life = "none" /\ size = FirstSize /\ image = FirstSize
    /\ slot = [size |-> "none", seq |-> 0] /\ signal = [seq |-> 0, ended |-> FALSE]
    /\ stop = FALSE /\ join = "none"
    /\ closers = [c \in Closer |-> "idle"]
    /\ watcher = [pc |-> "waiting", woken |-> 0, got |-> 0]

-----------------------------------------------------------------------------
(* LifecycleOwner and SharedFrame: the first cause wins.                    *)

EndLife(cause) == life' = IF life = "live" THEN cause ELSE life

MarkEnded == signal' = [signal EXCEPT !.ended = TRUE]

set_desktop_size(s) == size' = s

-----------------------------------------------------------------------------
(* connect_with_resolver: the name is resolved before a thread exists.      *)

Resolve ==
    /\ future = "resolving"
    /\ \/ future' = "waiting" /\ thread' = "tcp"
       \/ future' = "failed" /\ UNCHANGED thread
    /\ UNCHANGED <<outs, failing, endVars, frameVars, stop, join, closers, watcher>>

\* The caller drops or times out the future at any of its awaits.  Before the
\* thread has answered, ready_tx is closed by it; after, the answer that waits
\* in the oneshot is dropped and with it the last sender of the input channel.
DropFuture ==
    /\ future \in {"resolving", "waiting", "ready"}
    /\ future' = "dropped"
    /\ UNCHANGED <<thread, outs, failing, endVars, frameVars, stop, join, closers, watcher>>

TakeReady ==
    /\ future = "ready"
    /\ future' = "session"
    /\ UNCHANGED <<thread, outs, failing, endVars, frameVars, stop, join, closers, watcher>>

\* connect: each step may fail, and the select against ready_tx.closed() ends it
\* between any two when nobody waits.
HandshakeStep(from, to) ==
    /\ thread = from
    /\ thread' = to
    /\ UNCHANGED <<future, outs, failing, endVars, frameVars, stop, join, closers, watcher>>

HandshakeFails(from) ==
    /\ thread = from
    /\ thread' = "ended"
    /\ future' = IF future = "waiting" THEN "failed" ELSE future
    /\ UNCHANGED <<outs, failing, endVars, frameVars, stop, join, closers, watcher>>

ConnectTcp == HandshakeStep("tcp", "negotiate") \/ HandshakeFails("tcp")

\* The channels, the share root and its staging directory, connect_begin.
ConnectBegin == HandshakeStep("negotiate", "tls") \/ HandshakeFails("negotiate")

\* The verifier, the TLS handshake and the server's key for CredSSP.
TlsUpgrade == HandshakeStep("tls", "finalize") \/ HandshakeFails("tls")

ConnectFinalize == HandshakeStep("finalize", "connected") \/ HandshakeFails("finalize")

HandshakeAbandoned ==
    /\ thread \in Handshaking /\ future = "dropped"
    /\ thread' = "ended"
    /\ UNCHANGED <<future, outs, failing, endVars, frameVars, stop, join, closers, watcher>>

\* LifecycleOwner::new, the answer, and the loop unless nobody took the answer.
Announce ==
    /\ thread = "connected"
    /\ life' = "live"
    /\ \/ future = "waiting" /\ future' = "ready" /\ thread' = "select"
       \/ future = "dropped" /\ UNCHANGED future /\ thread' = "ended"
    /\ UNCHANGED <<outs, failing, signal, frameVars, stop, join, closers, watcher>>

-----------------------------------------------------------------------------
(* run_loop.  The select is biased: a stop is seen before anything else, but *)
(* only between two rounds and during a reactivation, never in a write.      *)

\* run: the loop has returned; the lifecycle ends here, the frame in RunMarks.
RunEnds(cause) == thread' = "ending" /\ failing' = cause /\ outs' = <<>>

LoopStopped ==
    /\ thread \in {"select", "reactivating"} /\ stop
    /\ stop' = FALSE
    /\ RunEnds("client")
    /\ UNCHANGED <<future, endVars, frameVars, join, closers, watcher>>

\* All senders of the input channel are gone and its queue is empty.
InputClosed ==
    /\ thread = "select" /\ ~stop /\ future \in {"dropped", "gone"}
    /\ RunEnds("client")
    /\ UNCHANGED <<future, endVars, frameVars, stop, join, closers, watcher>>

\* A PDU, a command, a keepalive or a bridge message leaves its outputs.
PduOutputs == {<<"response">>, <<"graphics">>, <<"response", "graphics">>,
               <<"deactivate">>, <<"graphics", "terminate">>, <<"terminate">>}

ReadPdu ==
    /\ thread = "select" /\ ~stop
    /\ \E o \in PduOutputs : thread' = "outputs" /\ outs' = o
    /\ UNCHANGED <<future, failing, endVars, frameVars, stop, join, closers, watcher>>

\* process_fastpath_input: a batch of more than 255 events is more than one PDU.
LoopWorks ==
    /\ thread = "select" /\ ~stop
    /\ thread' = "outputs"
    /\ outs' \in {<<>>, <<"response">>, <<"response", "response">>}
    /\ UNCHANGED <<future, failing, endVars, frameVars, stop, join, closers, watcher>>

ReadFails ==
    /\ thread = "select" /\ ~stop
    /\ RunEnds("error")
    /\ UNCHANGED <<future, endVars, frameVars, stop, join, closers, watcher>>

\* A write ends within its deadline of five seconds, one way or the other.
WriteResponse ==
    /\ thread = "outputs" /\ outs # <<>> /\ Head(outs) = "response"
    /\ \/ outs' = Tail(outs) /\ UNCHANGED <<thread, failing, watcher>>
       \/ RunEnds("error")
    /\ UNCHANGED <<future, endVars, frameVars, stop, join, closers, watcher>>

\* SharedFrame::write: the slot under its lock, then the signal.
WriteSlotLate ==
    /\ thread = "outputs" /\ outs # <<>> /\ Head(outs) = "graphics"
    /\ slot.seq < MaxFrames
    /\ signal' = [signal EXCEPT !.seq = slot.seq + 1]
    /\ thread' = "signalling"
    /\ UNCHANGED <<future, outs, failing, life, frameVars, stop, join, closers, watcher>>

WriteSlot ==
    /\ thread = "outputs" /\ outs # <<>> /\ Head(outs) = "graphics"
    /\ slot.seq < MaxFrames
    /\ slot' = [size |-> image, seq |-> slot.seq + 1]
    /\ thread' = "signalling"
    /\ UNCHANGED <<future, outs, failing, endVars, size, image, stop, join, closers, watcher>>

WriteSignal ==
    /\ thread = "signalling"
    /\ signal' = [signal EXCEPT !.seq = slot.seq]
    /\ thread' = "outputs" /\ outs' = Tail(outs)
    /\ UNCHANGED <<future, failing, life, frameVars, stop, join, closers, watcher>>

Deactivate ==
    /\ thread = "outputs" /\ outs # <<>> /\ Head(outs) = "deactivate"
    /\ thread' = "reactivating"
    /\ UNCHANGED <<future, outs, failing, endVars, frameVars, stop, join, closers, watcher>>

\* The image is replaced and the desktop size published; the shared frame keeps
\* the old picture until the next update.
Reactivated ==
    /\ thread = "reactivating"
    /\ \E s \in DesktopSize : image' = s /\ set_desktop_size(s)
    /\ thread' = "outputs" /\ outs' = Tail(outs)
    /\ UNCHANGED <<future, failing, endVars, slot, stop, join, closers, watcher>>

ReactivateFails ==
    /\ thread = "reactivating"
    /\ RunEnds("error")
    /\ UNCHANGED <<future, endVars, frameVars, stop, join, closers, watcher>>

\* The server ended the session: the cause is set at once, then the loop returns
\* (it is the last output of its PDU).
Terminate ==
    /\ thread = "outputs" /\ outs # <<>> /\ Head(outs) = "terminate"
    /\ EndLife("server") /\ RunEnds("client")
    /\ UNCHANGED <<future, signal, frameVars, stop, join, closers, watcher>>

NextRound ==
    /\ thread = "outputs"
    /\ \/ outs = <<>> /\ UNCHANGED outs
       \/ outs # <<>> /\ Head(outs) = "graphics" /\ slot.seq = MaxFrames /\ outs' = <<>>
    /\ thread' = "select"
    /\ UNCHANGED <<future, failing, endVars, frameVars, stop, join, closers, watcher>>

RunReports ==
    /\ thread = "ending"
    /\ EndLife(failing)
    /\ thread' = "marking"
    /\ UNCHANGED <<future, outs, failing, signal, frameVars, stop, join, closers, watcher>>

RunMarks ==
    /\ thread = "marking"
    /\ MarkEnded
    /\ thread' = "ended"
    /\ UNCHANGED <<future, outs, failing, life, frameVars, stop, join, closers, watcher>>

-----------------------------------------------------------------------------
(* Session::close, CloseState::start and Session::drop.                     *)

CloseEnds(c) ==
    /\ closers[c] = "idle" /\ future = "session"
    /\ EndLife("client")
    /\ closers' = [closers EXCEPT ![c] = "marking"]
    /\ UNCHANGED <<future, thread, outs, failing, signal, frameVars, stop, join, watcher>>

CloseMarks(c) ==
    /\ closers[c] = "marking"
    /\ MarkEnded
    /\ closers' = [closers EXCEPT ![c] = "stopping"]
    /\ UNCHANGED <<future, thread, outs, failing, life, frameVars, stop, join, watcher>>

CloseStartsQuietly(c) ==
    /\ closers[c] = "stopping"
    /\ join' = IF join = "none" THEN "joining" ELSE join
    /\ closers' = [closers EXCEPT ![c] = "waiting"]
    /\ UNCHANGED <<future, thread, outs, failing, endVars, frameVars, stop, watcher>>

\* bridge.stop, then one join of the thread for every caller.
CloseStarts(c) ==
    /\ closers[c] = "stopping"
    /\ stop' = TRUE
    /\ join' = IF join = "none" THEN "joining" ELSE join
    /\ closers' = [closers EXCEPT ![c] = "waiting"]
    /\ UNCHANGED <<future, thread, outs, failing, endVars, frameVars, watcher>>

Joined ==
    /\ join = "joining"
    /\ \/ thread = "ended" /\ join' = "ok"
       \/ thread # "ended" /\ join' = "deadline"
    /\ UNCHANGED <<future, thread, outs, failing, endVars, frameVars, stop, closers, watcher>>

CloseReturns(c) ==
    /\ closers[c] = "waiting" /\ join \in {"ok", "deadline"}
    /\ closers' = [closers EXCEPT ![c] = join]
    /\ UNCHANGED <<future, thread, outs, failing, endVars, frameVars, stop, join, watcher>>

\* The caller drops its close while it waits; the join goes on.
CloseDropped(c) ==
    /\ closers[c] = "waiting"
    /\ closers' = [closers EXCEPT ![c] = "dropped"]
    /\ UNCHANGED <<future, thread, outs, failing, endVars, frameVars, stop, join, watcher>>

\* Nobody has the Session any more (a closer borrows it while it runs).
DropSession ==
    /\ future = "session"
    /\ \A c \in Closer : closers[c] \notin {"marking", "stopping", "waiting"}
    /\ future' = "dropping"
    /\ EndLife("client")
    /\ UNCHANGED <<thread, outs, failing, signal, frameVars, stop, join, closers, watcher>>

DropMarks ==
    /\ future = "dropping"
    /\ MarkEnded /\ stop' = TRUE
    /\ future' = "gone"
    /\ UNCHANGED <<thread, outs, failing, life, frameVars, join, closers, watcher>>

-----------------------------------------------------------------------------
(* FrameWatch: an observer waits for a newer frame or the end, then captures *)
(* whatever the slot has by then.                                            *)

WatcherWakes ==
    /\ watcher.pc = "waiting"
    /\ signal.seq > watcher.got \/ signal.ended
    /\ watcher' = [watcher EXCEPT !.pc = IF signal.seq > watcher.got THEN "woken" ELSE "ended",
                                  !.woken = signal.seq]
    /\ UNCHANGED <<future, thread, outs, failing, endVars, frameVars, stop, join, closers>>

WatcherCaptures ==
    /\ watcher.pc = "woken"
    /\ watcher' = [watcher EXCEPT !.pc = "waiting", !.got = slot.seq]
    /\ UNCHANGED <<future, thread, outs, failing, endVars, frameVars, stop, join, closers>>

-----------------------------------------------------------------------------
ThreadWorks ==
    \/ ConnectTcp \/ ConnectBegin \/ TlsUpgrade \/ ConnectFinalize \/ HandshakeAbandoned \/ Announce
    \/ LoopStopped \/ InputClosed \/ ReadPdu \/ LoopWorks \/ ReadFails
    \/ WriteResponse \/ WriteSlot \/ WriteSignal \/ Deactivate \/ Reactivated
    \/ ReactivateFails \/ Terminate \/ NextRound \/ RunReports \/ RunMarks

CloserWorks(c) == CloseMarks(c) \/ CloseStarts(c) \/ CloseReturns(c)

SessionLifeNext ==
    \/ Resolve \/ DropFuture \/ TakeReady \/ ThreadWorks
    \/ Joined \/ DropSession \/ DropMarks \/ WatcherWakes \/ WatcherCaptures
    \/ \E c \in Closer : CloseEnds(c) \/ CloserWorks(c) \/ CloseDropped(c)

SessionLifeSpec == SessionLifeInit /\ [][SessionLifeNext]_sessionLifeVars

\* What bounds the thread: a handshake nobody waits for is abandoned by its
\* select, outputs and reactivations have deadlines, and the biased select sees a
\* stop before it reads on.  A closed input channel comes after the PDUs in that
\* select: it is seen as soon as the server pauses, which is InputClosed's strong
\* fairness.
ThreadMustStep ==
    \/ HandshakeAbandoned \/ Announce \/ LoopStopped
    \/ WriteResponse \/ WriteSlot \/ WriteSignal \/ Deactivate \/ Reactivated
    \/ ReactivateFails \/ Terminate \/ NextRound \/ RunReports \/ RunMarks

SessionLifeFairness ==
    /\ WF_sessionLifeVars(ThreadMustStep) /\ SF_sessionLifeVars(InputClosed)
    /\ WF_sessionLifeVars(DropMarks) /\ WF_sessionLifeVars(Joined)
    /\ WF_sessionLifeVars(WatcherWakes \/ WatcherCaptures)
    /\ \A c \in Closer : WF_sessionLifeVars(CloserWorks(c))

-----------------------------------------------------------------------------
(* Properties.                                                              *)

\* What a watcher of a session is told (LifecycleOwner::end, SharedFrame::write,
\* run): the frame is never marked ended while the lifecycle says live, an
\* observer woken by a frame captures that one or a newer one, the published desktop size is the loop's own
\* between two rounds, the server's end is told only of a loop that is leaving,
\* and a thread that ended behind a session has told it.
SessionEndIsTold ==
    /\ signal.ended => life \notin {"none", "live"}
    /\ watcher.pc = "waiting" => watcher.got >= watcher.woken
    /\ thread = "select" => size = image
    /\ life \in {"server", "error"} => thread \notin Running
    /\ (thread = "ended" /\ future \in {"session", "dropping", "gone"})
           => life # "live" /\ signal.ended

\* A connect whose future was dropped, a session that was dropped and a session
\* that was closed leave no thread behind, every caller of close is answered and
\* every observer of the frame learns of the end (run_session_thread, run_loop, CloseState::start).
SessionThreadsEnd ==
    /\ (watcher.pc = "waiting" /\ signal.ended) ~> (watcher.pc = "ended")
    /\ (future \in {"dropped", "dropping"}) ~> Over(thread)
    /\ \A c \in Closer : (closers[c] = "marking")
                             ~> (Over(thread) /\ closers[c] \in {"ok", "deadline", "dropped"})
=============================================================================
