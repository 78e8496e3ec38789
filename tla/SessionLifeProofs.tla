-------------------------- MODULE SessionLifeProofs --------------------------
(***************************************************************************)
(* Proofs about the life of a session, for any number of closers, desktop  *)
(* sizes and frames: what a watcher of a session is told of its end and of *)
(* its frames is true, however the future, the thread, the closers and a   *)
(* drop interleave.                                                        *)
(*                                                                         *)
(* The inductive invariant divides the thread's life in three (before the  *)
(* answer, in the loop, behind it) and says for each part what the future  *)
(* and the lifecycle may be; that everybody who is about to mark the frame *)
(* has ended the lifecycle before; and that the signal, and what a watcher *)
(* saw of it, never get ahead of the slot.                                 *)
(***************************************************************************)
EXTENDS SessionLife, TLAPS

Answering == Handshaking \cup {"connected"}
Leaving == {"ending", "marking"}
Answered == {"ready", "session", "dropping", "gone"}
Causes == {"client", "error", "server"}

LifeTypeInv ==
    /\ future \in {"resolving", "waiting", "failed", "dropped"} \cup Answered
    /\ thread \in {"none", "ended"} \cup Answering \cup Running \cup Leaving
    /\ life \in {"none", "live"} \cup Causes
    /\ signal \in [seq : Nat, ended : BOOLEAN]
    /\ slot.seq \in Nat
    /\ closers \in [Closer -> {"idle", "marking", "stopping", "waiting", "ok", "deadline", "dropped"}]
    /\ watcher \in [pc : {"waiting", "woken", "ended"}, woken : Nat, got : Nat]

\* Before the answer there is no lifecycle, in the loop it can only have been ended
\* by a client, and behind the loop by its cause.
Parts ==
    /\ future = "resolving" => thread = "none"
    /\ thread = "none" => future \in {"resolving", "failed", "dropped"} /\ life = "none"
    /\ thread \in Answering => future \in {"waiting", "dropped"} /\ life = "none"
    /\ thread \in Running => future \in Answered \cup {"dropped"} /\ life \in {"live", "client"}
    /\ thread \in Leaving => future \in Answered \cup {"dropped"} /\ life # "none"
    /\ thread = "ending" => failing \in {"client", "error"}
    /\ thread = "marking" => life \in Causes
    /\ thread = "ended" /\ future \in Answered => life \in Causes /\ signal.ended

\* Whoever is about to mark the frame has ended the lifecycle.
Markers ==
    /\ future = "dropping" => life \in Causes
    /\ \A c \in Closer : closers[c] = "marking" => life \in Causes
    /\ signal.ended => life \in Causes

\* The slot is written before its signal, and a watcher sees the signal first.
Frames ==
    /\ signal.seq <= slot.seq
    /\ watcher.woken <= slot.seq
    /\ watcher.pc = "waiting" => watcher.woken <= watcher.got
    /\ size = image

LifeInv == LifeTypeInv /\ Parts /\ Markers /\ Frames

-----------------------------------------------------------------------------
(* Steps of the same kind.                                                  *)

\* An ended lifecycle stays as it is, a live one ends.
LEMMA EndLifeEnds ==
    ASSUME life \in {"none", "live"} \cup Causes, NEW cause \in Causes, EndLife(cause)
    PROVE  /\ life' \in {"none", "live"} \cup Causes
           /\ life \in Causes => life' = life
           /\ life = "live" => life' = cause
           /\ life = "none" => life' = "none"
BY DEF EndLife, Causes

LEMMA MarkEndedMarks ==
    ASSUME LifeTypeInv, MarkEnded
    PROVE  signal' \in [seq : Nat, ended : BOOLEAN] /\ signal'.ended = TRUE /\ signal'.seq = signal.seq
BY DEF LifeTypeInv, MarkEnded

LEMMA Phases ==
    /\ Answering = {"tcp", "negotiate", "tls", "finalize", "connected"}
    /\ Running = {"select", "outputs", "signalling", "reactivating"}
    /\ Leaving = {"ending", "marking"}
    /\ Answered = {"ready", "session", "dropping", "gone"}
    /\ Causes = {"client", "error", "server"}
BY DEF Answering, Handshaking, Running, Leaving, Answered, Causes

LEMMA FutureKeeps ==
    ASSUME LifeInv, Resolve \/ DropFuture \/ TakeReady
    PROVE  LifeInv'
<1>1. LifeTypeInv'
  BY Phases DEF LifeInv, LifeTypeInv, Resolve, DropFuture, TakeReady, endVars, frameVars
<1>2. Parts'
  BY Phases DEF LifeInv, LifeTypeInv, Parts, Resolve, DropFuture, TakeReady, endVars, frameVars
<1>3. Markers' /\ Frames'
  BY DEF LifeInv, Markers, Frames, Resolve, DropFuture, TakeReady, endVars, frameVars
<1> QED  BY <1>1, <1>2, <1>3 DEF LifeInv

LEMMA HandshakeKeeps ==
    ASSUME LifeInv, ConnectTcp \/ ConnectBegin \/ TlsUpgrade \/ ConnectFinalize \/ HandshakeAbandoned
    PROVE  LifeInv'
<1> USE DEF ConnectTcp, ConnectBegin, TlsUpgrade, ConnectFinalize, HandshakeAbandoned,
            HandshakeStep, HandshakeFails, endVars, frameVars
<1>1. LifeTypeInv'
  BY Phases DEF LifeInv, LifeTypeInv, Handshaking
<1>2. Parts'
  BY Phases DEF LifeInv, LifeTypeInv, Parts, Handshaking
<1>3. Markers' /\ Frames'
  BY Phases DEF LifeInv, Parts, Markers, Frames, Handshaking
<1> QED  BY <1>1, <1>2, <1>3 DEF LifeInv

LEMMA AnnounceKeeps ==
    ASSUME LifeInv, Announce
    PROVE  LifeInv'
<1> USE DEF Announce, frameVars
<1>1. LifeTypeInv'
  BY Phases DEF LifeInv, LifeTypeInv
<1>2. Parts'
  BY Phases DEF LifeInv, LifeTypeInv, Parts
<1>3. Markers' /\ Frames'
  BY Phases DEF LifeInv, Parts, Markers, Frames
<1> QED  BY <1>1, <1>2, <1>3 DEF LifeInv

\* The loop goes on or leaves: nothing that anybody watches changes.
LEMMA LoopKeeps ==
    ASSUME LifeInv,
           \/ LoopStopped \/ InputClosed \/ ReadPdu \/ LoopWorks \/ ReadFails
           \/ WriteResponse \/ Deactivate \/ ReactivateFails \/ NextRound
    PROVE  LifeInv'
<1> USE DEF LoopStopped, InputClosed, ReadPdu, LoopWorks, ReadFails, WriteResponse, Deactivate,
            ReactivateFails, NextRound, RunEnds, endVars, frameVars
<1>1. thread \in Running /\ (thread' \in Running \/ (thread' = "ending" /\ failing' \in {"client", "error"}))
  BY Phases
<1>2. UNCHANGED <<future, life, signal, size, image, slot, closers, watcher>>
  OBVIOUS
<1> QED  BY <1>1, <1>2, Phases DEF LifeInv, LifeTypeInv, Parts, Markers, Frames

LEMMA ReactivatedKeeps ==
    ASSUME LifeInv, Reactivated
    PROVE  LifeInv'
BY Phases DEF LifeInv, LifeTypeInv, Parts, Markers, Frames, Reactivated, set_desktop_size, endVars

LEMMA SlotKeeps ==
    ASSUME LifeInv, WriteSlot
    PROVE  LifeInv'
<1>1. slot'.seq = slot.seq + 1 /\ slot'.seq \in Nat
  BY DEF WriteSlot, LifeInv, LifeTypeInv
<1>2. LifeTypeInv' /\ Parts' /\ Markers'
  BY <1>1, Phases DEF LifeInv, LifeTypeInv, Parts, Markers, WriteSlot, endVars
<1>3. Frames'
  BY <1>1 DEF LifeInv, LifeTypeInv, Frames, WriteSlot, endVars
<1> QED  BY <1>2, <1>3 DEF LifeInv

LEMMA SignalKeeps ==
    ASSUME LifeInv, WriteSignal
    PROVE  LifeInv'
<1>1. signal' \in [seq : Nat, ended : BOOLEAN] /\ signal'.seq = slot.seq /\ signal'.ended = signal.ended
  BY DEF WriteSignal, LifeInv, LifeTypeInv
<1>2. LifeTypeInv' /\ Parts' /\ Markers'
  BY <1>1, Phases DEF LifeInv, LifeTypeInv, Parts, Markers, WriteSignal, frameVars
<1>3. Frames'
  BY <1>1 DEF LifeInv, LifeTypeInv, Frames, WriteSignal, frameVars
<1> QED  BY <1>2, <1>3 DEF LifeInv

\* The lifecycle ends: at the server's word, behind the loop, by a close or a drop.
LEMMA TerminateKeeps ==
    ASSUME LifeInv, Terminate
    PROVE  LifeInv'
<1>1. life \in {"live", "client"} /\ life' \in {"client", "server"} /\ (life = "client" => life' = "client")
  BY Phases DEF Terminate, EndLife, LifeInv, LifeTypeInv, Parts
<1>2. thread' = "ending" /\ failing' = "client" /\ thread = "outputs"
      /\ UNCHANGED <<future, signal, size, image, slot, closers, watcher>>
  BY DEF Terminate, RunEnds, frameVars
<1> QED  BY <1>1, <1>2, Phases DEF LifeInv, LifeTypeInv, Parts, Markers, Frames

LEMMA ReportsKeeps ==
    ASSUME LifeInv, RunReports
    PROVE  LifeInv'
<1>1. life' \in Causes
  BY Phases DEF RunReports, EndLife, LifeInv, LifeTypeInv, Parts
<1>2. thread' = "marking" /\ thread = "ending"
      /\ UNCHANGED <<future, signal, size, image, slot, closers, watcher>>
  BY DEF RunReports, frameVars
<1> QED  BY <1>1, <1>2, Phases DEF LifeInv, LifeTypeInv, Parts, Markers, Frames

LEMMA MarksKeeps ==
    ASSUME LifeInv, RunMarks
    PROVE  LifeInv'
<1>1. signal' \in [seq : Nat, ended : BOOLEAN] /\ signal'.ended = TRUE /\ signal'.seq = signal.seq
  BY MarkEndedMarks DEF RunMarks, LifeInv
<1>2. thread' = "ended" /\ thread = "marking" /\ UNCHANGED <<future, life, size, image, slot, closers, watcher>>
  BY DEF RunMarks, frameVars
<1> QED  BY <1>1, <1>2, Phases DEF LifeInv, LifeTypeInv, Parts, Markers, Frames

LEMMA CloseKeeps ==
    ASSUME LifeInv, NEW c \in Closer, CloseEnds(c)
    PROVE  LifeInv'
<1>1. life # "none" /\ life' \in Causes /\ (life \in Causes => life' = life) /\ (life = "live" => life' = "client")
  BY Phases DEF CloseEnds, EndLife, LifeInv, LifeTypeInv, Parts
<1>2. UNCHANGED <<future, thread, failing, signal, size, image, slot, watcher>> /\ future = "session"
  BY DEF CloseEnds, frameVars
<1>3. closers' \in [Closer -> {"idle", "marking", "stopping", "waiting", "ok", "deadline", "dropped"}]
  BY DEF CloseEnds, LifeInv, LifeTypeInv
<1>4. LifeTypeInv' /\ Frames'
  BY <1>1, <1>2, <1>3 DEF LifeInv, LifeTypeInv, Frames
<1>5. Parts'
  BY <1>1, <1>2, Phases DEF LifeInv, LifeTypeInv, Parts
<1>6. Markers'
  BY <1>1 DEF Markers
<1> QED  BY <1>4, <1>5, <1>6 DEF LifeInv

LEMMA CloseMarksKeeps ==
    ASSUME LifeInv, NEW c \in Closer, CloseMarks(c)
    PROVE  LifeInv'
<1>1. signal' \in [seq : Nat, ended : BOOLEAN] /\ signal'.ended = TRUE /\ signal'.seq = signal.seq
  BY MarkEndedMarks DEF CloseMarks, LifeInv
<1>2. UNCHANGED <<future, thread, failing, life, size, image, slot, watcher>>
  BY DEF CloseMarks, frameVars
<1>3. closers' \in [Closer -> {"idle", "marking", "stopping", "waiting", "ok", "deadline", "dropped"}]
  BY DEF CloseMarks, LifeInv, LifeTypeInv
<1>4. life \in Causes
  BY DEF CloseMarks, LifeInv, Markers
<1> QED  BY <1>1, <1>2, <1>3, <1>4 DEF LifeInv, LifeTypeInv, Parts, Markers, Frames

\* A closer goes on behind its marks.
LEMMA CloserKeeps ==
    ASSUME LifeInv, NEW c \in Closer, CloseStarts(c) \/ CloseReturns(c) \/ CloseDropped(c)
    PROVE  LifeInv'
<1>1. UNCHANGED <<future, thread, failing, life, signal, size, image, slot, watcher>>
  BY DEF CloseStarts, CloseReturns, CloseDropped, endVars, frameVars
<1>2. closers' \in [Closer -> {"idle", "marking", "stopping", "waiting", "ok", "deadline", "dropped"}]
      /\ \A d \in Closer : closers'[d] = "marking" => closers[d] = "marking"
  BY DEF CloseStarts, CloseReturns, CloseDropped, LifeInv, LifeTypeInv
<1> QED  BY <1>1, <1>2 DEF LifeInv, LifeTypeInv, Parts, Markers, Frames

LEMMA DropKeeps ==
    ASSUME LifeInv, DropSession
    PROVE  LifeInv'
<1>1. life # "none" /\ life' \in Causes /\ (life \in Causes => life' = life) /\ (life = "live" => life' = "client")
  BY Phases DEF DropSession, EndLife, LifeInv, LifeTypeInv, Parts
<1>2. UNCHANGED <<thread, failing, signal, size, image, slot, closers, watcher>>
      /\ future = "session" /\ future' = "dropping"
  BY DEF DropSession, frameVars
<1>3. LifeTypeInv' /\ Frames'
  BY <1>1, <1>2, Phases DEF LifeInv, LifeTypeInv, Frames
<1>4. Parts'
  BY <1>1, <1>2, Phases DEF LifeInv, LifeTypeInv, Parts
<1>5. Markers'
  BY <1>1 DEF Markers
<1> QED  BY <1>3, <1>4, <1>5 DEF LifeInv

LEMMA DropMarksKeeps ==
    ASSUME LifeInv, DropMarks
    PROVE  LifeInv'
<1>1. signal' \in [seq : Nat, ended : BOOLEAN] /\ signal'.ended = TRUE /\ signal'.seq = signal.seq
  BY MarkEndedMarks DEF DropMarks, LifeInv
<1>2. UNCHANGED <<thread, failing, life, size, image, slot, closers, watcher>>
      /\ future = "dropping" /\ future' = "gone"
  BY DEF DropMarks, frameVars
<1>3. life \in Causes
  BY <1>2 DEF LifeInv, Markers
<1> QED  BY <1>1, <1>2, <1>3, Phases DEF LifeInv, LifeTypeInv, Parts, Markers, Frames

LEMMA WatcherKeeps ==
    ASSUME LifeInv, WatcherWakes \/ WatcherCaptures
    PROVE  LifeInv'
<1>1. UNCHANGED <<future, thread, failing, life, signal, size, image, slot, closers>>
  BY DEF WatcherWakes, WatcherCaptures, endVars, frameVars
<1>2. LifeTypeInv' /\ Parts' /\ Markers'
  <2>1. watcher' \in [pc : {"waiting", "woken", "ended"}, woken : Nat, got : Nat]
    BY DEF LifeInv, LifeTypeInv, WatcherWakes, WatcherCaptures
  <2> QED  BY <1>1, <2>1 DEF LifeInv, LifeTypeInv, Parts, Markers
<1>3. CASE WatcherWakes
  <2>1. watcher'.woken = signal.seq /\ watcher'.pc # "waiting"
    BY <1>3 DEF WatcherWakes, LifeInv, LifeTypeInv
  <2>2. Frames'
    BY <1>1, <2>1 DEF LifeInv, Frames
  <2> QED  BY <1>2, <2>2 DEF LifeInv
<1>4. CASE WatcherCaptures
  <2>1. watcher'.woken = watcher.woken /\ watcher'.got = slot.seq
    BY <1>4 DEF WatcherCaptures, LifeInv, LifeTypeInv
  <2>2. Frames'
    BY <1>1, <2>1 DEF LifeInv, Frames
  <2> QED  BY <1>2, <2>2 DEF LifeInv
<1> QED  BY <1>3, <1>4

-----------------------------------------------------------------------------
(* The theorem.                                                             *)

LEMMA LifeStarts == SessionLifeInit => LifeInv
BY Phases DEF SessionLifeInit, LifeInv, LifeTypeInv, Parts, Markers, Frames

LEMMA LifeStep == LifeInv /\ [SessionLifeNext]_sessionLifeVars => LifeInv'
<1> SUFFICES ASSUME LifeInv, [SessionLifeNext]_sessionLifeVars PROVE LifeInv'
  OBVIOUS
<1>1. CASE UNCHANGED sessionLifeVars
  BY <1>1 DEF LifeInv, LifeTypeInv, Parts, Markers, Frames, sessionLifeVars
<1>2. CASE Resolve \/ DropFuture \/ TakeReady
  BY <1>2, FutureKeeps
<1>3. CASE ThreadWorks
  BY <1>3, HandshakeKeeps, AnnounceKeeps, LoopKeeps, SlotKeeps, SignalKeeps, ReactivatedKeeps,
     TerminateKeeps, ReportsKeeps, MarksKeeps DEF ThreadWorks
<1>4. CASE Joined
  BY <1>4 DEF LifeInv, LifeTypeInv, Parts, Markers, Frames, Joined, endVars, frameVars
<1>5. CASE DropSession \/ DropMarks \/ WatcherWakes \/ WatcherCaptures
  BY <1>5, DropKeeps, DropMarksKeeps, WatcherKeeps
<1>6. CASE \E c \in Closer : CloseEnds(c) \/ CloserWorks(c) \/ CloseDropped(c)
  BY <1>6, CloseKeeps, CloseMarksKeeps, CloserKeeps DEF CloserWorks
<1> QED  BY <1>1, <1>2, <1>3, <1>4, <1>5, <1>6 DEF SessionLifeNext

\* What a watcher of a session is told of its end, its frames and its size is true
\* at every step of the future, the thread, the closers and a drop
\* (LifecycleOwner::end, SharedFrame::write, run).
THEOREM EndIsTold == SessionLifeSpec => []SessionEndIsTold
<1>1. LifeInv => SessionEndIsTold
  BY Phases DEF LifeInv, LifeTypeInv, Parts, Markers, Frames, SessionEndIsTold
<1>2. SessionLifeSpec => []LifeInv
  BY LifeStarts, LifeStep, PTL DEF SessionLifeSpec
<1> QED  BY <1>1, <1>2, PTL
=============================================================================
