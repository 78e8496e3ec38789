------------------------------- MODULE Daemon -------------------------------
(***************************************************************************)
(* The life of the daemon process around its registry: startup             *)
(* reconciliation, the idle reaper, the empty watcher, the exit, and       *)
(* crashes (crates/rdpilot-daemon/src/server.rs and lifecycle.rs).         *)
(*                                                                         *)
(* Clocks are left out: a retention period, an idle timeout or a grace     *)
(* period may have passed whenever the code asks, and any live session may *)
(* have been idle.  `stale[n]' is the generation that was live when the    *)
(* reaper judged the name n; the code keeps only the name.  `was'          *)
(* remembers what a crash interrupted.                                     *)
(***************************************************************************)
EXTENDS Registry, FiniteSets

CONSTANT Crashes    \* whether the process may be killed

ASSUME DaemonAssumption == Crashes \in BOOLEAN

VARIABLES
    phase,      \* where the process is
    stale,      \* the names the reaper still has to close
    was         \* names of the sessions that were live when the process died

daemonVars == <<phase, stale, was>>
allVars == <<vars, daemonVars>>

Running == phase \in {"up", "grace", "fired", "draining"}

NothingStale == [n \in Name |-> 0]

TypeOK ==
    /\ RegTypeOK
    /\ phase \in {"down", "seeded", "up", "grace", "fired", "draining"}
    /\ stale \in [Name -> 0..MaxGen]
    /\ was \subseteq Name

\* No daemon runs; a predecessor may have left records.
Init ==
    /\ MemoryInit
    /\ conn = [c \in Conn |-> NoConn]
    /\ owner = NoOwner
    /\ pending = {}
    /\ disk \in [names : SUBSET Name, ok : {TRUE}]
    /\ phase = "down"
    /\ stale = NothingStale
    /\ was = {}

-----------------------------------------------------------------------------
(* Startup *)

\* scan_orphans and seed_into, before any client is accepted.
Seed ==
    /\ phase = "down"
    /\ \E found \in Loaded(disk) :
          /\ entries' = [n \in Name |-> IF n \in found.names THEN Orphaned ELSE Vacant]
          /\ disk' = [disk EXCEPT !.ok = found.ok]
    /\ phase' = "seeded"
    /\ UNCHANGED <<owner, pending, nextGen, nameOf, sess, cancel, result, hook, mark, closer,
                   unbook, conn, stale, was>>

\* purge_seeded_records, then the daemon serves.
Purge ==
    /\ phase = "seeded"
    /\ PurgeSeeded({n \in Name : entries[n] = Orphaned})
    /\ phase' = "up"
    /\ was' = {}
    /\ UNCHANGED <<regVars, stale>>

-----------------------------------------------------------------------------
(* The idle reaper *)

\* The reaper has finished what it removed.
ReaperFree ==
    /\ \A g \in Gen : closer[g].by # "reaper"
    /\ \A n \in Name : <<n, "reaper">> \notin unbook

Retained == {n \in Name : entries[n] = Orphaned \/ Ended(n)}

\* Registry::expire_retained of the entries `due': one critical section
\* removes them, then each is closed in turn.
ExpireRetained(due) ==
    /\ due \subseteq Retained /\ due # {}
    /\ entries' = [n \in Name |-> IF n \in due THEN Vacant ELSE entries[n]]
    /\ unbook' = unbook \cup {<<n, "reaper">> : n \in {m \in due : entries[m] = Orphaned}}
    /\ closer' = [g \in Gen |-> IF \E n \in due : entries[n] = Live(g)
                                THEN [by |-> "reaper", at |-> "removed"] ELSE closer[g]]
    /\ UNCHANGED <<bookVars, nextGen, nameOf, sess, cancel, result, hook, mark, conn>>

ReaperIdle == ReaperFree /\ stale = NothingStale

\* The reaper's loop: a tick that is due with the shutdown may still win.
Ticking == phase \in {"up", "grace", "fired"}

ReapRetained(due) ==
    /\ Ticking
    /\ ReaperIdle
    /\ ExpireRetained(due)
    /\ UNCHANGED daemonVars

\* live_idle_durations: live sessions without a human, without a Cua stream
\* and idle for long enough.
ReapScan(found) ==
    /\ "idle" \in Requests
    /\ Ticking
    /\ ReaperIdle
    /\ found # {} /\ \A n \in found : LiveNow(n)
    /\ stale' = [n \in Name |-> IF n \in found THEN entries[n].gen ELSE 0]
    /\ UNCHANGED <<vars, phase, was>>

\* close_idle by name: a connect in flight is left alone.
ReapClose(n) ==
    /\ Running
    /\ ReaperFree
    /\ stale[n] # 0
    /\ stale' = [stale EXCEPT ![n] = 0]
    /\ \/ CloseWith(n, "reaper")
       \/ /\ entries[n].kind \in {"vacant", "connecting"}
          /\ UNCHANGED <<entries, closer, cancel, unbook>>
    /\ UNCHANGED <<bookVars, nextGen, nameOf, sess, result, hook, mark, conn, phase, was>>

-----------------------------------------------------------------------------
(* The empty watcher and the exit *)

\* Registry::holds_active.
HoldsActive == \E n \in Name : entries[n].kind = "connecting" \/ LiveNow(n)

WatchEmpty ==
    /\ phase = "up"
    /\ ~HoldsActive
    /\ phase' = "grace"
    /\ UNCHANGED <<vars, stale, was>>

\* Mutant: the second look is the wrong way round.
WatchAgainInverted ==
    /\ phase = "grace"
    /\ phase' = IF HoldsActive THEN "fired" ELSE "up"
    /\ UNCHANGED <<vars, stale, was>>

\* The grace period is over: look again, then fire or go on watching.
WatchAgain ==
    /\ phase = "grace"
    /\ phase' = IF HoldsActive THEN "up" ELSE "fired"
    /\ UNCHANGED <<vars, stale, was>>

\* run: the reaper and the watcher have returned; nothing is retained.
ExitSweep ==
    /\ phase = "fired"
    /\ ReaperIdle
    /\ \/ Retained # {} /\ ExpireRetained(Retained)
       \/ Retained = {} /\ UNCHANGED vars
    /\ phase' = "draining"
    /\ UNCHANGED <<stale, was>>

\* The process is gone: its memory, its tasks and its session threads.
ProcessGone ==
    /\ entries' = [n \in Name |-> Vacant]
    /\ nextGen' = 1
    /\ nameOf' = [g \in Gen |-> NoName]
    /\ sess' = [g \in Gen |-> "none"]
    /\ cancel' = [g \in Gen |-> "none"]
    /\ result' = [g \in Gen |-> "none"]
    /\ hook' = [g \in Gen |-> FALSE]
    /\ mark' = [g \in Gen |-> FALSE]
    /\ closer' = [g \in Gen |-> NoCloser]
    /\ unbook' = {}
    /\ conn' = [c \in Conn |-> IF conn[c].pc = "idle" THEN conn[c]
                               ELSE [NoConn EXCEPT !.pc = "gone"]]
    /\ BookRestart
    /\ stale' = NothingStale
    /\ phase' = "down"

LiveNames == {n \in Name : LiveNow(n) /\ sess[entries[n].gen] = "open"}

Exit ==
    /\ phase = "draining"
    /\ ReaperFree
    /\ ProcessGone
    /\ was' = LiveNames

\* kill -9, at any moment; also between the seeding and the purge.
Crash ==
    /\ Crashes
    /\ Running \/ phase = "seeded"
    /\ ProcessGone
    /\ was' = IF phase = "seeded" THEN was ELSE LiveNames

-----------------------------------------------------------------------------
ServeNext == Running /\ RegistryNext /\ UNCHANGED daemonVars

ReaperNext ==
    \/ \E due \in SUBSET Name : ReapRetained(due) \/ ReapScan(due)
    \/ \E n \in Name : ReapClose(n)

LifeNext ==
    \/ Seed \/ Purge \/ WatchEmpty \/ WatchAgain \/ ExitSweep \/ Exit \/ Crash

Next == ServeNext \/ ReaperNext \/ LifeNext

Spec == Init /\ [][Next]_allVars

-----------------------------------------------------------------------------
(* Safety *)

\* Somebody still answers for generation g: its entry, its Connect before the
\* promotion is settled, or the close of the entry.
Answerable(g) ==
    \/ \E n \in Name : entries[n] = Live(g)
    \/ closer[g].at # "none"
    \/ \E c \in Conn : conn[c].gen = g /\ conn[c].pc \in {"delivered", "recorded", "unpromoted"}

\* What was live when the process died is listed as Orphaned by the next one
\* before it serves anybody (seed_into; DAEMON-04).
CrashedIsShown == phase = "seeded" /\ disk.ok => \A n \in was : entries[n] = Orphaned

\* A session that is live has its record, so that a crash at any moment leaves
\* what a restart needs to show it; and no record outlives its session: while a
\* generation owns a record, somebody is left who removes it, and until a disk
\* fault the file holds no other record once the daemon serves; what a crash left
\* live is shown (RecordBook, every path of open_tracked and close, seed_into).
RecordsMatch ==
    /\ \A n \in LiveNames :
          /\ owner[n] = entries[n].gen
          /\ disk.ok => n \in disk.names
    /\ Running =>
          /\ \A n \in Name : owner[n] # 0 => Answerable(owner[n])
          /\ disk.ok => \A n \in disk.names : owner[n] # 0
    /\ CrashedIsShown

\* "Close, not drop": an RDP session that runs is registered, or somebody who
\* will register or close it holds it (ConnectGuard, the connect task,
\* close_removed).
NoSessionLeaks ==
    \A g \in Gen : sess[g] \in {"open", "ended"} =>
        Answerable(g) \/ (Awaited(g) /\ result[g] = "session")

\* A record that a generation owns and that is in the file stays there until
\* that generation is closed: no failed or late removal of another session, or
\* of an orphan of the same name, takes it away (RecordBook, flush_pending).
OwnedRecordStays ==
    [][\A n \in Name :
          owner[n] # 0 /\ owner'[n] = owner[n] /\ n \in disk.names => n \in disk'.names]_allVars

\* A session whose client was told Connected is taken away only by a
\* Disconnect, by the reaper, or after the server ended it: never by another
\* Connect, also not one for the same name (cancel_connecting,
\* close_if_generation, promotion).
ConnectedStays ==
    \A c \in Conn :
        LET g == conn[c].gen IN
        conn[c].pc = "done" /\ sess[g] = "open" =>
            \/ entries[conn[c].name] = Live(g)
            \/ closer[g].by \in {"client", "reaper"}

-----------------------------------------------------------------------------
(* What the repository says and the code does not do *)

\* dispatch.rs:227-228: "No take is granted and no lease exists while the mark
\* is set, so the epoch stays the same for the whole bootstrap": the session
\* a bootstrap types into has its mark set.
BootstrapIsMarked == \A c \in Conn : conn[c].pc = "booting" /\ sess[conn[c].on] = "open" => mark[conn[c].on]

\* lifecycle.rs:256-259: "a connect admitted after the last check is cancelled
\* and its session closed at exit": the process never ends with a live session.
ExitLeavesNoLive == [][phase = "draining" /\ phase' = "down" => LiveNames = {}]_allVars

-----------------------------------------------------------------------------
(* Liveness *)

Serve(A) == Running /\ A /\ UNCHANGED daemonVars

\* Tasks and threads keep running, a handshake ends (DeadlineConnector), an
\* acknowledgement comes or times out, the reaper and the watcher tick.
\* Nothing is assumed of clients and servers, and no session has to be idle.
Fairness ==
    /\ \A c \in Conn :
          /\ WF_allVars(Serve(\/ ReleasedOrphan(c) \/ ReleasedEnded(c) \/ Claim(c)
                              \/ Delivered(c) \/ RecordSession(c)
                              \/ \E bundle \in BOOLEAN : Promote(c, bundle)
                              \/ Discard(c) \/ Discarded(c)))
          /\ WF_allVars(Serve(AnswerNext(c)))
    /\ \A g \in Gen :
          /\ WF_allVars(Serve(ConnectReady(g) \/ ConnectFails(g) \/ ConnectCancelled(g)))
          /\ WF_allVars(Serve(CloseBegin(g) \/ ClosePoll(g) \/ CloseEnd(g)))
          /\ WF_allVars(Serve(Join(g)))
          /\ WF_allVars(Serve(EndHook(g)))
    /\ \A n \in Name, by \in {"client", "reaper"} : WF_allVars(Serve(UnbookOrphan(n, by)))
    /\ WF_allVars(ReapRetained(Retained))
    /\ WF_allVars(\E n \in Name : ReapClose(n))
    /\ WF_allVars(WatchEmpty) /\ WF_allVars(WatchAgain)
    /\ WF_allVars(ExitSweep) /\ WF_allVars(Exit)

FairSpec == Spec /\ Fairness

\* Every Connect is answered or reclaimed, whoever cancels, ends, replaces or
\* reaps the session meanwhile.
ConnectSettles == \A c \in Conn : conn[c].pc # "idle" ~> conn[c].pc \in Settled

\* The session of a connect that was cancelled is closed, also when the
\* handshake completes at the same moment; and a session that the server ended
\* leaves the registry and is closed.
SessionsAreClosed ==
    \A g \in Gen : (cancel[g] # "none" \/ sess[g] = "ended") ~> sess[g] \in {"closed", "none"}

\* A daemon without an active session exits, unless one comes.
EmptyExits ==
    (Running /\ \A n \in Name : entries[n] = Vacant \/ entries[n] = Orphaned \/ Ended(n))
        ~> (~Running \/ HoldsActive)
=============================================================================
