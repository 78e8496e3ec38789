------------------------------ MODULE Registry ------------------------------
(***************************************************************************)
(* The session registry of crates/rdpilot-daemon/src/registry.rs, with the *)
(* Connect handler (dispatch.rs, ipc/mod.rs) that drives it.               *)
(*                                                                         *)
(* One step is one critical section of the registry mutex or of the record *)
(* book, or one await that completed.  Client requests, connect tasks, end *)
(* hooks and session threads run on different threads, so any two steps    *)
(* interleave.                                                             *)
(*                                                                         *)
(* - A generation numbers one attempt to connect and, when it is promoted, *)
(*   the live session of that attempt.                                     *)
(* - `sess' is the RDP session of a generation: its handshake runs in the  *)
(*   connect task, "ended" is an end the server or an error caused, and    *)
(*   "closing" a session whose close was polled and whose thread is not    *)
(*   joined yet.                                                           *)
(* - A close of a removed entry (close_removed) runs on behalf of somebody *)
(*   who waits for it: `closer[g].by'.                                     *)
(* - Recording, events and the human lease of the session are left out.    *)
(***************************************************************************)
EXTENDS RecordBook

CONSTANTS
    Conn,       \* Connect requests
    Requests    \* what clients and servers do besides connecting

ASSUME RegistryAssumption ==
    /\ Requests \subseteq {"disconnect", "leave", "refuse", "serverend", "bundle", "auto", "idle"}
    /\ Conn \cap {"client", "reaper", "nobody"} = {}

VARIABLES
    entries,    \* Registry.sessions
    nextGen,    \* Registry.next_generation
    nameOf,     \* the name an attempt claimed
    sess,       \* the RDP session of a generation
    cancel,     \* the cancel handle of an attempt: what was sent, or dropped
    result,     \* what the connect task left in its channel
    hook,       \* the end hook (watch_session_end) waits
    mark,       \* BootstrapMark
    closer,     \* the close of a removed entry
    unbook,     \* orphans that were removed and whose record is not, by whom
    conn        \* the Connect requests

regVars == <<entries, nextGen, nameOf, sess, cancel, result, hook, mark,
             closer, unbook, conn>>
vars == <<bookVars, regVars>>

NoName == "none"
Vacant == [kind |-> "vacant", gen |-> 0]
Orphaned == [kind |-> "orphaned", gen |-> 0]

Connecting(g) == [kind |-> "connecting", gen |-> g]
Live(g) == [kind |-> "live", gen |-> g]
Entry == {Vacant, Orphaned} \cup [kind : {"connecting", "live"}, gen : Gen]

NoCloser == [by |-> "nobody", at |-> "none"]
NoConn == [pc |-> "idle", name |-> NoName, gen |-> 0, on |-> 0]
Settled == {"failed", "gone", "done"}
ConnPc == Settled \cup
    {"idle", "unbooking", "replacing", "claiming", "waiting", "delivered",
     "recorded", "unpromoted", "discarding", "opened", "booting", "answering",
     "acking", "reclaiming", "closing"}

RegTypeOK ==
    /\ BookTypeOK
    /\ entries \in [Name -> Entry]
    /\ nextGen \in 1..(MaxGen + 1)
    /\ nameOf \in [Gen -> Name \cup {NoName}]
    /\ sess \in [Gen -> {"none", "connecting", "open", "ended", "closing", "closed"}]
    /\ cancel \in [Gen -> {"none", "disconnect", "dropped"}]
    /\ result \in [Gen -> {"none", "session", "error", "gone"}]
    /\ hook \in [Gen -> BOOLEAN]
    /\ mark \in [Gen -> BOOLEAN]
    /\ closer \in [Gen -> [by : Conn \cup {"client", "reaper", "nobody"},
                           at : {"none", "removed", "begun", "polled"}]]
    /\ unbook \subseteq Name \X {"client", "reaper"}
    /\ conn \in [Conn -> [pc : ConnPc, name : Name \cup {NoName},
                          gen : 0..MaxGen, on : 0..MaxGen]]

\* The memory of a daemon process that has just started.
MemoryInit ==
    /\ entries = [n \in Name |-> Vacant]
    /\ nextGen = 1
    /\ nameOf = [g \in Gen |-> NoName]
    /\ sess = [g \in Gen |-> "none"]
    /\ cancel = [g \in Gen |-> "none"]
    /\ result = [g \in Gen |-> "none"]
    /\ hook = [g \in Gen |-> FALSE]
    /\ mark = [g \in Gen |-> FALSE]
    /\ closer = [g \in Gen |-> NoCloser]
    /\ unbook = {}

-----------------------------------------------------------------------------
(* Entries *)

\* SessionEntry::end_cause of a live entry.
Ended(n) == entries[n].kind = "live" /\ sess[entries[n].gen] = "ended"
LiveNow(n) == entries[n].kind = "live" /\ sess[entries[n].gen] # "ended"

Goto(c, pc) == conn' = [conn EXCEPT ![c].pc = pc]

\* Dropping the placeholder of attempt g drops its cancel handle.
DropPlaceholder(n, g) ==
    /\ entries' = [entries EXCEPT ![n] = Vacant]
    /\ cancel' = [cancel EXCEPT ![g] = "dropped"]

\* Registry::cancel_connecting: only the placeholder of the own attempt.
CancelConnecting(c) ==
    LET n == conn[c].name IN
    IF entries[n] = Connecting(conn[c].gen)
    THEN DropPlaceholder(n, conn[c].gen)
    ELSE UNCHANGED <<entries, cancel>>

\* A live entry is taken out of the map, to be closed on behalf of `by'.
Remove(n, by) ==
    /\ entries' = [entries EXCEPT ![n] = Vacant]
    /\ closer' = [closer EXCEPT ![entries[n].gen] = [by |-> by, at |-> "removed"]]

-----------------------------------------------------------------------------
(* close_removed *)

\* The reaper closes what it removed one after the other.
ReaperWorks == \E g \in Gen : closer[g].by = "reaper" /\ closer[g].at \in {"begun", "polled"}

\* The end hook is dropped; the record of a session that has ended goes now.
CloseBegin(g) ==
    /\ closer[g].at = "removed"
    /\ closer[g].by = "reaper" => ~ReaperWorks
    /\ hook' = [hook EXCEPT ![g] = FALSE]
    /\ IF sess[g] = "ended" THEN Closed(nameOf[g], g) ELSE UNCHANGED bookVars
    /\ closer' = [closer EXCEPT ![g].at = "begun"]
    /\ UNCHANGED <<entries, nextGen, nameOf, sess, cancel, result, mark, unbook, conn>>

\* The first poll of the session's close stops its loop.
ClosePoll(g) ==
    /\ closer[g].at = "begun"
    /\ sess' = [sess EXCEPT ![g] = "closing"]
    /\ closer' = [closer EXCEPT ![g].at = "polled"]
    /\ UNCHANGED <<bookVars, entries, nextGen, nameOf, cancel, result, hook, mark, unbook, conn>>

\* The session thread is joined; the record goes, whatever the close returned.
CloseEnd(g) ==
    /\ closer[g].at = "polled"
    /\ sess[g] = "closed"
    /\ Closed(nameOf[g], g)
    /\ closer' = [closer EXCEPT ![g] = NoCloser]
    /\ UNCHANGED <<entries, nextGen, nameOf, sess, cancel, result, hook, mark, unbook, conn>>

\* The thread of a session ends once its loop was stopped.
Join(g) ==
    /\ sess[g] = "closing"
    /\ sess' = [sess EXCEPT ![g] = "closed"]
    /\ UNCHANGED <<bookVars, entries, nextGen, nameOf, cancel, result, hook, mark,
                   closer, unbook, conn>>

-----------------------------------------------------------------------------
(* open_tracked *)

\* release_name: free the name of an orphan or of a session that has ended.
ReleaseName(c, n) ==
    /\ conn[c].pc = "idle"
    /\ \/ /\ entries[n] = Orphaned
          /\ entries' = [entries EXCEPT ![n] = Vacant]
          /\ conn' = [conn EXCEPT ![c] = [NoConn EXCEPT !.pc = "unbooking", !.name = n]]
          /\ UNCHANGED closer
       \/ /\ Ended(n)
          /\ Remove(n, c)
          /\ conn' = [conn EXCEPT ![c] = [NoConn EXCEPT !.pc = "replacing", !.name = n,
                                                        !.on = entries[n].gen]]
       \/ /\ entries[n] # Orphaned /\ ~Ended(n)
          /\ conn' = [conn EXCEPT ![c] = [NoConn EXCEPT !.pc = "claiming", !.name = n]]
          /\ UNCHANGED <<entries, closer>>
    /\ UNCHANGED <<bookVars, nextGen, nameOf, sess, cancel, result, hook, mark, unbook>>

\* The record of the orphan goes.
ReleasedOrphan(c) ==
    /\ conn[c].pc = "unbooking"
    /\ ClosedOrphan(conn[c].name)
    /\ Goto(c, "claiming")
    /\ UNCHANGED <<entries, nextGen, nameOf, sess, cancel, result, hook, mark, closer, unbook>>

\* The ended session was closed, with or without an error.
ReleasedEnded(c) ==
    /\ conn[c].pc = "replacing"
    /\ closer[conn[c].on].at = "none"
    /\ Goto(c, "claiming")
    /\ UNCHANGED <<bookVars, entries, nextGen, nameOf, sess, cancel, result, hook, mark,
                   closer, unbook>>

\* The placeholder goes in and the connect task starts.
Insert(c, n) ==
    /\ nextGen <= MaxGen
    /\ entries' = [entries EXCEPT ![n] = Connecting(nextGen)]
    /\ nextGen' = nextGen + 1
    /\ nameOf' = [nameOf EXCEPT ![nextGen] = n]
    /\ sess' = [sess EXCEPT ![nextGen] = "connecting"]
    /\ conn' = [conn EXCEPT ![c] = [pc |-> "waiting", name |-> n, gen |-> nextGen, on |-> 0]]

\* Registry::claim.
Claim(c) ==
    LET n == conn[c].name IN
    /\ conn[c].pc = "claiming"
    /\ \/ entries[n] = Vacant /\ Insert(c, n)
       \/ /\ entries[n] # Vacant
          /\ Goto(c, "failed")
          /\ UNCHANGED <<entries, nextGen, nameOf, sess>>
    /\ UNCHANGED <<bookVars, cancel, result, hook, mark, closer, unbook>>

\* claim_with_auto_id: a name without an entry; a collision tries another.
ClaimWithAutoId(c, n) ==
    /\ "auto" \in Requests
    /\ conn[c].pc = "idle"
    /\ entries[n] = Vacant
    /\ Insert(c, n)
    /\ UNCHANGED <<bookVars, cancel, result, hook, mark, closer, unbook>>

\* The Connect request waits for the task of its attempt.
Awaited(g) == \E c \in Conn : conn[c].pc = "waiting" /\ conn[c].gen = g

\* Mutant: the task drops a session that nobody waits for.
ConnectReadyDropped(g) ==
    /\ sess[g] = "connecting"
    /\ sess' = [sess EXCEPT ![g] = "open"]
    /\ result' = IF Awaited(g) THEN [result EXCEPT ![g] = "session"] ELSE result
    /\ UNCHANGED <<bookVars, entries, nextGen, nameOf, cancel, hook, mark, closer, unbook, conn>>

\* The connect task: the handshake succeeded.  A cancel that was sent after
\* the task looked for it does not stop it here.  A session that cannot be
\* delivered is closed by the task.
ConnectReady(g) ==
    /\ sess[g] = "connecting"
    /\ \/ /\ Awaited(g)
          /\ result' = [result EXCEPT ![g] = "session"]
          /\ sess' = [sess EXCEPT ![g] = "open"]
       \/ /\ ~Awaited(g)
          /\ sess' = [sess EXCEPT ![g] = "closing"]
          /\ UNCHANGED result
    /\ UNCHANGED <<bookVars, entries, nextGen, nameOf, cancel, hook, mark, closer, unbook, conn>>

\* The handshake failed, or its deadline passed.
ConnectFails(g) ==
    /\ "refuse" \in Requests
    /\ sess[g] = "connecting"
    /\ sess' = [sess EXCEPT ![g] = "closed"]
    /\ result' = [result EXCEPT ![g] = "error"]
    /\ UNCHANGED <<bookVars, entries, nextGen, nameOf, cancel, hook, mark, closer, unbook, conn>>

\* The task sees the cancel: the connect future is dropped, and only a cause
\* that was sent is answered.
ConnectCancelled(g) ==
    /\ sess[g] = "connecting"
    /\ cancel[g] # "none"
    /\ sess' = [sess EXCEPT ![g] = "closed"]
    /\ result' = [result EXCEPT ![g] = IF cancel[g] = "disconnect" THEN "error" ELSE "gone"]
    /\ UNCHANGED <<bookVars, entries, nextGen, nameOf, cancel, hook, mark, closer, unbook, conn>>

\* The wait for the connect task is over.
Delivered(c) ==
    LET g == conn[c].gen IN
    /\ conn[c].pc = "waiting"
    /\ \/ /\ result[g] = "session"
          /\ Goto(c, "delivered")
          /\ UNCHANGED <<entries, cancel>>
       \/ /\ result[g] \in {"error", "gone"}
          /\ CancelConnecting(c)
          /\ Goto(c, "failed")
    /\ UNCHANGED <<bookVars, nextGen, nameOf, sess, result, hook, mark, closer, unbook>>

\* Mutant: the guard forgets a session that was delivered already.
ConnectDroppedBare(c) ==
    /\ "leave" \in Requests
    /\ conn[c].pc = "waiting"
    /\ CancelConnecting(c)
    /\ Goto(c, "gone")
    /\ UNCHANGED <<bookVars, nextGen, nameOf, sess, result, hook, mark, closer, unbook>>

\* The peer left while the connect was pending: ConnectGuard::drop.
ConnectDropped(c) ==
    LET g == conn[c].gen IN
    /\ "leave" \in Requests
    /\ conn[c].pc = "waiting"
    /\ CancelConnecting(c)
    /\ sess' = IF result[g] = "session" /\ sess[g] \in {"open", "ended"}
               THEN [sess EXCEPT ![g] = "closing"] ELSE sess
    /\ Goto(c, "gone")
    /\ UNCHANGED <<bookVars, nextGen, nameOf, result, hook, mark, closer, unbook>>

\* The peer left while the name's ended session was being closed.
ReplaceDropped(c) ==
    LET g == conn[c].on IN
    /\ "leave" \in Requests
    /\ conn[c].pc = "replacing"
    /\ closer[g].at = "polled"
    /\ closer' = [closer EXCEPT ![g] = NoCloser]
    /\ Goto(c, "gone")
    /\ UNCHANGED <<bookVars, entries, nextGen, nameOf, sess, cancel, result, hook, mark, unbook>>

\* The record is written before the promotion.
RecordSession(c) ==
    /\ conn[c].pc = "delivered"
    /\ Opened(conn[c].name, conn[c].gen)
    /\ Goto(c, "recorded")
    /\ UNCHANGED <<entries, nextGen, nameOf, sess, cancel, result, hook, mark, closer, unbook>>

\* Only the placeholder of the same attempt is promoted.
Promote(c, bundle) ==
    LET n == conn[c].name
        g == conn[c].gen IN
    /\ conn[c].pc = "recorded"
    /\ \/ /\ entries[n] = Connecting(g)
          /\ entries' = [entries EXCEPT ![n] = Live(g)]
          /\ hook' = [hook EXCEPT ![g] = TRUE]
          /\ mark' = [mark EXCEPT ![g] = bundle]
          /\ Goto(c, "opened")
       \/ /\ entries[n] # Connecting(g)
          /\ Goto(c, "unpromoted")
          /\ UNCHANGED <<entries, hook, mark>>
    /\ UNCHANGED <<bookVars, nextGen, nameOf, sess, cancel, result, closer, unbook>>

\* A session that was not promoted: its record goes, then it is closed.
Discard(c) ==
    /\ conn[c].pc = "unpromoted"
    /\ Closed(conn[c].name, conn[c].gen)
    /\ sess' = [sess EXCEPT ![conn[c].gen] = "closing"]
    /\ Goto(c, "discarding")
    /\ UNCHANGED <<entries, nextGen, nameOf, cancel, result, hook, mark, closer, unbook>>

\* The close is awaited, or the peer left and the future is dropped in it.
Discarded(c) ==
    /\ conn[c].pc = "discarding"
    /\ sess[conn[c].gen] = "closed" \/ "leave" \in Requests
    /\ Goto(c, "failed")
    /\ UNCHANGED <<bookVars, entries, nextGen, nameOf, sess, cancel, result, hook, mark,
                   closer, unbook>>

-----------------------------------------------------------------------------
(* dispatch_connect after open_tracked, and serve_connection *)

\* The bootstrap is a transfer of the session that has the name now.
Bootstrap(c) ==
    LET n == conn[c].name IN
    /\ conn[c].pc = "opened"
    /\ mark[conn[c].gen]
    /\ conn' = [conn EXCEPT ![c].pc = IF LiveNow(n) THEN "booting" ELSE "reclaiming",
                            ![c].on = IF LiveNow(n) THEN entries[n].gen ELSE 0]
    /\ UNCHANGED <<bookVars, entries, nextGen, nameOf, sess, cancel, result, hook, mark,
                   closer, unbook>>

NoBootstrap(c) ==
    /\ conn[c].pc = "opened"
    /\ ~mark[conn[c].gen]
    /\ Goto(c, "answering")
    /\ UNCHANGED <<bookVars, entries, nextGen, nameOf, sess, cancel, result, hook, mark,
                   closer, unbook>>

\* The bridge answered: the mark is dropped.
Booted(c) ==
    /\ conn[c].pc = "booting"
    /\ sess[conn[c].on] = "open"
    /\ conn' = [conn EXCEPT ![c].pc = "answering", ![c].on = 0]
    /\ mark' = [mark EXCEPT ![conn[c].gen] = FALSE]
    /\ UNCHANGED <<bookVars, entries, nextGen, nameOf, sess, cancel, result, hook, closer, unbook>>

\* The bootstrap failed or was cancelled by a close, or the peer left.
BootFails(c) ==
    /\ conn[c].pc = "booting"
    /\ conn' = [conn EXCEPT ![c].pc = "reclaiming", ![c].on = 0]
    /\ UNCHANGED <<bookVars, entries, nextGen, nameOf, sess, cancel, result, hook, mark,
                   closer, unbook>>

\* Connected is written; a client that asked for it acknowledges next.
Answer(c) ==
    /\ conn[c].pc = "answering"
    /\ \E pc \in {"acking", "done"} : Goto(c, pc)
    /\ UNCHANGED <<bookVars, entries, nextGen, nameOf, sess, cancel, result, hook, mark,
                   closer, unbook>>

Acked(c) ==
    /\ conn[c].pc = "acking"
    /\ Goto(c, "done")
    /\ UNCHANGED <<bookVars, entries, nextGen, nameOf, sess, cancel, result, hook, mark,
                   closer, unbook>>

\* The peer is gone: the write failed, or no acknowledgement came in time.
AnswerLost(c) ==
    /\ "leave" \in Requests
    /\ conn[c].pc \in {"answering", "acking"}
    /\ Goto(c, "reclaiming")
    /\ UNCHANGED <<bookVars, entries, nextGen, nameOf, sess, cancel, result, hook, mark,
                   closer, unbook>>

\* Mutant: the session that has the name now is reclaimed.
CloseIfNamed(c) ==
    LET n == conn[c].name IN
    /\ conn[c].pc = "reclaiming"
    /\ \/ /\ entries[n].kind = "live"
          /\ Remove(n, c)
          /\ conn' = [conn EXCEPT ![c].pc = "closing", ![c].on = entries[n].gen]
          /\ UNCHANGED mark
       \/ /\ entries[n].kind # "live"
          /\ Goto(c, "gone")
          /\ mark' = [mark EXCEPT ![conn[c].gen] = FALSE]
          /\ UNCHANGED <<entries, closer>>
    /\ UNCHANGED <<bookVars, nextGen, nameOf, sess, cancel, result, hook, unbook>>

\* Mutant: the session is expected to be there still.
CloseIfThere(c) ==
    /\ conn[c].pc = "reclaiming"
    /\ entries[conn[c].name] = Live(conn[c].gen)
    /\ Remove(conn[c].name, c)
    /\ conn' = [conn EXCEPT ![c].pc = "closing", ![c].on = conn[c].gen]
    /\ UNCHANGED <<bookVars, nextGen, nameOf, sess, cancel, result, hook, mark, unbook>>

\* Registry::close_if_generation.
CloseIfGeneration(c) ==
    LET n == conn[c].name
        g == conn[c].gen IN
    /\ conn[c].pc = "reclaiming"
    /\ \/ /\ entries[n] = Live(g)
          /\ Remove(n, c)
          /\ conn' = [conn EXCEPT ![c].pc = "closing", ![c].on = g]
          /\ UNCHANGED mark
       \/ /\ entries[n] # Live(g)
          /\ Goto(c, "gone")
          /\ mark' = [mark EXCEPT ![g] = FALSE]
          /\ UNCHANGED <<entries, closer>>
    /\ UNCHANGED <<bookVars, nextGen, nameOf, sess, cancel, result, hook, unbook>>

Reclaimed(c) ==
    /\ conn[c].pc = "closing"
    /\ closer[conn[c].on].at = "none"
    /\ Goto(c, "gone")
    /\ mark' = [mark EXCEPT ![conn[c].gen] = FALSE]
    /\ UNCHANGED <<bookVars, entries, nextGen, nameOf, sess, cancel, result, hook, closer, unbook>>

-----------------------------------------------------------------------------
(* Disconnect, the server, the end hook *)

\* close_with: the entry `n' is closed on behalf of `by'.
CloseWith(n, by) ==
    \/ /\ entries[n].kind = "live"
       /\ Remove(n, by)
       /\ UNCHANGED <<cancel, unbook>>
    \/ /\ entries[n] = Orphaned
       /\ entries' = [entries EXCEPT ![n] = Vacant]
       /\ unbook' = unbook \cup {<<n, by>>}
       /\ UNCHANGED <<cancel, closer>>

\* Registry::close.  A connect in flight is cancelled and told why.
Disconnect(n) ==
    /\ "disconnect" \in Requests
    /\ \/ /\ entries[n].kind = "connecting"
          /\ entries' = [entries EXCEPT ![n] = Vacant]
          /\ cancel' = [cancel EXCEPT ![entries[n].gen] = "disconnect"]
          /\ UNCHANGED <<closer, unbook>>
       \/ CloseWith(n, "client")
    /\ UNCHANGED <<bookVars, nextGen, nameOf, sess, result, hook, mark, conn>>

\* The record of an orphan that was disconnected or expired goes.
UnbookOrphan(n, by) ==
    /\ <<n, by>> \in unbook
    /\ by = "reaper" => ~ReaperWorks
    /\ ClosedOrphan(n)
    /\ unbook' = unbook \ {<<n, by>>}
    /\ UNCHANGED <<entries, nextGen, nameOf, sess, cancel, result, hook, mark, closer, conn>>

\* The server ends the session, or its loop fails.
ServerEnds(g) ==
    /\ "serverend" \in Requests
    /\ sess[g] = "open"
    /\ sess' = [sess EXCEPT ![g] = "ended"]
    /\ UNCHANGED <<bookVars, entries, nextGen, nameOf, cancel, result, hook, mark,
                   closer, unbook, conn>>

\* watch_session_end: the record of the generation goes, the entry stays.
EndHook(g) ==
    /\ hook[g]
    /\ sess[g] = "ended"
    /\ Closed(nameOf[g], g)
    /\ hook' = [hook EXCEPT ![g] = FALSE]
    /\ UNCHANGED <<entries, nextGen, nameOf, sess, cancel, result, mark, closer, unbook, conn>>

-----------------------------------------------------------------------------
OpenNext(c) ==
    \/ \E n \in Name : ReleaseName(c, n) \/ ClaimWithAutoId(c, n)
    \/ ReleasedOrphan(c) \/ ReleasedEnded(c) \/ ReplaceDropped(c) \/ Claim(c)
    \/ Delivered(c) \/ ConnectDropped(c) \/ RecordSession(c)
    \/ \E bundle \in BOOLEAN : (bundle => "bundle" \in Requests) /\ Promote(c, bundle)
    \/ Discard(c) \/ Discarded(c)

AnswerNext(c) ==
    \/ Bootstrap(c) \/ NoBootstrap(c) \/ Booted(c) \/ BootFails(c)
    \/ Answer(c) \/ Acked(c) \/ AnswerLost(c)
    \/ CloseIfGeneration(c) \/ Reclaimed(c)

GenNext(g) ==
    \/ ConnectReady(g) \/ ConnectFails(g) \/ ConnectCancelled(g)
    \/ CloseBegin(g) \/ ClosePoll(g) \/ CloseEnd(g) \/ Join(g)
    \/ ServerEnds(g) \/ EndHook(g)

RegistryNext ==
    \/ \E c \in Conn : OpenNext(c) \/ AnswerNext(c)
    \/ \E g \in Gen : GenNext(g)
    \/ \E n \in Name : Disconnect(n) \/ \E by \in {"client", "reaper"} : UnbookOrphan(n, by)
=============================================================================
