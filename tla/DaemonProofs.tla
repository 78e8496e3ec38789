---------------------------- MODULE DaemonProofs ----------------------------
(* Theorems about Daemon, Registry and RecordBook, for every set of names and  *)
(* Connect requests, every bound on generations, every combination of disk     *)
(* faults and requests, with and without crashes.                              *)
EXTENDS Daemon, TLAPS

-----------------------------------------------------------------------------
(* The record book *)

\* What one critical section of the book may do to the file: a fault is
\* remembered, no name of an owned record is dropped before a fault, and what
\* is left to remove is not owned (RecordBook, every operation).
BookOK ==
    /\ disk.ok => pending = {}
    /\ \A n \in pending : owner[n] = 0
    /\ disk.ok => \A n \in Name : owner[n] # 0 => n \in disk.names

\* Until a fault the file holds owned records only.
Tidy == disk.ok => \A n \in disk.names : owner[n] # 0

\* The file that a sink call reads is a file.
LEMMA LoadedFile ==
    ASSUME NEW file \in File, NEW l \in Loaded(file)
    PROVE  /\ l \in File
           /\ l.ok => l = file
           /\ "read" \notin DiskFaults => l = file
  <1>1. CASE "read" \in DiskFaults
    <2>1. l = file \/ l = [names |-> {}, ok |-> FALSE]
      BY <1>1 DEF Loaded
    <2>2. CASE l = file
      BY <2>2
    <2>3. CASE l = [names |-> {}, ok |-> FALSE]
      <3>1. l \in File /\ l.ok = FALSE
        BY <2>3 DEF File
      <3> QED BY <1>1, <3>1
    <2> QED BY <2>1, <2>2, <2>3
  <1>2. CASE "read" \notin DiskFaults
    BY <1>2 DEF Loaded
  <1> QED BY <1>1, <1>2

\* flush_pending removes the names that are left, or leaves the file alone.
LEMMA FlushedFile ==
    ASSUME NEW file \in File, NEW left \in SUBSET Name, FlushPending(file, left)
    PROVE  /\ disk' \in File /\ pending' \subseteq left
           /\ disk'.ok => file.ok /\ pending' = {} /\ disk'.names = file.names \ left
           /\ "read" \notin DiskFaults => file.names \ left \subseteq disk'.names
  <1>1. CASE left = {}
    BY <1>1 DEF FlushPending, File
  <1>2. CASE left # {} /\ \E l \in Loaded(file) : disk' = [l EXCEPT !.names = @ \ left] /\ pending' = {}
    <2>1. PICK l \in Loaded(file) : disk' = [l EXCEPT !.names = @ \ left]
      BY <1>2
    <2> QED BY <1>2, <2>1, LoadedFile DEF File
  <1>3. CASE left # {} /\ disk' = Faulty(file) /\ pending' = left
    BY <1>3 DEF Faulty, File
  <1> QED BY <1>1, <1>2, <1>3 DEF FlushPending

\* record_open adds the name, unless it fails.
LEMMA OpenedFile ==
    ASSUME NEW file \in File, NEW n \in Name, NEW f \in RecordOpen(file, n)
    PROVE  /\ f \in File
           /\ f.ok => file.ok /\ f.names = file.names \cup {n}
           /\ "read" \notin DiskFaults => file.names \subseteq f.names
  <1>1. CASE f = Faulty(file)
    BY <1>1 DEF Faulty, File
  <1>2. CASE \E l \in Loaded(file) : f = [l EXCEPT !.names = @ \cup {n}]
    <2>1. PICK l \in Loaded(file) : f = [l EXCEPT !.names = @ \cup {n}]
      BY <1>2
    <2> QED BY <2>1, LoadedFile DEF File
  <1> QED BY <1>1, <1>2 DEF RecordOpen, Rewritten

\* record_closed removes the name, unless it fails.
LEMMA ClosedFile ==
    ASSUME NEW file \in File, NEW n \in Name, NEW f \in RecordClosed(file, n)
    PROVE  /\ f \in File
           /\ f.ok => file.ok /\ f.names = file.names \ {n}
           /\ "read" \notin DiskFaults => file.names \ {n} \subseteq f.names
  <1>1. CASE f = Faulty(file)
    BY <1>1 DEF Faulty, File
  <1>2. CASE \E l \in Loaded(file) : f = [l EXCEPT !.names = @ \ {n}]
    <2>1. PICK l \in Loaded(file) : f = [l EXCEPT !.names = @ \ {n}]
      BY <1>2
    <2> QED BY <2>1, LoadedFile DEF File
  <1> QED BY <1>1, <1>2 DEF RecordClosed, Rewritten

\* What a step of the book leaves to every name whose record stays owned.
KeepsOwned ==
    \A n \in Name : owner[n] # 0 /\ owner'[n] = owner[n] /\ n \in disk.names => n \in disk'.names

\* RecordBook::opened.
LEMMA BookOpened ==
    ASSUME BookTypeOK, BookOK, NEW n \in Name, NEW g \in Gen, Opened(n, g)
    PROVE  /\ BookTypeOK' /\ BookOK' /\ (Tidy => Tidy')
           /\ owner' = [owner EXCEPT ![n] = IF owner[n] < g THEN g ELSE owner[n]]
           /\ "read" \notin DiskFaults => KeepsOwned
  <1>0. /\ g \in Nat /\ g # 0 /\ g \in 0..MaxGen /\ owner[n] \in Nat
        /\ owner \in [Name -> 0..MaxGen] /\ disk \in File /\ pending \subseteq Name
    BY BookAssumption DEF Gen, BookTypeOK
  <1>1. CASE owner[n] >= g
    BY <1>0, <1>1 DEF Opened, bookVars, BookTypeOK, BookOK, Tidy, KeepsOwned
  <1>2. CASE owner[n] < g
    <2>1. PICK f \in RecordOpen(disk, n) : FlushPending(f, pending \ {n})
      BY <1>0, <1>2 DEF Opened
    <2>2. owner' = [owner EXCEPT ![n] = g]
      BY <1>0, <1>2 DEF Opened
    <2>3. /\ f \in File
          /\ f.ok => disk.ok /\ f.names = disk.names \cup {n}
          /\ "read" \notin DiskFaults => disk.names \subseteq f.names
      BY <1>0, <2>1, OpenedFile
    <2>4. /\ disk' \in File /\ pending' \subseteq pending \ {n}
          /\ disk'.ok => f.ok /\ pending' = {} /\ disk'.names = f.names \ (pending \ {n})
          /\ "read" \notin DiskFaults => f.names \ (pending \ {n}) \subseteq disk'.names
      BY <1>0, <2>1, <2>3, FlushedFile
    <2>5. BookTypeOK'
      BY <1>0, <2>2, <2>4 DEF BookTypeOK
    <2>6. BookOK'
      BY <1>0, <2>2, <2>3, <2>4 DEF BookOK
    <2>7. Tidy => Tidy'
      BY <1>0, <2>2, <2>3, <2>4 DEF Tidy, BookOK, File
    <2>8. "read" \notin DiskFaults => KeepsOwned
      BY <1>0, <2>2, <2>3, <2>4 DEF KeepsOwned, BookOK
    <2> QED BY <1>0, <1>2, <2>2, <2>5, <2>6, <2>7, <2>8
  <1> QED BY <1>0, <1>1, <1>2

\* RecordBook::closed.
LEMMA BookClosed ==
    ASSUME BookTypeOK, BookOK, NEW n, NEW g \in Gen, Closed(n, g),
           n \in Name
    PROVE  /\ BookTypeOK' /\ BookOK' /\ (Tidy => Tidy')
           /\ owner' = [owner EXCEPT ![n] = IF owner[n] = g THEN 0 ELSE owner[n]]
           /\ "read" \notin DiskFaults => KeepsOwned
  <1>0. /\ g \in Nat /\ g # 0 /\ 0 \in 0..MaxGen /\ owner[n] \in Nat
        /\ owner \in [Name -> 0..MaxGen] /\ disk \in File /\ pending \subseteq Name
    BY BookAssumption DEF Gen, BookTypeOK
  <1>1. CASE owner[n] # g
    BY <1>0, <1>1 DEF Closed, bookVars, BookTypeOK, BookOK, Tidy, KeepsOwned
  <1>2. CASE owner[n] = g
    <2>1. PICK f \in RecordClosed(disk, n) : FlushPending(f, pending)
      BY <1>0, <1>2 DEF Closed
    <2>2. owner' = [owner EXCEPT ![n] = 0]
      BY <1>0, <1>2 DEF Closed
    <2>3. /\ f \in File
          /\ f.ok => disk.ok /\ f.names = disk.names \ {n}
          /\ "read" \notin DiskFaults => disk.names \ {n} \subseteq f.names
      BY <1>0, <2>1, ClosedFile
    <2>4. /\ disk' \in File /\ pending' \subseteq pending
          /\ disk'.ok => f.ok /\ pending' = {} /\ disk'.names = f.names \ pending
          /\ "read" \notin DiskFaults => f.names \ pending \subseteq disk'.names
      BY <1>0, <2>1, <2>3, FlushedFile
    <2>5. BookTypeOK'
      BY <1>0, <2>2, <2>4 DEF BookTypeOK
    <2>6. BookOK'
      BY <1>0, <2>2, <2>3, <2>4 DEF BookOK
    <2>7. Tidy => Tidy'
      BY <1>0, <2>2, <2>3, <2>4 DEF Tidy, BookOK, File
    <2>8. "read" \notin DiskFaults => KeepsOwned
      BY <1>0, <1>2, <2>2, <2>3, <2>4 DEF KeepsOwned, BookOK
    <2> QED BY <1>0, <1>2, <2>2, <2>5, <2>6, <2>7, <2>8
  <1> QED BY <1>0, <1>1, <1>2

\* The removals that RecordBook::closed_orphan and purge_seeded flush: no record
\* that is owned is among them.
LEMMA BookFlushed ==
    ASSUME BookTypeOK, BookOK, NEW left \in SUBSET Name, \A n \in left : owner[n] = 0,
           FlushPending(disk, pending \cup left), UNCHANGED owner
    PROVE  /\ BookTypeOK' /\ BookOK' /\ (Tidy => Tidy')
           /\ disk'.ok => disk.ok /\ disk'.names = disk.names \ left
           /\ "read" \notin DiskFaults => KeepsOwned
  <1>0. owner \in [Name -> 0..MaxGen] /\ disk \in File /\ pending \subseteq Name
    BY DEF BookTypeOK
  <1>1. /\ disk' \in File /\ pending' \subseteq pending \cup left
        /\ disk'.ok => disk.ok /\ pending' = {} /\ disk'.names = disk.names \ (pending \cup left)
        /\ "read" \notin DiskFaults => disk.names \ (pending \cup left) \subseteq disk'.names
    BY <1>0, FlushedFile
  <1>2. BookTypeOK' /\ BookOK' /\ (Tidy => Tidy')
    BY <1>0, <1>1 DEF BookTypeOK, BookOK, Tidy
  <1>3. disk'.ok => disk.ok /\ disk'.names = disk.names \ left
    BY <1>1 DEF BookOK
  <1>4. "read" \notin DiskFaults => KeepsOwned
    BY <1>0, <1>1 DEF KeepsOwned, BookOK
  <1> QED BY <1>2, <1>3, <1>4

\* RecordBook::closed_orphan.
LEMMA BookClosedOrphan ==
    ASSUME BookTypeOK, BookOK, NEW n \in Name, ClosedOrphan(n)
    PROVE  /\ BookTypeOK' /\ BookOK' /\ (Tidy => Tidy') /\ UNCHANGED owner
           /\ "read" \notin DiskFaults => KeepsOwned
  <1>1. CASE owner[n] # 0
    BY <1>1 DEF ClosedOrphan, bookVars, BookTypeOK, BookOK, Tidy, KeepsOwned
  <1>2. CASE owner[n] = 0
    <2>1. FlushPending(disk, pending \cup {n}) /\ UNCHANGED owner
      BY <1>2 DEF ClosedOrphan
    <2>2. {n} \in SUBSET Name /\ \A m \in {n} : owner[m] = 0
      BY <1>2
    <2> QED BY <2>1, <2>2, BookFlushed
  <1> QED BY <1>1, <1>2

-----------------------------------------------------------------------------
(* The inductive invariant of the registry *)

\* Where a Connect stands: before its session is live or closed, after the
\* promotion, at any point with an attempt of its own, and before it has one.
Early == {"waiting", "delivered", "recorded", "unpromoted"}
Promoted == {"opened", "booting", "answering", "acking", "reclaiming", "done"}
Numbered == Early \cup Promoted \cup {"discarding", "closing"}
Asking == {"unbooking", "replacing", "claiming"}

\* A generation is handed out once, to one Connect and one name, and an entry
\* is the youngest attempt of its name (Registry::claim).
NameNumbers(n) ==
    /\ entries[n].gen < nextGen
    /\ entries[n].gen # 0 =>
          /\ nameOf[entries[n].gen] = n
          /\ \A g \in Gen : g < nextGen /\ nameOf[g] = n => g <= entries[n].gen
    /\ owner[n] < nextGen
    /\ owner[n] # 0 => nameOf[owner[n]] = n

ConnNumbers(c) ==
    /\ conn[c].gen < nextGen /\ conn[c].on < nextGen
    /\ conn[c].gen # 0 => nameOf[conn[c].gen] = conn[c].name
    /\ \A d \in Conn : conn[d].gen = conn[c].gen /\ conn[c].gen # 0 => d = c
    /\ conn[c].pc \in Numbered => conn[c].gen # 0
    /\ conn[c].pc \in Numbered \cup Asking => conn[c].name \in Name
    /\ conn[c].pc \in Asking \cup {"idle"} => conn[c].gen = 0
    /\ conn[c].pc = "idle" => conn[c].on = 0

GenNumbers(g) ==
    /\ g < nextGen => nameOf[g] \in Name
    /\ g >= nextGen =>
          sess[g] = "none" /\ result[g] = "none" /\ ~hook[g] /\ closer[g].at = "none"

Numbers ==
    /\ \A n \in Name : NameNumbers(n)
    /\ \A c \in Conn : ConnNumbers(c)
    /\ \A g \in Gen : GenNumbers(g)

\* A Connect that is not promoted holds its session alone: no close, no end
\* hook and no entry has it; its channel and its session agree, and the record
\* it wrote is its own when it promotes its placeholder.
HoldsAlone(c) ==
    LET g == conn[c].gen
        n == conn[c].name IN
    /\ ~hook[g] /\ closer[g].at = "none"
    /\ entries[n] # Live(g)
    /\ conn[c].pc # "waiting" => sess[g] \in {"open", "ended"}
    /\ conn[c].pc = "waiting" =>
          \/ result[g] = "none" /\ sess[g] = "connecting"
          \/ result[g] = "session" /\ sess[g] \in {"open", "ended"}
          \/ result[g] \in {"error", "gone"} /\ sess[g] = "closed"
    /\ conn[c].pc \in {"waiting", "delivered"} => owner[n] # g
    /\ conn[c].pc = "recorded" /\ entries[n] = Connecting(g) => owner[n] = g

EarlyOK == \A c \in Conn : conn[c].pc \in Early => HoldsAlone(c)

\* The session of a live entry is running or has ended, nobody closes it, and
\* while it runs its record is its own.
RunsOwned(n) ==
    LET g == entries[n].gen IN
    /\ sess[g] \in {"open", "ended"} /\ closer[g].at = "none"
    /\ sess[g] = "open" => owner[n] = g

LiveOK == \A n \in Name : entries[n].kind = "live" => RunsOwned(n)

\* The loop of a session is stopped by the first poll of its close.
CloserOK ==
    \A g \in Gen :
        /\ closer[g].at \in {"removed", "begun"} => sess[g] \in {"open", "ended"}
        /\ closer[g].at = "polled" => sess[g] \in {"closing", "closed"}

\* Whoever owns a record will remove it: its live entry, its close, or the
\* Connect that wrote it and has not been promoted.
Removable(n, g) ==
    \/ entries[n] = Live(g)
    \/ closer[g].at # "none"
    \/ \E c \in Conn : conn[c].gen = g /\ conn[c].pc \in {"recorded", "unpromoted"}

OwnerOK == \A n \in Name : owner[n] # 0 => Removable(n, owner[n])

\* What a Connect replaces had ended, so that its record went when the close
\* began: a peer that leaves in the middle of the close leaves no record behind.
ReplacesEnded(c) ==
    LET g == conn[c].on IN
    /\ g # 0
    /\ \A n \in Name : entries[n] # Live(g)
    /\ \A d \in Conn : conn[d].gen = g => conn[d].pc \notin Early
    /\ closer[g].at # "none" =>
          /\ closer[g].by = c
          /\ closer[g].at \in {"removed", "begun"} => sess[g] = "ended"
          /\ closer[g].at \in {"begun", "polled"} => owner[nameOf[g]] # g

ReplaceOK == \A c \in Conn : conn[c].pc = "replacing" => ReplacesEnded(c)

\* From its promotion on a running session is taken away by a client's
\* Disconnect, by the reaper or by its own Connect only.
StaysConnected(c) ==
    LET g == conn[c].gen IN
    sess[g] = "open" =>
        \/ entries[conn[c].name] = Live(g)
        \/ closer[g].by \in {"client", "reaper"}

ConnectedOK == \A c \in Conn : conn[c].pc \in Promoted => StaysConnected(c)

RegInv ==
    /\ RegTypeOK /\ BookOK
    /\ Numbers /\ EarlyOK /\ LiveOK /\ CloserOK /\ OwnerOK /\ ReplaceOK /\ ConnectedOK
    /\ NoSessionLeaks

\* What every step of the registry does to the book.
BookSafe == (Tidy => Tidy') /\ ("read" \notin DiskFaults => KeepsOwned)

-----------------------------------------------------------------------------
(* Steps that only move a Connect *)

ConnType == [pc : ConnPc, name : Name \cup {NoName}, gen : 0..MaxGen, on : 0..MaxGen]

\* Connect c goes to pc, and nothing else of any Connect changes but `on'.
Moves(c, pc, on) ==
    \A d \in Conn :
        /\ conn'[d].gen = conn[d].gen /\ conn'[d].name = conn[d].name
        /\ conn'[d].on = IF d = c THEN on ELSE conn[d].on
        /\ conn'[d].pc = IF d = c THEN pc ELSE conn[d].pc

\* Goto is such a move.
LEMMA GotoMoves ==
    ASSUME conn \in [Conn -> ConnType], NEW c \in Conn, NEW pc \in ConnPc, Goto(c, pc)
    PROVE  conn' \in [Conn -> ConnType] /\ Moves(c, pc, conn[c].on)
  BY DEF ConnType, Goto, Moves

\* So is the update of pc and `on'.
LEMMA UpdateMoves ==
    ASSUME conn \in [Conn -> ConnType], NEW c \in Conn, NEW pc \in ConnPc, NEW on \in 0..MaxGen,
           conn' = [conn EXCEPT ![c].pc = pc, ![c].on = on]
    PROVE  conn' \in [Conn -> ConnType] /\ Moves(c, pc, on)
  BY DEF ConnType, Moves

\* A step that leaves the book alone is safe for it.
LEMMA BookIdle == ASSUME UNCHANGED bookVars PROVE BookSafe
  BY DEF bookVars, BookSafe, Tidy, KeepsOwned

\* An entry has a generation when it is an attempt or a session.
LEMMA EntryShape ==
    ASSUME NEW e \in Entry
    PROVE  /\ e.gen \in 0..MaxGen
           /\ \/ e = Vacant /\ e.kind = "vacant" /\ e.gen = 0
              \/ e = Orphaned /\ e.kind = "orphaned" /\ e.gen = 0
              \/ e = Connecting(e.gen) /\ e.kind = "connecting" /\ e.gen \in Gen
              \/ e = Live(e.gen) /\ e.kind = "live" /\ e.gen \in Gen
  <1>0. MaxGen \in Nat /\ \A g \in Gen : g \in 0..MaxGen
    BY BookAssumption DEF Gen
  <1>1. CASE e \in {Vacant, Orphaned}
    BY <1>0, <1>1 DEF Vacant, Orphaned
  <1>2. CASE e \in [kind : {"connecting", "live"}, gen : Gen]
    BY <1>0, <1>2 DEF Connecting, Live
  <1> QED BY <1>1, <1>2 DEF Entry

\* The book is as it was.
LEMMA BookSame ==
    ASSUME BookTypeOK, BookOK, UNCHANGED bookVars
    PROVE  BookTypeOK' /\ BookOK' /\ BookSafe /\ owner' = owner
  BY BookIdle DEF BookTypeOK, BookOK, bookVars

\* Outside the phases in which it holds a session alone, a Connect may move on
\* freely: what it was promised does not depend on where it stands.
LEMMA ConnStep ==
    ASSUME RegInv, NEW c \in Conn, NEW pc \in ConnPc, NEW on \in 0..MaxGen, on < nextGen,
           conn' \in [Conn -> ConnType], Moves(c, pc, on), mark' \in [Gen -> BOOLEAN],
           conn[c].pc \notin Early, pc \notin Early \cup {"replacing", "idle"},
           pc \in Numbered => conn[c].pc \in Numbered,
           pc \in Asking => conn[c].pc \in Asking,
           pc \in Promoted => conn[c].pc \in Promoted,
           BookTypeOK', BookOK', BookSafe, owner' = owner,
           UNCHANGED <<entries, nextGen, nameOf, sess, cancel, result, hook, closer, unbook>>
    PROVE  RegInv' /\ BookSafe
  <1>1. RegTypeOK'
    BY DEF RegInv, RegTypeOK, ConnType
  <1>2. BookSafe
    OBVIOUS
  <1>3. BookOK'
    OBVIOUS
  <1> USE DEF RegInv, Moves, Early, Promoted, Numbered, Asking, Connecting, Live
  <1>4. Numbers'
    BY DEF Numbers, NameNumbers, ConnNumbers, GenNumbers
  <1>5. EarlyOK' /\ ReplaceOK'
    BY DEF EarlyOK, HoldsAlone, ReplaceOK, ReplacesEnded
  <1>6. LiveOK' /\ CloserOK' /\ ConnectedOK'
    BY DEF LiveOK, RunsOwned, CloserOK, ConnectedOK, StaysConnected
  <1>7. OwnerOK' /\ NoSessionLeaks'
    BY DEF OwnerOK, Removable, NoSessionLeaks, Answerable, Awaited
  <1> QED BY <1>1, <1>2, <1>3, <1>4, <1>5, <1>6, <1>7

\* dispatch_connect after open_tracked, the answer and the acknowledgement, and
\* the ends of the closes that a Connect awaits.
LEMMA AnswerSteps ==
    ASSUME RegInv, NEW c \in Conn,
           \/ Bootstrap(c) \/ NoBootstrap(c) \/ Booted(c) \/ BootFails(c)
           \/ Answer(c) \/ Acked(c) \/ AnswerLost(c) \/ Reclaimed(c)
           \/ ReleasedEnded(c) \/ ReleasedOrphan(c) \/ Discarded(c)
    PROVE  RegInv' /\ BookSafe
  <1>1. /\ conn \in [Conn -> ConnType] /\ mark \in [Gen -> BOOLEAN]
        /\ conn[c].on \in 0..MaxGen /\ conn[c].on < nextGen /\ 0 < nextGen /\ 0 \in 0..MaxGen
    BY BookAssumption DEF RegInv, RegTypeOK, Numbers, ConnNumbers, ConnType
  <1>0. BookTypeOK /\ BookOK
    BY DEF RegInv, RegTypeOK
  <1> USE <1>0, <1>1 DEF ConnPc, Settled, Early, Promoted, Numbered, Asking
  <1>2. CASE Bootstrap(c)
    <2>1. conn[c].name \in Name
      BY <1>2 DEF RegInv, Numbers, ConnNumbers, Bootstrap
    <2>2. entries[conn[c].name].gen \in 0..MaxGen
      <3>1. entries[conn[c].name] \in Entry
        BY <2>1 DEF RegInv, RegTypeOK
      <3> QED BY <3>1, EntryShape
    <2>3. entries[conn[c].name].gen < nextGen
      BY <2>1 DEF RegInv, Numbers, NameNumbers
    <2>4. CASE LiveNow(conn[c].name)
      <3>1. conn' = [conn EXCEPT ![c].pc = "booting", ![c].on = entries[conn[c].name].gen]
        BY <1>2, <2>4 DEF Bootstrap
      <3>2. Moves(c, "booting", entries[conn[c].name].gen) /\ conn' \in [Conn -> ConnType]
        BY <2>2, <3>1, UpdateMoves
      <3>3. BookTypeOK' /\ BookOK' /\ BookSafe /\ owner' = owner
        BY <1>2, BookSame DEF Bootstrap
      <3>4. conn[c].pc = "opened" /\ mark' \in [Gen -> BOOLEAN]
        BY <1>2 DEF Bootstrap
      <3> QED BY <1>2, <2>2, <2>3, <3>2, <3>3, <3>4, ConnStep DEF Bootstrap
    <2>5. CASE ~LiveNow(conn[c].name)
      BY <1>2, <2>5, UpdateMoves, BookSame, ConnStep DEF Bootstrap
    <2> QED BY <2>4, <2>5
  <1>3. CASE NoBootstrap(c)
    BY <1>3, GotoMoves, BookSame, ConnStep DEF NoBootstrap
  <1>4. CASE Booted(c)
    BY <1>4, UpdateMoves, BookSame, ConnStep DEF Booted
  <1>5. CASE BootFails(c)
    BY <1>5, UpdateMoves, BookSame, ConnStep DEF BootFails
  <1>6. CASE Answer(c)
    BY <1>6, GotoMoves, BookSame, ConnStep DEF Answer
  <1>7. CASE Acked(c)
    BY <1>7, GotoMoves, BookSame, ConnStep DEF Acked
  <1>8. CASE AnswerLost(c)
    BY <1>8, GotoMoves, BookSame, ConnStep DEF AnswerLost
  <1>9. CASE Reclaimed(c)
    BY <1>9, GotoMoves, BookSame, ConnStep DEF Reclaimed
  <1>10. CASE ReleasedEnded(c)
    BY <1>10, GotoMoves, BookSame, ConnStep DEF ReleasedEnded
  <1>11. CASE Discarded(c)
    BY <1>11, GotoMoves, BookSame, ConnStep DEF Discarded
  <1>12. CASE ReleasedOrphan(c)
    <2>1. conn[c].name \in Name /\ conn[c].pc = "unbooking"
      BY <1>12 DEF RegInv, Numbers, ConnNumbers, ReleasedOrphan
    <2>2. BookTypeOK' /\ BookOK' /\ BookSafe /\ owner' = owner
      BY <1>12, <2>1, BookClosedOrphan DEF ReleasedOrphan, BookSafe
    <2> QED BY <1>12, <2>1, <2>2, GotoMoves, ConnStep DEF ReleasedOrphan
  <1> QED BY <1>2, <1>3, <1>4, <1>5, <1>6, <1>7, <1>8, <1>9, <1>10, <1>11, <1>12

-----------------------------------------------------------------------------
(* Steps of one generation *)

\* The generations that entries, Connects and records name are generations.
Shapes ==
    /\ \A n \in Name :
          /\ entries[n].kind \in {"live", "connecting"} => entries[n].gen \in Gen
          /\ \A g \in Gen :
                /\ entries[n] = Live(g) <=> entries[n].kind = "live" /\ entries[n].gen = g
                /\ entries[n] = Connecting(g) <=> entries[n].kind = "connecting" /\ entries[n].gen = g
          /\ owner[n] # 0 => owner[n] \in Gen
          /\ owner[n] \in Nat /\ entries[n].gen \in Nat
    /\ \A c \in Conn :
          /\ conn[c].gen # 0 => conn[c].gen \in Gen
          /\ conn[c].on # 0 => conn[c].on \in Gen
          /\ conn[c].pc \in Numbered => conn[c].gen \in Gen /\ conn[c].name \in Name
          /\ conn[c].gen \in Nat /\ conn[c].on \in Nat
    /\ \A g \in Gen : g # 0 /\ g \in Nat
    /\ nextGen \in Nat /\ nextGen > 0

LEMMA EntryKind ==
    ASSUME NEW e \in Entry, NEW g \in Gen
    PROVE  /\ e.kind \in {"live", "connecting"} => e.gen \in Gen
           /\ e = Live(g) <=> e.kind = "live" /\ e.gen = g
           /\ e = Connecting(g) <=> e.kind = "connecting" /\ e.gen = g
  <1>1. /\ Live(g).kind = "live" /\ Live(g).gen = g
        /\ Connecting(g).kind = "connecting" /\ Connecting(g).gen = g
    BY DEF Live, Connecting
  <1> QED BY <1>1, EntryShape

LEMMA RegShapes == ASSUME RegInv PROVE Shapes
  <1>0. MaxGen \in Nat
    BY BookAssumption
  <1>1. ASSUME NEW n \in Name
        PROVE  /\ entries[n].kind \in {"live", "connecting"} => entries[n].gen \in Gen
               /\ \A g \in Gen :
                     /\ entries[n] = Live(g) <=> entries[n].kind = "live" /\ entries[n].gen = g
                     /\ entries[n] = Connecting(g) <=> entries[n].kind = "connecting" /\ entries[n].gen = g
    <2>1. entries[n] \in Entry
      BY DEF RegInv, RegTypeOK
    <2> QED BY <2>1, EntryKind, EntryShape
  <1>2. \A n \in Name : owner[n] # 0 => owner[n] \in Gen
    BY <1>0 DEF RegInv, RegTypeOK, BookTypeOK, Gen
  <1>3. \A c \in Conn : (conn[c].gen # 0 => conn[c].gen \in Gen) /\ (conn[c].on # 0 => conn[c].on \in Gen)
    BY <1>0 DEF RegInv, RegTypeOK, Gen
  <1>4. \A g \in Gen : g # 0 /\ g \in Nat
    BY <1>0 DEF Gen
  <1>7. \A c \in Conn : conn[c].pc \in Numbered => conn[c].gen \in Gen /\ conn[c].name \in Name
    BY <1>3 DEF RegInv, Numbers, ConnNumbers
  <1>8. \A c \in Conn : conn[c].gen \in Nat /\ conn[c].on \in Nat
    BY <1>0 DEF RegInv, RegTypeOK
  <1>5. \A n \in Name : owner[n] \in Nat /\ entries[n].gen \in Nat
    BY <1>0, EntryShape DEF RegInv, RegTypeOK, BookTypeOK
  <1>6. nextGen \in Nat /\ nextGen > 0
    BY <1>0 DEF RegInv, RegTypeOK
  <1> QED BY <1>1, <1>2, <1>3, <1>4, <1>5, <1>6, <1>7, <1>8 DEF Shapes

\* The thread of a session ends.
LEMMA JoinKeeps ==
    ASSUME RegInv, NEW g \in Gen, Join(g)
    PROVE  RegInv' /\ BookSafe
  <1>1. BookTypeOK' /\ BookOK' /\ BookSafe /\ owner' = owner
    BY BookSame DEF RegInv, RegTypeOK, Join
  <1>2. RegTypeOK'
    BY <1>1 DEF RegInv, RegTypeOK, Join
  <1>3. UNCHANGED <<entries, nextGen, nameOf, result, hook, closer, conn>>
    BY DEF Join
  <1>4. /\ sess[g] = "closing"
        /\ \A h \in Gen : sess'[h] = IF h = g THEN "closed" ELSE sess[h]
    BY DEF RegInv, RegTypeOK, Join
  <1>5. Shapes
    BY RegShapes
  <1> USE <1>1, <1>2, <1>3, <1>4, <1>5 DEF RegInv, Shapes, bookVars, Early, Promoted, Numbered, Asking
  <1>6. Numbers'
    BY DEF Numbers, NameNumbers, ConnNumbers, GenNumbers
  <1>7. EarlyOK'
    BY DEF EarlyOK, HoldsAlone, Numbers, NameNumbers, ConnNumbers, GenNumbers
  <1>8. LiveOK'
    BY DEF LiveOK, RunsOwned
  <1>9. CloserOK'
    BY DEF CloserOK
  <1>10. OwnerOK'
    <2>1. \A n \in Name, h \in Gen : Removable(n, h) => Removable(n, h)'
      BY DEF Removable
    <2> QED BY <2>1 DEF OwnerOK
  <1>11. ReplaceOK'
    BY DEF ReplaceOK, ReplacesEnded
  <1>12. ConnectedOK'
    BY DEF ConnectedOK, StaysConnected, Numbers, NameNumbers, ConnNumbers, GenNumbers
  <1>13. NoSessionLeaks'
    <2>1. \A h \in Gen : Answerable(h) => Answerable(h)' \/ sess'[h] \notin {"open", "ended"}
      BY DEF Answerable
    <2>2. \A h \in Gen : Awaited(h) => Awaited(h)'
      BY DEF Awaited
    <2> QED BY <2>1, <2>2 DEF NoSessionLeaks
  <1> QED BY <1>6, <1>7, <1>8, <1>9, <1>10, <1>11, <1>12, <1>13


\* The server ends a session: its record stays until the end hook or a close.
LEMMA ServerEndsKeeps ==
    ASSUME RegInv, NEW g \in Gen, ServerEnds(g)
    PROVE  RegInv' /\ BookSafe
  <1>1. BookTypeOK' /\ BookOK' /\ BookSafe /\ owner' = owner
    BY BookSame DEF RegInv, RegTypeOK, ServerEnds
  <1>2. RegTypeOK'
    BY <1>1 DEF RegInv, RegTypeOK, ServerEnds
  <1>3. UNCHANGED <<entries, nextGen, nameOf, result, hook, closer, conn>>
    BY DEF ServerEnds
  <1>4. /\ sess[g] = "open"
        /\ \A h \in Gen : sess'[h] = IF h = g THEN "ended" ELSE sess[h]
    BY DEF RegInv, RegTypeOK, ServerEnds
  <1>5. Shapes
    BY RegShapes
  <1> USE <1>1, <1>2, <1>3, <1>4, <1>5 DEF RegInv, Shapes, bookVars, Early, Promoted, Numbered, Asking
  <1>6. Numbers'
    BY DEF Numbers, NameNumbers, ConnNumbers, GenNumbers
  <1>7. EarlyOK'
    BY DEF EarlyOK, HoldsAlone, Numbers, NameNumbers, ConnNumbers, GenNumbers
  <1>8. LiveOK'
    BY DEF LiveOK, RunsOwned
  <1>9. CloserOK'
    BY DEF CloserOK
  <1>10. OwnerOK'
    <2>1. \A n \in Name, h \in Gen : Removable(n, h) => Removable(n, h)'
      BY DEF Removable
    <2> QED BY <2>1 DEF OwnerOK
  <1>11. ReplaceOK'
    BY DEF ReplaceOK, ReplacesEnded
  <1>12. ConnectedOK'
    BY DEF ConnectedOK, StaysConnected, Numbers, NameNumbers, ConnNumbers, GenNumbers
  <1>13. NoSessionLeaks'
    <2>1. \A h \in Gen : Answerable(h) => Answerable(h)' \/ sess'[h] \notin {"open", "ended"}
      BY DEF Answerable
    <2>2. \A h \in Gen : Awaited(h) => Awaited(h)'
      BY DEF Awaited
    <2> QED BY <2>1, <2>2 DEF NoSessionLeaks
  <1> QED BY <1>6, <1>7, <1>8, <1>9, <1>10, <1>11, <1>12, <1>13


\* The handshake of an attempt fails, or its deadline passes.
LEMMA ConnectFailsKeeps ==
    ASSUME RegInv, NEW g \in Gen, ConnectFails(g)
    PROVE  RegInv' /\ BookSafe
  <1>1. BookTypeOK' /\ BookOK' /\ BookSafe /\ owner' = owner
    BY BookSame DEF RegInv, RegTypeOK, ConnectFails
  <1>2. RegTypeOK'
    BY <1>1 DEF RegInv, RegTypeOK, ConnectFails
  <1>3. UNCHANGED <<entries, nextGen, nameOf, hook, closer, conn>>
    BY DEF ConnectFails
  <1>4. /\ sess[g] = "connecting"
        /\ \A h \in Gen : /\ sess'[h] = IF h = g THEN "closed" ELSE sess[h]
                          /\ result'[h] = IF h = g THEN "error" ELSE result[h]
    BY DEF RegInv, RegTypeOK, ConnectFails
  <1>5. Shapes
    BY RegShapes
  <1> USE <1>1, <1>2, <1>3, <1>4, <1>5 DEF RegInv, Shapes, bookVars, Early, Promoted, Numbered, Asking
  <1>6. Numbers'
    BY DEF Numbers, NameNumbers, ConnNumbers, GenNumbers
  <1>7. EarlyOK'
    BY DEF EarlyOK, HoldsAlone, Numbers, NameNumbers, ConnNumbers, GenNumbers
  <1>8. LiveOK'
    BY DEF LiveOK, RunsOwned
  <1>9. CloserOK'
    BY DEF CloserOK
  <1>10. OwnerOK'
    <2>1. \A n \in Name, h \in Gen : Removable(n, h) => Removable(n, h)'
      BY DEF Removable
    <2> QED BY <2>1 DEF OwnerOK
  <1>11. ReplaceOK'
    BY DEF ReplaceOK, ReplacesEnded
  <1>12. ConnectedOK'
    BY DEF ConnectedOK, StaysConnected, Numbers, NameNumbers, ConnNumbers, GenNumbers
  <1>13. NoSessionLeaks'
    <2>1. \A h \in Gen : Answerable(h) => Answerable(h)' \/ sess'[h] \notin {"open", "ended"}
      BY DEF Answerable
    <2>2. \A h \in Gen : Awaited(h) => Awaited(h)'
      BY DEF Awaited
    <2> QED BY <2>1, <2>2 DEF NoSessionLeaks
  <1> QED BY <1>6, <1>7, <1>8, <1>9, <1>10, <1>11, <1>12, <1>13


\* The connect task sees that it was cancelled.
LEMMA ConnectCancelledKeeps ==
    ASSUME RegInv, NEW g \in Gen, ConnectCancelled(g)
    PROVE  RegInv' /\ BookSafe
  <1>1. BookTypeOK' /\ BookOK' /\ BookSafe /\ owner' = owner
    BY BookSame DEF RegInv, RegTypeOK, ConnectCancelled
  <1>2. RegTypeOK'
    BY <1>1 DEF RegInv, RegTypeOK, ConnectCancelled
  <1>3. UNCHANGED <<entries, nextGen, nameOf, hook, closer, conn>>
    BY DEF ConnectCancelled
  <1>4. /\ sess[g] = "connecting"
        /\ result'[g] \in {"error", "gone"}
        /\ \A h \in Gen : /\ sess'[h] = IF h = g THEN "closed" ELSE sess[h]
                          /\ h # g => result'[h] = result[h]
    BY DEF RegInv, RegTypeOK, ConnectCancelled
  <1>5. Shapes
    BY RegShapes
  <1> USE <1>1, <1>2, <1>3, <1>4, <1>5 DEF RegInv, Shapes, bookVars, Early, Promoted, Numbered, Asking
  <1>6. Numbers'
    BY DEF Numbers, NameNumbers, ConnNumbers, GenNumbers
  <1>7. EarlyOK'
    BY DEF EarlyOK, HoldsAlone, Numbers, NameNumbers, ConnNumbers, GenNumbers
  <1>8. LiveOK'
    BY DEF LiveOK, RunsOwned
  <1>9. CloserOK'
    BY DEF CloserOK
  <1>10. OwnerOK'
    <2>1. \A n \in Name, h \in Gen : Removable(n, h) => Removable(n, h)'
      BY DEF Removable
    <2> QED BY <2>1 DEF OwnerOK
  <1>11. ReplaceOK'
    BY DEF ReplaceOK, ReplacesEnded
  <1>12. ConnectedOK'
    BY DEF ConnectedOK, StaysConnected, Numbers, NameNumbers, ConnNumbers, GenNumbers
  <1>13. NoSessionLeaks'
    <2>1. \A h \in Gen : Answerable(h) => Answerable(h)' \/ sess'[h] \notin {"open", "ended"}
      BY DEF Answerable
    <2>2. \A h \in Gen : Awaited(h) => Awaited(h)'
      BY DEF Awaited
    <2> QED BY <2>1, <2>2 DEF NoSessionLeaks
  <1> QED BY <1>6, <1>7, <1>8, <1>9, <1>10, <1>11, <1>12, <1>13


\* The handshake of an attempt succeeds: the session is delivered to the
\* Connect that waits, or closed by its task.
LEMMA ConnectReadyKeeps ==
    ASSUME RegInv, NEW g \in Gen, ConnectReady(g)
    PROVE  RegInv' /\ BookSafe
  <1>1. BookTypeOK' /\ BookOK' /\ BookSafe /\ owner' = owner
    BY BookSame DEF RegInv, RegTypeOK, ConnectReady
  <1>2. RegTypeOK'
    BY <1>1 DEF RegInv, RegTypeOK, ConnectReady
  <1>3. UNCHANGED <<entries, nextGen, nameOf, hook, closer, conn>>
    BY DEF ConnectReady
  <1>4. /\ sess[g] = "connecting"
        /\ sess'[g] = IF Awaited(g) THEN "open" ELSE "closing"
        /\ Awaited(g) => result'[g] = "session"
        /\ \A h \in Gen : h # g => sess'[h] = sess[h] /\ result'[h] = result[h]
    BY DEF RegInv, RegTypeOK, ConnectReady
  <1>5. Shapes
    BY RegShapes
  <1> USE <1>1, <1>2, <1>3, <1>4, <1>5 DEF RegInv, Shapes, bookVars, Early, Promoted, Numbered, Asking
  <1>6. Numbers'
    BY DEF Numbers, NameNumbers, ConnNumbers, GenNumbers
  <1>7. EarlyOK'
    BY DEF EarlyOK, HoldsAlone, Awaited, Numbers, NameNumbers, ConnNumbers, GenNumbers
  <1>8. LiveOK'
    BY DEF LiveOK, RunsOwned, Awaited, Numbers, NameNumbers, ConnNumbers, GenNumbers
  <1>9. CloserOK'
    BY DEF CloserOK, Awaited, Numbers, NameNumbers, ConnNumbers, GenNumbers
  <1>10. OwnerOK'
    <2>1. \A n \in Name, h \in Gen : Removable(n, h) => Removable(n, h)'
      BY DEF Removable
    <2> QED BY <2>1 DEF OwnerOK
  <1>11. ReplaceOK'
    BY DEF ReplaceOK, ReplacesEnded, Awaited, Numbers, NameNumbers, ConnNumbers, GenNumbers
  <1>12. ConnectedOK'
    BY DEF ConnectedOK, StaysConnected, Awaited, Numbers, NameNumbers, ConnNumbers, GenNumbers
  <1>13. NoSessionLeaks'
    <2>1. \A h \in Gen : Answerable(h) => Answerable(h)' \/ sess'[h] \notin {"open", "ended"}
      BY DEF Answerable
    <2>2. \A h \in Gen : Awaited(h) => Awaited(h)'
      BY DEF Awaited
    <2> QED BY <2>1, <2>2 DEF NoSessionLeaks
  <1> QED BY <1>6, <1>7, <1>8, <1>9, <1>10, <1>11, <1>12, <1>13


\* The first poll of a close stops the loop of its session.
LEMMA ClosePollKeeps ==
    ASSUME RegInv, NEW g \in Gen, ClosePoll(g)
    PROVE  RegInv' /\ BookSafe
  <1>1. BookTypeOK' /\ BookOK' /\ BookSafe /\ owner' = owner
    BY BookSame DEF RegInv, RegTypeOK, ClosePoll
  <1>2. RegTypeOK'
    <2>1. sess' \in [Gen -> {"none", "connecting", "open", "ended", "closing", "closed"}]
      BY DEF RegInv, RegTypeOK, ClosePoll
    <2>2. closer' \in [Gen -> [by : Conn \cup {"client", "reaper", "nobody"},
                          at : {"none", "removed", "begun", "polled"}]]
      <3>1. closer \in [Gen -> [by : Conn \cup {"client", "reaper", "nobody"},
                               at : {"none", "removed", "begun", "polled"}]]
        BY DEF RegInv, RegTypeOK
      <3> QED BY <3>1 DEF ClosePoll
    <2> QED BY <1>1, <2>1, <2>2 DEF RegInv, RegTypeOK, ClosePoll
  <1>3. UNCHANGED <<entries, nextGen, nameOf, result, hook, conn>>
    BY DEF ClosePoll
  <1>4. /\ closer[g].at = "begun"
        /\ \A h \in Gen : /\ sess'[h] = IF h = g THEN "closing" ELSE sess[h]
                          /\ closer'[h].by = closer[h].by
                          /\ closer'[h].at = IF h = g THEN "polled" ELSE closer[h].at
    BY DEF RegInv, RegTypeOK, ClosePoll
  <1>5. Shapes
    BY RegShapes
  <1> USE <1>1, <1>2, <1>3, <1>4, <1>5 DEF RegInv, Shapes, bookVars, Early, Promoted, Numbered, Asking
  <1>6. Numbers'
    BY DEF Numbers, NameNumbers, ConnNumbers, GenNumbers
  <1>7. EarlyOK'
    BY DEF EarlyOK, HoldsAlone, Numbers, NameNumbers, ConnNumbers, GenNumbers
  <1>8. LiveOK'
    BY DEF LiveOK, RunsOwned
  <1>9. CloserOK'
    BY DEF CloserOK
  <1>10. OwnerOK'
    <2>1. \A n \in Name, h \in Gen : Removable(n, h) => Removable(n, h)'
      BY DEF Removable
    <2> QED BY <2>1 DEF OwnerOK
  <1>11. ReplaceOK'
    BY DEF ReplaceOK, ReplacesEnded
  <1>12. ConnectedOK'
    BY DEF ConnectedOK, StaysConnected, Numbers, NameNumbers, ConnNumbers, GenNumbers
  <1>13. NoSessionLeaks'
    <2>1. \A h \in Gen : Answerable(h) => Answerable(h)' \/ sess'[h] \notin {"open", "ended"}
      BY DEF Answerable
    <2>2. \A h \in Gen : Awaited(h) => Awaited(h)'
      BY DEF Awaited
    <2> QED BY <2>1, <2>2 DEF NoSessionLeaks
  <1> QED BY <1>6, <1>7, <1>8, <1>9, <1>10, <1>11, <1>12, <1>13


\* A close begins: the end hook is dropped, and the record of a session that has
\* ended goes now.
LEMMA CloseBeginKeeps ==
    ASSUME RegInv, NEW g \in Gen, CloseBegin(g)
    PROVE  RegInv' /\ BookSafe
  <1>1. closer[g].at = "removed"
    BY DEF CloseBegin
  <1>2. nameOf[g] \in Name
    BY <1>1 DEF RegInv, RegTypeOK, Numbers, GenNumbers, Gen
  <1>3. /\ BookTypeOK' /\ BookOK' /\ BookSafe
        /\ \A n \in Name : owner'[n] \in {owner[n], 0} /\ (owner[n] # g => owner'[n] = owner[n])
        /\ sess[g] = "ended" => owner'[nameOf[g]] # g
        /\ sess[g] # "ended" => owner' = owner
    <2>1. CASE sess[g] = "ended"
      BY <1>2, <2>1, BookClosed, RegShapes DEF Shapes, Numbers, NameNumbers, GenNumbers, CloseBegin, RegInv, RegTypeOK, BookTypeOK, BookSafe
    <2>2. CASE sess[g] # "ended"
      BY <2>2, BookSame DEF CloseBegin, RegInv, RegTypeOK
    <2> QED BY <2>1, <2>2
  <1>4. RegTypeOK'
    BY <1>3 DEF RegInv, RegTypeOK, CloseBegin
  <1>5. UNCHANGED <<entries, nextGen, nameOf, sess, result, conn>>
    BY DEF CloseBegin
  <1>6. \A h \in Gen : /\ hook'[h] => hook[h]
                       /\ closer'[h].by = closer[h].by
                       /\ closer'[h].at = IF h = g THEN "begun" ELSE closer[h].at
    BY DEF RegInv, RegTypeOK, CloseBegin
  <1>7. Shapes
    BY RegShapes
  <1> USE <1>1, <1>2, <1>3, <1>4, <1>5, <1>6, <1>7 DEF RegInv, Shapes, bookVars, Early, Promoted, Numbered, Asking
  <1>8. Numbers'
    BY DEF Numbers, NameNumbers, ConnNumbers, GenNumbers
  <1>9. EarlyOK'
    BY DEF EarlyOK, HoldsAlone, Numbers, NameNumbers, ConnNumbers, GenNumbers
  <1>10. LiveOK'
    <2>1. \A n \in Name : entries[n].kind = "live" => entries[n].gen \in Gen /\ entries[n].gen # g
      BY DEF LiveOK, RunsOwned
    <2> QED BY <2>1 DEF LiveOK, RunsOwned
  <1>11. CloserOK'
    BY DEF CloserOK
  <1>12. OwnerOK'
    <2>1. \A n \in Name, h \in Gen : Removable(n, h) => Removable(n, h)'
      BY DEF Removable, Numbers, NameNumbers, ConnNumbers, GenNumbers
    <2> QED BY <2>1 DEF OwnerOK
  <1>13. ReplaceOK'
    BY DEF ReplaceOK, ReplacesEnded, Numbers, NameNumbers, ConnNumbers, GenNumbers
  <1>14. ConnectedOK'
    BY DEF ConnectedOK, StaysConnected, Numbers, NameNumbers, ConnNumbers, GenNumbers
  <1>15. NoSessionLeaks'
    <2>1. \A h \in Gen : Answerable(h) => Answerable(h)' \/ sess'[h] \notin {"open", "ended"}
      BY DEF Answerable
    <2>2. \A h \in Gen : Awaited(h) => Awaited(h)'
      BY DEF Awaited
    <2> QED BY <2>1, <2>2 DEF NoSessionLeaks
  <1> QED BY <1>8, <1>9, <1>10, <1>11, <1>12, <1>13, <1>14, <1>15


\* A close is over: the record of its generation is gone.
LEMMA CloseEndKeeps ==
    ASSUME RegInv, NEW g \in Gen, CloseEnd(g)
    PROVE  RegInv' /\ BookSafe
  <1>1. closer[g].at = "polled" /\ sess[g] = "closed"
    BY DEF CloseEnd
  <1>2. nameOf[g] \in Name
    BY <1>1 DEF RegInv, RegTypeOK, Numbers, GenNumbers, Gen
  <1>3. /\ BookTypeOK' /\ BookOK' /\ BookSafe
        /\ \A n \in Name : owner'[n] \in {owner[n], 0} /\ (owner[n] # g => owner'[n] = owner[n])
        /\ owner'[nameOf[g]] # g
    BY <1>2, BookClosed, RegShapes DEF Shapes, Numbers, NameNumbers, GenNumbers, CloseEnd, RegInv, RegTypeOK, BookTypeOK, BookSafe
  <1>4. RegTypeOK'
    BY <1>3 DEF RegInv, RegTypeOK, CloseEnd, NoCloser
  <1>5. UNCHANGED <<entries, nextGen, nameOf, sess, result, hook, conn>>
    BY DEF CloseEnd
  <1>6. /\ \A h \in Gen : closer'[h].at = IF h = g THEN "none" ELSE closer[h].at
        /\ \A h \in Gen : h # g => closer'[h] = closer[h]
    BY DEF RegInv, RegTypeOK, CloseEnd, NoCloser
  <1>7. Shapes
    BY RegShapes
  <1> USE <1>1, <1>2, <1>3, <1>4, <1>5, <1>6, <1>7 DEF RegInv, Shapes, bookVars, Early, Promoted, Numbered, Asking
  <1>8. Numbers'
    BY DEF Numbers, NameNumbers, ConnNumbers, GenNumbers
  <1>9. EarlyOK'
    BY DEF EarlyOK, HoldsAlone, Numbers, NameNumbers, ConnNumbers, GenNumbers
  <1>10. LiveOK'
    <2>1. \A n \in Name : entries[n].kind = "live" => entries[n].gen \in Gen /\ entries[n].gen # g
      BY DEF LiveOK, RunsOwned
    <2> QED BY <2>1 DEF LiveOK, RunsOwned
  <1>11. CloserOK'
    BY DEF CloserOK
  <1>12. OwnerOK'
    <2>1. \A n \in Name, h \in Gen : Removable(n, h) => Removable(n, h)' \/ owner'[n] # h
      BY DEF Removable, Numbers, NameNumbers, ConnNumbers, GenNumbers
    <2> QED BY <2>1 DEF OwnerOK
  <1>13. ReplaceOK'
    BY DEF ReplaceOK, ReplacesEnded, Numbers, NameNumbers, ConnNumbers, GenNumbers
  <1>14. ConnectedOK'
    BY DEF ConnectedOK, StaysConnected, Numbers, NameNumbers, ConnNumbers, GenNumbers
  <1>15. NoSessionLeaks'
    <2>1. \A h \in Gen : Answerable(h) => Answerable(h)' \/ sess'[h] \notin {"open", "ended"}
      BY DEF Answerable
    <2>2. \A h \in Gen : Awaited(h) => Awaited(h)'
      BY DEF Awaited
    <2> QED BY <2>1, <2>2 DEF NoSessionLeaks
  <1> QED BY <1>8, <1>9, <1>10, <1>11, <1>12, <1>13, <1>14, <1>15


\* The end hook: the record of an ended session goes, its entry stays.
LEMMA EndHookKeeps ==
    ASSUME RegInv, NEW g \in Gen, EndHook(g)
    PROVE  RegInv' /\ BookSafe
  <1>1. hook[g] /\ sess[g] = "ended"
    BY DEF EndHook
  <1>2. nameOf[g] \in Name
    BY <1>1 DEF RegInv, RegTypeOK, Numbers, GenNumbers, Gen
  <1>3. /\ BookTypeOK' /\ BookOK' /\ BookSafe
        /\ \A n \in Name : owner'[n] \in {owner[n], 0} /\ (owner[n] # g => owner'[n] = owner[n])
        /\ owner'[nameOf[g]] # g
    BY <1>2, BookClosed, RegShapes DEF Shapes, Numbers, NameNumbers, GenNumbers, EndHook, RegInv, RegTypeOK, BookTypeOK, BookSafe
  <1>4. RegTypeOK'
    BY <1>3 DEF RegInv, RegTypeOK, EndHook
  <1>5. UNCHANGED <<entries, nextGen, nameOf, sess, result, closer, conn>>
    BY DEF EndHook
  <1>6. \A h \in Gen : hook'[h] => hook[h]
    BY DEF RegInv, RegTypeOK, EndHook
  <1>7. Shapes
    BY RegShapes
  <1> USE <1>1, <1>2, <1>3, <1>4, <1>5, <1>6, <1>7 DEF RegInv, Shapes, bookVars, Early, Promoted, Numbered, Asking
  <1>8. Numbers'
    BY DEF Numbers, NameNumbers, ConnNumbers, GenNumbers
  <1>9. EarlyOK'
    BY DEF EarlyOK, HoldsAlone, Numbers, NameNumbers, ConnNumbers, GenNumbers
  <1>10. LiveOK'
    BY DEF LiveOK, RunsOwned, Numbers, NameNumbers, ConnNumbers, GenNumbers
  <1>11. CloserOK'
    BY DEF CloserOK
  <1>12. OwnerOK'
    <2>1. \A n \in Name, h \in Gen : Removable(n, h) => Removable(n, h)'
      BY DEF Removable, Numbers, NameNumbers, ConnNumbers, GenNumbers
    <2> QED BY <2>1 DEF OwnerOK
  <1>13. ReplaceOK'
    BY DEF ReplaceOK, ReplacesEnded, Numbers, NameNumbers, ConnNumbers, GenNumbers
  <1>14. ConnectedOK'
    BY DEF ConnectedOK, StaysConnected, Numbers, NameNumbers, ConnNumbers, GenNumbers
  <1>15. NoSessionLeaks'
    <2>1. \A h \in Gen : Answerable(h) => Answerable(h)' \/ sess'[h] \notin {"open", "ended"}
      BY DEF Answerable
    <2>2. \A h \in Gen : Awaited(h) => Awaited(h)'
      BY DEF Awaited
    <2> QED BY <2>1, <2>2 DEF NoSessionLeaks
  <1> QED BY <1>8, <1>9, <1>10, <1>11, <1>12, <1>13, <1>14, <1>15

-----------------------------------------------------------------------------
(* Steps of a Connect *)

\* What leaves the map is vacant: it is no attempt and no session.
Vacated(n) ==
    /\ entries'[n].kind = "vacant" /\ entries'[n].gen = 0
    /\ \A g \in Gen : entries'[n] # Live(g) /\ entries'[n] # Connecting(g)
    /\ \A m \in Name : m # n => entries'[m] = entries[m]

LEMMA EntryVacated ==
    ASSUME entries \in [Name -> Entry], NEW n \in Name, entries' = [entries EXCEPT ![n] = Vacant]
    PROVE  entries' \in [Name -> Entry] /\ Vacated(n)
  BY DEF Vacated, Vacant, Entry, Live, Connecting

\* A placeholder goes in under a fresh generation, and its connect task starts.
LEMMA InsertKeeps ==
    ASSUME RegInv, NEW c \in Conn, NEW n \in Name, entries[n] = Vacant,
           conn[c].pc \in {"idle", "claiming"}, Insert(c, n),
           UNCHANGED <<bookVars, cancel, result, hook, mark, closer, unbook>>
    PROVE  RegInv' /\ BookSafe
  <1>1. BookTypeOK' /\ BookOK' /\ BookSafe /\ owner' = owner
    BY BookSame DEF RegInv, RegTypeOK
  <1>2. /\ nextGen \in Gen /\ nextGen' = nextGen + 1
        /\ \A g \in Nat : (g < nextGen => g < nextGen') /\ (g < nextGen' => g < nextGen \/ g = nextGen)
    BY BookAssumption DEF Insert, RegInv, RegTypeOK, Gen
  <1>3. /\ conn' \in [Conn -> ConnType]
        /\ conn'[c].pc = "waiting" /\ conn'[c].name = n /\ conn'[c].gen = nextGen /\ conn'[c].on = 0
        /\ \A d \in Conn : d # c =>
              /\ conn'[d].pc = conn[d].pc /\ conn'[d].name = conn[d].name
              /\ conn'[d].gen = conn[d].gen /\ conn'[d].on = conn[d].on
    <2>1. conn \in [Conn -> ConnType] /\ nextGen \in 0..MaxGen /\ 0 \in 0..MaxGen
      BY <1>2, BookAssumption DEF RegInv, RegTypeOK, ConnType, Gen
    <2> QED BY <2>1 DEF Insert, ConnType, ConnPc, Settled
  <1>4. entries' = [entries EXCEPT ![n] = Connecting(nextGen)] /\ Connecting(nextGen) \in Entry
    BY <1>2 DEF Insert, Connecting, Entry
  <1>5. /\ entries'[n].kind = "connecting" /\ entries'[n].gen = nextGen
        /\ \A g \in Gen : entries'[n] # Live(g) /\ (entries'[n] = Connecting(g) => g = nextGen)
        /\ \A m \in Name : m # n => entries'[m] = entries[m]
    BY <1>4 DEF RegInv, RegTypeOK, Connecting, Live
  <1>6. /\ nameOf'[nextGen] = n /\ sess'[nextGen] = "connecting"
        /\ \A g \in Gen : g # nextGen => nameOf'[g] = nameOf[g] /\ sess'[g] = sess[g]
    BY <1>2 DEF Insert, RegInv, RegTypeOK
  <1>7. RegTypeOK'
    <2>1. nextGen' \in 1..(MaxGen + 1)
      BY <1>2, BookAssumption DEF Gen
    <2> QED BY <1>1, <1>2, <1>3, <1>4, <2>1 DEF Insert, RegInv, RegTypeOK, ConnType
  <1>8. UNCHANGED <<result, hook, closer>>
    OBVIOUS
  <1>9. /\ sess[nextGen] = "none" /\ result[nextGen] = "none" /\ ~hook[nextGen] /\ closer[nextGen].at = "none"
        /\ \A m \in Name : owner[m] # nextGen /\ entries[m].gen # nextGen
        /\ \A d \in Conn : conn[d].gen # nextGen /\ conn[d].on # nextGen
        /\ conn[c].gen = 0 /\ entries[n].kind = "vacant"
    BY <1>2, RegShapes DEF RegInv, Shapes, Asking, Vacant, Numbers, NameNumbers, ConnNumbers, GenNumbers
  <1>10. Shapes
    BY RegShapes
  <1> USE <1>1, <1>2, <1>3, <1>4, <1>5, <1>6, <1>7, <1>8, <1>9, <1>10 DEF RegInv, Shapes, Early, Promoted, Numbered, Asking
  <1>11. Numbers'
    <2>1. \A m \in Name : m # n => NameNumbers(m)'
      <3> SUFFICES ASSUME NEW m \in Name, m # n PROVE NameNumbers(m)'
        OBVIOUS
      <3>1. NameNumbers(m) /\ entries'[m] = entries[m] /\ owner'[m] = owner[m]
        BY <1>1, <1>5 DEF Numbers
      <3>2. entries[m].gen # 0 => entries[m].gen \in Gen /\ nameOf'[entries[m].gen] = nameOf[entries[m].gen]
        BY <1>6, <1>9, EntryShape DEF RegTypeOK
      <3>3. owner[m] # 0 => nameOf'[owner[m]] = nameOf[owner[m]]
        BY <1>6, <1>9, <1>10
      <3>4. \A g \in Gen : g < nextGen' /\ nameOf'[g] = m => g < nextGen /\ nameOf[g] = m
        BY <1>2, <1>6, <1>10
      <3> QED BY <1>2, <1>10, <3>1, <3>2, <3>3, <3>4 DEF NameNumbers
    <2>2. NameNumbers(n)'
      BY DEF Numbers, NameNumbers
    <2>3. \A d \in Conn : d # c => ConnNumbers(d)'
      BY DEF Numbers, ConnNumbers
    <2>4. ConnNumbers(c)'
      BY DEF Numbers, ConnNumbers
    <2>5. \A h \in Gen : GenNumbers(h)'
      BY DEF Numbers, GenNumbers
    <2> QED BY <2>1, <2>2, <2>3, <2>4, <2>5 DEF Numbers
  <1>12. EarlyOK'
    <2>1. \A d \in Conn : d # c /\ conn[d].pc \in Early => HoldsAlone(d)'
      BY DEF EarlyOK, HoldsAlone
    <2>2. conn'[c].pc \in Early => HoldsAlone(c)'
      BY DEF EarlyOK, HoldsAlone
    <2> QED BY <2>1, <2>2 DEF EarlyOK
  <1>13. LiveOK'
    BY DEF LiveOK, RunsOwned
  <1>14. CloserOK'
    BY DEF CloserOK
  <1>15. OwnerOK'
    <2>1. \A m \in Name, h \in Gen : Removable(m, h) => Removable(m, h)' \/ owner'[m] # h
      BY DEF Removable
    <2> QED BY <2>1 DEF OwnerOK, Removable
  <1>16. ReplaceOK'
    <2>1. \A d \in Conn : d # c /\ conn[d].pc = "replacing" => ReplacesEnded(d)'
      BY DEF ReplaceOK, ReplacesEnded
    <2>2. conn'[c].pc = "replacing" => ReplacesEnded(c)'
      BY DEF ReplaceOK, ReplacesEnded
    <2> QED BY <2>1, <2>2 DEF ReplaceOK
  <1>17. ConnectedOK'
    <2>1. \A d \in Conn : d # c /\ conn[d].pc \in Promoted => StaysConnected(d)'
      BY DEF ConnectedOK, StaysConnected
    <2>2. conn'[c].pc \in Promoted => StaysConnected(c)'
      BY DEF ConnectedOK, StaysConnected
    <2> QED BY <2>1, <2>2 DEF ConnectedOK
  <1>18. NoSessionLeaks'
    <2>1. \A h \in Gen : Answerable(h) => Answerable(h)' \/ sess'[h] \notin {"open", "ended"}
      BY DEF Answerable
    <2>2. \A h \in Gen : Awaited(h) => Awaited(h)' \/ result[h] # "session" \/ Answerable(h)' \/ sess'[h] \notin {"open", "ended"}
      BY DEF Awaited, Answerable
    <2> QED BY <2>1, <2>2 DEF NoSessionLeaks
  <1> QED BY <1>11, <1>12, <1>13, <1>14, <1>15, <1>16, <1>17, <1>18

-----------------------------------------------------------------------------
(* Entries that leave the map *)

\* How a Connect moves on when it takes an entry out of the map, or finds none:
\* ReleaseName (an orphan or nothing, a session that has ended) and
\* CloseIfGeneration (its own session).
Turns(d, due, by) ==
    \/ /\ conn[d].pc = "idle"
       /\ conn'[d].pc \in {"unbooking", "claiming"} /\ conn'[d].name \in Name
       /\ conn'[d].gen = 0 /\ conn'[d].on = 0
    \/ /\ conn[d].pc = "idle" /\ d = by
       /\ conn'[d].pc = "replacing" /\ conn'[d].name \in due
       /\ conn'[d].gen = 0 /\ conn'[d].on \in Gen
       /\ entries[conn'[d].name] = Live(conn'[d].on) /\ sess[conn'[d].on] = "ended"
    \/ /\ conn[d].pc = "reclaiming" /\ conn'[d].pc = "closing"
       /\ conn'[d].name = conn[d].name
       /\ conn'[d].gen = conn[d].gen /\ conn'[d].on = conn[d].gen

CloserType == [by : Conn \cup {"client", "reaper", "nobody"}, at : {"none", "removed", "begun", "polled"}]

\* Whose entries leave the map, and what becomes of their closes.
Takes(due, by) ==
    /\ \A n \in Name : IF n \in due THEN entries'[n] = Vacant ELSE entries'[n] = entries[n]
    /\ \A h \in Gen : IF \E n \in due : entries[n] = Live(h)
                      THEN closer'[h] = [by |-> by, at |-> "removed"]
                      ELSE closer'[h] = closer[h]

\* The types of what such a step may set, and the book it leaves alone.
Aside ==
    /\ cancel' \in [Gen -> {"none", "disconnect", "dropped"}]
    /\ mark' \in [Gen -> BOOLEAN] /\ unbook' \subseteq Name \X {"client", "reaper"}
    /\ BookTypeOK' /\ BookOK' /\ BookSafe /\ owner' = owner
    /\ UNCHANGED <<nextGen, nameOf, sess, result, hook>>

\* What a Connect that moves on keeps.
LEMMA TurnsOn ==
    ASSUME RegInv, NEW due, NEW by, NEW d \in Conn, conn'[d] = conn[d] \/ Turns(d, due, by)
    PROVE  /\ conn'[d].gen = conn[d].gen
           /\ conn'[d].name # conn[d].name => conn[d].gen = 0
           /\ conn[d].pc \in Early => conn'[d] = conn[d]
           /\ conn'[d].pc \in Early => conn'[d] = conn[d]
           /\ conn'[d].pc \in Promoted => conn[d].pc \in Promoted
  <1>1. CASE conn'[d] = conn[d]
    BY <1>1
  <1>2. CASE Turns(d, due, by) /\ conn[d].pc = "idle"
    <2>1. conn[d].gen = 0
      BY <1>2 DEF RegInv, Numbers, ConnNumbers, Asking
    <2> QED BY <1>2, <2>1 DEF Turns, Early, Promoted
  <1>3. CASE Turns(d, due, by) /\ conn[d].pc = "reclaiming"
    BY <1>3 DEF Turns, Early, Promoted
  <1> QED BY <1>1, <1>2, <1>3 DEF Turns

\* The entries `due' leave the map, to be closed on behalf of `by': placeholders,
\* orphans and sessions.  A running session is taken by a client, the reaper, or
\* the Connect whose session it is.
LEMMA RemovedKeeps ==
    ASSUME RegInv, NEW due \in SUBSET Name, NEW by \in Conn \cup {"client", "reaper"},
           entries' \in [Name -> Entry], closer' \in [Gen -> CloserType], Takes(due, by),
           conn' \in [Conn -> ConnType], \A d \in Conn : conn'[d] = conn[d] \/ Turns(d, due, by),
           \A n \in due : entries[n].kind = "live" =>
               \/ by \in {"client", "reaper"}
               \/ sess[entries[n].gen] = "ended"
               \/ \E d \in Conn : conn[d].gen = entries[n].gen /\ conn'[d].pc = "closing",
           Aside
    PROVE  RegInv' /\ BookSafe
  <1>1. RegTypeOK'
    BY DEF RegInv, RegTypeOK, ConnType, CloserType, Aside
  <1>2. Shapes
    BY RegShapes
  <1>3. \A n \in Name : IF n \in due THEN entries'[n].kind = "vacant" /\ entries'[n].gen = 0
                        ELSE entries'[n] = entries[n]
    BY DEF Vacant, Takes
  <1>4. \A n \in Name, h \in Gen :
            entries'[n] = Live(h) \/ entries'[n] = Connecting(h) => n \notin due /\ entries'[n] = entries[n]
    BY DEF Vacant, Live, Connecting, Takes
  <1>5. \A h \in Gen : /\ (\E n \in due : entries[n] = Live(h)) =>
                             closer'[h].by = by /\ closer'[h].at = "removed"
                       /\ ~(\E n \in due : entries[n] = Live(h)) => closer'[h] = closer[h]
    BY DEF Takes
  <1>6. \A h \in Gen : (\E n \in due : entries[n] = Live(h)) =>
            /\ sess[h] \in {"open", "ended"} /\ closer[h].at = "none"
            /\ \A d \in Conn : conn[d].gen = h => conn[d].pc \notin Early
            /\ \A d \in Conn : conn[d].pc = "replacing" => conn[d].on # h
    <2> SUFFICES ASSUME NEW h \in Gen, NEW n \in due, entries[n] = Live(h)
                 PROVE  /\ sess[h] \in {"open", "ended"} /\ closer[h].at = "none"
                        /\ \A d \in Conn : conn[d].gen = h => conn[d].pc \notin Early
                        /\ \A d \in Conn : conn[d].pc = "replacing" => conn[d].on # h
      OBVIOUS
    <2>1. entries[n].kind = "live" /\ entries[n].gen = h /\ h # 0
      BY <1>2 DEF Shapes
    <2>2. nameOf[h] = n
      BY <2>1 DEF RegInv, Numbers, NameNumbers
    <2>3. sess[h] \in {"open", "ended"} /\ closer[h].at = "none"
      BY <2>1 DEF RegInv, LiveOK, RunsOwned
    <2>4. \A d \in Conn : conn[d].gen = h => conn[d].pc \notin Early
      BY <2>1, <2>2 DEF RegInv, Numbers, ConnNumbers, EarlyOK, HoldsAlone
    <2>5. \A d \in Conn : conn[d].pc = "replacing" => conn[d].on # h
      BY DEF RegInv, ReplaceOK, ReplacesEnded
    <2> QED BY <2>3, <2>4, <2>5
  <1>7. \A d \in Conn : /\ conn'[d].gen = conn[d].gen
                        /\ conn'[d].name # conn[d].name => conn[d].gen = 0
                        /\ conn[d].pc \in Early => conn'[d] = conn[d]
                        /\ conn'[d].pc \in Early => conn'[d] = conn[d]
                        /\ conn'[d].pc \in Promoted => conn[d].pc \in Promoted
    BY TurnsOn
  <1> USE <1>2, <1>3, <1>4, <1>5, <1>6, <1>7 DEF RegInv, Shapes, Aside
  <1>8. Numbers'
    <2>1. \A n \in Name : NameNumbers(n)'
      BY DEF Numbers, NameNumbers
    <2>2. ASSUME NEW d \in Conn PROVE ConnNumbers(d)'
      <3>1. \A e \in Conn : conn'[e].gen = conn'[d].gen /\ conn'[d].gen # 0 => e = d
        BY DEF Numbers, ConnNumbers
      <3>2. CASE conn'[d] = conn[d]
        BY <3>1, <3>2 DEF Numbers, ConnNumbers
      <3>3. CASE Turns(d, due, by)
        <4>1. conn'[d].on < nextGen
          BY <3>3 DEF Turns, Numbers, ConnNumbers, NameNumbers
        <4> QED BY <3>1, <3>3, <4>1 DEF Turns, Numbers, ConnNumbers, Early, Promoted, Asking, Numbered
      <3> QED BY <3>2, <3>3
    <2>3. \A g \in Gen : GenNumbers(g)'
      BY DEF Numbers, GenNumbers
    <2> QED BY <2>1, <2>2, <2>3 DEF Numbers
  <1>9. EarlyOK'
    <2> SUFFICES ASSUME NEW d \in Conn, conn'[d].pc \in Early PROVE HoldsAlone(d)'
      BY DEF EarlyOK
    <2>1. conn'[d] = conn[d] /\ HoldsAlone(d)
      BY DEF EarlyOK
    <2>2. conn[d].gen \in Gen /\ conn[d].name \in Name
      BY <2>1 DEF Numbered
    <2>3. closer'[conn[d].gen] = closer[conn[d].gen]
      BY <2>1, <2>2
    <2> QED BY <2>1, <2>2, <2>3 DEF HoldsAlone
  <1>10. LiveOK'
    <2> SUFFICES ASSUME NEW n \in Name, entries'[n].kind = "live" PROVE RunsOwned(n)'
      BY DEF LiveOK
    <2>1. n \notin due /\ entries'[n] = entries[n] /\ RunsOwned(n) /\ entries[n].gen \in Gen
      BY DEF LiveOK
    <2>2. \A m \in due : entries[m] # Live(entries[n].gen)
      BY <2>1 DEF Numbers, NameNumbers
    <2> QED BY <2>1, <2>2 DEF RunsOwned
  <1>11. CloserOK'
    BY DEF CloserOK
  <1>12. OwnerOK'
    <2>1. \A n \in Name, h \in Gen : Removable(n, h) => Removable(n, h)'
      BY DEF Removable, Early
    <2> QED BY <2>1 DEF OwnerOK
  <1>13. ReplaceOK'
    <2> SUFFICES ASSUME NEW d \in Conn, conn'[d].pc = "replacing" PROVE ReplacesEnded(d)'
      BY DEF ReplaceOK
    <2>1. CASE conn'[d] = conn[d]
      <3>1. ReplacesEnded(d) /\ conn[d].on \in Gen /\ closer'[conn[d].on] = closer[conn[d].on]
        BY <2>1 DEF ReplaceOK, ReplacesEnded
      <3> QED BY <2>1, <3>1 DEF ReplacesEnded
    <2>2. CASE Turns(d, due, by)
      <3>1. /\ conn'[d].name \in due /\ conn'[d].on \in Gen /\ d = by
            /\ entries[conn'[d].name] = Live(conn'[d].on) /\ sess[conn'[d].on] = "ended"
        BY <2>2 DEF Turns
      <3>2. closer'[conn'[d].on].by = d /\ closer'[conn'[d].on].at = "removed"
        BY <3>1
      <3>3. \A n \in Name : entries'[n] # Live(conn'[d].on)
        BY <3>1 DEF Numbers, NameNumbers
      <3>4. \A e \in Conn : conn'[e].gen = conn'[d].on => conn'[e].pc \notin Early
        BY <3>1
      <3> QED BY <3>1, <3>2, <3>3, <3>4 DEF ReplacesEnded
    <2> QED BY <2>1, <2>2
  <1>14. ConnectedOK'
    <2> SUFFICES ASSUME NEW d \in Conn, conn'[d].pc \in Promoted, sess'[conn'[d].gen] = "open"
                 PROVE  \/ entries'[conn'[d].name] = Live(conn'[d].gen)
                        \/ closer'[conn'[d].gen].by \in {"client", "reaper"}
      BY DEF ConnectedOK, StaysConnected
    <2>1. /\ conn[d].pc \in Promoted /\ conn[d].gen \in Gen /\ conn[d].name \in Name
          /\ conn'[d].name = conn[d].name
      BY DEF Numbered
    <2>2. entries[conn[d].name] = Live(conn[d].gen) \/ closer[conn[d].gen].by \in {"client", "reaper"}
      BY <2>1 DEF ConnectedOK, StaysConnected
    <2>3. CASE \E n \in due : entries[n] = Live(conn[d].gen)
      <3>1. PICK n \in due : entries[n] = Live(conn[d].gen)
        BY <2>3
      <3>2. entries[n].kind = "live" /\ entries[n].gen = conn[d].gen
        BY <2>1, <3>1
      <3>3. ~ \E e \in Conn : conn[e].gen = entries[n].gen /\ conn'[e].pc = "closing"
        BY <2>1, <3>2 DEF Numbers, ConnNumbers, Promoted
      <3> QED BY <2>1, <2>3, <3>2, <3>3
    <2>4. CASE ~ \E n \in due : entries[n] = Live(conn[d].gen)
      BY <2>1, <2>2, <2>4
    <2> QED BY <2>3, <2>4
  <1>15. NoSessionLeaks'
    <2>1. \A h \in Gen : Answerable(h) => Answerable(h)'
      BY DEF Answerable, Early
    <2>2. \A h \in Gen : Awaited(h) => Awaited(h)'
      BY DEF Awaited, Early
    <2> QED BY <2>1, <2>2 DEF NoSessionLeaks
  <1> QED BY <1>1, <1>8, <1>9, <1>10, <1>11, <1>12, <1>13, <1>14, <1>15

-----------------------------------------------------------------------------
(* Who takes entries out of the map *)

\* A live entry is taken out.
LEMMA RemoveTakes ==
    ASSUME RegInv, NEW n \in Name, entries[n].kind = "live",
           NEW by \in Conn \cup {"client", "reaper"}, Remove(n, by)
    PROVE  entries' \in [Name -> Entry] /\ closer' \in [Gen -> CloserType] /\ Takes({n}, by)
  <1>1. /\ entries \in [Name -> Entry] /\ closer \in [Gen -> CloserType] /\ Vacant \in Entry
        /\ entries' = [entries EXCEPT ![n] = Vacant]
        /\ closer' = [closer EXCEPT ![entries[n].gen] = [by |-> by, at |-> "removed"]]
    BY DEF RegInv, RegTypeOK, CloserType, Remove, Entry
  <1>2. entries[n].gen \in Gen /\ \A h \in Gen : entries[n] = Live(h) <=> entries[n].gen = h
    BY RegShapes DEF Shapes
  <1>3. entries' \in [Name -> Entry] /\ closer' \in [Gen -> CloserType]
    BY <1>1, <1>2 DEF CloserType
  <1>4. \A m \in Name : IF m \in {n} THEN entries'[m] = Vacant ELSE entries'[m] = entries[m]
    BY <1>1
  <1>5. \A h \in Gen : IF h = entries[n].gen THEN closer'[h] = [by |-> by, at |-> "removed"]
                       ELSE closer'[h] = closer[h]
    BY <1>1
  <1>6. \A h \in Gen : (\E m \in {n} : entries[m] = Live(h)) <=> h = entries[n].gen
    BY <1>2
  <1> QED BY <1>3, <1>4, <1>5, <1>6 DEF Takes

\* An entry that is not live leaves the map: nothing is closed.
LEMMA VacateTakes ==
    ASSUME RegInv, NEW n \in Name, entries[n].kind # "live", NEW by,
           entries' = [entries EXCEPT ![n] = Vacant], UNCHANGED closer
    PROVE  entries' \in [Name -> Entry] /\ closer' \in [Gen -> CloserType] /\ Takes({n}, by)
  <1>1. entries \in [Name -> Entry] /\ closer \in [Gen -> CloserType] /\ Vacant \in Entry
    BY DEF RegInv, RegTypeOK, CloserType, Entry
  <1>2. \A h \in Gen : ~ \E m \in {n} : entries[m] = Live(h)
    BY DEF Live
  <1> QED BY <1>1, <1>2 DEF Takes

\* No entry leaves the map.
LEMMA NothingTaken ==
    ASSUME RegInv, NEW by, UNCHANGED <<entries, closer>>
    PROVE  entries' \in [Name -> Entry] /\ closer' \in [Gen -> CloserType] /\ Takes({}, by)
  BY DEF RegInv, RegTypeOK, CloserType, Takes

\* release_name: a new Connect for a name.
LEMMA ReleaseNameKeeps ==
    ASSUME RegInv, NEW c \in Conn, NEW n \in Name, ReleaseName(c, n)
    PROVE  RegInv' /\ BookSafe
  <1>1. Aside
    BY BookSame DEF Aside, RegInv, RegTypeOK, ReleaseName
  <1>2. /\ conn \in [Conn -> ConnType] /\ conn[c].pc = "idle" /\ Shapes
        /\ 0 \in 0..MaxGen /\ \A g \in Gen : g \in 0..MaxGen
    BY BookAssumption, RegShapes DEF RegInv, RegTypeOK, ConnType, ReleaseName, Gen
  <1>3. CASE entries[n] = Orphaned
    <2>1. /\ entries[n].kind # "live" /\ entries' = [entries EXCEPT ![n] = Vacant]
          /\ conn' = [conn EXCEPT ![c] = [NoConn EXCEPT !.pc = "unbooking", !.name = n]]
          /\ UNCHANGED closer
      BY <1>3 DEF ReleaseName, Ended, Orphaned
    <2>2. /\ conn' \in [Conn -> ConnType]
          /\ conn'[c].pc = "unbooking" /\ conn'[c].name = n /\ conn'[c].gen = 0 /\ conn'[c].on = 0
          /\ \A d \in Conn : d # c => conn'[d] = conn[d]
      BY <1>2, <2>1 DEF ConnType, NoConn, ConnPc
    <2>3. \A d \in Conn : conn'[d] = conn[d] \/ Turns(d, {n}, c)
      BY <1>2, <2>2 DEF Turns
    <2>4. entries' \in [Name -> Entry] /\ closer' \in [Gen -> CloserType] /\ Takes({n}, c)
      BY <2>1, VacateTakes
    <2>5. \A m \in {n} : entries[m].kind # "live"
      BY <2>1
    <2> QED BY <1>1, <2>2, <2>3, <2>4, <2>5, RemovedKeeps
  <1>4. CASE Ended(n)
    <2>1. /\ entries[n].kind = "live" /\ sess[entries[n].gen] = "ended" /\ Remove(n, c)
          /\ conn' = [conn EXCEPT ![c] = [NoConn EXCEPT !.pc = "replacing", !.name = n,
                                                        !.on = entries[n].gen]]
      BY <1>4 DEF ReleaseName, Ended, Orphaned
    <2>2. entries[n].gen \in Gen /\ entries[n] = Live(entries[n].gen)
      BY <1>2, <2>1 DEF Shapes
    <2>3. /\ conn' \in [Conn -> ConnType]
          /\ conn'[c].pc = "replacing" /\ conn'[c].name = n /\ conn'[c].gen = 0
          /\ conn'[c].on = entries[n].gen
          /\ \A d \in Conn : d # c => conn'[d] = conn[d]
      BY <1>2, <2>1, <2>2 DEF ConnType, NoConn, ConnPc
    <2>4. \A d \in Conn : conn'[d] = conn[d] \/ Turns(d, {n}, c)
      BY <1>2, <2>1, <2>2, <2>3 DEF Turns
    <2>5. entries' \in [Name -> Entry] /\ closer' \in [Gen -> CloserType] /\ Takes({n}, c)
      BY <2>1, RemoveTakes
    <2> QED BY <1>1, <2>1, <2>3, <2>4, <2>5, RemovedKeeps
  <1>5. CASE entries[n] # Orphaned /\ ~Ended(n)
    <2>1. /\ conn' = [conn EXCEPT ![c] = [NoConn EXCEPT !.pc = "claiming", !.name = n]]
          /\ UNCHANGED <<entries, closer>>
      BY <1>5 DEF ReleaseName
    <2>2. /\ conn' \in [Conn -> ConnType]
          /\ conn'[c].pc = "claiming" /\ conn'[c].name = n /\ conn'[c].gen = 0 /\ conn'[c].on = 0
          /\ \A d \in Conn : d # c => conn'[d] = conn[d]
      BY <1>2, <2>1 DEF ConnType, NoConn, ConnPc
    <2>3. \A d \in Conn : conn'[d] = conn[d] \/ Turns(d, {}, c)
      BY <1>2, <2>2 DEF Turns
    <2>4. entries' \in [Name -> Entry] /\ closer' \in [Gen -> CloserType] /\ Takes({}, c)
      BY <2>1, NothingTaken
    <2> QED BY <1>1, <2>2, <2>3, <2>4, RemovedKeeps
  <1> QED BY <1>3, <1>4, <1>5

\* close_if_generation: the Connect takes back its own session, or finds that
\* it is not there.
LEMMA CloseIfGenerationKeeps ==
    ASSUME RegInv, NEW c \in Conn, CloseIfGeneration(c)
    PROVE  RegInv' /\ BookSafe
  <1>1. conn \in [Conn -> ConnType] /\ conn[c].pc = "reclaiming"
    BY DEF RegInv, RegTypeOK, ConnType, CloseIfGeneration
  <1>2. Shapes /\ conn[c].gen \in Gen /\ conn[c].name \in Name
    BY <1>1, RegShapes DEF Shapes, Numbered, Promoted
  <1>3. CASE entries[conn[c].name] = Live(conn[c].gen)
    <2> DEFINE n == conn[c].name
               g == conn[c].gen
    <2>1. /\ entries[n].kind = "live" /\ entries[n].gen = g /\ Remove(n, c)
          /\ conn' = [conn EXCEPT ![c].pc = "closing", ![c].on = g] /\ UNCHANGED mark
      BY <1>2, <1>3 DEF CloseIfGeneration, Shapes
    <2>2. /\ conn' \in [Conn -> ConnType] /\ conn'[c].pc = "closing" /\ conn'[c].name = n
          /\ conn'[c].gen = g /\ conn'[c].on = g
          /\ \A d \in Conn : d # c => conn'[d] = conn[d]
      BY <1>1, <2>1 DEF ConnType, ConnPc
    <2>3. \A d \in Conn : conn'[d] = conn[d] \/ Turns(d, {n}, c)
      BY <1>1, <2>2 DEF Turns
    <2>4. Aside
      BY <2>1, BookSame DEF Aside, RegInv, RegTypeOK, CloseIfGeneration
    <2>5. entries' \in [Name -> Entry] /\ closer' \in [Gen -> CloserType] /\ Takes({n}, c)
      BY <1>2, <2>1, RemoveTakes
    <2>6. \A m \in {n} : \E d \in Conn : conn[d].gen = entries[m].gen /\ conn'[d].pc = "closing"
      BY <2>1, <2>2
    <2> QED BY <1>2, <2>2, <2>3, <2>4, <2>5, <2>6, RemovedKeeps
  <1>4. CASE entries[conn[c].name] # Live(conn[c].gen)
    <2>1. /\ Goto(c, "gone") /\ mark' = [mark EXCEPT ![conn[c].gen] = FALSE]
          /\ UNCHANGED <<bookVars, entries, nextGen, nameOf, sess, cancel, result, hook, closer, unbook>>
      BY <1>4 DEF CloseIfGeneration
    <2>2. /\ mark' \in [Gen -> BOOLEAN] /\ conn[c].on \in 0..MaxGen /\ conn[c].on < nextGen
          /\ BookTypeOK /\ BookOK
      BY <2>1 DEF RegInv, RegTypeOK, Numbers, ConnNumbers
    <2> QED BY <1>1, <2>1, <2>2, GotoMoves, BookSame, ConnStep DEF ConnPc, Settled, Early, Promoted, Numbered, Asking
  <1> QED BY <1>3, <1>4

\* close_with: a client or the reaper takes a session or an orphan.
LEMMA CloseWithKeeps ==
    ASSUME RegInv, NEW n \in Name, NEW by \in {"client", "reaper"}, CloseWith(n, by),
           UNCHANGED <<bookVars, nextGen, nameOf, sess, result, hook, mark, conn>>
    PROVE  RegInv' /\ BookSafe
  <1>1. conn' \in [Conn -> ConnType] /\ \A d \in Conn : conn'[d] = conn[d] \/ Turns(d, {n}, by)
    BY DEF RegInv, RegTypeOK, ConnType
  <1>2. by \in Conn \cup {"client", "reaper"}
    OBVIOUS
  <1>3. CASE entries[n].kind = "live" /\ Remove(n, by) /\ UNCHANGED <<cancel, unbook>>
    <2>1. Aside
      BY <1>3, BookSame DEF Aside, RegInv, RegTypeOK
    <2> QED BY <1>1, <1>2, <1>3, <2>1, RemoveTakes, RemovedKeeps
  <1>4. CASE /\ entries[n] = Orphaned /\ entries' = [entries EXCEPT ![n] = Vacant]
             /\ unbook' = unbook \cup {<<n, by>>} /\ UNCHANGED <<cancel, closer>>
    <2>1. Aside
      BY <1>4, BookSame DEF Aside, RegInv, RegTypeOK
    <2>2. entries[n].kind # "live"
      BY <1>4 DEF Orphaned
    <2> QED BY <1>1, <1>2, <1>4, <2>1, <2>2, VacateTakes, RemovedKeeps
  <1> QED BY <1>3, <1>4 DEF CloseWith

\* Registry::close.
LEMMA DisconnectKeeps ==
    ASSUME RegInv, NEW n \in Name, Disconnect(n)
    PROVE  RegInv' /\ BookSafe
  <1>1. CASE CloseWith(n, "client")
    BY <1>1, CloseWithKeeps DEF Disconnect
  <1>2. CASE /\ entries[n].kind = "connecting" /\ entries' = [entries EXCEPT ![n] = Vacant]
             /\ cancel' = [cancel EXCEPT ![entries[n].gen] = "disconnect"]
             /\ UNCHANGED <<closer, unbook>>
    <2>1. Aside
      BY <1>2, BookSame DEF Aside, RegInv, RegTypeOK, Disconnect
    <2>2. conn' \in [Conn -> ConnType] /\ \A d \in Conn : conn'[d] = conn[d] \/ Turns(d, {n}, "client")
      BY DEF RegInv, RegTypeOK, ConnType, Disconnect
    <2> QED BY <1>2, <2>1, <2>2, VacateTakes, RemovedKeeps
  <1> QED BY <1>1, <1>2 DEF Disconnect

\* expire_retained: the reaper takes orphans and sessions that have ended.
LEMMA ExpireKeeps ==
    ASSUME RegInv, NEW due, ExpireRetained(due)
    PROVE  RegInv' /\ BookSafe
  <1>1. due \in SUBSET Name /\ \A n \in due : entries[n] = Orphaned \/ Ended(n)
    BY DEF ExpireRetained, Retained
  <1>2. entries' \in [Name -> Entry]
    BY DEF ExpireRetained, RegInv, RegTypeOK, Entry
  <1>3. closer' \in [Gen -> CloserType]
    BY DEF ExpireRetained, RegInv, RegTypeOK, CloserType
  <1>4. Takes(due, "reaper")
    BY <1>1 DEF ExpireRetained, Takes
  <1>5. Aside
    BY <1>1, BookSame DEF ExpireRetained, Aside, RegInv, RegTypeOK
  <1>6. conn' \in [Conn -> ConnType] /\ \A d \in Conn : conn'[d] = conn[d] \/ Turns(d, due, "reaper")
    BY DEF RegInv, RegTypeOK, ConnType, ExpireRetained
  <1> QED BY <1>1, <1>2, <1>3, <1>4, <1>5, <1>6, RemovedKeeps

\* The record of an orphan that was disconnected or expired goes.
LEMMA UnbookOrphanKeeps ==
    ASSUME RegInv, NEW n \in Name, NEW by \in {"client", "reaper"}, UnbookOrphan(n, by)
    PROVE  RegInv' /\ BookSafe
  <1>1. BookTypeOK' /\ BookOK' /\ BookSafe /\ owner' = owner
    BY BookClosedOrphan DEF UnbookOrphan, BookSafe, RegInv, RegTypeOK
  <1>2. Aside
    BY <1>1 DEF UnbookOrphan, Aside, RegInv, RegTypeOK
  <1>3. conn' \in [Conn -> ConnType] /\ \A d \in Conn : conn'[d] = conn[d] \/ Turns(d, {}, "client")
    BY DEF RegInv, RegTypeOK, ConnType, UnbookOrphan
  <1>4. UNCHANGED <<entries, closer>>
    BY DEF UnbookOrphan
  <1> QED BY <1>2, <1>3, <1>4, NothingTaken, RemovedKeeps

\* claim, and claim_with_auto_id.
LEMMA ClaimKeeps ==
    ASSUME RegInv, NEW c \in Conn, NEW n \in Name, Claim(c) \/ ClaimWithAutoId(c, n)
    PROVE  RegInv' /\ BookSafe
  <1>1. CASE ClaimWithAutoId(c, n)
    BY <1>1, InsertKeeps DEF ClaimWithAutoId
  <1>2. CASE Claim(c)
    <2>1. conn[c].pc = "claiming" /\ conn[c].name \in Name
      BY <1>2 DEF Claim, RegInv, Numbers, ConnNumbers, Asking
    <2>2. CASE entries[conn[c].name] = Vacant
      BY <1>2, <2>1, <2>2, InsertKeeps DEF Claim
    <2>3. CASE entries[conn[c].name] # Vacant
      <3>1. /\ conn \in [Conn -> ConnType] /\ mark \in [Gen -> BOOLEAN]
            /\ conn[c].on \in 0..MaxGen /\ conn[c].on < nextGen /\ BookTypeOK /\ BookOK
        BY DEF RegInv, RegTypeOK, Numbers, ConnNumbers, ConnType
      <3> QED BY <1>2, <2>1, <2>3, <3>1, GotoMoves, BookSame, ConnStep
              DEF Claim, ConnPc, Settled, Early, Promoted, Numbered, Asking
    <2> QED BY <2>2, <2>3
  <1> QED BY <1>1, <1>2

-----------------------------------------------------------------------------
(* The way of a Connect to its promotion *)

\* A Connect that waits gives up: it was told of a failure, or its peer left.  The
\* placeholder goes if it is its own, and a session that was delivered is closed.
LEMMA GivesUpKeeps ==
    ASSUME RegInv, NEW c \in Conn, conn[c].pc = "waiting",
           NEW pc \in {"failed", "gone"}, Goto(c, pc), CancelConnecting(c),
           sess' \in [Gen -> {"none", "connecting", "open", "ended", "closing", "closed"}],
           \A g \in Gen : g # conn[c].gen => sess'[g] = sess[g],
           sess'[conn[c].gen] \in {"connecting", "closing", "closed"},
           UNCHANGED <<bookVars, nextGen, nameOf, result, hook, mark, closer, unbook>>
    PROVE  RegInv' /\ BookSafe
  <1>1. BookTypeOK' /\ BookOK' /\ BookSafe /\ owner' = owner
    BY BookSame DEF RegInv, RegTypeOK
  <1>2. Shapes
    BY RegShapes
  <1>3. /\ conn' \in [Conn -> ConnType] /\ conn[c].pc = "waiting"
        /\ \A d \in Conn :
              /\ conn'[d].gen = conn[d].gen /\ conn'[d].name = conn[d].name
              /\ conn'[d].on = conn[d].on /\ (d # c => conn'[d].pc = conn[d].pc)
        /\ conn'[c].pc \in {"failed", "gone"}
    <2>1. conn \in [Conn -> ConnType] /\ pc \in ConnPc
      BY DEF RegInv, RegTypeOK, ConnType, ConnPc, Settled
    <2> QED BY <2>1, GotoMoves DEF Moves
  <1>4. conn[c].gen \in Gen /\ conn[c].name \in Name /\ HoldsAlone(c)
    BY <1>2 DEF Shapes, RegInv, EarlyOK, Early, Numbered
  <1>5. /\ entries' \in [Name -> Entry] /\ cancel' \in [Gen -> {"none", "disconnect", "dropped"}]
        /\ \A m \in Name : entries'[m] = entries[m] \/ (entries'[m] = Vacant /\ entries[m].kind = "connecting")
    <2>1. /\ entries \in [Name -> Entry] /\ Vacant \in Entry /\ Connecting(conn[c].gen).kind = "connecting"
          /\ cancel \in [Gen -> {"none", "disconnect", "dropped"}]
      BY DEF RegInv, RegTypeOK, Entry, Connecting
    <2> QED BY <1>4, <2>1 DEF CancelConnecting, DropPlaceholder
  <1>6. \A m \in Name : /\ entries'[m] # entries[m] => entries'[m].kind = "vacant" /\ entries'[m].gen = 0
                        /\ \A h \in Gen : /\ entries'[m] = Live(h) <=> entries[m] = Live(h)
                                          /\ entries'[m] = Connecting(h) => entries[m] = Connecting(h)
    BY <1>5 DEF Vacant, Live, Connecting
  <1>7. RegTypeOK'
    BY <1>1, <1>3, <1>5 DEF RegInv, RegTypeOK, ConnType
  <1>8. \A m \in Name : entries[m] # Live(conn[c].gen)
    BY <1>2, <1>4 DEF HoldsAlone, RegInv, Shapes, Numbers, NameNumbers, ConnNumbers
  <1>9. closer[conn[c].gen].at = "none" /\ ~hook[conn[c].gen] /\ UNCHANGED <<nextGen, nameOf, result, hook, closer>>
    BY <1>4 DEF HoldsAlone
  <1>10. /\ conn[c].gen < nextGen
         /\ \A d \in Conn : conn[d].gen = conn[c].gen => d = c
         /\ \A d \in Conn : conn[d].pc = "replacing" => conn[d].on # conn[c].gen
    BY <1>2, <1>3, <1>4 DEF RegInv, Shapes, Early, Numbers, ConnNumbers, ReplaceOK, ReplacesEnded
  <1> USE <1>1, <1>2, <1>3, <1>4, <1>5, <1>6, <1>7, <1>8, <1>9, <1>10 DEF RegInv, Shapes, Early, Promoted, Numbered, Asking
  <1>11. Numbers'
    <2>1. \A m \in Name : NameNumbers(m)'
      BY DEF Numbers, NameNumbers
    <2>2. \A d \in Conn : ConnNumbers(d)'
      BY DEF Numbers, ConnNumbers
    <2>3. \A h \in Gen : GenNumbers(h)'
      BY DEF Numbers, GenNumbers
    <2> QED BY <2>1, <2>2, <2>3 DEF Numbers
  <1>12. EarlyOK'
    <2>1. \A d \in Conn : d # c /\ conn[d].pc \in Early => HoldsAlone(d)'
      <3> SUFFICES ASSUME NEW d \in Conn, d # c, conn[d].pc \in Early PROVE HoldsAlone(d)'
        OBVIOUS
      <3>1. HoldsAlone(d) /\ conn[d].gen \in Gen /\ conn[d].gen # conn[c].gen /\ conn[d].name \in Name
        BY DEF EarlyOK
      <3>2. sess'[conn[d].gen] = sess[conn[d].gen] /\ conn'[d].pc = conn[d].pc
        BY <3>1
      <3> QED BY <3>1, <3>2 DEF HoldsAlone
    <2>2. conn'[c].pc \in Early => HoldsAlone(c)'
      BY DEF EarlyOK, HoldsAlone, Numbers, ConnNumbers
    <2> QED BY <2>1, <2>2 DEF EarlyOK
  <1>13. LiveOK'
    BY DEF LiveOK, RunsOwned
  <1>14. CloserOK'
    BY DEF CloserOK
  <1>15. OwnerOK'
    <2>1. \A m \in Name, h \in Gen : Removable(m, h) => Removable(m, h)' \/ owner'[m] # h
      BY DEF Removable
    <2> QED BY <2>1 DEF OwnerOK
  <1>16. ReplaceOK'
    <2> SUFFICES ASSUME NEW d \in Conn, conn[d].pc = "replacing", d # c PROVE ReplacesEnded(d)'
      BY DEF ReplaceOK
    <2>1. ReplacesEnded(d) /\ conn[d].on \in Gen /\ conn[d].on # conn[c].gen
      BY DEF ReplaceOK, ReplacesEnded
    <2>2. sess'[conn[d].on] = sess[conn[d].on]
      BY <2>1
    <2>3. \A e \in Conn : conn'[e].pc \in Early => conn[e].pc \in Early
      OBVIOUS
    <2> QED BY <2>1, <2>2, <2>3 DEF ReplacesEnded
  <1>17. ConnectedOK'
    BY DEF ConnectedOK, StaysConnected
  <1>18. NoSessionLeaks'
    <2>1. \A h \in Gen : Answerable(h) => Answerable(h)' \/ sess'[h] \notin {"open", "ended"}
      BY DEF Answerable
    <2>2. \A h \in Gen : Awaited(h) => Awaited(h)' \/ Answerable(h)' \/ sess'[h] \notin {"open", "ended"}
      BY DEF Awaited, Answerable
    <2> QED BY <2>1, <2>2 DEF NoSessionLeaks
  <1> QED BY <1>11, <1>12, <1>13, <1>14, <1>15, <1>16, <1>17, <1>18


\* The session of an attempt is delivered to the Connect that waits for it.
LEMMA WaitedKeeps ==
    ASSUME RegInv, NEW c \in Conn, conn[c].pc = "waiting", result[conn[c].gen] = "session",
           Goto(c, "delivered"),
           UNCHANGED <<bookVars, entries, cancel, nextGen, nameOf, sess, result, hook, mark, closer, unbook>>
    PROVE  RegInv' /\ BookSafe
  <1>1. BookTypeOK' /\ BookOK' /\ BookSafe /\ owner' = owner
    BY BookSame DEF RegInv, RegTypeOK
  <1>2. Shapes
    BY RegShapes
  <1>3. /\ conn' \in [Conn -> ConnType] /\ conn[c].pc = "waiting"
        /\ \A d \in Conn :
              /\ conn'[d].gen = conn[d].gen /\ conn'[d].name = conn[d].name
              /\ conn'[d].on = conn[d].on /\ (d # c => conn'[d].pc = conn[d].pc)
        /\ conn'[c].pc \in {"delivered"}
    <2>1. conn \in [Conn -> ConnType] /\ "delivered" \in ConnPc
      BY DEF RegInv, RegTypeOK, ConnType, ConnPc
    <2> QED BY <2>1, GotoMoves DEF Moves
  <1>4. conn[c].gen \in Gen /\ conn[c].name \in Name /\ HoldsAlone(c) /\ result[conn[c].gen] = "session"
    BY <1>2 DEF Shapes, RegInv, EarlyOK, Early, Numbered
  <1>5. RegTypeOK'
    BY <1>1, <1>3 DEF RegInv, RegTypeOK, ConnType
  <1>6. UNCHANGED <<entries, nextGen, nameOf, sess, result, hook, closer>>
    OBVIOUS
  <1> USE <1>1, <1>2, <1>3, <1>4, <1>5, <1>6 DEF RegInv, Shapes, Early, Promoted, Numbered, Asking
  <1>7. Numbers'
    <2>1. \A m \in Name : NameNumbers(m)'
      BY DEF Numbers, NameNumbers
    <2>2. \A d \in Conn : ConnNumbers(d)'
      BY DEF Numbers, ConnNumbers
    <2>3. \A h \in Gen : GenNumbers(h)'
      BY DEF Numbers, GenNumbers
    <2> QED BY <2>1, <2>2, <2>3 DEF Numbers
  <1>8. EarlyOK'
    <2>1. \A d \in Conn : d # c /\ conn[d].pc \in Early => HoldsAlone(d)'
      BY DEF EarlyOK, HoldsAlone, Numbers, ConnNumbers
    <2>2. conn'[c].pc \in Early => HoldsAlone(c)'
      BY DEF EarlyOK, HoldsAlone, Numbers, ConnNumbers
    <2> QED BY <2>1, <2>2 DEF EarlyOK
  <1>9. LiveOK'
    BY DEF LiveOK, RunsOwned
  <1>10. CloserOK'
    BY DEF CloserOK
  <1>11. OwnerOK'
    <2>1. \A m \in Name, h \in Gen : Removable(m, h) => Removable(m, h)' \/ owner'[m] # h
      BY DEF Removable
    <2> QED BY <2>1 DEF OwnerOK
  <1>12. ReplaceOK'
    BY DEF ReplaceOK, ReplacesEnded
  <1>13. ConnectedOK'
    BY DEF ConnectedOK, StaysConnected
  <1>14. NoSessionLeaks'
    <2>1. \A h \in Gen : Answerable(h) => Answerable(h)' \/ sess'[h] \notin {"open", "ended"}
      BY DEF Answerable
    <2>2. \A h \in Gen : Awaited(h) => Awaited(h)' \/ Answerable(h)' \/ sess'[h] \notin {"open", "ended"}
      BY DEF Awaited, Answerable
    <2> QED BY <2>1, <2>2 DEF NoSessionLeaks
  <1> QED BY <1>7, <1>8, <1>9, <1>10, <1>11, <1>12, <1>13, <1>14

\* The wait for the connect task is over.
LEMMA DeliveredKeeps ==
    ASSUME RegInv, NEW c \in Conn, Delivered(c)
    PROVE  RegInv' /\ BookSafe
  <1>1. conn[c].pc = "waiting" /\ conn[c].gen \in Gen /\ conn[c].name \in Name /\ HoldsAlone(c)
    BY RegShapes DEF Delivered, Shapes, Numbered, Early, RegInv, EarlyOK
  <1>2. CASE result[conn[c].gen] = "session"
    BY <1>1, <1>2, WaitedKeeps DEF Delivered
  <1>3. CASE result[conn[c].gen] \in {"error", "gone"}
    <2>1. sess' = sess /\ sess[conn[c].gen] = "closed"
      BY <1>1, <1>3 DEF HoldsAlone, Delivered
    <2> QED BY <1>1, <1>3, <2>1, GivesUpKeeps DEF Delivered, RegInv, RegTypeOK
  <1> QED BY <1>2, <1>3 DEF Delivered

\* The peer left while the connect was pending.
LEMMA ConnectDroppedKeeps ==
    ASSUME RegInv, NEW c \in Conn, ConnectDropped(c)
    PROVE  RegInv' /\ BookSafe
  <1>1. conn[c].pc = "waiting" /\ conn[c].gen \in Gen /\ conn[c].name \in Name /\ HoldsAlone(c)
    BY RegShapes DEF ConnectDropped, Shapes, Numbered, Early, RegInv, EarlyOK
  <1>2. /\ sess' \in [Gen -> {"none", "connecting", "open", "ended", "closing", "closed"}]
        /\ \A g \in Gen : g # conn[c].gen => sess'[g] = sess[g]
        /\ sess'[conn[c].gen] \in {"connecting", "closing", "closed"}
    BY <1>1 DEF HoldsAlone, ConnectDropped, RegInv, RegTypeOK
  <1> QED BY <1>1, <1>2, GivesUpKeeps DEF ConnectDropped

\* The peer left while the ended session of the name was being closed: its record
\* went when that close began.
LEMMA ReplaceDroppedKeeps ==
    ASSUME RegInv, NEW c \in Conn, ReplaceDropped(c)
    PROVE  RegInv' /\ BookSafe
  <1>1. BookTypeOK' /\ BookOK' /\ BookSafe /\ owner' = owner
    BY BookSame DEF RegInv, RegTypeOK, ReplaceDropped
  <1>2. Shapes
    BY RegShapes
  <1>3. /\ conn' \in [Conn -> ConnType] /\ conn[c].pc = "replacing"
        /\ \A d \in Conn :
              /\ conn'[d].gen = conn[d].gen /\ conn'[d].name = conn[d].name
              /\ conn'[d].on = conn[d].on /\ (d # c => conn'[d].pc = conn[d].pc)
        /\ conn'[c].pc \in {"gone"}
    <2>1. conn \in [Conn -> ConnType] /\ "gone" \in ConnPc
      BY DEF RegInv, RegTypeOK, ConnType, ConnPc, Settled
    <2> QED BY <2>1, GotoMoves DEF Moves, ReplaceDropped
  <1>4. /\ conn[c].on \in Gen /\ closer[conn[c].on].at = "polled" /\ closer[conn[c].on].by = c
        /\ owner[nameOf[conn[c].on]] # conn[c].on /\ sess[conn[c].on] \notin {"open", "ended"}
    BY <1>2 DEF ReplaceDropped, Shapes, RegInv, ReplaceOK, ReplacesEnded, CloserOK
  <1>5. /\ \A h \in Gen : closer'[h].at = IF h = conn[c].on THEN "none" ELSE closer[h].at
        /\ \A h \in Gen : h # conn[c].on => closer'[h] = closer[h]
    BY <1>4 DEF RegInv, RegTypeOK, ReplaceDropped, NoCloser
  <1>6. RegTypeOK'
    BY <1>1, <1>3 DEF RegInv, RegTypeOK, ConnType, ReplaceDropped, NoCloser
  <1>7. UNCHANGED <<entries, nextGen, nameOf, sess, result, hook>>
    BY DEF ReplaceDropped
  <1> USE <1>1, <1>2, <1>3, <1>4, <1>5, <1>6, <1>7 DEF RegInv, Shapes, Early, Promoted, Numbered, Asking
  <1>8. Numbers'
    <2>1. \A m \in Name : NameNumbers(m)'
      BY DEF Numbers, NameNumbers
    <2>2. \A d \in Conn : ConnNumbers(d)'
      BY DEF Numbers, ConnNumbers
    <2>3. \A h \in Gen : GenNumbers(h)'
      BY DEF Numbers, GenNumbers
    <2> QED BY <2>1, <2>2, <2>3 DEF Numbers
  <1>9. EarlyOK'
    <2>1. \A d \in Conn : d # c /\ conn[d].pc \in Early => HoldsAlone(d)'
      BY DEF EarlyOK, HoldsAlone, Numbers, ConnNumbers
    <2>2. conn'[c].pc \in Early => HoldsAlone(c)'
      BY DEF EarlyOK, HoldsAlone, Numbers, ConnNumbers
    <2> QED BY <2>1, <2>2 DEF EarlyOK
  <1>10. LiveOK'
    BY DEF LiveOK, RunsOwned
  <1>11. CloserOK'
    BY DEF CloserOK
  <1>12. OwnerOK'
    <2>1. \A m \in Name : owner[m] # 0 => owner[m] # conn[c].on
      BY DEF Numbers, NameNumbers
    <2>2. \A m \in Name, h \in Gen : Removable(m, h) /\ h # conn[c].on => Removable(m, h)'
      BY DEF Removable
    <2> QED BY <2>1, <2>2 DEF OwnerOK
  <1>13. ReplaceOK'
    BY DEF ReplaceOK, ReplacesEnded
  <1>14. ConnectedOK'
    BY DEF ConnectedOK, StaysConnected
  <1>15. NoSessionLeaks'
    <2>1. \A h \in Gen : Answerable(h) => Answerable(h)' \/ sess'[h] \notin {"open", "ended"}
      BY DEF Answerable
    <2>2. \A h \in Gen : Awaited(h) => Awaited(h)' \/ Answerable(h)' \/ sess'[h] \notin {"open", "ended"}
      BY DEF Awaited, Answerable
    <2> QED BY <2>1, <2>2 DEF NoSessionLeaks
  <1> QED BY <1>8, <1>9, <1>10, <1>11, <1>12, <1>13, <1>14, <1>15


\* The record of a delivered session is written.
LEMMA RecordSessionKeeps ==
    ASSUME RegInv, NEW c \in Conn, RecordSession(c)
    PROVE  RegInv' /\ BookSafe
  <1>1. Shapes
    BY RegShapes
  <1>2. /\ conn' \in [Conn -> ConnType] /\ conn[c].pc = "delivered"
        /\ \A d \in Conn :
              /\ conn'[d].gen = conn[d].gen /\ conn'[d].name = conn[d].name
              /\ conn'[d].on = conn[d].on /\ (d # c => conn'[d].pc = conn[d].pc)
        /\ conn'[c].pc \in {"recorded"}
    <2>1. conn \in [Conn -> ConnType] /\ "recorded" \in ConnPc
      BY DEF RegInv, RegTypeOK, ConnType, ConnPc
    <2> QED BY <2>1, GotoMoves DEF Moves, RecordSession
  <1>3. conn[c].gen \in Gen /\ conn[c].name \in Name /\ HoldsAlone(c)
    BY <1>1, <1>2 DEF Shapes, RegInv, EarlyOK, Early, Numbered
  <1>4. /\ BookTypeOK' /\ BookOK' /\ BookSafe
        /\ owner' = [owner EXCEPT ![conn[c].name] = IF owner[conn[c].name] < conn[c].gen
                                                    THEN conn[c].gen ELSE owner[conn[c].name]]
    BY <1>3, BookOpened DEF RecordSession, RegInv, RegTypeOK, BookSafe
  <1>5. /\ \A m \in Name : m # conn[c].name => owner'[m] = owner[m]
        /\ owner'[conn[c].name] \in {owner[conn[c].name], conn[c].gen}
        /\ owner[conn[c].name] < conn[c].gen => owner'[conn[c].name] = conn[c].gen
        /\ ~(owner[conn[c].name] < conn[c].gen) => owner'[conn[c].name] = owner[conn[c].name]
    BY <1>3, <1>4 DEF RegInv, RegTypeOK, BookTypeOK
  <1>6. RegTypeOK'
    BY <1>2, <1>4 DEF RegInv, RegTypeOK, ConnType, RecordSession
  <1>7. UNCHANGED <<entries, nextGen, nameOf, sess, result, hook, closer>>
    BY DEF RecordSession
  <1>8. /\ conn[c].gen < nextGen
        /\ \A d \in Conn : conn[d].gen = conn[c].gen => d = c
        /\ \A d \in Conn : conn[d].pc = "replacing" => conn[d].on # conn[c].gen
    BY <1>1, <1>2, <1>3 DEF RegInv, Shapes, Early, Numbers, ConnNumbers, ReplaceOK, ReplacesEnded
  <1>9. /\ nameOf[conn[c].gen] = conn[c].name
        /\ entries[conn[c].name].kind = "live" => owner'[conn[c].name] = owner[conn[c].name] \/ sess[entries[conn[c].name].gen] # "open"
    <2>1. nameOf[conn[c].gen] = conn[c].name
      BY <1>1, <1>3 DEF RegInv, Shapes, Numbers, ConnNumbers
    <2>2. ASSUME entries[conn[c].name].kind = "live", sess[entries[conn[c].name].gen] = "open"
          PROVE  owner'[conn[c].name] = owner[conn[c].name]
      <3>1. /\ conn[c].gen <= entries[conn[c].name].gen
            /\ owner[conn[c].name] = entries[conn[c].name].gen
        BY <1>1, <1>3, <1>8, <2>1, <2>2 DEF RegInv, Shapes, Numbers, NameNumbers, LiveOK, RunsOwned
      <3> QED BY <1>1, <1>3, <1>5, <3>1 DEF Shapes
    <2> QED BY <2>1, <2>2
  <1> USE <1>1, <1>2, <1>3, <1>4, <1>5, <1>6, <1>7, <1>8, <1>9 DEF RegInv, Shapes, Early, Promoted, Numbered, Asking
  <1>10. Numbers'
    <2>1. \A m \in Name : NameNumbers(m)'
      <3>1. \A m \in Name : owner'[m] = owner[m] \/ (owner'[m] = conn[c].gen /\ m = conn[c].name)
        OBVIOUS
      <3> QED BY <3>1 DEF Numbers, NameNumbers
    <2>2. \A d \in Conn : ConnNumbers(d)'
      BY DEF Numbers, ConnNumbers
    <2>3. \A h \in Gen : GenNumbers(h)'
      BY DEF Numbers, GenNumbers
    <2> QED BY <2>1, <2>2, <2>3 DEF Numbers
  <1>11. EarlyOK'
    <2>1. \A d \in Conn : d # c /\ conn[d].pc \in Early => HoldsAlone(d)'
      <3>1. \A d \in Conn : d # c /\ conn[d].pc \in Early => owner'[conn[d].name] = owner[conn[d].name] \/ owner'[conn[d].name] # conn[d].gen
        OBVIOUS
      <3>2. \A d \in Conn : d # c /\ conn[d].pc = "recorded" /\ entries[conn[d].name] = Connecting(conn[d].gen) =>
               owner'[conn[d].name] = owner[conn[d].name]
        BY DEF EarlyOK, HoldsAlone, Numbers, NameNumbers, ConnNumbers
      <3> QED BY <3>1, <3>2 DEF EarlyOK, HoldsAlone
    <2>2. conn'[c].pc \in Early => HoldsAlone(c)'
      <3>1. entries[conn[c].name] = Connecting(conn[c].gen) => owner'[conn[c].name] = conn[c].gen
        BY DEF Numbers, NameNumbers, HoldsAlone
      <3> QED BY <3>1 DEF HoldsAlone
    <2> QED BY <2>1, <2>2 DEF EarlyOK
  <1>12. LiveOK'
    BY DEF LiveOK, RunsOwned
  <1>13. CloserOK'
    BY DEF CloserOK
  <1>14. OwnerOK'
    <2>1. \A m \in Name, h \in Gen : Removable(m, h) => Removable(m, h)'
      BY DEF Removable
    <2>2. \A m \in Name : Removable(m, conn[c].gen)'
      BY DEF Removable
    <2> QED BY <2>1, <2>2 DEF OwnerOK
  <1>15. ReplaceOK'
    BY DEF ReplaceOK, ReplacesEnded
  <1>16. ConnectedOK'
    BY DEF ConnectedOK, StaysConnected
  <1>17. NoSessionLeaks'
    <2>1. \A h \in Gen : Answerable(h) => Answerable(h)' \/ sess'[h] \notin {"open", "ended"}
      BY DEF Answerable
    <2>2. \A h \in Gen : Awaited(h) => Awaited(h)' \/ Answerable(h)' \/ sess'[h] \notin {"open", "ended"}
      BY DEF Awaited, Answerable
    <2> QED BY <2>1, <2>2 DEF NoSessionLeaks
  <1> QED BY <1>10, <1>11, <1>12, <1>13, <1>14, <1>15, <1>16, <1>17


\* The placeholder of the attempt becomes its live session, or is not there any more.
LEMMA PromoteKeeps ==
    ASSUME RegInv, NEW c \in Conn, NEW bundle \in BOOLEAN, Promote(c, bundle)
    PROVE  RegInv' /\ BookSafe
  <1>1. BookTypeOK' /\ BookOK' /\ BookSafe /\ owner' = owner
    BY BookSame DEF RegInv, RegTypeOK, Promote
  <1>2. Shapes
    BY RegShapes
  <1>3. /\ conn' \in [Conn -> ConnType] /\ conn[c].pc = "recorded"
        /\ \A d \in Conn :
              /\ conn'[d].gen = conn[d].gen /\ conn'[d].name = conn[d].name
              /\ conn'[d].on = conn[d].on /\ (d # c => conn'[d].pc = conn[d].pc)
        /\ conn'[c].pc \in {"opened", "unpromoted"}
    <2>1. conn \in [Conn -> ConnType] /\ {"opened", "unpromoted"} \subseteq ConnPc
      BY DEF RegInv, RegTypeOK, ConnType, ConnPc
    <2> QED BY <2>1, GotoMoves DEF Moves, Promote
  <1>4. conn[c].gen \in Gen /\ conn[c].name \in Name /\ HoldsAlone(c)
    BY <1>2, <1>3 DEF Shapes, RegInv, EarlyOK, Early, Numbered
  <1>5. /\ entries' \in [Name -> Entry] /\ hook' \in [Gen -> BOOLEAN] /\ mark' \in [Gen -> BOOLEAN]
        /\ \A m \in Name : m # conn[c].name => entries'[m] = entries[m]
        /\ \A h \in Gen : h # conn[c].gen => hook'[h] = hook[h]
    <2>1. /\ entries \in [Name -> Entry] /\ Live(conn[c].gen) \in Entry
          /\ hook \in [Gen -> BOOLEAN] /\ mark \in [Gen -> BOOLEAN]
      BY <1>4 DEF RegInv, RegTypeOK, Entry, Live
    <2> QED BY <1>4, <2>1 DEF Promote
  <1>6. \/ /\ entries[conn[c].name] = Connecting(conn[c].gen) /\ entries'[conn[c].name] = Live(conn[c].gen)
           /\ conn'[c].pc = "opened"
        \/ /\ entries'[conn[c].name] = entries[conn[c].name] /\ conn'[c].pc = "unpromoted"
           /\ hook' = hook /\ entries[conn[c].name] # Connecting(conn[c].gen)
    BY <1>3, <1>4 DEF Promote, Goto, RegInv, RegTypeOK
  <1>7. RegTypeOK'
    BY <1>1, <1>3, <1>5 DEF RegInv, RegTypeOK, ConnType, Promote
  <1>8. UNCHANGED <<nextGen, nameOf, sess, result, closer>>
    BY DEF Promote
  <1>9. conn'[c].pc = "opened" =>
            /\ entries[conn[c].name].gen = conn[c].gen /\ entries[conn[c].name].kind = "connecting"
            /\ entries'[conn[c].name].gen = conn[c].gen /\ entries'[conn[c].name].kind = "live"
            /\ \A h \in Gen : entries'[conn[c].name] = Live(h) <=> h = conn[c].gen
            /\ \A h \in Gen : entries'[conn[c].name] # Connecting(h)
    BY <1>4, <1>6 DEF Live, Connecting
  <1>10. /\ conn[c].gen < nextGen
         /\ \A d \in Conn : conn[d].gen = conn[c].gen => d = c
         /\ \A d \in Conn : conn[d].pc = "replacing" => conn[d].on # conn[c].gen
    BY <1>2, <1>3, <1>4 DEF RegInv, Shapes, Early, Numbers, ConnNumbers, ReplaceOK, ReplacesEnded
  <1> USE <1>1, <1>2, <1>3, <1>4, <1>5, <1>6, <1>7, <1>8, <1>9, <1>10 DEF RegInv, Shapes, Early, Promoted, Numbered, Asking
  <1>11. Numbers'
    <2>1. \A m \in Name : NameNumbers(m)'
      BY DEF Numbers, NameNumbers
    <2>2. \A d \in Conn : ConnNumbers(d)'
      BY DEF Numbers, ConnNumbers
    <2>3. \A h \in Gen : GenNumbers(h)'
      BY DEF Numbers, GenNumbers
    <2> QED BY <2>1, <2>2, <2>3 DEF Numbers
  <1>12. EarlyOK'
    <2>1. \A d \in Conn : d # c /\ conn[d].pc \in Early => HoldsAlone(d)'
      BY DEF EarlyOK, HoldsAlone, Numbers, ConnNumbers
    <2>2. conn'[c].pc \in Early => HoldsAlone(c)'
      BY DEF EarlyOK, HoldsAlone, Numbers, ConnNumbers
    <2> QED BY <2>1, <2>2 DEF EarlyOK
  <1>13. LiveOK'
    <2>1. ASSUME NEW m \in Name, m # conn[c].name \/ conn'[c].pc = "unpromoted", entries'[m].kind = "live"
          PROVE  RunsOwned(m)'
      BY <2>1 DEF LiveOK, RunsOwned
    <2>2. ASSUME conn'[c].pc = "opened" PROVE RunsOwned(conn[c].name)'
      BY <2>2 DEF RunsOwned, HoldsAlone
    <2> QED BY <2>1, <2>2 DEF LiveOK
  <1>14. CloserOK'
    BY DEF CloserOK
  <1>15. OwnerOK'
    <2> SUFFICES ASSUME NEW m \in Name, owner[m] # 0 PROVE Removable(m, owner[m])'
      BY DEF OwnerOK
    <2>1. owner[m] \in Gen /\ Removable(m, owner[m])
      BY DEF OwnerOK
    <2>2. CASE owner[m] = conn[c].gen
      <3>1. m = conn[c].name
        BY <2>2 DEF Numbers, NameNumbers, ConnNumbers
      <3> QED BY <2>1, <2>2, <3>1 DEF Removable
    <2>3. CASE owner[m] # conn[c].gen
      BY <2>1, <2>3 DEF Removable
    <2> QED BY <2>2, <2>3
  <1>16. ReplaceOK'
    BY DEF ReplaceOK, ReplacesEnded
  <1>17. ConnectedOK'
    BY DEF ConnectedOK, StaysConnected
  <1>18. NoSessionLeaks'
    <2>1. \A h \in Gen : Answerable(h) => Answerable(h)' \/ sess'[h] \notin {"open", "ended"}
      BY DEF Answerable
    <2>2. \A h \in Gen : Awaited(h) => Awaited(h)' \/ Answerable(h)' \/ sess'[h] \notin {"open", "ended"}
      BY DEF Awaited, Answerable
    <2> QED BY <2>1, <2>2 DEF NoSessionLeaks
  <1> QED BY <1>11, <1>12, <1>13, <1>14, <1>15, <1>16, <1>17, <1>18


\* A session that was not promoted: its record goes, and it is closed.
LEMMA DiscardKeeps ==
    ASSUME RegInv, NEW c \in Conn, Discard(c)
    PROVE  RegInv' /\ BookSafe
  <1>1. Shapes
    BY RegShapes
  <1>2. /\ conn' \in [Conn -> ConnType] /\ conn[c].pc = "unpromoted"
        /\ \A d \in Conn :
              /\ conn'[d].gen = conn[d].gen /\ conn'[d].name = conn[d].name
              /\ conn'[d].on = conn[d].on /\ (d # c => conn'[d].pc = conn[d].pc)
        /\ conn'[c].pc \in {"discarding"}
    <2>1. conn \in [Conn -> ConnType] /\ "discarding" \in ConnPc
      BY DEF RegInv, RegTypeOK, ConnType, ConnPc
    <2> QED BY <2>1, GotoMoves DEF Moves, Discard
  <1>3. conn[c].gen \in Gen /\ conn[c].name \in Name /\ HoldsAlone(c)
    BY <1>1, <1>2 DEF Shapes, RegInv, EarlyOK, Early, Numbered
  <1>4. /\ BookTypeOK' /\ BookOK' /\ BookSafe
        /\ owner' = [owner EXCEPT ![conn[c].name] = IF owner[conn[c].name] = conn[c].gen
                                                    THEN 0 ELSE owner[conn[c].name]]
    BY <1>3, BookClosed DEF Discard, RegInv, RegTypeOK, BookSafe
  <1>5. /\ \A m \in Name : m # conn[c].name => owner'[m] = owner[m]
        /\ owner'[conn[c].name] \in {owner[conn[c].name], 0} /\ owner'[conn[c].name] # conn[c].gen
        /\ owner[conn[c].name] # conn[c].gen => owner'[conn[c].name] = owner[conn[c].name]
    BY <1>1, <1>3, <1>4 DEF RegInv, RegTypeOK, BookTypeOK, Shapes
  <1>6. \A m \in Name : owner'[m] # conn[c].gen
    BY <1>1, <1>3, <1>5 DEF RegInv, Shapes, Numbers, NameNumbers, ConnNumbers
  <1>7. \A h \in Gen : sess'[h] = IF h = conn[c].gen THEN "closing" ELSE sess[h]
    BY <1>3 DEF Discard, RegInv, RegTypeOK
  <1>8. \A m \in Name : entries[m] # Live(conn[c].gen)
    BY <1>1, <1>3 DEF HoldsAlone, RegInv, Shapes, Numbers, NameNumbers, ConnNumbers
  <1>9. closer[conn[c].gen].at = "none" /\ ~hook[conn[c].gen]
    BY <1>3 DEF HoldsAlone
  <1>10. RegTypeOK'
    BY <1>2, <1>3, <1>4 DEF RegInv, RegTypeOK, ConnType, Discard
  <1>11. UNCHANGED <<entries, nextGen, nameOf, result, hook, closer>>
    BY DEF Discard
  <1>12. /\ conn[c].gen < nextGen
         /\ \A d \in Conn : conn[d].gen = conn[c].gen => d = c
         /\ \A d \in Conn : conn[d].pc = "replacing" => conn[d].on # conn[c].gen
    BY <1>1, <1>2, <1>3 DEF RegInv, Shapes, Early, Numbers, ConnNumbers, ReplaceOK, ReplacesEnded
  <1> USE <1>1, <1>2, <1>3, <1>4, <1>5, <1>6, <1>7, <1>8, <1>9, <1>10, <1>11, <1>12 DEF RegInv, Shapes, Early, Promoted, Numbered, Asking
  <1>13. Numbers'
    <2>1. \A m \in Name : NameNumbers(m)'
      BY DEF Numbers, NameNumbers
    <2>2. \A d \in Conn : ConnNumbers(d)'
      BY DEF Numbers, ConnNumbers
    <2>3. \A h \in Gen : GenNumbers(h)'
      BY DEF Numbers, GenNumbers
    <2> QED BY <2>1, <2>2, <2>3 DEF Numbers
  <1>14. EarlyOK'
    <2>1. \A d \in Conn : d # c /\ conn[d].pc \in Early => HoldsAlone(d)'
      BY DEF EarlyOK, HoldsAlone, Numbers, ConnNumbers
    <2>2. conn'[c].pc \in Early => HoldsAlone(c)'
      BY DEF EarlyOK, HoldsAlone, Numbers, ConnNumbers
    <2> QED BY <2>1, <2>2 DEF EarlyOK
  <1>15. LiveOK'
    BY DEF LiveOK, RunsOwned
  <1>16. CloserOK'
    BY DEF CloserOK
  <1>17. OwnerOK'
    <2>1. \A m \in Name, h \in Gen : Removable(m, h) => Removable(m, h)' \/ owner'[m] # h
      BY DEF Removable
    <2> QED BY <2>1 DEF OwnerOK
  <1>18. ReplaceOK'
    BY DEF ReplaceOK, ReplacesEnded
  <1>19. ConnectedOK'
    BY DEF ConnectedOK, StaysConnected
  <1>20. NoSessionLeaks'
    <2>1. \A h \in Gen : Answerable(h) => Answerable(h)' \/ sess'[h] \notin {"open", "ended"}
      BY DEF Answerable
    <2>2. \A h \in Gen : Awaited(h) => Awaited(h)' \/ Answerable(h)' \/ sess'[h] \notin {"open", "ended"}
      BY DEF Awaited, Answerable
    <2> QED BY <2>1, <2>2 DEF NoSessionLeaks
  <1> QED BY <1>13, <1>14, <1>15, <1>16, <1>17, <1>18, <1>19, <1>20

-----------------------------------------------------------------------------
(* The daemon around its registry *)

\* Every step of the registry keeps its invariant.
LEMMA RegistryKeeps ==
    ASSUME RegInv, RegistryNext
    PROVE  RegInv' /\ BookSafe
  <1>1. ASSUME NEW c \in Conn, OpenNext(c) PROVE RegInv' /\ BookSafe
    <2>1. ASSUME NEW n \in Name, ReleaseName(c, n) \/ ClaimWithAutoId(c, n)
          PROVE  RegInv' /\ BookSafe
      BY <2>1, ReleaseNameKeeps, ClaimKeeps
    <2>2. CASE Claim(c)
      <3>1. conn[c].name \in Name
        BY <2>2 DEF Claim, RegInv, Numbers, ConnNumbers, Asking
      <3> QED BY <2>2, <3>1, ClaimKeeps
    <2>3. CASE ReleasedOrphan(c) \/ ReleasedEnded(c) \/ Discarded(c)
      BY <2>3, AnswerSteps
    <2>4. CASE ReplaceDropped(c)
      BY <2>4, ReplaceDroppedKeeps
    <2>5. CASE Delivered(c) \/ ConnectDropped(c)
      BY <2>5, DeliveredKeeps, ConnectDroppedKeeps
    <2>6. CASE RecordSession(c) \/ Discard(c)
      BY <2>6, RecordSessionKeeps, DiscardKeeps
    <2>7. ASSUME NEW bundle \in BOOLEAN, Promote(c, bundle) PROVE RegInv' /\ BookSafe
      BY <2>7, PromoteKeeps
    <2> QED BY <1>1, <2>1, <2>2, <2>3, <2>4, <2>5, <2>6, <2>7 DEF OpenNext
  <1>2. ASSUME NEW c \in Conn, AnswerNext(c) PROVE RegInv' /\ BookSafe
    BY <1>2, AnswerSteps, CloseIfGenerationKeeps DEF AnswerNext
  <1>3. ASSUME NEW g \in Gen, GenNext(g) PROVE RegInv' /\ BookSafe
    BY <1>3, ConnectReadyKeeps, ConnectFailsKeeps, ConnectCancelledKeeps, CloseBeginKeeps,
       ClosePollKeeps, CloseEndKeeps, JoinKeeps, ServerEndsKeeps, EndHookKeeps DEF GenNext
  <1>4. ASSUME NEW n \in Name, Disconnect(n) \/ \E by \in {"client", "reaper"} : UnbookOrphan(n, by)
        PROVE  RegInv' /\ BookSafe
    BY <1>4, DisconnectKeeps, UnbookOrphanKeeps
  <1> QED BY <1>1, <1>2, <1>3, <1>4 DEF RegistryNext

\* Before a process serves, its registry is untouched, and the file holds what
\* its predecessor left; while it serves, the file holds owned records only.
PhaseInv ==
    /\ ~Running => nextGen = 1
    /\ Running => Tidy
    /\ phase = "seeded" /\ disk.ok => \A n \in disk.names : entries[n] = Orphaned
    /\ ~Running /\ disk.ok => was \subseteq disk.names

IInv == TypeOK /\ RegInv /\ PhaseInv

\* A process that has just started, or the memory that is left of one that died.
Fresh ==
    /\ BookTypeOK /\ owner = NoOwner /\ pending = {} /\ MemoryInit
    /\ conn \in [Conn -> ConnType]
    /\ \A c \in Conn : conn[c].pc \in {"idle", "gone"} /\ conn[c].gen = 0 /\ conn[c].on = 0

\* The memory of a fresh process satisfies the invariant of the registry.
LEMMA FreshRegistry == Fresh => RegInv
  <1> SUFFICES ASSUME Fresh PROVE RegInv
    OBVIOUS
  <1>1. /\ MaxGen \in Nat /\ 0 \in 0..MaxGen /\ \A g \in Gen : g \in Nat /\ g >= 1
    BY BookAssumption DEF Gen
  <1> USE <1>1 DEF Fresh
  <1>2. RegTypeOK
    BY DEF RegTypeOK, MemoryInit, ConnType, Entry, NoCloser
  <1>3. BookOK
    BY DEF BookOK, NoOwner
  <1>4. \A n \in Name : entries[n].gen = 0 /\ entries[n].kind = "vacant" /\ owner[n] = 0
    BY DEF MemoryInit, Vacant, NoOwner
  <1>5. \A g \in Gen : sess[g] = "none" /\ result[g] = "none" /\ ~hook[g] /\ closer[g].at = "none"
    BY DEF MemoryInit, NoCloser
  <1>6. nextGen = 1
    BY DEF MemoryInit
  <1>7. Numbers
    <2>1. ASSUME NEW n \in Name PROVE NameNumbers(n)
      <3>1. entries[n].gen = 0 /\ owner[n] = 0 /\ nextGen = 1
        BY <1>4, <1>6
      <3>2. entries[n].gen < nextGen /\ owner[n] < nextGen
        BY <3>1
      <3> QED BY <3>1, <3>2 DEF NameNumbers
    <2>2. \A c \in Conn : ConnNumbers(c)
      BY <1>6 DEF ConnNumbers, Numbered, Early, Promoted, Asking
    <2>3. \A g \in Gen : GenNumbers(g)
      BY <1>5, <1>6 DEF GenNumbers, MemoryInit
    <2> QED BY <2>1, <2>2, <2>3 DEF Numbers
  <1>8. EarlyOK /\ LiveOK /\ CloserOK /\ OwnerOK /\ ReplaceOK /\ ConnectedOK
    BY <1>4, <1>5 DEF EarlyOK, LiveOK, CloserOK, OwnerOK, ReplaceOK, ConnectedOK, Early, Promoted
  <1>9. NoSessionLeaks
    BY <1>5 DEF NoSessionLeaks
  <1> QED BY <1>2, <1>3, <1>7, <1>8, <1>9 DEF RegInv

\* Every life of the daemon begins with the invariant.
LEMMA InitInv == Init => IInv
  <1> SUFFICES ASSUME Init PROVE IInv
    OBVIOUS
  <1>1. MaxGen \in Nat /\ 0 \in 0..MaxGen
    BY BookAssumption
  <1>2. BookTypeOK
    BY <1>1 DEF Init, BookTypeOK, NoOwner, File
  <1>3. /\ conn \in [Conn -> ConnType]
        /\ \A c \in Conn : conn[c].pc \in {"idle", "gone"} /\ conn[c].gen = 0 /\ conn[c].on = 0
    BY <1>1 DEF Init, NoConn, ConnType, ConnPc
  <1>4. RegInv
    BY <1>2, <1>3, FreshRegistry DEF Init, Fresh
  <1>5. TypeOK
    BY <1>1, <1>4 DEF Init, TypeOK, RegInv, NothingStale
  <1>6. PhaseInv
    BY DEF Init, MemoryInit, PhaseInv, Running
  <1> QED BY <1>4, <1>5, <1>6 DEF IInv

\* A process that ends: only the file and the requests that were made stay.
LEMMA GoneKeeps ==
    ASSUME IInv, ProcessGone
    PROVE  /\ RegInv' /\ phase' = "down" /\ stale' \in [Name -> 0..MaxGen]
           /\ nextGen' = 1 /\ disk' = disk /\ \A n \in Name : owner'[n] = 0
  <1>1. MaxGen \in Nat /\ 0 \in 0..MaxGen
    BY BookAssumption
  <1>2. BookTypeOK' /\ owner' = NoOwner /\ pending' = {} /\ disk' = disk
    BY <1>1 DEF ProcessGone, BookRestart, BookTypeOK, NoOwner, IInv, RegInv, RegTypeOK
  <1>3. MemoryInit'
    BY DEF ProcessGone, MemoryInit
  <1>4. conn \in [Conn -> ConnType] /\ NoConn \in ConnType /\ [NoConn EXCEPT !.pc = "gone"] \in ConnType
    BY <1>1 DEF IInv, RegInv, RegTypeOK, ConnType, NoConn, ConnPc, Settled
  <1>5. \A c \in Conn : conn[c].pc = "idle" => conn[c].gen = 0 /\ conn[c].on = 0
    BY DEF IInv, RegInv, Numbers, ConnNumbers
  <1>6. /\ conn' \in [Conn -> ConnType]
        /\ \A c \in Conn : conn'[c].pc \in {"idle", "gone"} /\ conn'[c].gen = 0 /\ conn'[c].on = 0
    <2>1. conn' \in [Conn -> ConnType]
      BY <1>4 DEF ProcessGone
    <2>2. ASSUME NEW c \in Conn
          PROVE  conn'[c].pc \in {"idle", "gone"} /\ conn'[c].gen = 0 /\ conn'[c].on = 0
      <3>1. CASE conn[c].pc = "idle"
        BY <1>5, <3>1 DEF ProcessGone
      <3>2. CASE conn[c].pc # "idle"
        BY <3>2 DEF ProcessGone, NoConn
      <3> QED BY <3>1, <3>2
    <2> QED BY <2>1, <2>2
  <1>7. RegInv'
    <2>1. Fresh'
      BY <1>2, <1>3, <1>6 DEF Fresh
    <2>2. (Fresh => RegInv)'
      BY FreshRegistry, PTL
    <2> QED BY <2>1, <2>2
  <1>8. \A n \in Name : owner'[n] = 0
    BY <1>2 DEF NoOwner
  <1> QED BY <1>1, <1>2, <1>3, <1>7, <1>8 DEF ProcessGone, MemoryInit, NothingStale

\* Steps that leave the registry and the book alone.
LEMMA RegUnchanged ==
    ASSUME RegInv, UNCHANGED vars
    PROVE  RegInv' /\ BookSafe
  <1>1. BookSafe
    BY BookIdle DEF vars
  <1>2. RegTypeOK' /\ BookOK'
    BY DEF vars, regVars, bookVars, RegInv, RegTypeOK, BookTypeOK, BookOK
  <1>3. Numbers'
    BY DEF vars, regVars, bookVars, RegInv, Numbers, NameNumbers, ConnNumbers, GenNumbers
  <1>4. EarlyOK' /\ LiveOK' /\ CloserOK'
    BY DEF vars, regVars, bookVars, RegInv, EarlyOK, HoldsAlone, LiveOK, RunsOwned, CloserOK
  <1>5. OwnerOK' /\ ReplaceOK' /\ ConnectedOK'
    BY DEF vars, regVars, bookVars, RegInv, OwnerOK, Removable, ReplaceOK, ReplacesEnded,
           ConnectedOK, StaysConnected
  <1>6. NoSessionLeaks'
    BY DEF vars, regVars, bookVars, RegInv, NoSessionLeaks, Answerable, Awaited
  <1> QED BY <1>1, <1>2, <1>3, <1>4, <1>5, <1>6 DEF RegInv

\* The entries, as the next process finds them in the file.
LEMMA SeedKeeps ==
    ASSUME IInv, Seed
    PROVE  IInv' /\ (\A n \in Name : owner[n] = 0)
  <1>1. nextGen = 1 /\ phase = "down"
    BY DEF Seed, IInv, PhaseInv, Running
  <1>2. /\ \A n \in Name : owner[n] = 0
        /\ \A c \in Conn : conn[c].gen = 0 /\ conn[c].on = 0 /\ conn[c].pc \notin Numbered \cup {"replacing"}
        /\ \A g \in Gen : closer[g].at = "none" /\ sess[g] = "none"
    <2>1. /\ BookTypeOK /\ conn \in [Conn -> ConnType]
          /\ MaxGen \in Nat /\ \A g \in Gen : g \in Nat /\ g >= 1
      BY BookAssumption DEF IInv, RegInv, RegTypeOK, ConnType, Gen
    <2>2. ASSUME NEW n \in Name PROVE owner[n] = 0
      <3>1. owner[n] \in Nat
        BY <2>1 DEF BookTypeOK
      <3>2. owner[n] < 1
        BY <1>1 DEF IInv, RegInv, Numbers, NameNumbers
      <3> QED BY <3>1, <3>2
    <2>3. \A c \in Conn : conn[c].gen = 0 /\ conn[c].on = 0
      BY <1>1, <2>1 DEF IInv, RegInv, Numbers, ConnNumbers, ConnType
    <2>4. \A c \in Conn : conn[c].pc \notin Numbered \cup {"replacing"}
      BY <2>3 DEF IInv, RegInv, Numbers, ConnNumbers, ReplaceOK, ReplacesEnded
    <2>5. \A g \in Gen : closer[g].at = "none" /\ sess[g] = "none"
      BY <1>1, <2>1 DEF IInv, RegInv, Numbers, GenNumbers
    <2> QED BY <2>2, <2>3, <2>4, <2>5
  <1>3. PICK found \in Loaded(disk) :
            /\ entries' = [n \in Name |-> IF n \in found.names THEN Orphaned ELSE Vacant]
            /\ disk' = [disk EXCEPT !.ok = found.ok]
    BY DEF Seed
  <1>4. /\ disk \in File /\ disk' \in File /\ disk'.names = disk.names
        /\ disk'.ok => disk.ok /\ found = disk
    <2>1. disk \in File
      BY DEF IInv, RegInv, RegTypeOK, BookTypeOK
    <2>2. found \in File /\ (found.ok => found = disk)
      BY <1>3, <2>1, LoadedFile
    <2> QED BY <1>3, <2>1, <2>2 DEF File
  <1>5. UNCHANGED <<owner, pending, nextGen, nameOf, sess, cancel, result, hook, mark, closer,
                    unbook, conn, stale, was>>
    BY DEF Seed
  <1>6. BookTypeOK' /\ BookOK'
    BY <1>2, <1>4, <1>5 DEF IInv, RegInv, RegTypeOK, BookTypeOK, BookOK
  <1>7. /\ entries' \in [Name -> Entry]
        /\ \A n \in Name : /\ entries'[n].gen = 0 /\ entries'[n].kind \notin {"live", "connecting"}
                           /\ \A g \in Gen : entries'[n] # Live(g)
    BY <1>3 DEF Entry, Orphaned, Vacant, Live
  <1>8. RegTypeOK'
    BY <1>5, <1>6, <1>7 DEF IInv, RegInv, RegTypeOK
  <1>9. Numbers'
    <2>1. ASSUME NEW n \in Name PROVE NameNumbers(n)'
      <3>1. entries'[n].gen = 0 /\ owner'[n] = 0 /\ nextGen' = 1
        BY <1>1, <1>2, <1>5, <1>7
      <3>2. entries'[n].gen < nextGen' /\ owner'[n] < nextGen'
        BY <3>1
      <3> QED BY <3>1, <3>2 DEF NameNumbers
    <2>2. (\A c \in Conn : ConnNumbers(c)') /\ \A g \in Gen : GenNumbers(g)'
      BY <1>5 DEF IInv, RegInv, Numbers, ConnNumbers, GenNumbers
    <2> QED BY <2>1, <2>2 DEF Numbers
  <1>10. EarlyOK' /\ LiveOK' /\ CloserOK' /\ OwnerOK' /\ ReplaceOK' /\ ConnectedOK' /\ NoSessionLeaks'
    BY <1>2, <1>5, <1>7 DEF EarlyOK, LiveOK, CloserOK, OwnerOK, ReplaceOK, ConnectedOK,
       NoSessionLeaks, Numbered, Early, Promoted
  <1>11. RegInv'
    BY <1>6, <1>8, <1>9, <1>10 DEF RegInv
  <1>12. phase' = "seeded" /\ TypeOK'
    BY <1>5, <1>8 DEF IInv, TypeOK, Seed
  <1>13. PhaseInv'
    <2>1. disk'.ok => \A n \in disk'.names : entries'[n] = Orphaned
      BY <1>3, <1>4 DEF File
    <2>2. disk'.ok => was' \subseteq disk'.names
      BY <1>1, <1>4, <1>5 DEF IInv, PhaseInv, Running
    <2> QED BY <1>1, <1>5, <1>12, <2>1, <2>2 DEF PhaseInv, Running
  <1> QED BY <1>2, <1>11, <1>12, <1>13 DEF IInv

\* The records of the predecessor are removed in one write, and clients are
\* served: from here on the file holds owned records only.
LEMMA PurgeKeeps ==
    ASSUME IInv, Purge
    PROVE  IInv' /\ ("read" \notin DiskFaults => KeepsOwned)
  <1> DEFINE left == {n \in {m \in Name : entries[m] = Orphaned} : owner[n] = 0}
  <1>1. /\ FlushPending(disk, pending \cup left) /\ owner' = owner /\ phase = "seeded"
        /\ phase' = "up" /\ was' = {} /\ UNCHANGED <<regVars, stale>>
    BY DEF Purge, PurgeSeeded
  <1>2. BookTypeOK /\ BookOK /\ left \in SUBSET Name /\ \A n \in left : owner[n] = 0
    BY DEF IInv, RegInv, RegTypeOK
  <1>3. /\ BookTypeOK' /\ BookOK'
        /\ disk'.ok => disk.ok /\ disk'.names = disk.names \ left
        /\ "read" \notin DiskFaults => KeepsOwned
    BY <1>1, <1>2, BookFlushed
  <1>4. RegTypeOK' /\ TypeOK'
    BY <1>1, <1>3 DEF regVars, IInv, RegInv, RegTypeOK, TypeOK
  <1>5. Numbers'
    BY <1>1 DEF regVars, IInv, RegInv, Numbers, NameNumbers, ConnNumbers, GenNumbers
  <1>6. EarlyOK' /\ LiveOK' /\ CloserOK'
    BY <1>1 DEF regVars, IInv, RegInv, EarlyOK, HoldsAlone, LiveOK, RunsOwned, CloserOK
  <1>7. OwnerOK' /\ ReplaceOK' /\ ConnectedOK'
    BY <1>1 DEF regVars, IInv, RegInv, OwnerOK, Removable, ReplaceOK, ReplacesEnded,
           ConnectedOK, StaysConnected
  <1>8. NoSessionLeaks'
    BY <1>1 DEF regVars, IInv, RegInv, NoSessionLeaks, Answerable, Awaited
  <1>9. RegInv'
    BY <1>3, <1>4, <1>5, <1>6, <1>7, <1>8 DEF RegInv
  <1>10. Tidy'
    <2> SUFFICES ASSUME disk'.ok, NEW n \in disk'.names PROVE owner'[n] # 0
      BY DEF Tidy
    <2>1. disk.ok /\ n \in disk.names /\ n \notin left /\ n \in Name
      BY <1>2, <1>3 DEF BookTypeOK, File
    <2>2. entries[n] = Orphaned
      BY <1>1, <2>1 DEF IInv, PhaseInv
    <2> QED BY <1>1, <2>1, <2>2
  <1> QED BY <1>1, <1>3, <1>4, <1>9, <1>10 DEF IInv, PhaseInv, Running

\* The process goes on: what a step did to the registry and the book is all.
LEMMA StillRunning ==
    ASSUME IInv, RegInv', BookSafe, Running, phase' \in {"up", "grace", "fired", "draining"},
           stale' \in [Name -> 0..MaxGen], was' = was
    PROVE  IInv' /\ ("read" \notin DiskFaults => KeepsOwned)
  <1>1. Tidy'
    BY DEF IInv, PhaseInv, BookSafe
  <1>2. PhaseInv'
    BY <1>1 DEF PhaseInv, Running
  <1>3. TypeOK'
    BY DEF IInv, TypeOK, RegInv
  <1> QED BY <1>2, <1>3 DEF IInv, BookSafe

\* The process ends: what was live and recorded is remembered in the file.
LEMMA StopKeeps ==
    ASSUME IInv, Exit \/ Crash
    PROVE  IInv' /\ (\A n \in Name : owner'[n] = 0)
  <1>1. ProcessGone
    BY DEF Exit, Crash
  <1>2. /\ RegInv' /\ phase' = "down" /\ stale' \in [Name -> 0..MaxGen]
        /\ nextGen' = 1 /\ disk' = disk /\ \A n \in Name : owner'[n] = 0
    BY <1>1, GoneKeeps
  <1>3. ASSUME disk.ok PROVE LiveNames \subseteq disk.names
    <2> SUFFICES ASSUME NEW n \in LiveNames PROVE n \in disk.names
      OBVIOUS
    <2>1. n \in Name /\ entries[n].kind = "live" /\ sess[entries[n].gen] = "open"
      BY DEF LiveNames, LiveNow
    <2>2. owner[n] = entries[n].gen /\ entries[n].gen \in Gen
      BY <2>1, RegShapes DEF IInv, RegInv, LiveOK, RunsOwned, Shapes
    <2>3. owner[n] # 0
      BY <2>2, BookAssumption DEF Gen
    <2> QED BY <1>3, <2>1, <2>3 DEF IInv, RegInv, BookOK
  <1>4. was' \subseteq Name
    BY DEF Exit, Crash, LiveNames, IInv, TypeOK
  <1>5. disk'.ok => was' \subseteq disk'.names
    BY <1>2, <1>3 DEF Exit, Crash, IInv, PhaseInv, Running
  <1> QED BY <1>2, <1>4, <1>5 DEF IInv, TypeOK, RegInv, PhaseInv, Running

\* Every step keeps the invariant, and, unless a file cannot be read, every
\* record that stays owned.
LEMMA NextKeeps ==
    ASSUME IInv, [Next]_allVars
    PROVE  IInv' /\ ("read" \notin DiskFaults => KeepsOwned)
  <1>0. /\ RegInv /\ stale \in [Name -> 0..MaxGen]
        /\ Running => phase \in {"up", "grace", "fired", "draining"}
        /\ Ticking => Running
        /\ MaxGen \in Nat /\ 0 \in 0..MaxGen
    BY BookAssumption DEF IInv, TypeOK, Running, Ticking
  <1>1. CASE ServeNext
    BY <1>0, <1>1, RegistryKeeps, StillRunning DEF ServeNext, daemonVars
  <1>2. ASSUME NEW due \in SUBSET Name, ReapRetained(due)
        PROVE  IInv' /\ ("read" \notin DiskFaults => KeepsOwned)
    BY <1>0, <1>2, ExpireKeeps, StillRunning DEF ReapRetained, daemonVars
  <1>3. ASSUME NEW due \in SUBSET Name, ReapScan(due)
        PROVE  IInv' /\ ("read" \notin DiskFaults => KeepsOwned)
    <2>1. \A n \in Name : entries[n].gen \in 0..MaxGen
      BY <1>0, EntryShape DEF RegInv, RegTypeOK
    <2>2. stale' \in [Name -> 0..MaxGen]
      BY <1>0, <1>3, <2>1 DEF ReapScan
    <2> QED BY <1>0, <1>3, <2>2, RegUnchanged, StillRunning DEF ReapScan
  <1>4. ASSUME NEW n \in Name, ReapClose(n)
        PROVE  IInv' /\ ("read" \notin DiskFaults => KeepsOwned)
    <2>1. stale' \in [Name -> 0..MaxGen] /\ phase' = phase /\ was' = was /\ Running
      BY <1>0, <1>4 DEF ReapClose
    <2>2. RegInv' /\ BookSafe
      <3>1. CASE CloseWith(n, "reaper")
        BY <1>0, <1>4, <3>1, CloseWithKeeps DEF ReapClose
      <3>2. CASE UNCHANGED <<entries, closer, cancel, unbook>>
        BY <1>0, <1>4, <3>2, RegUnchanged DEF ReapClose, vars, regVars
      <3> QED BY <1>4, <3>1, <3>2 DEF ReapClose
    <2> QED BY <1>0, <2>1, <2>2, StillRunning
  <1>5. CASE Seed
    BY <1>5, SeedKeeps DEF KeepsOwned
  <1>6. CASE Purge
    BY <1>6, PurgeKeeps
  <1>7. CASE WatchEmpty \/ WatchAgain
    <2>1. phase' \in {"up", "grace", "fired", "draining"} /\ UNCHANGED <<vars, stale, was>> /\ Running
      BY <1>7 DEF WatchEmpty, WatchAgain, Running
    <2> QED BY <1>0, <2>1, RegUnchanged, StillRunning
  <1>8. CASE ExitSweep
    <2>1. Running /\ phase' = "draining" /\ UNCHANGED <<stale, was>>
      BY <1>8 DEF ExitSweep, Running
    <2>2. RegInv' /\ BookSafe
      BY <1>0, <1>8, ExpireKeeps, RegUnchanged DEF ExitSweep
    <2> QED BY <1>0, <2>1, <2>2, StillRunning
  <1>9. CASE Exit \/ Crash
    BY <1>9, StopKeeps DEF KeepsOwned
  <1>10. CASE UNCHANGED allVars
    <2>1. RegInv' /\ BookSafe
      BY <1>0, <1>10, RegUnchanged DEF allVars
    <2>2. TypeOK' /\ PhaseInv'
      BY <1>10, <2>1 DEF allVars, vars, regVars, bookVars, daemonVars, IInv, TypeOK, RegInv, PhaseInv,
         Running, Tidy
    <2> QED BY <2>1, <2>2 DEF IInv, BookSafe
  <1> QED BY <1>1, <1>2, <1>3, <1>4, <1>5, <1>6, <1>7, <1>8, <1>9, <1>10 DEF Next, ReaperNext, LifeNext

-----------------------------------------------------------------------------
(* Theorems *)

\* The invariant holds in every life of the daemon.
LEMMA Invariance == Spec => []IInv
  <1>1. IInv /\ [Next]_allVars => IInv'
    BY NextKeeps
  <1> QED BY <1>1, InitInv, PTL DEF Spec

\* Every variable of the registry, the book and the life cycle has its type.
THEOREM TypeCorrect == Spec => []TypeOK
  <1>1. IInv => TypeOK
    BY DEF IInv
  <1> QED BY <1>1, Invariance, PTL

\* A session that runs always has somebody who registers or closes it: the end
\* hook, the reaper, a client, a Connect or a task may stop at any point
\* (ConnectGuard, close_removed, watch_session_end).
THEOREM SessionsAreHeld == Spec => []NoSessionLeaks
  <1>1. IInv => NoSessionLeaks
    BY DEF IInv, RegInv
  <1> QED BY <1>1, Invariance, PTL

\* A session whose client was told Connected is never taken away by another
\* Connect (cancel_connecting, close_if_generation, promotion).
THEOREM ConnectedIsKept == Spec => []ConnectedStays
  <1>1. IInv => ConnectedStays
    BY DEF IInv, RegInv, ConnectedOK, StaysConnected, ConnectedStays, Promoted
  <1> QED BY <1>1, Invariance, PTL

\* A live session has its record, no record outlives its session, and what a
\* crash left live is shown by the next process (RecordBook, open_tracked,
\* close_removed, seed_into).
THEOREM RecordsAreTrue == Spec => []RecordsMatch
  <1>1. IInv => RecordsMatch
    <2> SUFFICES ASSUME IInv PROVE RecordsMatch
      OBVIOUS
    <2>1. ASSUME NEW n \in LiveNames PROVE owner[n] = entries[n].gen /\ (disk.ok => n \in disk.names)
      <3>1. n \in Name /\ entries[n].kind = "live" /\ sess[entries[n].gen] = "open"
        BY DEF LiveNames, LiveNow
      <3>2. owner[n] = entries[n].gen /\ entries[n].gen \in Gen
        BY <3>1, RegShapes DEF IInv, RegInv, LiveOK, RunsOwned, Shapes
      <3>3. owner[n] # 0
        BY <3>2, BookAssumption DEF Gen
      <3> QED BY <3>1, <3>2, <3>3 DEF IInv, RegInv, BookOK
    <2>2. \A n \in Name : owner[n] # 0 => Answerable(owner[n])
      BY DEF IInv, RegInv, OwnerOK, Removable, Answerable
    <2>3. Running /\ disk.ok => \A n \in disk.names : owner[n] # 0
      BY DEF IInv, PhaseInv, Tidy
    <2>4. CrashedIsShown
      BY DEF CrashedIsShown, IInv, PhaseInv, Running
    <2> QED BY <2>1, <2>2, <2>3, <2>4 DEF RecordsMatch
  <1> QED BY <1>1, Invariance, PTL

\* As long as the file can be read, a record that stays owned stays in the file,
\* whichever writes fail (RecordBook, flush_pending).  load_records takes a file
\* it cannot read for an empty one, and the next write then drops every record.
THEOREM OwnedRecordIsKept ==
    ASSUME "read" \notin DiskFaults
    PROVE  Spec => OwnedRecordStays
  <1>1. IInv /\ [Next]_allVars => KeepsOwned
    BY NextKeeps
  <1>2. IInv /\ [Next]_allVars =>
            [\A n \in Name : owner[n] # 0 /\ owner'[n] = owner[n] /\ n \in disk.names => n \in disk'.names]_allVars
    BY <1>1 DEF KeepsOwned
  <1> QED BY <1>2, Invariance, PTL DEF Spec, OwnedRecordStays

=============================================================================
