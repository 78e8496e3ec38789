----------------------------- MODULE RecordBook -----------------------------
(***************************************************************************)
(* The reconciliation records of crates/rdpilot-daemon/src/reconcile.rs:   *)
(* the file that tells a restarted daemon which sessions its predecessor   *)
(* left behind, and the RecordBook that decides which generation of a name *)
(* owns the record in it.                                                  *)
(*                                                                         *)
(* Every operation is one critical section of the book's mutex.  A sink    *)
(* call reads the whole file, edits it and replaces it by a rename: the    *)
(* file is the old or the new one, never a torn one.  With "write" in      *)
(* DiskFaults a rewrite may fail, with "read" the file may read as empty   *)
(* (load_records).  A record is its name; host and time are left out.      *)
(* `disk.ok' remembers that no fault has happened so far.                  *)
(***************************************************************************)
EXTENDS Naturals

CONSTANTS
    Name,       \* session ids
    MaxGen,     \* bound on the attempts of one daemon process
    DiskFaults  \* which faults the file system shows

ASSUME BookAssumption ==
    /\ MaxGen \in Nat
    /\ DiskFaults \subseteq {"read", "write"}

Gen == 1..MaxGen

VARIABLES
    owner,      \* BookState.open: the generation that owns each record, or 0
    pending,    \* BookState.pending
    disk        \* the names that have a record in the file

bookVars == <<owner, pending, disk>>

NoOwner == [n \in Name |-> 0]
File == [names : SUBSET Name, ok : BOOLEAN]

BookTypeOK ==
    /\ owner \in [Name -> 0..MaxGen]
    /\ pending \subseteq Name
    /\ disk \in File

-----------------------------------------------------------------------------
(* JsonReconciliationSink *)

Faulty(file) == [file EXCEPT !.ok = FALSE]

\* load_records: a file that cannot be read counts as empty.
Loaded(file) ==
    {file} \cup IF "read" \in DiskFaults THEN {[names |-> {}, ok |-> FALSE]} ELSE {}

\* save_records may fail and leave the file as it was; record_open and
\* record_closed only log that.
Rewritten(file, edited) ==
    edited \cup IF "write" \in DiskFaults THEN {Faulty(file)} ELSE {}

RecordOpen(file, n) ==
    Rewritten(file, {[l EXCEPT !.names = @ \cup {n}] : l \in Loaded(file)})

RecordClosed(file, n) ==
    Rewritten(file, {[l EXCEPT !.names = @ \ {n}] : l \in Loaded(file)})

-----------------------------------------------------------------------------
(* RecordBook *)

\* flush_pending on a file: removals that fail stay pending.
FlushPending(file, left) ==
    \/ /\ left = {}
       /\ disk' = file /\ pending' = {}
    \/ /\ left # {}
       /\ \/ /\ \E l \in Loaded(file) : disk' = [l EXCEPT !.names = @ \ left]
             /\ pending' = {}
          \/ /\ "write" \in DiskFaults
             /\ disk' = Faulty(file) /\ pending' = left

\* RecordBook::opened.
Opened(n, g) ==
    \/ /\ owner[n] >= g
       /\ UNCHANGED bookVars
    \/ /\ owner[n] < g
       /\ owner' = [owner EXCEPT ![n] = g]
       /\ \E file \in RecordOpen(disk, n) : FlushPending(file, pending \ {n})

\* Mutant: a close removes the record of its name, whoever owns it.
ClosedByName(n, g) ==
    /\ owner' = [owner EXCEPT ![n] = 0]
    /\ \E file \in RecordClosed(disk, n) : FlushPending(file, pending)

\* RecordBook::closed.
Closed(n, g) ==
    \/ /\ owner[n] # g
       /\ UNCHANGED bookVars
    \/ /\ owner[n] = g
       /\ owner' = [owner EXCEPT ![n] = 0]
       /\ \E file \in RecordClosed(disk, n) : FlushPending(file, pending)

\* Mutant: the record of an orphan is removed without asking who owns it.
ClosedOrphanAlways(n) ==
    /\ FlushPending(disk, pending \cup {n})
    /\ UNCHANGED owner

\* RecordBook::closed_orphan.
ClosedOrphan(n) ==
    \/ /\ owner[n] # 0
       /\ UNCHANGED bookVars
    \/ /\ owner[n] = 0
       /\ FlushPending(disk, pending \cup {n})
       /\ UNCHANGED owner

\* RecordBook::purge_seeded.
PurgeSeeded(names) ==
    /\ FlushPending(disk, pending \cup {n \in names : owner[n] = 0})
    /\ UNCHANGED owner

\* A new daemon process: the book is empty, the file stays.
BookRestart ==
    /\ owner' = NoOwner
    /\ pending' = {}
    /\ UNCHANGED disk
=============================================================================
