------------------------------ MODULE EventLog ------------------------------
(***************************************************************************)
(* The event log of one session (crates/rdpilot-daemon/src/events.rs) and  *)
(* the bounded queue that carries its events to the recorder thread        *)
(* (recording/log.rs).                                                     *)
(*                                                                         *)
(* The ring keeps the newest events under consecutive numbers.  An         *)
(* attached sink is offered every event in order, and the recording-only   *)
(* ones (annotations) besides, which take no number.  An event is          *)
(* the number of its stamp: what it says is left out.                      *)
(***************************************************************************)
EXTENDS Naturals, Sequences, SequencesExt

CONSTANTS
    Verb,        \* native verbs in flight (CliCall)
    RingCap,     \* RING_CAPACITY
    SinkCap,     \* log.rs QUEUE_CAPACITY
    MaxNotes     \* bound: annotations of one recording

ASSUME EventLogAssumption == RingCap \in Nat \ {0} /\ SinkCap \in Nat /\ MaxNotes \in Nat

VARIABLES
    ring,        \* Ring.events: sequence numbers, oldest first
    latest,      \* Ring.latest
    verb,        \* the life of each native verb
    reader,      \* a reader of pages: the last number seen, events got and missed
    sink,        \* Ring.sink: "none", "attached", "gone"
    stamps,      \* events offered to the sink so far
    notes,       \* annotations among them
    queue,       \* QueueState.events
    lost,        \* QueueState.lost
    last,        \* QueueState.last: 0 while there is none
    closed       \* QueueState.closed

logVars == <<ring, latest, verb, reader, sink, stamps, notes, queue, lost, last, closed>>

LogTypeOK ==
    /\ ring \in Seq(Nat) /\ Len(ring) <= RingCap
    /\ latest \in Nat /\ stamps \in Nat /\ notes \in 0..MaxNotes
    /\ verb \in [Verb -> {"idle", "open", "done"}]
    /\ reader \in [seen : Nat, got : Nat, missed : Nat]
    /\ sink \in {"none", "attached", "gone"}
    /\ queue \in Seq(Nat) /\ Len(queue) <= SinkCap
    /\ lost \in Nat /\ last \in Nat /\ closed \in BOOLEAN

\* A new log, with the verbs that will be called.
LogInit(calls) ==
    /\ ring = <<>> /\ latest = 0
    /\ verb = [v \in Verb |-> IF v \in calls THEN "idle" ELSE "done"]
    /\ reader = [seen |-> 0, got |-> 0, missed |-> 0]
    /\ sink = "none" /\ stamps = 0 /\ notes = 0
    /\ queue = <<>> /\ lost = 0 /\ last = 0 /\ closed = FALSE

-----------------------------------------------------------------------------
(* QueueSink *)

\* Mutant: a full queue refuses an event without counting it.
OnEventUncounted ==
    /\ stamps' = stamps + 1
    /\ IF closed \/ Len(queue) >= SinkCap THEN UNCHANGED queue
       ELSE queue' = Append(queue, stamps + 1)
    /\ UNCHANGED lost

\* The sink is offered one event: it queues it, or counts it as lost.
OnEvent ==
    /\ stamps' = stamps + 1
    /\ CASE closed -> UNCHANGED <<queue, lost>>
         [] ~closed /\ Len(queue) >= SinkCap -> lost' = lost + 1 /\ UNCHANGED queue
         [] OTHER -> queue' = Append(queue, stamps + 1) /\ UNCHANGED lost

\* The final event has a slot of its own.
OnDetach ==
    /\ stamps' = stamps + 1
    /\ last' = stamps + 1
    /\ closed' = TRUE

\* EventQueue::drain takes everything that is queued.
Drained == queue' = <<>> /\ lost' = 0 /\ last' = 0

-----------------------------------------------------------------------------
(* SessionEvents *)

\* Push onto the full ring: the oldest goes.
Push(n) == Append(IF Len(ring) = RingCap THEN Tail(ring) ELSE ring, n)

Record ==
    /\ latest' = latest + 1
    /\ ring' = Push(latest + 1)
    /\ IF sink = "attached" THEN OnEvent ELSE UNCHANGED <<stamps, queue, lost>>
    /\ UNCHANGED <<reader, sink, notes, last, closed>>

\* CliCall: a verb records its start, and its end when it finishes or is dropped.
VerbStarts(v) ==
    /\ verb[v] = "idle"
    /\ verb' = [verb EXCEPT ![v] = "open"]
    /\ Record

VerbEnds(v) ==
    /\ verb[v] = "open"
    /\ verb' = [verb EXCEPT ![v] = "done"]
    /\ Record

\* A start hands the sink its first event, recording_started.
AttachSink ==
    /\ sink = "none"
    /\ sink' = "attached"
    /\ OnEvent
    /\ UNCHANGED <<ring, latest, verb, reader, notes, last, closed>>

DetachSink ==
    /\ sink = "attached"
    /\ sink' = "gone"
    /\ OnDetach
    /\ UNCHANGED <<ring, latest, verb, reader, notes, queue, lost>>

\* The session log is dropped with its sink (Drop for QueueSink).
DropSink ==
    /\ sink = "attached"
    /\ sink' = "gone"
    /\ closed' = TRUE
    /\ UNCHANGED <<ring, latest, verb, reader, stamps, notes, queue, lost, last>>

\* An annotation goes to the sink only.
RecordDetached ==
    /\ sink = "attached"
    /\ notes < MaxNotes
    /\ notes' = notes + 1
    /\ OnEvent
    /\ UNCHANGED <<ring, latest, verb, reader, sink, last, closed>>

\* Mutant: an empty page names the newest number as its oldest.
OldestOfPage == IF ring = <<>> THEN latest ELSE ring[1] - 1

\* EventsPage.oldest.
Oldest == IF ring = <<>> THEN latest + 1 ELSE ring[1]

\* A reader asks for the events after the last it saw, and takes
\* oldest > after + 1 as a sign of what was dropped.
ReadPage ==
    LET fresh == {i \in DOMAIN ring : ring[i] > reader.seen}
    IN  /\ reader.seen < latest
        /\ reader' = [seen |-> latest, got |-> reader.got + Cardinality(fresh),
                      missed |-> reader.missed +
                          IF Oldest > reader.seen + 1 THEN Oldest - reader.seen - 1 ELSE 0]
        /\ UNCHANGED <<ring, latest, verb, sink, stamps, notes, queue, lost, last, closed>>

LogNext ==
    \/ AttachSink \/ DetachSink \/ DropSink \/ RecordDetached \/ ReadPage
    \/ \E v \in Verb : VerbStarts(v) \/ VerbEnds(v)

-----------------------------------------------------------------------------
\* A reader of pages either has an event or was told that it is gone, however
\* the ring moved on between two reads (SessionEvents::after, EventsPage).
PagesTellGaps == reader.got + reader.missed = reader.seen
=============================================================================
