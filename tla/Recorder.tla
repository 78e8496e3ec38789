------------------------------ MODULE Recorder ------------------------------
(***************************************************************************)
(* One recording at work: the capture stage (recording/capture.rs), the    *)
(* recorder thread (recording/recorder.rs) and the segment file it writes  *)
(* (recording/webm.rs), fed by the event log.                              *)
(*                                                                         *)
(* The recorder thread loops over three steps: it drains the event queue,  *)
(* takes at most one frame, and closes a segment whose time is up.  The    *)
(* capture stage and the session run between any two of them.  A frame is  *)
(* the time of its capture and the content of the screen; the encoder      *)
(* gives packets back when it likes, in order (encoder.rs, external).      *)
(* Bytes are counted in frames.                                            *)
(***************************************************************************)
EXTENDS EventLog, FiniteSetsExt

CONSTANTS
    Screen,      \* contents of the display
    SizeOf,      \* the desktop size of each
    SegmentMs,   \* SEGMENT_MS
    MaxRelative, \* webm.rs MAX_RELATIVE
    PendingCap,  \* MAX_PENDING
    Budget,      \* budget_bytes, in frames
    MaxTime,     \* bound: the clock
    RecFaults    \* which steps of the recorder may fail

ASSUME RecorderAssumption ==
    /\ SizeOf \in [Screen -> Nat \ {0}]
    /\ {SegmentMs, MaxRelative, PendingCap, Budget, MaxTime} \subseteq Nat
    /\ RecFaults \subseteq {"open", "send", "flush", "finish", "log"}

VARIABLES
    now,         \* the recording timeline
    cap,         \* the capture stage
    box,         \* Mailbox
    captured,    \* Mailbox.captured
    rec          \* Recorder and its thread

recorderVars == <<logVars, now, cap, box, captured, rec>>

NoFrame == [at |-> 0, size |-> 0]
NoSeg == [no |-> 0]
EmptyFile == [frames |-> 0, held |-> 0, cluster |-> 0, blocks |-> <<>>]

RecorderInit(calls) ==
    /\ LogInit(calls)
    /\ now = 0
    /\ cap = [pc |-> "wait", img |-> "none", ref |-> "none", due |-> 0]
    /\ box = [frame |-> NoFrame, dropped |-> 0]
    /\ captured = 0
    /\ rec = [pc |-> "drain", t |-> 0, log |-> <<>>, lost |-> 0, last |-> 0,
              seg |-> NoSeg, segs |-> <<>>, next |-> 1, size |-> 0,
              gap |-> 0, told |-> 0, dropped |-> 0, encoded |-> 0, wasted |-> 0,
              stopped |-> FALSE, failed |-> FALSE, ended |-> "no"]

-----------------------------------------------------------------------------
(* The capture stage *)

Clock ==
    /\ now < MaxTime
    /\ now' = now + 1
    /\ UNCHANGED <<logVars, cap, box, captured, rec>>

\* The frame source has a newer sequence number and the interval is over: the
\* display, which may show anything by now, is copied on a blocking thread.
CaptureBegin(s) ==
    /\ sink # "none" /\ cap.pc = "wait" /\ now >= cap.due
    /\ cap' = [cap EXCEPT !.pc = "busy", !.img = s, !.due = now + 1]
    /\ UNCHANGED <<logVars, now, box, captured, rec>>

\* Mailbox::put: the newest frame wins.
Put(f) ==
    /\ captured' = captured + 1
    /\ box' = [frame |-> f, dropped |-> box.dropped + IF box.frame = NoFrame THEN 0 ELSE 1]

\* The copy is done; it has the time its copying began.  An unchanged picture
\* adds nothing.
CaptureEnd ==
    /\ cap.pc = "busy"
    /\ cap' = [cap EXCEPT !.pc = "wait", !.img = "none", !.ref = cap.img]
    /\ IF cap.img = cap.ref THEN UNCHANGED <<box, captured>>
       ELSE Put([at |-> cap.due - 1, size |-> SizeOf[cap.img]])
    /\ UNCHANGED <<logVars, now, rec>>

\* The stage waits, and sees stop_capture or the end of the frame source.
CaptureStops ==
    /\ cap.pc = "wait" /\ sink # "none"
    /\ cap' = [cap EXCEPT !.pc = "ended"]
    /\ UNCHANGED <<logVars, now, box, captured, rec>>

-----------------------------------------------------------------------------
(* SegmentWriter *)

\* A block goes into the open cluster while its relative time fits.
Emit(w, at, dur) ==
    LET fits == w.blocks # <<>> /\ at - w.cluster <= MaxRelative
        c == IF fits THEN w.cluster ELSE at
    IN  [w EXCEPT !.cluster = c,
                  !.blocks = Append(@, [at |-> at, rel |-> at - c, dur |-> dur])]

\* The newest frame is held back until the next one or the end is known.
WriteFrame(w, at) ==
    LET v == IF w.frames = 0 THEN w ELSE Emit(w, w.held, 0)
        stamp == IF w.frames = 0 THEN at ELSE Max({at, w.held})
    IN  [v EXCEPT !.held = stamp, !.frames = @ + 1]

\* finish: the held frame lasts until the end of the segment.
FinishFile(w, end) ==
    IF w.frames = 0 THEN w
    ELSE Emit(w, w.held, IF end > w.held THEN end - w.held ELSE 1)

-----------------------------------------------------------------------------
(* Recorder: each operator is the recorder after the method of that name.  *)

\* write_own: `told' is the recorder once the event is written.
WriteOwn(r, told, o) == IF r.failed \/ o = "log" THEN [r EXCEPT !.failed = TRUE] ELSE told

CloseGap(r, o) ==
    LET open == [r EXCEPT !.gap = 0]
    IN  IF r.gap = 0 THEN r ELSE WriteOwn(open, [open EXCEPT !.told = @ + r.gap], o)

StopVideo(r, o) ==
    LET s == [r EXCEPT !.stopped = TRUE]
    IN  IF r.stopped THEN r ELSE WriteOwn(s, s, o)

\* An unfinished segment is removed with the frames the encoder still holds.
FailVideo(r, o) ==
    LET held == IF r.seg = NoSeg THEN 0 ELSE Len(r.seg.pending)
    IN  StopVideo(CloseGap([r EXCEPT !.seg = NoSeg, !.wasted = @ + held], o), o)

\* mux: the first k packets, each with the time of its own frame.
Mux(seg, k) ==
    [seg EXCEPT !.pending = SubSeq(@, k + 1, Len(@)),
                !.file = FoldLeft(LAMBDA w, at : WriteFrame(w, at - seg.first), @,
                                  SubSeq(seg.pending, 1, k))]

\* Mutant: a close does not wait for the frames the encoder holds.
CloseSegmentUnflushed(r, end, o) ==
    IF r.seg = NoSeg THEN r
    ELSE LET e == Max({end, r.seg.last + 1})
             done == [r EXCEPT !.seg = NoSeg,
                        !.segs = Append(@, [first |-> r.seg.first, end |-> e,
                                            blocks |-> FinishFile(r.seg.file, e - r.seg.first).blocks])]
         IN  WriteOwn(done, done, o)

\* close_segment: flush, finish the file, enter it into the manifest.
CloseSegment(r, end, o) ==
    IF r.seg = NoSeg THEN r
    ELSE IF o = "flush" THEN FailVideo(r, o)
    ELSE LET s == Mux(r.seg, Len(r.seg.pending))
             e == Max({end, s.last + 1})
             w == FinishFile(s.file, e - s.first)
             flushed == [r EXCEPT !.seg = NoSeg, !.encoded = @ + Len(r.seg.pending)]
             done == [flushed EXCEPT !.segs =
                         IF w.frames = 0 THEN @
                         ELSE Append(@, [first |-> s.first, end |-> e, blocks |-> w.blocks])]
         IN  IF o = "finish" THEN StopVideo(flushed, o) ELSE WriteOwn(done, done, o)

OpenSegment(r, f, o) ==
    LET opened == [r EXCEPT !.next = @ + 1,
                     !.seg = [no |-> r.next, first |-> f.at, last |-> f.at,
                              pending |-> <<>>, file |-> EmptyFile]]
    IN  IF o = "open" THEN StopVideo(r, o) ELSE WriteOwn(opened, opened, o)

\* bytes_with_pending: a held frame counts as the largest packet seen.
Bytes(r) ==
    LET closedFrames == FoldLeft(LAMBDA n, s : n + Len(s.blocks), 0, r.segs)
        muxed == r.seg.file.frames
    IN  closedFrames + muxed + IF muxed = 0 THEN 0 ELSE Len(r.seg.pending)

\* The packets the encoder gives back now: it holds frames as long as it likes.
Received(pending, max) == Min({max, Len(pending)})

\* send: the frame goes to the encoder, at most `max' packets come back.
Send(r, f, o, max) ==
    LET sent == [r.seg EXCEPT !.pending = Append(@, f.at), !.last = f.at]
        k == Received(sent.pending, max)
        back == [r EXCEPT !.seg = Mux(sent, k), !.encoded = @ + k]
    IN  IF o = "send" THEN FailVideo([r EXCEPT !.seg = sent], o)
        ELSE IF Len(back.seg.pending) > PendingCap THEN FailVideo(back, o)
        ELSE back

HandleFrame(r, take, o, k) ==
    LET f  == take.frame
        r1 == IF take.dropped > 0
              THEN [r EXCEPT !.dropped = @ + take.dropped, !.gap = @ + take.dropped]
              ELSE CloseGap(r, o)
        resized == CloseSegment(r1, f.at, o)
        r2 == IF r1.size \notin {0, f.size} THEN WriteOwn(resized, resized, o) ELSE r1
        r3 == [r2 EXCEPT !.size = f.size]
        r4 == IF r3.seg = NoSeg THEN OpenSegment(r3, f, o) ELSE r3
    IN  IF r3.stopped \/ r3.failed THEN [r3 EXCEPT !.wasted = @ + 1]
        ELSE IF r4.seg = NoSeg THEN [r4 EXCEPT !.wasted = @ + 1]
        ELSE IF Bytes(r4) >= Budget
             THEN StopVideo(CloseSegment([r4 EXCEPT !.wasted = @ + 1], Max({r.t, f.at}), o), o)
        ELSE Send(r4, f, o, k)

Tick(r, o) ==
    IF r.seg # NoSeg /\ now >= r.seg.first + SegmentMs
    THEN CloseSegment(r, r.seg.first + SegmentMs, o) ELSE r

\* finish: the last segment, the end in the manifest, then the last event.
Finish(r, o) ==
    LET r1 == CloseSegment(CloseGap(r, o), now, o)
        named == [r1 EXCEPT !.pc = "done",
                     !.ended = IF r1.failed THEN "write_error"
                               ELSE IF r.last = 0 THEN "session_closed" ELSE "stopped"]
    IN  WriteOwn(named, IF r.last = 0 THEN named ELSE [named EXCEPT !.log = Append(@, r.last)], o)

-----------------------------------------------------------------------------
(* The recorder thread (run) *)

Outcome == {"ok"} \cup RecFaults

\* Drain the queue and write what it held, then the count of what it refused:
\* `n' events are written before a write fails.
Drain ==
    /\ rec.pc = "drain" /\ sink # "none"
    /\ \E n \in 0..Len(queue), count \in BOOLEAN :
          /\ count => n = Len(queue)
          /\ rec.failed => n = 0 /\ ~count
          /\ ~rec.failed /\ "log" \notin RecFaults => count
          /\ LET bad == rec.failed \/ n < Len(queue) \/ (lost > 0 /\ ~count)
             IN  rec' = [rec EXCEPT !.t = now, !.log = @ \o SubSeq(queue, 1, n),
                            !.failed = bad, !.lost = @ + IF count THEN lost ELSE 0,
                            !.last = last,
                            !.pc = IF closed \/ bad THEN "finish" ELSE "frame"]
    /\ Drained
    /\ UNCHANGED <<ring, latest, verb, reader, sink, stamps, notes, closed,
                   now, cap, box, captured>>

TakeFrame ==
    /\ rec.pc = "frame"
    /\ IF box.frame = NoFrame THEN rec' = [rec EXCEPT !.pc = "tick"] /\ UNCHANGED box
       ELSE /\ \E o \in Outcome, k \in 0..PendingCap + 1 :
                  /\ rec' = [HandleFrame(rec, box, o, k) EXCEPT !.pc = "tick"]
            /\ box' = [frame |-> NoFrame, dropped |-> 0]
    /\ UNCHANGED <<logVars, now, cap, captured>>

\* The end of a pass.
EndPass ==
    /\ rec.pc = "tick"
    /\ \E o \in Outcome : rec' = [Tick(rec, o) EXCEPT !.pc = "drain", !.t = 0]
    /\ UNCHANGED <<logVars, now, cap, box, captured>>

FinishRecording ==
    /\ rec.pc = "finish"
    /\ \E o \in Outcome : rec' = Finish(rec, o)
    /\ UNCHANGED <<logVars, now, cap, box, captured>>

RecorderPass == Drain \/ TakeFrame \/ EndPass \/ FinishRecording

SessionNext == LogNext /\ UNCHANGED <<now, cap, box, captured, rec>>

RecorderNext ==
    \/ SessionNext
    \/ RecorderPass
    \/ Clock \/ CaptureEnd \/ CaptureStops
    \/ \E s \in Screen : CaptureBegin(s)

RecorderSpec == RecorderInit(Verb) /\ [][RecorderNext]_recorderVars

-----------------------------------------------------------------------------
(* Properties *)

\* Every changed frame was counted as encoded when a segment took it (also one that
\* fail_video removed later), is reported as dropped, with the encoder, in the
\* mailbox, or was refused because the video had stopped; and the dropped ones are
\* in the gaps the log tells of or in the open one.  None slips between the mailbox,
\* the gap, a closing segment and the figures of the manifest (Mailbox,
\* handle_frame, close_segment, finish).
FramesAccounted ==
    /\ ~rec.failed => rec.told + rec.gap = rec.dropped
    /\ captured = rec.encoded + rec.dropped + rec.wasted + box.dropped
               + (IF box.frame = NoFrame THEN 0 ELSE 1)
               + (IF rec.seg = NoSeg THEN 0 ELSE Len(rec.seg.pending))

\* A closed segment plays from its first frame to its end, whatever closed it:
\* its blocks never go back in time, each fits its cluster, and the last one
\* lasts until the end the manifest gives (SegmentWriter, close_segment).
SegmentsPlay ==
    \A i \in DOMAIN rec.segs :
        LET s == rec.segs[i]
            n == Len(s.blocks)
        IN  /\ n > 0 /\ s.blocks[1].at = 0
            /\ s.blocks[n].at + s.blocks[n].dur = s.end - s.first
            /\ \A j \in 1..n : s.blocks[j].rel <= MaxRelative
            /\ \A j \in 1..n - 1 : s.blocks[j].at < s.blocks[j + 1].at

\* The video of a recording adds up, whatever the capture stage, the encoder, a
\* resize, the budget or a fault did to it: no frame is unaccounted for, and every
\* segment plays (Recorder, Mailbox, SegmentWriter).
VideoAddsUp == FramesAccounted /\ SegmentsPlay

\* The events in the log or on their way into it, and the ones counted as lost:
\* once a write has failed nothing more gets there.
OnTheWay ==
    IF rec.failed THEN <<>>
    ELSE queue \o (IF last > 0 THEN <<last>>
                   ELSE IF rec.pc = "finish" /\ rec.last > 0 THEN <<rec.last>> ELSE <<>>)

Promise == INSTANCE RecordPromise
             WITH offered <- stamps,
                  kept    <- rec.log \o OnTheWay,
                  missing <- rec.lost + IF rec.failed THEN 0 ELSE lost,
                  sealed  <- closed,
                  broken  <- rec.failed

\* The recorder implements RecordPromise: what a recording wrote is what its
\* session offered, in order and once, with the loss counted, whatever the
\* interleaving of offers, drains and the end (QueueSink, handle_events, finish).
KeepsPromise == Promise!Spec
=============================================================================
