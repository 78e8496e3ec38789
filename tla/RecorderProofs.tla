--------------------------- MODULE RecorderProofs ---------------------------
(***************************************************************************)
(* Proofs about one recording at work (Recorder, EventLog): a reader of    *)
(* pages is told of every event it does not get, and the recorder          *)
(* implements RecordPromise.                                               *)
(***************************************************************************)
EXTENDS Recorder, FiniteSetTheorems, TLAPS

USE EventLogAssumption

-----------------------------------------------------------------------------
(* The ring and its readers *)

\* The ring holds the newest events under consecutive numbers, as many as fit.
RingInv ==
    /\ latest \in Nat
    /\ ring \in Seq(Nat) /\ Len(ring) <= RingCap /\ Len(ring) <= latest
    /\ latest > 0 => Len(ring) > 0
    /\ \A i \in 1..Len(ring) : ring[i] = (latest - Len(ring)) + i

ReaderInv ==
    /\ reader \in [seen : Nat, got : Nat, missed : Nat]
    /\ reader.seen <= latest
    /\ PagesTellGaps

PageInv == RingInv /\ ReaderInv

LEMMA Appended == ASSUME NEW s \in Seq(Nat), NEW n \in Nat
                  PROVE  /\ Append(s, n) \in Seq(Nat) /\ Len(Append(s, n)) = Len(s) + 1
                         /\ \A i \in 1..Len(s) : Append(s, n)[i] = s[i]
                         /\ Append(s, n)[Len(s) + 1] = n
OBVIOUS

LEMMA Tailed == ASSUME NEW s \in Seq(Nat), Len(s) > 0
                PROVE  /\ Tail(s) \in Seq(Nat) /\ Len(Tail(s)) = Len(s) - 1
                       /\ \A i \in 1..Len(s) - 1 : Tail(s)[i] = s[i + 1]
OBVIOUS

\* A ring `s' that ends with number m.
Consecutive(s, m) ==
    /\ s \in Seq(Nat) /\ Len(s) <= m
    /\ \A i \in 1..Len(s) : s[i] = (m - Len(s)) + i

LEMMA TailConsecutive ==
    ASSUME NEW s, NEW m \in Nat, Consecutive(s, m), Len(s) > 0
    PROVE  Consecutive(Tail(s), m) /\ Len(Tail(s)) = Len(s) - 1
<1>1. s \in Seq(Nat) /\ Len(s) \in Nat
    BY DEF Consecutive
<1>2. /\ Tail(s) \in Seq(Nat) /\ Len(Tail(s)) = Len(s) - 1
      /\ \A i \in 1..Len(s) - 1 : Tail(s)[i] = s[i + 1]
    BY <1>1, Tailed
<1> DEFINE u == Tail(s)
<1> HIDE DEF u
<1>3. /\ u \in Seq(Nat) /\ Len(u) = Len(s) - 1
      /\ \A i \in 1..Len(s) - 1 : u[i] = s[i + 1]
    BY <1>2 DEF u
<1>4. Consecutive(u, m)
    BY <1>1, <1>3 DEF Consecutive
<1> QED BY <1>3, <1>4 DEF u

LEMMA AppendConsecutive ==
    ASSUME NEW s, NEW m \in Nat, Consecutive(s, m)
    PROVE  Consecutive(Append(s, m + 1), m + 1) /\ Len(Append(s, m + 1)) = Len(s) + 1
<1>1. s \in Seq(Nat) /\ Len(s) \in Nat
    BY DEF Consecutive
<1> DEFINE u == Append(s, m + 1)
<1>2. /\ u \in Seq(Nat) /\ Len(u) = Len(s) + 1
      /\ \A i \in 1..Len(s) : u[i] = s[i]
      /\ u[Len(s) + 1] = m + 1
    BY <1>1, Appended
<1> HIDE DEF u
<1>3. ASSUME NEW i \in 1..Len(u) PROVE u[i] = ((m + 1) - Len(u)) + i
  <2>1. CASE i = Len(s) + 1
      BY <1>1, <1>2, <2>1
  <2>2. CASE i # Len(s) + 1
    <3>1. i \in 1..Len(s)
        BY <1>1, <1>2, <2>2
    <3>2. u[i] = (m - Len(s)) + i
        BY <1>2, <3>1 DEF Consecutive
    <3> QED BY <1>1, <1>2, <3>1, <3>2
  <2> QED BY <2>1, <2>2
<1>4. Len(u) <= m + 1 /\ u \in Seq(Nat)
    BY <1>1, <1>2 DEF Consecutive
<1>5. Consecutive(u, m + 1)
    BY <1>3, <1>4 DEF Consecutive
<1> QED BY <1>2, <1>5 DEF u

\* Push keeps the ring consecutive, full or not.
LEMMA RecordKeepsRing == RingInv /\ Record => RingInv' /\ latest' > latest
<1> SUFFICES ASSUME RingInv, Record PROVE RingInv' /\ latest' > latest
    OBVIOUS
<1>1. /\ latest' = latest + 1 /\ ring' = Push(latest + 1) /\ latest \in Nat
      /\ Consecutive(ring, latest) /\ Len(ring) \in Nat /\ Len(ring) <= RingCap
    BY DEF RingInv, Record, Consecutive
<1>2. CASE Len(ring) = RingCap
  <2>1. ring' = Append(Tail(ring), latest + 1) /\ Len(ring) > 0
      BY <1>1, <1>2 DEF Push
  <2>2. Consecutive(Tail(ring), latest) /\ Len(Tail(ring)) = Len(ring) - 1
      BY <1>1, <2>1, TailConsecutive
  <2> DEFINE u == Tail(ring)
  <2> HIDE DEF u
  <2>3. Consecutive(ring', latest + 1) /\ Len(ring') = Len(ring)
    <3>1. ring' = Append(u, latest + 1) /\ Consecutive(u, latest) /\ Len(u) = Len(ring) - 1
        BY <2>1, <2>2 DEF u
    <3> DEFINE w == Append(u, latest + 1)
    <3>2. Consecutive(w, latest + 1) /\ Len(w) = Len(u) + 1
        BY <1>1, <3>1, AppendConsecutive
    <3>3. ring' = w
        BY <3>1
    <3> HIDE DEF w
    <3> QED BY <1>1, <3>1, <3>2, <3>3
  <2>4. latest' \in Nat /\ Len(ring') <= RingCap /\ Len(ring') > 0 /\ Consecutive(ring', latest')
      BY <1>1, <1>2, <2>1, <2>3
  <2> QED BY <1>1, <2>4 DEF RingInv, Consecutive
<1>3. CASE Len(ring) # RingCap
  <2>1. ring' = Append(ring, latest + 1)
      BY <1>1, <1>3 DEF Push
  <2>2. Consecutive(ring', latest + 1) /\ Len(ring') = Len(ring) + 1
      BY <1>1, <2>1, AppendConsecutive
  <2> QED BY <1>1, <1>3, <2>2 DEF RingInv, Consecutive
<1> QED BY <1>2, <1>3

LEMMA Between ==
    ASSUME NEW a \in Nat, NEW b \in Nat, a <= b + 1 PROVE Cardinality(a..b) = (b - a) + 1
BY FS_Interval

\* A page holds the events after `seen' that the ring still has, and Oldest
\* counts the others.
LEMMA PageAddsUp == PageInv /\ ReadPage => ReaderInv'
<1> SUFFICES ASSUME PageInv, ReadPage PROVE ReaderInv'
    OBVIOUS
<1> DEFINE n == Len(ring)
           seen == reader.seen
           fresh == {i \in DOMAIN ring : ring[i] > reader.seen}
<1>1. /\ n \in Nat /\ latest \in Nat /\ seen \in Nat /\ reader.got \in Nat /\ reader.missed \in Nat
      /\ seen < latest /\ n > 0 /\ n <= latest /\ reader.got + reader.missed = seen
    BY DEF PageInv, RingInv, ReaderInv, PagesTellGaps, ReadPage
<1>2. Oldest = (latest - n) + 1
    BY <1>1 DEF Oldest, PageInv, RingInv
<1>3. fresh = {i \in 1..n : (latest - n) + i > seen}
    BY DEF PageInv, RingInv
<1>4. reader' = [seen |-> latest, got |-> reader.got + Cardinality(fresh),
                 missed |-> reader.missed +
                     IF Oldest > seen + 1 THEN Oldest - seen - 1 ELSE 0]
      /\ latest' = latest
    BY DEF ReadPage
<1> HIDE DEF fresh, n, seen
<1>5. CASE seen <= latest - n
  <2>1. fresh = 1..n
      BY <1>1, <1>3, <1>5
  <2>2. Cardinality(fresh) = n
      BY <1>1, <2>1, Between
  <2>3. reader' = [seen |-> latest, got |-> reader.got + n, missed |-> reader.missed + ((latest - n) - seen)]
      BY <1>1, <1>2, <1>4, <1>5, <2>2
  <2> QED BY <1>1, <1>4, <1>5, <2>3 DEF ReaderInv, PagesTellGaps
<1>6. CASE seen > latest - n
  <2> DEFINE a == (seen - (latest - n)) + 1
  <2>1. fresh = a..n /\ a \in Nat /\ a <= n + 1 /\ (n - a) + 1 = latest - seen
      BY <1>1, <1>3, <1>6
  <2> HIDE DEF a
  <2>2. Cardinality(fresh) = latest - seen
      BY <1>1, <2>1, Between
  <2>3. reader' = [seen |-> latest, got |-> reader.got + (latest - seen), missed |-> reader.missed]
      BY <1>1, <1>2, <1>4, <1>6, <2>2
  <2> QED BY <1>1, <1>4, <2>3 DEF ReaderInv, PagesTellGaps
<1> QED BY <1>1, <1>5, <1>6

\* One step of the log, its reader or its recorder.
LEMMA PageStep == PageInv /\ [RecorderNext]_recorderVars => PageInv'
<1> SUFFICES ASSUME PageInv, [RecorderNext]_recorderVars PROVE PageInv'
    OBVIOUS
<1>1. CASE UNCHANGED <<ring, latest, reader>>
    BY <1>1 DEF PageInv, RingInv, ReaderInv, PagesTellGaps
<1>2. CASE Record /\ UNCHANGED reader
    BY <1>2, RecordKeepsRing DEF PageInv, RingInv, ReaderInv, PagesTellGaps
<1>3. CASE ReadPage
    BY <1>3, PageAddsUp DEF ReadPage, PageInv, RingInv
<1>4. CASE SessionNext
    BY <1>1, <1>2, <1>3, <1>4
       DEF SessionNext, LogNext, AttachSink, DetachSink, DropSink, RecordDetached,
           VerbStarts, VerbEnds, Record
<1>5. CASE RecorderPass
    BY <1>1, <1>5 DEF RecorderPass, Drain, TakeFrame, EndPass, FinishRecording, logVars
<1>6. CASE Clock \/ CaptureEnd \/ CaptureStops \/ \E s \in Screen : CaptureBegin(s)
    BY <1>1, <1>6 DEF Clock, CaptureEnd, CaptureStops, CaptureBegin, logVars
<1>7. CASE UNCHANGED recorderVars
    BY <1>1, <1>7 DEF recorderVars, logVars
<1> QED BY <1>4, <1>5, <1>6, <1>7 DEF RecorderNext

\* A reader of pages either has an event or was told that it is gone, however
\* the ring moved on between two reads, for every capacity of the ring
\* (SessionEvents::after, EventsPage).
THEOREM PagesAreWhole == RecorderSpec => []PagesTellGaps
<1>1. RecorderInit(Verb) => PageInv
  <2> SUFFICES ASSUME RecorderInit(Verb) PROVE PageInv
      OBVIOUS
  <2>1. ring = <<>> /\ latest = 0 /\ reader = [seen |-> 0, got |-> 0, missed |-> 0]
      BY DEF RecorderInit, LogInit
  <2> QED BY <2>1 DEF PageInv, RingInv, ReaderInv, PagesTellGaps
<1>2. PageInv => PagesTellGaps
    BY DEF PageInv, ReaderInv
<1> QED BY <1>1, <1>2, PageStep, PTL DEF RecorderSpec

-----------------------------------------------------------------------------
(* The methods of the recorder *)

\* A recorder; what a segment file holds is left open.
Fields(seg, segs) ==
    [pc : {"drain", "frame", "tick", "finish", "done"}, t : Nat, log : Seq(Nat), lost : Nat,
     last : Nat, seg : {seg}, segs : {segs}, next : Nat \ {0}, size : Nat, gap : Nat, told : Nat,
     dropped : Nat, encoded : Nat, wasted : Nat, stopped : BOOLEAN, failed : BOOLEAN,
     ended : {"no", "write_error", "session_closed", "stopped"}]

\* An open segment has a number, and frames with the encoder.
SegFields(first, last_, file) ==
    [no : Nat \ {0}, first : {first}, last : {last_}, pending : Seq(Nat), file : {file}]

IsSegment(seg) == seg \in SegFields(seg.first, seg.last, seg.file)

IsSeg(seg) == seg = NoSeg \/ IsSegment(seg)

IsRec(r) == r \in Fields(r.seg, r.segs) /\ IsSeg(r.seg)

Pending(seg) == IF seg = NoSeg THEN 0 ELSE Len(seg.pending)

\* The frames a recorder has taken, wherever they went.
Taken(r) == r.encoded + r.dropped + r.wasted + Pending(r.seg)

\* The dropped ones are told of, or in the open gap.
GapsTold(r) == ~r.failed => r.told + r.gap = r.dropped

\* From r to s: the event log is left alone, a failure stays, and d more frames
\* are taken.
Same(r, s) ==
    /\ s.pc = r.pc /\ s.t = r.t /\ s.log = r.log /\ s.lost = r.lost /\ s.last = r.last
    /\ s.ended = r.ended

Works(r, s, d) ==
    /\ IsRec(s) /\ Same(r, s)
    /\ r.failed => s.failed
    /\ Taken(s) = Taken(r) + d
    /\ GapsTold(r) => GapsTold(s)

LEMMA NoSegIsNone == ASSUME NEW seg, IsSegment(seg) PROVE seg # NoSeg
BY DEF IsSegment, SegFields, NoSeg

LEMMA PendingIsNat == ASSUME NEW seg, IsSeg(seg) PROVE Pending(seg) \in Nat
BY DEF IsSeg, IsSegment, SegFields, Pending

LEMMA TakenIsNat == ASSUME NEW r, IsRec(r)
                    PROVE  /\ Taken(r) \in Nat /\ Pending(r.seg) \in Nat
                           /\ r.encoded \in Nat /\ r.dropped \in Nat /\ r.wasted \in Nat
<1>1. r.encoded \in Nat /\ r.dropped \in Nat /\ r.wasted \in Nat
    BY DEF IsRec, Fields
<1>2. Pending(r.seg) \in Nat
    BY PendingIsNat DEF IsRec
<1> QED BY <1>1, <1>2 DEF Taken

LEMMA WorksNot == ASSUME NEW r, IsRec(r) PROVE Works(r, r, 0)
<1>1. Taken(r) \in Nat
    BY TakenIsNat
<1> QED BY <1>1 DEF Works, Same

LEMMA WorksOn ==
    ASSUME NEW r, IsRec(r), NEW s, NEW u, NEW d \in Nat, NEW e \in Nat, Works(r, s, d), Works(s, u, e)
    PROVE  Works(r, u, d + e)
<1>1. Taken(r) \in Nat /\ Taken(s) \in Nat /\ Taken(u) \in Nat
    BY TakenIsNat DEF Works
<1>2. Taken(u) = Taken(r) + (d + e)
    BY <1>1 DEF Works
<1> QED BY <1>2 DEF Works, Same

\* write_own, whatever is to be written: it is, or the recorder has failed.
LEMMA WriteOwnWorks ==
    ASSUME NEW r, IsRec(r), NEW s, NEW o, NEW d \in Nat, Works(r, s, d)
    PROVE  Works(r, WriteOwn(s, s, o), d)
<1> DEFINE f == [s EXCEPT !.failed = TRUE]
<1>1. IsRec(s)
    BY DEF Works
<1>2. /\ f \in Fields(s.seg, s.segs) /\ f.seg = s.seg /\ f.segs = s.segs /\ f.failed
      /\ f.encoded = s.encoded /\ f.dropped = s.dropped /\ f.wasted = s.wasted
      /\ Same(s, f)
    BY <1>1 DEF IsRec, Fields, Same
<1> HIDE DEF f
<1>3. Works(r, f, d)
    BY <1>1, <1>2 DEF Works, IsRec, Same, Taken, GapsTold
<1> QED BY <1>3 DEF WriteOwn, f

LEMMA CloseGapWorks ==
    ASSUME NEW r, IsRec(r), NEW o PROVE Works(r, CloseGap(r, o), 0)
<1> DEFINE open == [r EXCEPT !.gap = 0]
           sum == r.told + r.gap
           told == [open EXCEPT !.told = sum]
           f == [open EXCEPT !.failed = TRUE]
<1>1. /\ f \in Fields(r.seg, r.segs) /\ f.seg = r.seg /\ f.segs = r.segs /\ f.failed
      /\ f.encoded = r.encoded /\ f.dropped = r.dropped /\ f.wasted = r.wasted
      /\ Same(r, f)
    BY DEF IsRec, Fields, Same
<1>2. /\ told \in Fields(r.seg, r.segs) /\ told.seg = r.seg /\ told.segs = r.segs
      /\ told.encoded = r.encoded /\ told.dropped = r.dropped /\ told.wasted = r.wasted
      /\ told.failed = r.failed /\ told.told = r.told + r.gap /\ told.gap = 0
      /\ Same(r, told)
  <2>1. open \in Fields(r.seg, r.segs) /\ open.gap = 0 /\ r.gap \in Nat
        /\ open.seg = r.seg /\ open.segs = r.segs /\ open.told = r.told
        /\ open.encoded = r.encoded /\ open.dropped = r.dropped /\ open.wasted = r.wasted
        /\ open.failed = r.failed
        /\ Same(r, open)
      BY DEF IsRec, Fields, Same
  <2>2. sum \in Nat
      BY DEF IsRec, Fields
  <2> HIDE DEF open, sum
  <2>3. /\ told \in Fields(r.seg, r.segs) /\ told.seg = r.seg /\ told.segs = r.segs
        /\ told.encoded = r.encoded /\ told.dropped = r.dropped /\ told.wasted = r.wasted
        /\ told.failed = r.failed /\ told.told = sum /\ told.gap = 0
        /\ Same(r, told)
      BY <2>1, <2>2 DEF Fields, Same
  <2> QED BY <2>3 DEF sum
<1>3. CloseGap(r, o) \in {r, told, f}
  <2>1. told = [open EXCEPT !.told = @ + r.gap]
      BY DEF IsRec, Fields
  <2> HIDE DEF told
  <2> QED BY <2>1 DEF CloseGap, WriteOwn
<1>4. Taken(r) \in Nat /\ r.told \in Nat /\ r.gap \in Nat
    BY TakenIsNat DEF IsRec, Fields
<1> HIDE DEF f, told, open, sum
<1>5. Works(r, f, 0)
    BY <1>1, <1>4 DEF Works, IsRec, Taken, GapsTold
<1>6. Works(r, told, 0)
    BY <1>2, <1>4 DEF Works, IsRec, Taken, GapsTold
<1> QED BY <1>3, <1>5, <1>6, WorksNot

LEMMA StopVideoWorks ==
    ASSUME NEW r, IsRec(r), NEW o PROVE Works(r, StopVideo(r, o), 0) /\ StopVideo(r, o).seg = r.seg
<1> DEFINE s == [r EXCEPT !.stopped = TRUE]
<1>1. /\ s \in Fields(r.seg, r.segs) /\ s.seg = r.seg /\ s.segs = r.segs
      /\ s.encoded = r.encoded /\ s.dropped = r.dropped /\ s.wasted = r.wasted
      /\ s.failed = r.failed /\ s.told = r.told /\ s.gap = r.gap
      /\ Same(r, s) /\ [s EXCEPT !.failed = TRUE].seg = r.seg
    BY DEF IsRec, Fields, Same
<1>2. StopVideo(r, o) \in {r, WriteOwn(s, s, o)} /\ WriteOwn(s, s, o) \in {s, [s EXCEPT !.failed = TRUE]}
    BY DEF StopVideo, WriteOwn
<1>3. Taken(r) \in Nat
    BY TakenIsNat
<1> HIDE DEF s
<1>4. Works(r, s, 0)
    BY <1>1, <1>3 DEF Works, IsRec, Taken, GapsTold
<1>5. Works(r, WriteOwn(s, s, o), 0)
    BY <1>4, WriteOwnWorks
<1> QED BY <1>1, <1>2, <1>5, WorksNot

\* The frames with the encoder are wasted when an unfinished segment goes.
LEMMA FailVideoWorks ==
    ASSUME NEW r, IsRec(r), NEW o PROVE Works(r, FailVideo(r, o), 0)
<1> DEFINE held == IF r.seg = NoSeg THEN 0 ELSE Len(r.seg.pending)
           bare == [r EXCEPT !.seg = NoSeg]
           sum == r.wasted + held
           s == [bare EXCEPT !.wasted = sum]
<1>1. held = Pending(r.seg) /\ held \in Nat /\ IsSeg(NoSeg) /\ Pending(NoSeg) = 0
    BY TakenIsNat DEF Pending, IsSeg
<1> HIDE DEF held
<1>2. /\ s \in Fields(NoSeg, r.segs) /\ s.seg = NoSeg /\ s.segs = r.segs
      /\ s.encoded = r.encoded /\ s.dropped = r.dropped /\ s.wasted = r.wasted + held
      /\ s.failed = r.failed /\ s.told = r.told /\ s.gap = r.gap
      /\ Same(r, s)
  <2>1. /\ bare \in Fields(NoSeg, r.segs) /\ bare.seg = NoSeg /\ bare.segs = r.segs
        /\ bare.encoded = r.encoded /\ bare.dropped = r.dropped /\ bare.wasted = r.wasted
        /\ bare.failed = r.failed /\ bare.told = r.told /\ bare.gap = r.gap
        /\ Same(r, bare)
      BY DEF IsRec, Fields, Same
  <2>2. sum \in Nat
      BY <1>1 DEF IsRec, Fields
  <2> HIDE DEF bare, sum
  <2>3. /\ s \in Fields(NoSeg, r.segs) /\ s.seg = NoSeg /\ s.segs = r.segs
        /\ s.encoded = r.encoded /\ s.dropped = r.dropped /\ s.wasted = sum
        /\ s.failed = r.failed /\ s.told = r.told /\ s.gap = r.gap
        /\ Same(r, s)
      BY <2>1, <2>2 DEF Fields, Same
  <2> QED BY <2>3 DEF sum
<1>3. r.encoded \in Nat /\ r.dropped \in Nat /\ r.wasted \in Nat
    BY TakenIsNat
<1>4. FailVideo(r, o) = StopVideo(CloseGap(s, o), o)
  <2>1. s = [r EXCEPT !.seg = NoSeg, !.wasted = @ + held]
      BY DEF IsRec, Fields
  <2> HIDE DEF s
  <2> QED BY <2>1 DEF FailVideo, held
<1> HIDE DEF s, bare, sum
<1>5. Works(r, s, 0)
    BY <1>1, <1>2, <1>3 DEF Works, IsRec, Taken, GapsTold
<1>6. Works(s, CloseGap(s, o), 0)
    BY <1>5, CloseGapWorks DEF Works
<1> DEFINE u == CloseGap(s, o)
<1> HIDE DEF u
<1>7. Works(u, StopVideo(u, o), 0) /\ Works(s, u, 0)
    BY <1>6, StopVideoWorks DEF Works, u
<1>8. Works(r, u, 0)
    BY <1>5, <1>7, WorksOn
<1>9. Works(r, StopVideo(u, o), 0)
    BY <1>7, <1>8, WorksOn
<1> QED BY <1>4, <1>9 DEF u

LEMMA Dropped ==
    ASSUME NEW s \in Seq(Nat), NEW k \in 0..Len(s)
    PROVE  SubSeq(s, k + 1, Len(s)) \in Seq(Nat) /\ Len(SubSeq(s, k + 1, Len(s))) = Len(s) - k
OBVIOUS

\* mux takes the first k packets off the encoder and leaves the rest of the
\* segment alone, whatever the file holds.
LEMMA MuxTakes ==
    ASSUME NEW seg, IsSegment(seg), NEW k \in 0..Len(seg.pending)
    PROVE  /\ IsSegment(Mux(seg, k)) /\ Len(Mux(seg, k).pending) = Len(seg.pending) - k
<1> DEFINE w == FoldLeft(LAMBDA v, at : WriteFrame(v, at - seg.first), seg.file, SubSeq(seg.pending, 1, k))
           p == SubSeq(seg.pending, k + 1, Len(seg.pending))
           m == [seg EXCEPT !.pending = p, !.file = w]
<1>1. Mux(seg, k) = m
    BY DEF Mux
<1>2. p \in Seq(Nat) /\ Len(p) = Len(seg.pending) - k
  <2>1. seg.pending \in Seq(Nat)
      BY DEF IsSegment, SegFields
  <2> QED BY <2>1, Dropped
<1> DEFINE bare == [seg EXCEPT !.pending = p]
<1>3. m = [bare EXCEPT !.file = w]
    OBVIOUS
<1> HIDE DEF p, w, m
<1>4. /\ bare \in SegFields(seg.first, seg.last, seg.file)
      /\ bare.first = seg.first /\ bare.last = seg.last /\ bare.pending = p
    BY <1>2 DEF IsSegment, SegFields
<1> HIDE DEF bare
<1>5. /\ m \in SegFields(seg.first, seg.last, w)
      /\ m.first = seg.first /\ m.last = seg.last /\ m.pending = p /\ m.file = w
    BY <1>3, <1>4 DEF SegFields
<1> QED BY <1>1, <1>2, <1>5 DEF IsSegment

\* A closed segment has all its frames; an unfinished one wastes them.
LEMMA CloseSegmentWorks ==
    ASSUME NEW r, IsRec(r), NEW end, NEW o PROVE Works(r, CloseSegment(r, end, o), 0)
<1> DEFINE s == Mux(r.seg, Len(r.seg.pending))
           e == Max({end, s.last + 1})
           w == FinishFile(s.file, e - s.first)
           held == Len(r.seg.pending)
           sum == r.encoded + held
           bare == [r EXCEPT !.seg = NoSeg]
           flushed == [bare EXCEPT !.encoded = sum]
           entries == IF w.frames = 0 THEN flushed.segs
                      ELSE Append(flushed.segs, [first |-> s.first, end |-> e, blocks |-> w.blocks])
           done == [flushed EXCEPT !.segs = entries]
<1>1. CASE r.seg = NoSeg
    BY <1>1, WorksNot DEF CloseSegment
<1>2. CASE r.seg # NoSeg /\ o = "flush"
    BY <1>2, FailVideoWorks DEF CloseSegment
<1>3. CASE r.seg # NoSeg /\ o # "flush"
  <2>1. held = Pending(r.seg) /\ held \in Nat /\ Pending(NoSeg) = 0 /\ IsSeg(NoSeg)
      BY <1>3, TakenIsNat DEF Pending, IsSeg
  <2>2. CloseSegment(r, end, o) = IF o = "finish" THEN StopVideo(flushed, o) ELSE WriteOwn(done, done, o)
    <3>1. flushed = [r EXCEPT !.seg = NoSeg, !.encoded = @ + Len(r.seg.pending)]
        BY DEF IsRec, Fields
    <3> HIDE DEF s, e, w
    <3>2. done = [flushed EXCEPT !.segs =
                     IF w.frames = 0 THEN @
                     ELSE Append(@, [first |-> s.first, end |-> e, blocks |-> w.blocks])]
        OBVIOUS
    <3> HIDE DEF done, flushed
    <3> QED BY <1>3, <3>1, <3>2 DEF CloseSegment, s, e, w
  <2> HIDE DEF held, entries
  <2>3. /\ bare \in Fields(NoSeg, r.segs) /\ bare.seg = NoSeg /\ bare.segs = r.segs
        /\ bare.encoded = r.encoded /\ bare.dropped = r.dropped /\ bare.wasted = r.wasted
        /\ bare.failed = r.failed /\ bare.told = r.told /\ bare.gap = r.gap
        /\ Same(r, bare)
      BY DEF IsRec, Fields, Same
  <2>4. sum \in Nat
      BY <2>1, TakenIsNat
  <2> HIDE DEF bare, sum
  <2>5. /\ flushed \in Fields(NoSeg, r.segs) /\ flushed.seg = NoSeg /\ flushed.segs = r.segs
        /\ flushed.encoded = sum /\ flushed.dropped = r.dropped /\ flushed.wasted = r.wasted
        /\ flushed.failed = r.failed /\ flushed.told = r.told /\ flushed.gap = r.gap
        /\ Same(r, flushed)
      BY <2>3, <2>4 DEF Fields, Same
  <2> HIDE DEF flushed
  <2>6. /\ done \in Fields(NoSeg, entries) /\ done.seg = NoSeg /\ done.segs = entries
        /\ done.encoded = sum /\ done.dropped = r.dropped /\ done.wasted = r.wasted
        /\ done.failed = r.failed /\ done.told = r.told /\ done.gap = r.gap
        /\ Same(r, done)
      BY <2>5 DEF Fields, Same
  <2> HIDE DEF done
  <2>7. Works(r, flushed, 0)
      BY <2>1, <2>5, TakenIsNat DEF Works, IsRec, Taken, GapsTold, sum
  <2>8. Works(r, done, 0)
      BY <2>1, <2>6, TakenIsNat DEF Works, IsRec, Taken, GapsTold, sum
  <2>9. Works(r, WriteOwn(done, done, o), 0)
      BY <2>8, WriteOwnWorks
  <2>10. Works(flushed, StopVideo(flushed, o), 0)
      BY <2>7, StopVideoWorks DEF Works
  <2>11. Works(r, StopVideo(flushed, o), 0)
      BY <2>7, <2>10, WorksOn
  <2> QED BY <2>2, <2>9, <2>11
<1> QED BY <1>1, <1>2, <1>3

LEMMA OpenSegmentWorks ==
    ASSUME NEW r, IsRec(r), r.seg = NoSeg, NEW f, NEW o
    PROVE  Works(r, OpenSegment(r, f, o), 0)
<1> DEFINE seg == [no |-> r.next, first |-> f.at, last |-> f.at, pending |-> <<>>, file |-> EmptyFile]
           number == r.next + 1
           bare == [r EXCEPT !.next = number]
           opened == [bare EXCEPT !.seg = seg]
<1>1. OpenSegment(r, f, o) = IF o = "open" THEN StopVideo(r, o) ELSE WriteOwn(opened, opened, o)
  <2>1. opened = [r EXCEPT !.next = @ + 1, !.seg = seg]
      BY DEF IsRec, Fields
  <2> HIDE DEF opened
  <2> QED BY <2>1 DEF OpenSegment
<1>2. IsSegment(seg) /\ Len(seg.pending) = 0
  <2>1. r.next \in Nat \ {0} /\ <<>> \in Seq(Nat) /\ Len(<<>>) = 0
      BY DEF IsRec, Fields
  <2> DEFINE none == <<>>
  <2> HIDE DEF none
  <2>2. seg = [no |-> r.next, first |-> f.at, last |-> f.at, pending |-> none, file |-> EmptyFile]
      BY DEF none
  <2>3. none \in Seq(Nat) /\ Len(none) = 0
      BY <2>1 DEF none
  <2> HIDE DEF seg
  <2> QED BY <2>1, <2>2, <2>3 DEF IsSegment, SegFields
<1>3. seg # NoSeg
    BY <1>2, NoSegIsNone
<1> HIDE DEF seg
<1>4. IsSeg(seg) /\ Pending(seg) = 0 /\ Pending(r.seg) = 0
    BY <1>2, <1>3 DEF IsSeg, Pending
<1>5. /\ bare \in Fields(r.seg, r.segs) /\ bare.seg = r.seg /\ bare.segs = r.segs
      /\ bare.encoded = r.encoded /\ bare.dropped = r.dropped /\ bare.wasted = r.wasted
      /\ bare.failed = r.failed /\ bare.told = r.told /\ bare.gap = r.gap
      /\ Same(r, bare)
  <2>1. number \in Nat \ {0}
      BY DEF IsRec, Fields
  <2> HIDE DEF number
  <2> QED BY <2>1 DEF IsRec, Fields, Same
<1> HIDE DEF bare, number
<1>6. /\ opened \in Fields(seg, r.segs) /\ opened.seg = seg /\ opened.segs = r.segs
      /\ opened.encoded = r.encoded /\ opened.dropped = r.dropped /\ opened.wasted = r.wasted
      /\ opened.failed = r.failed /\ opened.told = r.told /\ opened.gap = r.gap
      /\ Same(r, opened)
    BY <1>5 DEF Fields, Same
<1> HIDE DEF opened
<1>7. Works(r, opened, 0)
    BY <1>4, <1>6, TakenIsNat DEF Works, IsRec, Taken, GapsTold
<1>8. Works(r, WriteOwn(opened, opened, o), 0)
    BY <1>7, WriteOwnWorks
<1> QED BY <1>1, <1>8, StopVideoWorks

LEMMA MinOfTwo ==
    ASSUME NEW a \in Nat, NEW b \in Nat PROVE Min({a, b}) \in 0..b
<1>1. \E x \in {a, b} : \A y \in {a, b} : x <= y
  <2>1. CASE a <= b
      BY <2>1
  <2>2. CASE b <= a
      BY <2>2
  <2> QED BY <2>1, <2>2
<1>2. Min({a, b}) \in {a, b} /\ \A y \in {a, b} : Min({a, b}) <= y
    BY <1>1 DEF Min
<1> QED BY <1>2

\* One more frame goes to the encoder, and some come back.
LEMMA SendWorks ==
    ASSUME NEW r, IsRec(r), r.seg # NoSeg, NEW f, f.at \in Nat, NEW o, NEW max \in Nat
    PROVE  Works(r, Send(r, f, o, max), 1)
<1> DEFINE p == Append(r.seg.pending, f.at)
           bare == [r.seg EXCEPT !.pending = p]
           sent == [bare EXCEPT !.last = f.at]
           k == Received(sent.pending, max)
           rest == Mux(sent, k)
           sum == r.encoded + k
           lean == [r EXCEPT !.seg = rest]
           back == [lean EXCEPT !.encoded = sum]
           tried == [r EXCEPT !.seg = sent]
<1>1. IsSegment(r.seg) /\ r.seg.pending \in Seq(Nat)
    BY DEF IsRec, IsSeg, IsSegment, SegFields
<1>2. p \in Seq(Nat) /\ Len(p) = Len(r.seg.pending) + 1 /\ Len(r.seg.pending) \in Nat
    BY <1>1, Appended
<1>3. Send(r, f, o, max) =
          IF o = "send" THEN FailVideo(tried, o)
          ELSE IF Len(back.seg.pending) > PendingCap THEN FailVideo(back, o)
          ELSE back
  <2>1. sent = [r.seg EXCEPT !.pending = Append(@, f.at), !.last = f.at]
      BY <1>1 DEF IsSegment, SegFields
  <2>2. back = [r EXCEPT !.seg = Mux(sent, k), !.encoded = @ + k]
      BY DEF IsRec, Fields
  <2> HIDE DEF sent, back
  <2> QED BY <2>1, <2>2 DEF Send
<1> HIDE DEF p
<1>4. /\ bare \in SegFields(r.seg.first, r.seg.last, r.seg.file)
      /\ bare.first = r.seg.first /\ bare.file = r.seg.file /\ bare.pending = p
    BY <1>1, <1>2 DEF IsSegment, SegFields
<1> HIDE DEF bare
<1>5. /\ sent \in SegFields(r.seg.first, f.at, r.seg.file)
      /\ sent.first = r.seg.first /\ sent.last = f.at /\ sent.file = r.seg.file /\ sent.pending = p
    BY <1>4 DEF SegFields
<1> HIDE DEF sent
<1>6. IsSegment(sent) /\ Len(sent.pending) = Len(r.seg.pending) + 1
    BY <1>2, <1>5 DEF IsSegment
<1>7. k \in 0..Len(sent.pending)
    BY <1>2, <1>6, MinOfTwo DEF Received
<1> HIDE DEF k
<1>8. IsSegment(rest) /\ Len(rest.pending) = Len(sent.pending) - k
    BY <1>6, <1>7, MuxTakes
<1> HIDE DEF rest
<1>9. /\ IsSeg(sent) /\ Pending(sent) = Len(r.seg.pending) + 1
      /\ IsSeg(rest) /\ Pending(rest) = (Len(r.seg.pending) + 1) - k
      /\ Pending(r.seg) = Len(r.seg.pending)
    BY <1>6, <1>8, NoSegIsNone DEF IsSeg, Pending
<1>10. sum \in Nat
    BY <1>2, <1>6, <1>7, TakenIsNat
<1>11. /\ tried \in Fields(sent, r.segs) /\ tried.seg = sent /\ tried.segs = r.segs
       /\ tried.encoded = r.encoded /\ tried.dropped = r.dropped /\ tried.wasted = r.wasted
       /\ tried.failed = r.failed /\ tried.told = r.told /\ tried.gap = r.gap
       /\ Same(r, tried)
    BY DEF IsRec, Fields, Same
<1>12. /\ lean \in Fields(rest, r.segs) /\ lean.seg = rest /\ lean.segs = r.segs
       /\ lean.encoded = r.encoded /\ lean.dropped = r.dropped /\ lean.wasted = r.wasted
       /\ lean.failed = r.failed /\ lean.told = r.told /\ lean.gap = r.gap
       /\ Same(r, lean)
    BY DEF IsRec, Fields, Same
<1> HIDE DEF lean, tried, sum
<1>13. /\ back \in Fields(rest, r.segs) /\ back.seg = rest /\ back.segs = r.segs
       /\ back.encoded = sum /\ back.dropped = r.dropped /\ back.wasted = r.wasted
       /\ back.failed = r.failed /\ back.told = r.told /\ back.gap = r.gap
       /\ Same(r, back)
    BY <1>10, <1>12 DEF Fields, Same
<1> HIDE DEF back
<1> DEFINE n == Len(r.seg.pending)
<1>14. Works(r, tried, 1)
  <2>1. Pending(tried.seg) = n + 1 /\ Pending(r.seg) = n /\ n \in Nat
      BY <1>2, <1>9, <1>11
  <2>2. r.encoded \in Nat /\ r.dropped \in Nat /\ r.wasted \in Nat
      BY TakenIsNat
  <2> HIDE DEF n
  <2>3. Taken(tried) = Taken(r) + 1
      BY <1>11, <2>1, <2>2 DEF Taken
  <2> QED BY <1>9, <1>11, <2>3 DEF Works, IsRec, GapsTold
<1>15. Works(r, back, 1)
  <2>1. Pending(back.seg) = (n + 1) - k /\ Pending(r.seg) = n /\ n \in Nat /\ k \in 0..n + 1
      BY <1>2, <1>6, <1>7, <1>9, <1>13
  <2>2. r.encoded \in Nat /\ r.dropped \in Nat /\ r.wasted \in Nat
      BY TakenIsNat
  <2>3. back.encoded = r.encoded + k
      BY <1>13 DEF sum
  <2> HIDE DEF n
  <2>4. Taken(back) = Taken(r) + 1
      BY <1>13, <2>1, <2>2, <2>3 DEF Taken
  <2> QED BY <1>9, <1>13, <2>4 DEF Works, IsRec, GapsTold
<1>16. Works(tried, FailVideo(tried, o), 0) /\ Works(back, FailVideo(back, o), 0)
    BY <1>14, <1>15, FailVideoWorks DEF Works
<1>17. Works(r, FailVideo(tried, o), 1)
  <2>1. Works(r, FailVideo(tried, o), 1 + 0)
      BY <1>14, <1>16, WorksOn
  <2> QED BY <2>1
<1>18. Works(r, FailVideo(back, o), 1)
  <2>1. Works(r, FailVideo(back, o), 1 + 0)
      BY <1>15, <1>16, WorksOn
  <2> QED BY <2>1
<1> QED BY <1>3, <1>15, <1>17, <1>18

\* A changed copy of the recorder that differs in what has been wasted.
LEMMA WasteWorks ==
    ASSUME NEW r, IsRec(r)
    PROVE  Works(r, [r EXCEPT !.wasted = @ + 1], 1) /\ [r EXCEPT !.wasted = @ + 1].seg = r.seg
<1> DEFINE sum == r.wasted + 1
           s == [r EXCEPT !.wasted = sum]
<1>1. s = [r EXCEPT !.wasted = @ + 1]
    OBVIOUS
<1>2. sum \in Nat
    BY TakenIsNat
<1> HIDE DEF sum
<1>3. /\ s \in Fields(r.seg, r.segs) /\ s.seg = r.seg /\ s.segs = r.segs
      /\ s.encoded = r.encoded /\ s.dropped = r.dropped /\ s.wasted = sum
      /\ s.failed = r.failed /\ s.told = r.told /\ s.gap = r.gap
      /\ Same(r, s)
    BY <1>2 DEF IsRec, Fields, Same
<1> HIDE DEF s
<1>4. Taken(s) = Taken(r) + 1
    BY <1>3, TakenIsNat DEF Taken, sum
<1>5. Works(r, s, 1)
    BY <1>3, <1>4 DEF Works, IsRec, GapsTold
<1> QED BY <1>1, <1>3, <1>5

\* What the mailbox dropped opens a gap, or makes it longer.
LEMMA DroppedWorks ==
    ASSUME NEW r, IsRec(r), NEW d \in Nat
    PROVE  Works(r, [r EXCEPT !.dropped = @ + d, !.gap = @ + d], d)
<1> DEFINE sum == r.dropped + d
           gap == r.gap + d
           bare == [r EXCEPT !.dropped = sum]
           s == [bare EXCEPT !.gap = gap]
<1>1. s = [r EXCEPT !.dropped = @ + d, !.gap = @ + d]
    BY DEF IsRec, Fields
<1>2. sum \in Nat /\ gap \in Nat /\ r.told \in Nat /\ r.gap \in Nat /\ r.dropped \in Nat
    BY DEF IsRec, Fields
<1> HIDE DEF sum, gap
<1>3. /\ bare \in Fields(r.seg, r.segs) /\ bare.seg = r.seg /\ bare.segs = r.segs
      /\ bare.encoded = r.encoded /\ bare.dropped = sum /\ bare.wasted = r.wasted
      /\ bare.failed = r.failed /\ bare.told = r.told
      /\ Same(r, bare)
    BY <1>2 DEF IsRec, Fields, Same
<1> HIDE DEF bare
<1>4. /\ s \in Fields(r.seg, r.segs) /\ s.seg = r.seg /\ s.segs = r.segs
      /\ s.encoded = r.encoded /\ s.dropped = sum /\ s.wasted = r.wasted
      /\ s.failed = r.failed /\ s.told = r.told /\ s.gap = gap
      /\ Same(r, s)
    BY <1>2, <1>3 DEF Fields, Same
<1> HIDE DEF s
<1>5. Taken(s) = Taken(r) + d
    BY <1>4, TakenIsNat DEF Taken, sum
<1>6. GapsTold(r) => GapsTold(s)
    BY <1>2, <1>4 DEF GapsTold, sum, gap
<1>7. Works(r, s, d)
    BY <1>4, <1>5, <1>6 DEF Works, IsRec
<1> QED BY <1>1, <1>7

LEMMA SizeWorks ==
    ASSUME NEW r, IsRec(r), NEW n \in Nat PROVE Works(r, [r EXCEPT !.size = n], 0)
<1> DEFINE s == [r EXCEPT !.size = n]
<1>1. /\ s \in Fields(r.seg, r.segs) /\ s.seg = r.seg /\ s.segs = r.segs
      /\ s.encoded = r.encoded /\ s.dropped = r.dropped /\ s.wasted = r.wasted
      /\ s.failed = r.failed /\ s.told = r.told /\ s.gap = r.gap
      /\ Same(r, s)
    BY DEF IsRec, Fields, Same
<1> HIDE DEF s
<1>2. Taken(s) = Taken(r) + 0
    BY <1>1, TakenIsNat DEF Taken
<1>3. Works(r, s, 0)
    BY <1>1, <1>2 DEF Works, IsRec, GapsTold
<1> QED BY <1>3 DEF s

\* handle_frame takes the frame and what was dropped before it, whatever becomes
\* of them: a resize, a full budget, a stopped video or a fault.
LEMMA HandleFrameWorks ==
    ASSUME NEW r, IsRec(r), NEW take, take.frame.at \in Nat, take.frame.size \in Nat,
           take.dropped \in Nat, NEW o, NEW k \in Nat
    PROVE  Works(r, HandleFrame(r, take, o, k), take.dropped + 1)
<1> DEFINE d  == take.dropped
           f  == take.frame
           r1 == IF d > 0 THEN [r EXCEPT !.dropped = @ + d, !.gap = @ + d] ELSE CloseGap(r, o)
           resized == CloseSegment(r1, f.at, o)
           r2 == IF r1.size \notin {0, f.size} THEN WriteOwn(resized, resized, o) ELSE r1
           r3 == [r2 EXCEPT !.size = f.size]
           r4 == IF r3.seg = NoSeg THEN OpenSegment(r3, f, o) ELSE r3
           w3 == [r3 EXCEPT !.wasted = @ + 1]
           w4 == [r4 EXCEPT !.wasted = @ + 1]
           c4 == CloseSegment(w4, Max({r.t, f.at}), o)
<1>1. HandleFrame(r, take, o, k) =
          IF r3.stopped \/ r3.failed THEN w3
          ELSE IF r4.seg = NoSeg THEN w4
          ELSE IF Bytes(r4) >= Budget THEN StopVideo(c4, o)
          ELSE Send(r4, f, o, k)
    BY DEF HandleFrame
<1>2. Works(r, r1, d)
  <2>1. CASE d > 0
      BY <2>1, DroppedWorks
  <2>2. CASE ~(d > 0)
    <3>1. d = 0
        BY <2>2
    <3> QED BY <2>2, <3>1, CloseGapWorks
  <2> QED BY <2>1, <2>2
<1> HIDE DEF r1
<1>3. Works(r1, resized, 0)
    BY <1>2, CloseSegmentWorks DEF Works
<1>4. Works(r1, r2, 0)
    BY <1>2, <1>3, WriteOwnWorks, WorksNot DEF Works
<1> HIDE DEF resized, r2
<1>5. Works(r2, r3, 0)
    BY <1>4, SizeWorks DEF Works
<1> HIDE DEF r3
<1>6. Works(r3, r4, 0)
    BY <1>5, OpenSegmentWorks, WorksNot DEF Works
<1>7. Works(r, r3, d)
  <2>1. Works(r, r2, d + 0)
      BY <1>2, <1>4, WorksOn
  <2>2. Works(r, r3, (d + 0) + 0)
      BY <1>5, <2>1, WorksOn
  <2> QED BY <2>2
<1> HIDE DEF r4
<1>8. Works(r, r4, d)
  <2>1. Works(r, r4, d + 0)
      BY <1>6, <1>7, WorksOn
  <2> QED BY <2>1
<1>9. Works(r, w3, d + 1)
  <2>1. Works(r3, w3, 1)
      BY <1>7, WasteWorks DEF Works
  <2> HIDE DEF w3
  <2> QED BY <1>7, <2>1, WorksOn
<1>10. Works(r, w4, d + 1)
  <2>1. Works(r4, w4, 1)
      BY <1>8, WasteWorks DEF Works
  <2> HIDE DEF w4
  <2> QED BY <1>8, <2>1, WorksOn
<1> HIDE DEF w3, w4
<1>11. Works(w4, c4, 0)
    BY <1>10, CloseSegmentWorks DEF Works
<1> HIDE DEF c4
<1>12. Works(c4, StopVideo(c4, o), 0)
    BY <1>11, StopVideoWorks DEF Works
<1>13. Works(r, StopVideo(c4, o), d + 1)
  <2>1. Works(r, c4, (d + 1) + 0)
      BY <1>10, <1>11, WorksOn
  <2>2. Works(r, StopVideo(c4, o), ((d + 1) + 0) + 0)
      BY <1>12, <2>1, WorksOn
  <2> QED BY <2>2
<1>14. ASSUME r4.seg # NoSeg PROVE Works(r, Send(r4, f, o, k), d + 1)
  <2>1. Works(r4, Send(r4, f, o, k), 1)
      BY <1>8, <1>14, SendWorks DEF Works
  <2> QED BY <1>8, <2>1, WorksOn
<1> QED BY <1>1, <1>9, <1>10, <1>13, <1>14

LEMMA TickWorks == ASSUME NEW r, IsRec(r), NEW o PROVE Works(r, Tick(r, o), 0)
BY CloseSegmentWorks, WorksNot DEF Tick

\* finish is done with the recorder, and writes the last event or fails.
LEMMA FinishEnds ==
    ASSUME NEW r, IsRec(r), NEW o
    PROVE  LET s == Finish(r, o)
           IN  /\ IsRec(s) /\ s.pc = "done"
               /\ s.lost = r.lost /\ s.last = r.last
               /\ r.failed => s.failed
               /\ s.failed => s.log = r.log
               /\ ~s.failed => s.log = IF r.last = 0 THEN r.log ELSE Append(r.log, r.last)
               /\ Taken(s) = Taken(r)
               /\ GapsTold(r) => GapsTold(s)
<1> DEFINE c1 == CloseGap(r, o)
           r1 == CloseSegment(c1, now, o)
           reason == IF r1.failed THEN "write_error"
                     ELSE IF r.last = 0 THEN "session_closed" ELSE "stopped"
           bare == [r1 EXCEPT !.pc = "done"]
           named == [bare EXCEPT !.ended = reason]
           log == IF r.last = 0 THEN named.log ELSE Append(named.log, r.last)
           told == [named EXCEPT !.log = log]
           f == [named EXCEPT !.failed = TRUE]
<1>1. IsRec(c1) /\ Works(r, c1, 0)
    BY CloseGapWorks DEF Works
<1> HIDE DEF c1
<1>2. Works(c1, r1, 0)
    BY <1>1, CloseSegmentWorks
<1>3. Works(r, r1, 0)
  <2>1. Works(r, r1, 0 + 0)
      BY <1>1, <1>2, WorksOn
  <2> QED BY <2>1
<1>4. Finish(r, o) = IF named.failed \/ o = "log" THEN f
                     ELSE IF r.last = 0 THEN named ELSE told
  <2>1. named = [r1 EXCEPT !.pc = "done", !.ended = reason]
      OBVIOUS
  <2>2. r.last # 0 => told = [named EXCEPT !.log = Append(@, r.last)]
      OBVIOUS
  <2> HIDE DEF named, told
  <2> QED BY <2>1, <2>2 DEF Finish, WriteOwn, c1
<1> HIDE DEF r1
<1>5. reason \in {"no", "write_error", "session_closed", "stopped"}
    OBVIOUS
<1> HIDE DEF reason
<1>6. /\ IsRec(r1) /\ r1.log = r.log /\ r1.lost = r.lost /\ r1.last = r.last
      /\ r.failed => r1.failed
      /\ Taken(r1) = Taken(r) + 0 /\ (GapsTold(r) => GapsTold(r1))
      /\ r.log \in Seq(Nat) /\ r.last \in Nat
    BY <1>3 DEF Works, Same, IsRec, Fields
<1>7. /\ bare \in Fields(r1.seg, r1.segs) /\ bare.pc = "done" /\ bare.seg = r1.seg /\ bare.segs = r1.segs
      /\ bare.encoded = r1.encoded /\ bare.dropped = r1.dropped /\ bare.wasted = r1.wasted
      /\ bare.failed = r1.failed /\ bare.told = r1.told /\ bare.gap = r1.gap
      /\ bare.log = r1.log /\ bare.lost = r1.lost /\ bare.last = r1.last
    BY <1>6 DEF IsRec, Fields
<1> HIDE DEF bare
<1>8. /\ named \in Fields(r1.seg, r1.segs) /\ named.pc = "done"
      /\ named.seg = r1.seg /\ named.segs = r1.segs
      /\ named.encoded = r1.encoded /\ named.dropped = r1.dropped /\ named.wasted = r1.wasted
      /\ named.failed = r1.failed /\ named.told = r1.told /\ named.gap = r1.gap
      /\ named.log = r1.log /\ named.lost = r1.lost /\ named.last = r1.last
    BY <1>5, <1>7 DEF Fields
<1>9. log \in Seq(Nat) /\ log = IF r.last = 0 THEN r.log ELSE Append(r.log, r.last)
    BY <1>6, <1>8, Appended
<1> HIDE DEF named, log
<1>10. /\ told \in Fields(r1.seg, r1.segs) /\ told.pc = "done"
       /\ told.seg = r1.seg /\ told.segs = r1.segs
       /\ told.encoded = r1.encoded /\ told.dropped = r1.dropped /\ told.wasted = r1.wasted
       /\ told.failed = r1.failed /\ told.told = r1.told /\ told.gap = r1.gap
       /\ told.log = log /\ told.lost = r1.lost /\ told.last = r1.last
    BY <1>8, <1>9 DEF Fields
<1>11. /\ f \in Fields(r1.seg, r1.segs) /\ f.pc = "done"
       /\ f.seg = r1.seg /\ f.segs = r1.segs
       /\ f.encoded = r1.encoded /\ f.dropped = r1.dropped /\ f.wasted = r1.wasted
       /\ f.failed /\ f.log = r1.log /\ f.lost = r1.lost /\ f.last = r1.last
    BY <1>8 DEF Fields
<1> HIDE DEF told, f
<1> DEFINE s == Finish(r, o)
<1> DEFINE whole == IF r.last = 0 THEN r.log ELSE Append(r.log, r.last)
<1>a. /\ r.last = 0 => whole = r.log
      /\ log = whole
    BY <1>9
<1> HIDE DEF whole
<1>12. s \in {f, named, told} /\ (s = f \/ ~r1.failed) /\ (s = f \/ s.log = whole)
  <2>1. CASE named.failed \/ o = "log"
      BY <1>4, <2>1
  <2>2. CASE ~(named.failed \/ o = "log") /\ r.last = 0
      BY <1>4, <1>6, <1>8, <1>a, <2>2
  <2>3. CASE ~(named.failed \/ o = "log") /\ r.last # 0
      BY <1>4, <1>8, <1>10, <1>a, <2>3
  <2> QED BY <2>1, <2>2, <2>3
<1> HIDE DEF s
<1>13. Taken(f) = Taken(r) /\ Taken(named) = Taken(r) /\ Taken(told) = Taken(r)
    BY <1>6, <1>8, <1>10, <1>11, TakenIsNat DEF Taken
<1>14. GapsTold(f) /\ (GapsTold(r) => GapsTold(named)) /\ (GapsTold(r) => GapsTold(told))
    BY <1>6, <1>8, <1>10, <1>11 DEF GapsTold
<1>15. IsRec(f) /\ IsRec(named) /\ IsRec(told)
    BY <1>6, <1>8, <1>10, <1>11 DEF IsRec
<1>16. f.failed /\ f.log = r.log /\ (~r1.failed => ~named.failed /\ ~told.failed)
    BY <1>6, <1>8, <1>10, <1>11
<1>17. /\ IsRec(s) /\ s.pc = "done" /\ s.lost = r.lost /\ s.last = r.last
       /\ Taken(s) = Taken(r) /\ (GapsTold(r) => GapsTold(s))
    BY <1>6, <1>8, <1>10, <1>11, <1>12, <1>13, <1>14, <1>15
<1>18. /\ r.failed => s.failed
       /\ s.failed => s.log = r.log
       /\ ~s.failed => s.log = whole
    BY <1>6, <1>8, <1>10, <1>12, <1>16
<1> QED BY <1>17, <1>18 DEF s, whole

-----------------------------------------------------------------------------
(* The steps of the recorder thread *)

USE RecorderAssumption

\* What a step that does not touch the event log does.
Stepped(r, s, d) ==
    /\ IsRec(s) /\ s.log = r.log /\ s.lost = r.lost /\ s.last = r.last
    /\ r.failed => s.failed
    /\ Taken(s) = Taken(r) + d
    /\ GapsTold(r) => GapsTold(s)

At(r, pc) == [r EXCEPT !.pc = pc]
AtStart(r, pc) == [r EXCEPT !.pc = pc, !.t = 0]

LEMMA AtSteps ==
    ASSUME NEW r, NEW s, IsRec(r), NEW d \in Nat, Works(r, s, d), NEW pc \in {"tick", "drain"}
    PROVE  Stepped(r, At(s, pc), d) /\ At(s, pc).pc = pc
<1> DEFINE u == At(s, pc)
<1>1. /\ u \in Fields(s.seg, s.segs) /\ u.seg = s.seg /\ u.segs = s.segs /\ u.pc = pc
      /\ u.encoded = s.encoded /\ u.dropped = s.dropped /\ u.wasted = s.wasted
      /\ u.failed = s.failed /\ u.told = s.told /\ u.gap = s.gap
      /\ u.log = s.log /\ u.lost = s.lost /\ u.last = s.last
    BY DEF At, Works, IsRec, Fields
<1> HIDE DEF u
<1>2. Taken(u) = Taken(s) /\ (GapsTold(s) => GapsTold(u))
    BY <1>1 DEF Taken, GapsTold
<1>3. IsRec(u)
    BY <1>1 DEF Works, IsRec
<1>4. Stepped(r, u, d)
    BY <1>1, <1>2, <1>3 DEF Works, Same, Stepped
<1> QED BY <1>1, <1>4 DEF u

LEMMA AtStartSteps ==
    ASSUME NEW r, NEW s, IsRec(r), NEW d \in Nat, Works(r, s, d), NEW pc \in {"tick", "drain"}
    PROVE  Stepped(r, AtStart(s, pc), d) /\ AtStart(s, pc).pc = pc
<1> DEFINE v == At(s, pc)
           u == [v EXCEPT !.t = 0]
<1>1. AtStart(s, pc) = u
    BY DEF AtStart, At
<1>2. Stepped(r, v, d) /\ v.pc = pc
    BY AtSteps
<1> HIDE DEF v
<1>3. /\ u \in Fields(v.seg, v.segs) /\ u.seg = v.seg /\ u.segs = v.segs /\ u.pc = pc
      /\ u.encoded = v.encoded /\ u.dropped = v.dropped /\ u.wasted = v.wasted
      /\ u.failed = v.failed /\ u.told = v.told /\ u.gap = v.gap
      /\ u.log = v.log /\ u.lost = v.lost /\ u.last = v.last
    BY <1>2 DEF Stepped, IsRec, Fields
<1> HIDE DEF u
<1>4. Taken(u) = Taken(v) /\ (GapsTold(v) => GapsTold(u))
    BY <1>3 DEF Taken, GapsTold
<1>5. IsRec(u)
    BY <1>2, <1>3 DEF Stepped, IsRec
<1>6. Stepped(r, u, d)
    BY <1>2, <1>3, <1>4, <1>5 DEF Stepped
<1> QED BY <1>1, <1>3, <1>6

\* The timeline, the mailbox and the capture stage.
CaptureInv ==
    /\ now \in Nat /\ captured \in Nat
    /\ box.frame.at \in Nat /\ box.frame.size \in Nat /\ box.dropped \in Nat
    /\ cap = [pc |-> cap.pc, img |-> cap.img, ref |-> cap.ref, due |-> cap.due]
    /\ cap.due \in Nat
    /\ cap.pc = "busy" => cap.img \in Screen /\ cap.due > 0

InBox == IF box.frame = NoFrame THEN 0 ELSE 1

Accounted == captured = Taken(rec) + box.dropped + InBox

FrameInv == CaptureInv /\ Accounted /\ GapsTold(rec)

LEMMA TakeFrameSteps ==
    ASSUME IsRec(rec), CaptureInv, TakeFrame
    PROVE  /\ rec.pc = "frame" /\ rec'.pc = "tick"
           /\ \/ box.frame = NoFrame /\ UNCHANGED box /\ Stepped(rec, rec', 0)
              \/ /\ box.frame # NoFrame /\ box' = [frame |-> NoFrame, dropped |-> 0]
                 /\ Stepped(rec, rec', box.dropped + 1)
<1>1. rec.pc = "frame" /\ rec.t \in Nat
    BY DEF TakeFrame, IsRec, Fields
<1>2. CASE box.frame = NoFrame
  <2>1. rec' = [rec EXCEPT !.pc = "tick"] /\ UNCHANGED box
      BY <1>2 DEF TakeFrame
  <2>2. rec' = At(rec, "tick")
      BY <2>1 DEF At
  <2>3. Stepped(rec, rec', 0) /\ rec'.pc = "tick"
      BY <2>2, WorksNot, AtSteps
  <2> QED BY <1>1, <1>2, <2>1, <2>3
<1>3. CASE box.frame # NoFrame
  <2>1. /\ box' = [frame |-> NoFrame, dropped |-> 0]
        /\ \E o \in Outcome, k \in 0..PendingCap + 1 :
              rec' = [HandleFrame(rec, box, o, k) EXCEPT !.pc = "tick"]
      BY <1>3 DEF TakeFrame
  <2>2. PICK o \in Outcome, k \in 0..PendingCap + 1 :
              rec' = [HandleFrame(rec, box, o, k) EXCEPT !.pc = "tick"]
      BY <2>1
  <2> DEFINE s == HandleFrame(rec, box, o, k)
             d == box.dropped + 1
  <2>3. d \in Nat /\ Works(rec, s, d)
    <3>1. k \in Nat
        OBVIOUS
    <3> QED BY <3>1, HandleFrameWorks DEF CaptureInv
  <2>4. rec' = [s EXCEPT !.pc = "tick"]
      BY <2>2
  <2> HIDE DEF s, d
  <2>5. rec' = At(s, "tick")
      BY <2>4 DEF At
  <2>6. Stepped(rec, rec', d) /\ rec'.pc = "tick"
      BY <2>3, <2>5, AtSteps
  <2> QED BY <1>1, <1>3, <2>1, <2>6 DEF d
<1> QED BY <1>2, <1>3

LEMMA EndPassSteps ==
    ASSUME IsRec(rec), EndPass
    PROVE  rec.pc = "tick" /\ rec'.pc = "drain" /\ Stepped(rec, rec', 0)
<1>1. PICK o \in Outcome : rec' = [Tick(rec, o) EXCEPT !.pc = "drain", !.t = 0]
    BY DEF EndPass
<1>2. rec' = AtStart(Tick(rec, o), "drain")
    BY <1>1 DEF AtStart
<1> QED BY <1>2, TickWorks, AtStartSteps DEF EndPass

\* What the log's side of a recorder needs to be.
QueueInv ==
    /\ stamps \in Nat /\ queue \in Seq(Nat) /\ lost \in Nat /\ last \in Nat
    /\ closed \in BOOLEAN
    /\ closed <=> sink = "gone"
    /\ ~closed => last = 0

Written(n, count, bad) ==
    /\ count => n = Len(queue)
    /\ rec.failed => n = 0 /\ ~count
    /\ bad <=> (rec.failed \/ n < Len(queue) \/ (lost > 0 /\ ~count))
    /\ rec'.log = rec.log \o SubSeq(queue, 1, n)
    /\ rec'.failed = bad
    /\ rec'.lost = rec.lost + IF count THEN lost ELSE 0
    /\ rec'.last = last
    /\ rec'.pc = IF closed \/ bad THEN "finish" ELSE "frame"

LEMMA Taken1 == ASSUME NEW s \in Seq(Nat), NEW n \in 0..Len(s)
                PROVE  /\ SubSeq(s, 1, n) \in Seq(Nat) /\ Len(SubSeq(s, 1, n)) = n
                       /\ \A i \in 1..n : SubSeq(s, 1, n)[i] = s[i]
OBVIOUS

LEMMA Joined == ASSUME NEW s \in Seq(Nat), NEW t \in Seq(Nat)
                PROVE  /\ s \o t \in Seq(Nat) /\ Len(s \o t) = Len(s) + Len(t)
                       /\ \A i \in 1..Len(s) : (s \o t)[i] = s[i]
                       /\ \A i \in 1..Len(t) : (s \o t)[Len(s) + i] = t[i]
OBVIOUS

LEMMA DrainSteps ==
    ASSUME IsRec(rec), QueueInv, now \in Nat, Drain
    PROVE  /\ IsRec(rec') /\ rec.pc = "drain"
           /\ Taken(rec') = Taken(rec) /\ (GapsTold(rec) => GapsTold(rec'))
           /\ queue' = <<>> /\ lost' = 0 /\ last' = 0
           /\ \E n \in 0..Len(queue), count \in BOOLEAN, bad \in BOOLEAN : Written(n, count, bad)
<1>1. PICK n \in 0..Len(queue), count \in BOOLEAN :
         /\ count => n = Len(queue)
         /\ rec.failed => n = 0 /\ ~count
         /\ ~rec.failed /\ "log" \notin RecFaults => count
         /\ LET bad == rec.failed \/ n < Len(queue) \/ (lost > 0 /\ ~count)
            IN  rec' = [rec EXCEPT !.t = now, !.log = @ \o SubSeq(queue, 1, n),
                            !.failed = bad, !.lost = @ + IF count THEN lost ELSE 0,
                            !.last = last,
                            !.pc = IF closed \/ bad THEN "finish" ELSE "frame"]
    BY DEF Drain
<1> DEFINE bad == rec.failed \/ n < Len(queue) \/ (lost > 0 /\ ~count)
           log == rec.log \o SubSeq(queue, 1, n)
           more == rec.lost + IF count THEN lost ELSE 0
           pc == IF closed \/ bad THEN "finish" ELSE "frame"
<1> DEFINE s1 == [rec EXCEPT !.t = now]
           s2 == [s1 EXCEPT !.log = log]
           s3 == [s2 EXCEPT !.failed = bad]
           s4 == [s3 EXCEPT !.lost = more]
           s5 == [s4 EXCEPT !.last = last]
           s == [s5 EXCEPT !.pc = pc]
           Alike(u) == /\ u \in Fields(rec.seg, rec.segs) /\ u.seg = rec.seg /\ u.segs = rec.segs
                       /\ u.encoded = rec.encoded /\ u.dropped = rec.dropped /\ u.wasted = rec.wasted
                       /\ u.told = rec.told /\ u.gap = rec.gap
<1>2. rec' = s
  <2>1. rec' = [rec EXCEPT !.t = now, !.log = @ \o SubSeq(queue, 1, n),
                            !.failed = bad, !.lost = @ + IF count THEN lost ELSE 0,
                            !.last = last, !.pc = pc]
      BY <1>1
  <2> HIDE DEF bad, pc
  <2> QED BY <2>1
<1>3. rec.log \in Seq(Nat) /\ rec.lost \in Nat
    BY DEF IsRec, Fields
<1>4. log \in Seq(Nat)
  <2> DEFINE part == SubSeq(queue, 1, n)
  <2>1. part \in Seq(Nat)
      BY Taken1 DEF QueueInv
  <2> HIDE DEF part
  <2>2. rec.log \o part \in Seq(Nat)
      BY <1>3, <2>1, Joined
  <2> QED BY <2>2 DEF part
<1>5. more \in Nat /\ last \in Nat
    BY <1>3 DEF QueueInv
<1>6. bad \in BOOLEAN /\ pc \in {"finish", "frame"} /\ (rec.failed => bad)
    OBVIOUS
<1>7. (bad <=> (rec.failed \/ n < Len(queue) \/ (lost > 0 /\ ~count)))
      /\ (count => n = Len(queue)) /\ (rec.failed => n = 0 /\ ~count)
    BY <1>1
<1>8. log = rec.log \o SubSeq(queue, 1, n)
      /\ more = rec.lost + (IF count THEN lost ELSE 0)
      /\ pc = IF closed \/ bad THEN "finish" ELSE "frame"
    OBVIOUS
<1> HIDE DEF bad, log, more, pc
<1>a. Alike(s1)
    BY DEF IsRec, Fields, QueueInv
<1> HIDE DEF s1
<1>b. Alike(s2) /\ s2.log = log
    BY <1>4, <1>a DEF Fields
<1> HIDE DEF s2
<1>c. Alike(s3) /\ s3.log = log /\ s3.failed = bad
    BY <1>6, <1>b DEF Fields
<1> HIDE DEF s3
<1>d. Alike(s4) /\ s4.log = log /\ s4.failed = bad /\ s4.lost = more
    BY <1>5, <1>c DEF Fields
<1> HIDE DEF s4
<1>e. Alike(s5) /\ s5.log = log /\ s5.failed = bad /\ s5.lost = more /\ s5.last = last
    BY <1>5, <1>d DEF Fields
<1> HIDE DEF s5
<1>f. Alike(s) /\ s.log = log /\ s.failed = bad /\ s.lost = more /\ s.last = last /\ s.pc = pc
    BY <1>6, <1>e DEF Fields
<1> HIDE DEF s
<1>9. /\ IsRec(rec') /\ rec'.log = log /\ rec'.failed = bad /\ rec'.lost = more
      /\ rec'.last = last /\ rec'.pc = pc
      /\ Taken(rec') = Taken(rec) /\ (GapsTold(rec) => GapsTold(rec'))
    BY <1>2, <1>6, <1>f DEF IsRec, Taken, GapsTold
<1>10. Written(n, count, bad)
    BY <1>7, <1>8, <1>9 DEF Written
<1>11. rec.pc = "drain" /\ queue' = <<>> /\ lost' = 0 /\ last' = 0
    BY DEF Drain, Drained
<1>12. \E k \in 0..Len(queue), c \in BOOLEAN, b \in BOOLEAN : Written(k, c, b)
    BY <1>6, <1>10
<1> QED BY <1>9, <1>11, <1>12

-----------------------------------------------------------------------------
(* Types of a recording, and its frames *)

RecInv ==
    /\ IsRec(rec)
    /\ ~closed => rec.last = 0
    /\ rec.pc \in {"finish", "done"} /\ ~rec.failed => closed /\ queue = <<>> /\ last = 0

TypeInv == QueueInv /\ CaptureInv /\ RecInv

\* A sink that is attached, or becomes so, is offered an event.
Offered == sink # "gone" /\ sink' # "gone" /\ OnEvent /\ UNCHANGED <<last, closed>>

\* The steps of the session, as the sink sees them.
LEMMA SessionSteps ==
    ASSUME LogNext
    PROVE  \/ Offered
           \/ UNCHANGED <<stamps, queue, lost, last, closed, sink>>
           \/ DetachSink
           \/ DropSink
<1>1. ASSUME Record, UNCHANGED sink
      PROVE  Offered \/ UNCHANGED <<stamps, queue, lost, last, closed, sink>>
    BY <1>1 DEF Record, Offered
<1>2. CASE \E v \in Verb : VerbStarts(v) \/ VerbEnds(v)
    BY <1>1, <1>2 DEF VerbStarts, VerbEnds, Record
<1>3. CASE AttachSink
    BY <1>3 DEF AttachSink, Offered
<1>4. CASE RecordDetached
    BY <1>4 DEF RecordDetached, Offered
<1>5. CASE ReadPage
    BY <1>5 DEF ReadPage
<1> QED BY <1>2, <1>3, <1>4, <1>5 DEF LogNext

\* An open queue takes an event, or counts it.
LEMMA OfferedSteps ==
    ASSUME QueueInv, Offered
    PROVE  /\ ~closed /\ ~closed' /\ stamps' = stamps + 1 /\ last = 0 /\ last' = 0
           /\ \/ queue' = Append(queue, stamps + 1) /\ lost' = lost
              \/ queue' = queue /\ lost' = lost + 1
<1>1. ~closed /\ closed' = closed /\ last' = last /\ last = 0
    BY DEF Offered, QueueInv
<1>2. stamps' = stamps + 1 /\ (\/ queue' = Append(queue, stamps + 1) /\ lost' = lost
                               \/ queue' = queue /\ lost' = lost + 1)
    BY <1>1 DEF Offered, OnEvent
<1> QED BY <1>1, <1>2

LEMMA SessionKeepsQueue == ASSUME QueueInv, LogNext PROVE QueueInv'
<1>1. CASE Offered
  <2>1. /\ ~closed /\ ~closed' /\ stamps' = stamps + 1 /\ last = 0 /\ last' = 0
        /\ \/ queue' = Append(queue, stamps + 1) /\ lost' = lost
           \/ queue' = queue /\ lost' = lost + 1
      BY <1>1, OfferedSteps
  <2> DEFINE more == Append(queue, stamps + 1)
  <2>2. more \in Seq(Nat)
      BY Appended DEF QueueInv
  <2>a. queue' \in {more, queue} /\ lost' \in {lost, lost + 1}
      BY <2>1
  <2> HIDE DEF more
  <2>3. queue' \in Seq(Nat) /\ lost' \in Nat
      BY <2>2, <2>a DEF QueueInv
  <2> QED BY <1>1, <2>1, <2>3 DEF QueueInv, Offered
<1>2. CASE UNCHANGED <<stamps, queue, lost, last, closed, sink>>
    BY <1>2 DEF QueueInv
<1>3. CASE DetachSink
    BY <1>3 DEF QueueInv, DetachSink, OnDetach
<1>4. CASE DropSink
    BY <1>4 DEF QueueInv, DropSink
<1> QED BY <1>1, <1>2, <1>3, <1>4, SessionSteps

LEMMA SessionKeepsRec ==
    ASSUME QueueInv, RecInv, LogNext, UNCHANGED rec PROVE RecInv'
<1>1. CASE Offered
  <2>1. ~closed /\ ~closed'
      BY <1>1, OfferedSteps
  <2> QED BY <2>1 DEF RecInv
<1>2. CASE UNCHANGED <<stamps, queue, lost, last, closed, sink>>
    BY <1>2 DEF RecInv
<1>3. CASE DetachSink
    BY <1>3 DEF QueueInv, RecInv, DetachSink, OnDetach
<1>4. CASE DropSink
    BY <1>4 DEF QueueInv, RecInv, DropSink
<1> QED BY <1>1, <1>2, <1>3, <1>4, SessionSteps

LEMMA CaptureKeeps ==
    ASSUME CaptureInv,
           Clock \/ CaptureEnd \/ CaptureStops \/ (\E s \in Screen : CaptureBegin(s))
    PROVE  /\ CaptureInv'
           /\ captured' - captured = (box'.dropped + InBox') - (box.dropped + InBox)
<1> USE DEF InBox
<1>1. CASE Clock
    BY <1>1 DEF CaptureInv, Clock
<1>2. ASSUME NEW s \in Screen, CaptureBegin(s)
      PROVE  /\ CaptureInv'
             /\ captured' - captured = (box'.dropped + InBox') - (box.dropped + InBox)
  <2>1. cap' = [pc |-> "busy", img |-> s, ref |-> cap.ref, due |-> now + 1]
        /\ UNCHANGED <<now, box, captured>>
      BY <1>2 DEF CaptureInv, CaptureBegin
  <2> QED BY <2>1 DEF CaptureInv
<1>3. CASE CaptureStops
  <2>1. cap' = [pc |-> "ended", img |-> cap.img, ref |-> cap.ref, due |-> cap.due]
        /\ UNCHANGED <<now, box, captured>>
      BY <1>3 DEF CaptureInv, CaptureStops
  <2> QED BY <2>1 DEF CaptureInv
<1>4. CASE CaptureEnd
  <2>1. cap' = [pc |-> "wait", img |-> "none", ref |-> cap.img, due |-> cap.due]
        /\ UNCHANGED now
      BY <1>4 DEF CaptureInv, CaptureEnd
  <2>2. CASE cap.img = cap.ref
    <3>1. UNCHANGED <<box, captured>>
        BY <1>4, <2>2 DEF CaptureEnd
    <3> QED BY <2>1, <3>1 DEF CaptureInv
  <2>3. CASE cap.img # cap.ref
    <3> DEFINE at == cap.due - 1
               n == SizeOf[cap.img]
    <3>1. at \in Nat /\ n \in Nat \ {0}
        BY <1>4 DEF CaptureInv, CaptureEnd
    <3>2. /\ captured' = captured + 1
          /\ box' = [frame |-> [at |-> at, size |-> n],
                     dropped |-> box.dropped + IF box.frame = NoFrame THEN 0 ELSE 1]
        BY <1>4, <2>3 DEF CaptureEnd, Put
    <3> HIDE DEF at, n
    <3>3. [at |-> at, size |-> n] # NoFrame
        BY <3>1 DEF NoFrame
    <3> QED BY <2>1, <3>1, <3>2, <3>3 DEF CaptureInv
  <2> QED BY <2>2, <2>3
<1> QED BY <1>1, <1>2, <1>3, <1>4

LEMMA FinishSteps ==
    ASSUME IsRec(rec), FinishRecording
    PROVE  /\ rec.pc = "finish" /\ rec'.pc = "done" /\ IsRec(rec')
           /\ rec'.lost = rec.lost /\ rec'.last = rec.last
           /\ rec.failed => rec'.failed
           /\ rec'.failed => rec'.log = rec.log
           /\ ~rec'.failed => rec'.log = IF rec.last = 0 THEN rec.log ELSE Append(rec.log, rec.last)
           /\ Taken(rec') = Taken(rec)
           /\ GapsTold(rec) => GapsTold(rec')
<1>1. rec.pc = "finish"
    BY DEF FinishRecording
<1>2. PICK o \in Outcome : rec' = Finish(rec, o)
    BY DEF FinishRecording
<1> DEFINE s == Finish(rec, o)
           whole == IF rec.last = 0 THEN rec.log ELSE Append(rec.log, rec.last)
<1>3. /\ IsRec(s) /\ s.pc = "done"
      /\ s.lost = rec.lost /\ s.last = rec.last
      /\ rec.failed => s.failed
      /\ s.failed => s.log = rec.log
      /\ ~s.failed => s.log = whole
      /\ Taken(s) = Taken(rec)
      /\ GapsTold(rec) => GapsTold(s)
    BY FinishEnds
<1>4. rec' = s
    BY <1>2
<1> HIDE DEF s, whole
<1>5. /\ IsRec(rec') /\ rec'.pc = "done"
      /\ rec'.lost = rec.lost /\ rec'.last = rec.last
      /\ rec.failed => rec'.failed
      /\ rec'.failed => rec'.log = rec.log
      /\ ~rec'.failed => rec'.log = whole
      /\ Taken(rec') = Taken(rec)
      /\ GapsTold(rec) => GapsTold(rec')
    BY <1>3, <1>4
<1> QED BY <1>1, <1>5 DEF whole

\* The types hold in every step.
LEMMA TypeStep == TypeInv /\ [RecorderNext]_recorderVars => TypeInv'
<1> SUFFICES ASSUME TypeInv, [RecorderNext]_recorderVars PROVE TypeInv'
    OBVIOUS
<1>0. QueueInv /\ CaptureInv /\ RecInv /\ IsRec(rec)
    BY DEF TypeInv, RecInv
<1>1. CASE SessionNext
  <2>1. QueueInv' /\ RecInv'
      BY <1>0, <1>1, SessionKeepsQueue, SessionKeepsRec DEF SessionNext
  <2>2. CaptureInv'
      BY <1>0, <1>1 DEF SessionNext, CaptureInv
  <2> QED BY <2>1, <2>2 DEF TypeInv
<1>2. CASE Clock \/ CaptureEnd \/ CaptureStops \/ (\E s \in Screen : CaptureBegin(s))
  <2>1. CaptureInv'
      BY <1>0, <1>2, CaptureKeeps
  <2>2. UNCHANGED <<logVars, rec>>
      BY <1>2 DEF Clock, CaptureEnd, CaptureStops, CaptureBegin
  <2> QED BY <1>0, <2>1, <2>2 DEF TypeInv, QueueInv, RecInv, logVars
<1>3. CASE Drain
  <2>1. /\ IsRec(rec') /\ queue' = <<>> /\ lost' = 0 /\ last' = 0
        /\ \E n \in 0..Len(queue), count \in BOOLEAN, bad \in BOOLEAN : Written(n, count, bad)
      BY <1>0, <1>3, DrainSteps DEF CaptureInv
  <2>2. UNCHANGED <<stamps, closed, sink, now, cap, box, captured>>
      BY <1>3 DEF Drain
  <2>3. <<>> \in Seq(Nat)
      OBVIOUS
  <2>4. rec'.last = last /\ (rec'.pc \in {"finish", "done"} /\ ~rec'.failed => closed)
      BY <2>1 DEF Written
  <2>5. QueueInv'
      BY <1>0, <2>1, <2>2, <2>3 DEF QueueInv
  <2>6. RecInv'
      BY <1>0, <2>1, <2>2, <2>4 DEF QueueInv, RecInv
  <2> QED BY <1>0, <2>2, <2>5, <2>6 DEF TypeInv, CaptureInv
<1>4. CASE TakeFrame
  <2>1. /\ IsRec(rec') /\ rec'.pc = "tick" /\ rec'.last = rec.last
        /\ box' = box \/ box' = [frame |-> NoFrame, dropped |-> 0]
      BY <1>0, <1>4, TakeFrameSteps DEF Stepped
  <2>2. UNCHANGED <<logVars, now, cap, captured>>
      BY <1>4 DEF TakeFrame
  <2>3. CaptureInv'
      BY <1>0, <2>1, <2>2 DEF CaptureInv, NoFrame
  <2>4. RecInv'
      BY <1>0, <2>1, <2>2 DEF RecInv, logVars
  <2> QED BY <1>0, <2>2, <2>3, <2>4 DEF TypeInv, QueueInv, logVars
<1>5. CASE EndPass
  <2>1. IsRec(rec') /\ rec'.pc = "drain" /\ rec'.last = rec.last
      BY <1>0, <1>5, EndPassSteps DEF Stepped
  <2>2. UNCHANGED <<logVars, now, cap, box, captured>>
      BY <1>5 DEF EndPass
  <2>3. RecInv'
      BY <1>0, <2>1, <2>2 DEF RecInv, logVars
  <2> QED BY <1>0, <2>2, <2>3 DEF TypeInv, QueueInv, CaptureInv, logVars
<1>6. CASE FinishRecording
  <2>1. /\ rec.pc = "finish" /\ rec'.pc = "done" /\ IsRec(rec') /\ rec'.last = rec.last
        /\ rec.failed => rec'.failed
      BY <1>0, <1>6, FinishSteps
  <2>2. UNCHANGED <<logVars, now, cap, box, captured>>
      BY <1>6 DEF FinishRecording
  <2>3. RecInv'
      BY <1>0, <2>1, <2>2 DEF RecInv, logVars
  <2> QED BY <1>0, <2>2, <2>3 DEF TypeInv, QueueInv, CaptureInv, logVars
<1>7. CASE UNCHANGED recorderVars
    BY <1>0, <1>7 DEF TypeInv, QueueInv, RecInv, CaptureInv, recorderVars, logVars
<1> QED BY <1>1, <1>2, <1>3, <1>4, <1>5, <1>6, <1>7 DEF RecorderNext, RecorderPass

LEMMA TypeInit == RecorderInit(Verb) => TypeInv
<1> SUFFICES ASSUME RecorderInit(Verb) PROVE TypeInv
    OBVIOUS
<1>1. /\ now = 0 /\ captured = 0
      /\ cap = [pc |-> "wait", img |-> "none", ref |-> "none", due |-> 0]
      /\ box = [frame |-> NoFrame, dropped |-> 0]
      /\ sink = "none" /\ stamps = 0 /\ queue = <<>> /\ lost = 0 /\ last = 0 /\ closed = FALSE
    BY DEF RecorderInit, LogInit
<1> DEFINE none == <<>>
<1>2. rec = [pc |-> "drain", t |-> 0, log |-> none, lost |-> 0, last |-> 0,
              seg |-> NoSeg, segs |-> none, next |-> 1, size |-> 0,
              gap |-> 0, told |-> 0, dropped |-> 0, encoded |-> 0, wasted |-> 0,
              stopped |-> FALSE, failed |-> FALSE, ended |-> "no"]
    BY DEF RecorderInit
<1>3. none \in Seq(Nat)
    OBVIOUS
<1> HIDE DEF none
<1>4. IsRec(rec) /\ rec.last = 0 /\ rec.pc = "drain"
    BY <1>2, <1>3 DEF IsRec, IsSeg, Fields
<1>5. QueueInv
    BY <1>1, <1>3 DEF QueueInv, none
<1>6. CaptureInv
    BY <1>1 DEF CaptureInv, NoFrame
<1> QED BY <1>1, <1>4, <1>5, <1>6 DEF TypeInv, RecInv

LEMMA TypeHolds == RecorderSpec => []TypeInv
BY TypeInit, TypeStep, PTL DEF RecorderSpec

FramesInv == Accounted /\ GapsTold(rec)

LEMMA Balance ==
    ASSUME NEW c \in Nat, NEW c1 \in Nat, NEW t \in Nat, NEW d \in Nat, NEW d1 \in Nat,
           NEW i \in {0, 1}, NEW i1 \in {0, 1},
           c = t + d + i, c1 - c = (d1 + i1) - (d + i)
    PROVE  c1 = t + d1 + i1
OBVIOUS

LEMMA FramesStep == TypeInv /\ FramesInv /\ [RecorderNext]_recorderVars => FramesInv'
<1> SUFFICES ASSUME TypeInv, FramesInv, [RecorderNext]_recorderVars PROVE FramesInv'
    OBVIOUS
<1>0. QueueInv /\ CaptureInv /\ IsRec(rec) /\ captured = Taken(rec) + box.dropped + InBox /\ GapsTold(rec)
      /\ Taken(rec) \in Nat /\ box.dropped \in Nat /\ InBox \in {0, 1} /\ captured \in Nat
    BY TakenIsNat DEF TypeInv, RecInv, FramesInv, Accounted, CaptureInv, InBox
<1>1. CASE SessionNext \/ UNCHANGED recorderVars
    BY <1>0, <1>1 DEF SessionNext, recorderVars, FramesInv, Accounted, Taken, GapsTold, InBox
<1>2. CASE Clock \/ CaptureEnd \/ CaptureStops \/ (\E s \in Screen : CaptureBegin(s))
  <2>1. captured' - captured = (box'.dropped + InBox') - (box.dropped + InBox)
      BY <1>0, <1>2, CaptureKeeps
  <2>2. CaptureInv'
      BY <1>0, <1>2, CaptureKeeps
  <2>3. captured' \in Nat /\ box'.dropped \in Nat /\ InBox' \in {0, 1}
      BY <2>2 DEF CaptureInv, InBox
  <2>4. rec' = rec
      BY <1>2 DEF Clock, CaptureEnd, CaptureStops, CaptureBegin
  <2>5. Taken(rec)' = Taken(rec) /\ GapsTold(rec)'
      BY <1>0, <2>4 DEF Taken, GapsTold
  <2>6. captured' = Taken(rec) + box'.dropped + InBox'
      BY <1>0, <2>1, <2>3, Balance
  <2> QED BY <2>5, <2>6 DEF FramesInv, Accounted
<1>3. CASE Drain \/ FinishRecording \/ EndPass
  <2>1. Taken(rec') = Taken(rec) /\ GapsTold(rec')
    <3>1. CASE Drain
        BY <1>0, <3>1, DrainSteps DEF CaptureInv
    <3>2. CASE FinishRecording
        BY <1>0, <3>2, FinishSteps
    <3>3. CASE EndPass
        BY <1>0, <3>3, EndPassSteps DEF Stepped
    <3> QED BY <1>3, <3>1, <3>2, <3>3
  <2>2. UNCHANGED <<box, captured>>
      BY <1>3 DEF Drain, FinishRecording, EndPass
  <2> QED BY <1>0, <2>1, <2>2 DEF FramesInv, Accounted, InBox
<1>4. CASE TakeFrame
  <2>1. captured' = captured
      BY <1>4 DEF TakeFrame
  <2>2. CASE box.frame = NoFrame /\ UNCHANGED box /\ Stepped(rec, rec', 0)
      BY <1>0, <2>1, <2>2 DEF FramesInv, Accounted, InBox, Stepped
  <2>3. CASE /\ box.frame # NoFrame /\ box' = [frame |-> NoFrame, dropped |-> 0]
             /\ Stepped(rec, rec', box.dropped + 1)
    <3>1. InBox = 1 /\ InBox' = 0 /\ box'.dropped = 0
        BY <2>3 DEF InBox
    <3>2. Taken(rec') = Taken(rec) + (box.dropped + 1) /\ GapsTold(rec')
        BY <1>0, <2>3 DEF Stepped
    <3> QED BY <1>0, <2>1, <3>1, <3>2 DEF FramesInv, Accounted
  <2> QED BY <1>0, <1>4, <2>2, <2>3, TakeFrameSteps
<1> QED BY <1>1, <1>2, <1>3, <1>4 DEF RecorderNext, RecorderPass

\* No frame slips between the mailbox, the gap, a closing segment and the figures
\* of the manifest, whatever the capture stage, the encoder, a resize, the budget
\* or a fault did (Mailbox, handle_frame, close_segment, finish).
THEOREM FramesAddUp == RecorderSpec => []FramesAccounted
<1>1. RecorderInit(Verb) => FramesInv
  <2> SUFFICES ASSUME RecorderInit(Verb) PROVE FramesInv
      OBVIOUS
  <2>1. captured = 0 /\ box = [frame |-> NoFrame, dropped |-> 0] /\ rec.seg = NoSeg
        /\ rec.told = 0 /\ rec.gap = 0 /\ rec.dropped = 0 /\ rec.encoded = 0 /\ rec.wasted = 0
      BY DEF RecorderInit
  <2> QED BY <2>1 DEF FramesInv, Accounted, GapsTold, Taken, Pending, InBox
<1>2. TypeInv /\ FramesInv => FramesAccounted
  <2> SUFFICES ASSUME TypeInv, FramesInv PROVE FramesAccounted
      OBVIOUS
  <2>1. captured = Taken(rec) + box.dropped + InBox /\ GapsTold(rec) /\ box.dropped \in Nat
      BY DEF TypeInv, CaptureInv, FramesInv, Accounted
  <2>2. rec.encoded \in Nat /\ rec.dropped \in Nat /\ rec.wasted \in Nat /\ Pending(rec.seg) \in Nat
      BY TakenIsNat DEF TypeInv, RecInv
  <2> DEFINE p == Pending(rec.seg)
  <2>3. captured = rec.encoded + rec.dropped + rec.wasted + box.dropped
                   + (IF box.frame = NoFrame THEN 0 ELSE 1) + p
      BY <2>1, <2>2 DEF Taken, InBox
  <2>4. p = IF rec.seg = NoSeg THEN 0 ELSE Len(rec.seg.pending)
      BY DEF Pending
  <2> HIDE DEF p
  <2> QED BY <2>1, <2>3, <2>4 DEF FramesAccounted, GapsTold
<1> QED BY <1>1, <1>2, FramesStep, TypeHolds, PTL DEF RecorderSpec

-----------------------------------------------------------------------------
(* The recorder implements RecordPromise *)

LEMMA SameSeq ==
    ASSUME NEW s \in Seq(Nat), NEW t \in Seq(Nat), Len(s) = Len(t),
           \A i \in 1..Len(s) : s[i] = t[i]
    PROVE  s = t
OBVIOUS

LEMMA JoinNothing == ASSUME NEW s \in Seq(Nat) PROVE s \o <<>> = s /\ <<>> \o s = s
OBVIOUS

LEMMA WholeIsAll == ASSUME NEW s \in Seq(Nat) PROVE SubSeq(s, 1, Len(s)) = s
<1> DEFINE t == SubSeq(s, 1, Len(s))
<1>1. t \in Seq(Nat) /\ Len(t) = Len(s) /\ \A i \in 1..Len(s) : t[i] = s[i]
    BY Taken1
<1> HIDE DEF t
<1>2. t = s
    BY <1>1, SameSeq
<1> QED BY <1>2 DEF t

LEMMA NoneTaken == ASSUME NEW s \in Seq(Nat) PROVE SubSeq(s, 1, 0) = <<>>
OBVIOUS

LEMMA SingleOf == ASSUME NEW x \in Nat PROVE <<x>> \in Seq(Nat) /\ Len(<<x>>) = 1 /\ <<x>>[1] = x
OBVIOUS

LEMMA Behind ==
    ASSUME NEW a \in Nat, NEW b \in Nat, NEW i \in Nat, i > a, i <= a + b
    PROVE  i - a \in 1..b /\ i - a \in 1..b + 1 /\ i = a + (i - a) /\ i \in 1..a + b
OBVIOUS

\* Sequences built in two ways, compared element by element.
LEMMA AppendOver ==
    ASSUME NEW s \in Seq(Nat), NEW t \in Seq(Nat), NEW x \in Nat
    PROVE  s \o Append(t, x) = Append(s \o t, x)
<1> DEFINE tx == Append(t, x)
           st == s \o t
           l == s \o tx
           r == Append(st, x)
<1>1. /\ tx \in Seq(Nat) /\ Len(tx) = Len(t) + 1 /\ tx[Len(t) + 1] = x
      /\ \A i \in 1..Len(t) : tx[i] = t[i]
    BY Appended
<1>2. /\ st \in Seq(Nat) /\ Len(st) = Len(s) + Len(t)
      /\ \A i \in 1..Len(s) : st[i] = s[i]
      /\ \A i \in 1..Len(t) : st[Len(s) + i] = t[i]
    BY Joined
<1> HIDE DEF tx, st
<1>3. /\ l \in Seq(Nat) /\ Len(l) = Len(s) + Len(tx)
      /\ \A i \in 1..Len(s) : l[i] = s[i]
      /\ \A i \in 1..Len(tx) : l[Len(s) + i] = tx[i]
    BY <1>1, Joined
<1>4. /\ r \in Seq(Nat) /\ Len(r) = Len(st) + 1 /\ r[Len(st) + 1] = x
      /\ \A i \in 1..Len(st) : r[i] = st[i]
    BY <1>2, Appended
<1> HIDE DEF l, r
<1>5. Len(s) \in Nat /\ Len(t) \in Nat
    OBVIOUS
<1>6. ASSUME NEW i \in 1..Len(l) PROVE l[i] = r[i]
  <2>0. i \in Nat /\ i >= 1
      BY <1>1, <1>3, <1>5
  <2>1. CASE i <= Len(s)
    <3>1. i \in 1..Len(s) /\ i \in 1..Len(st)
        BY <2>0, <1>2, <1>5, <2>1
    <3> QED BY <1>2, <1>3, <1>4, <3>1
  <2>2. CASE i > Len(s) /\ i <= Len(s) + Len(t)
    <3> DEFINE j == i - Len(s)
    <3>1. j \in 1..Len(t) /\ i = Len(s) + j /\ j \in 1..Len(tx) /\ i \in 1..Len(st)
        BY <1>1, <1>2, <1>5, <2>0, <2>2, Behind
    <3> HIDE DEF j
    <3>2. l[i] = tx[j] /\ tx[j] = t[j]
      <4>1. l[Len(s) + j] = tx[j]
          BY <1>3, <3>1
      <4>2. tx[j] = t[j]
          BY <1>1, <3>1
      <4> QED BY <3>1, <4>1, <4>2
    <3>3. r[i] = st[i] /\ st[i] = t[j]
        BY <1>2, <1>4, <3>1
    <3> QED BY <3>2, <3>3
  <2>3. CASE i = Len(s) + Len(t) + 1
    <3> DEFINE j == Len(t) + 1
    <3>1. j \in 1..Len(tx) /\ i = Len(s) + j /\ i = Len(st) + 1 /\ tx[j] = x
        BY <1>1, <1>2, <1>5, <2>3
    <3> HIDE DEF j
    <3>2. l[i] = x
        BY <1>3, <3>1
    <3>3. r[i] = x
        BY <1>4, <3>1
    <3> QED BY <3>2, <3>3
  <2>4. Len(l) = Len(s) + Len(t) + 1
      BY <1>1, <1>3, <1>5
  <2>5. i <= Len(s) \/ (i > Len(s) /\ i <= Len(s) + Len(t)) \/ i = Len(s) + Len(t) + 1
    <3> DEFINE a == Len(s)
               b == Len(t)
    <3>1. a \in Nat /\ b \in Nat /\ i \in 1..a + b + 1
        BY <1>5, <2>4
    <3> HIDE DEF a, b
    <3>2. i <= a \/ (i > a /\ i <= a + b) \/ i = a + b + 1
        BY <3>1
    <3> QED BY <3>2 DEF a, b
  <2> QED BY <2>1, <2>2, <2>3, <2>5
<1>7. l = r
  <2>1. Len(l) = Len(r)
      BY <1>1, <1>2, <1>3, <1>4, <1>5
  <2> QED BY <1>3, <1>4, <1>6, <2>1, SameSeq
<1> QED BY <1>7 DEF l, r, tx, st

LEMMA JoinOver ==
    ASSUME NEW s \in Seq(Nat), NEW t \in Seq(Nat), NEW u \in Seq(Nat)
    PROVE  (s \o t) \o u = s \o (t \o u)
<1> DEFINE st == s \o t
           tu == t \o u
           l == st \o u
           r == s \o tu
<1>0. Len(s) \in Nat /\ Len(t) \in Nat /\ Len(u) \in Nat
    OBVIOUS
<1>1. /\ st \in Seq(Nat) /\ Len(st) = Len(s) + Len(t)
      /\ \A i \in 1..Len(s) : st[i] = s[i]
      /\ \A i \in 1..Len(t) : st[Len(s) + i] = t[i]
    BY Joined
<1>2. /\ tu \in Seq(Nat) /\ Len(tu) = Len(t) + Len(u)
      /\ \A i \in 1..Len(t) : tu[i] = t[i]
      /\ \A i \in 1..Len(u) : tu[Len(t) + i] = u[i]
    BY Joined
<1> HIDE DEF st, tu
<1>3. /\ l \in Seq(Nat) /\ Len(l) = Len(st) + Len(u)
      /\ \A i \in 1..Len(st) : l[i] = st[i]
      /\ \A i \in 1..Len(u) : l[Len(st) + i] = u[i]
    BY <1>1, Joined
<1>4. /\ r \in Seq(Nat) /\ Len(r) = Len(s) + Len(tu)
      /\ \A i \in 1..Len(s) : r[i] = s[i]
      /\ \A i \in 1..Len(tu) : r[Len(s) + i] = tu[i]
    BY <1>2, Joined
<1> HIDE DEF l, r
<1>5. ASSUME NEW i \in 1..Len(l) PROVE l[i] = r[i]
  <2>0. i \in Nat /\ i >= 1 /\ i <= Len(s) + Len(t) + Len(u)
      BY <1>0, <1>1, <1>3
  <2>1. CASE i <= Len(s)
    <3>1. i \in 1..Len(s) /\ i \in 1..Len(st)
        BY <1>0, <1>1, <2>0, <2>1
    <3> QED BY <1>1, <1>3, <1>4, <3>1
  <2>2. CASE i > Len(s) /\ i <= Len(s) + Len(t)
    <3> DEFINE j == i - Len(s)
    <3>1. j \in 1..Len(t) /\ i = Len(s) + j
        BY <1>0, <2>0, <2>2, Behind
    <3>2. i \in 1..Len(st)
        BY <1>0, <1>1, <2>0, <2>2
    <3> HIDE DEF j
    <3>3. j \in 1..Len(tu)
        BY <1>0, <1>2, <3>1
    <3>4. l[i] = st[i] /\ st[Len(s) + j] = t[j]
        BY <1>1, <1>3, <3>1, <3>2
    <3>5. r[Len(s) + j] = tu[j] /\ tu[j] = t[j]
        BY <1>2, <1>4, <3>1, <3>3
    <3> QED BY <3>1, <3>4, <3>5
  <2>3. CASE i > Len(s) + Len(t)
    <3> DEFINE j == i - (Len(s) + Len(t))
               k == Len(t) + j
    <3>1. j \in 1..Len(u) /\ i = (Len(s) + Len(t)) + j
        BY <1>0, <2>0, <2>3, Behind
    <3> HIDE DEF j
    <3>2. k \in 1..Len(tu) /\ i = Len(s) + k /\ i = Len(st) + j
        BY <1>0, <1>1, <1>2, <3>1
    <3>3. tu[k] = u[j]
        BY <1>2, <3>1
    <3> HIDE DEF k
    <3>4. l[Len(st) + j] = u[j]
        BY <1>3, <3>1
    <3>5. r[Len(s) + k] = tu[k]
        BY <1>4, <3>2
    <3> QED BY <3>2, <3>3, <3>4, <3>5
  <2>4. i <= Len(s) \/ (i > Len(s) /\ i <= Len(s) + Len(t)) \/ i > Len(s) + Len(t)
      BY <1>0, <2>0
  <2> QED BY <2>1, <2>2, <2>3, <2>4
<1>6. Len(l) = Len(r)
    BY <1>0, <1>1, <1>2, <1>3, <1>4
<1>7. l = r
    BY <1>3, <1>4, <1>5, <1>6, SameSeq
<1> QED BY <1>7 DEF l, r, st, tu

LEMMA PrefixOf ==
    ASSUME NEW s \in Seq(Nat), NEW t \in Seq(Nat), Len(s) <= Len(t),
           \A i \in 1..Len(s) : s[i] = t[i]
    PROVE  IsPrefix(s, t)
<1> DEFINE a == SubSeq(s, 1, Len(s))
           b == SubSeq(t, 1, Len(s))
<1>1. Len(s) \in Nat /\ Len(t) \in Nat
    OBVIOUS
<1>2. a \in Seq(Nat) /\ Len(a) = Len(s) /\ \A i \in 1..Len(s) : a[i] = s[i]
    BY <1>1, Taken1
<1>3. b \in Seq(Nat) /\ Len(b) = Len(s) /\ \A i \in 1..Len(s) : b[i] = t[i]
    BY <1>1, Taken1
<1> HIDE DEF a, b
<1>4. a = b
    BY <1>2, <1>3, SameSeq
<1> QED BY <1>1, <1>4 DEF a, b, IsPrefix

\* What a failed write leaves: a part of what was on its way.
LEMMA PartIsPrefix ==
    ASSUME NEW s \in Seq(Nat), NEW t \in Seq(Nat), NEW u \in Seq(Nat), NEW n \in 0..Len(t)
    PROVE  IsPrefix(s \o SubSeq(t, 1, n), s \o (t \o u))
<1> DEFINE part == SubSeq(t, 1, n)
           tu == t \o u
           l == s \o part
           r == s \o tu
<1>0. Len(s) \in Nat /\ Len(t) \in Nat /\ Len(u) \in Nat /\ n \in Nat
    OBVIOUS
<1>1. part \in Seq(Nat) /\ Len(part) = n /\ \A i \in 1..n : part[i] = t[i]
    BY Taken1
<1>2. /\ tu \in Seq(Nat) /\ Len(tu) = Len(t) + Len(u)
      /\ \A i \in 1..Len(t) : tu[i] = t[i]
    BY Joined
<1> HIDE DEF part, tu
<1>3. /\ l \in Seq(Nat) /\ Len(l) = Len(s) + Len(part)
      /\ \A i \in 1..Len(s) : l[i] = s[i]
      /\ \A i \in 1..Len(part) : l[Len(s) + i] = part[i]
    BY <1>1, Joined
<1>4. /\ r \in Seq(Nat) /\ Len(r) = Len(s) + Len(tu)
      /\ \A i \in 1..Len(s) : r[i] = s[i]
      /\ \A i \in 1..Len(tu) : r[Len(s) + i] = tu[i]
    BY <1>2, Joined
<1> HIDE DEF l, r
<1>5. ASSUME NEW i \in 1..Len(l) PROVE l[i] = r[i]
  <2>1. CASE i <= Len(s)
    <3>1. i \in 1..Len(s)
        BY <1>0, <2>1
    <3> QED BY <1>3, <1>4, <3>1
  <2>2. CASE i > Len(s)
    <3> DEFINE j == i - Len(s)
    <3>1. j \in 1..n /\ j \in 1..Len(t) /\ j \in 1..Len(tu) /\ i = Len(s) + j
        BY <1>0, <1>1, <1>2, <1>3, <2>2
    <3> HIDE DEF j
    <3>2. l[i] = t[j] /\ r[i] = t[j]
        BY <1>1, <1>2, <1>3, <1>4, <3>1
    <3> QED BY <3>2
  <2> QED BY <1>0, <1>1, <1>3, <2>1, <2>2
<1>6. Len(l) <= Len(r)
    BY <1>0, <1>1, <1>2, <1>3, <1>4
<1>7. IsPrefix(l, r)
    BY <1>3, <1>4, <1>5, <1>6, PrefixOf
<1> QED BY <1>7 DEF l, r, part, tu

LEMMA LogIsPrefix ==
    ASSUME NEW s \in Seq(Nat), NEW u \in Seq(Nat) PROVE IsPrefix(s, s \o u)
<1> DEFINE r == s \o u
<1>1. r \in Seq(Nat) /\ Len(r) = Len(s) + Len(u) /\ \A i \in 1..Len(s) : r[i] = s[i]
    BY Joined
<1>2. Len(s) \in Nat /\ Len(u) \in Nat
    OBVIOUS
<1> HIDE DEF r
<1>3. Len(s) <= Len(r) /\ \A i \in 1..Len(s) : s[i] = r[i]
    BY <1>1, <1>2
<1>4. IsPrefix(s, r)
    BY <1>1, <1>3, PrefixOf
<1> QED BY <1>4 DEF r

\* The event log as the promise sees it.
Kept == rec.log \o OnTheWay
Missing == rec.lost + IF rec.failed THEN 0 ELSE lost

LEMMA KeptViews ==
    ASSUME QueueInv, RecInv
    PROVE  /\ rec.log \in Seq(Nat) /\ rec.lost \in Nat /\ OnTheWay \in Seq(Nat)
           /\ rec.failed => Kept = rec.log /\ Missing = rec.lost
           /\ ~rec.failed /\ ~closed => Kept = rec.log \o queue /\ Missing = rec.lost + lost
           /\ ~rec.failed /\ last > 0 => Kept = rec.log \o (queue \o <<last>>) /\ Missing = rec.lost + lost
<1>1. rec.log \in Seq(Nat) /\ rec.lost \in Nat /\ rec.last \in Nat
    BY DEF RecInv, IsRec, Fields
<1>2. queue \in Seq(Nat) /\ last \in Nat /\ <<>> \in Seq(Nat)
    BY DEF QueueInv
<1>3. CASE rec.failed
  <2>1. OnTheWay = <<>>
      BY <1>3 DEF OnTheWay
  <2>2. rec.log \o <<>> = rec.log
      BY <1>1, JoinNothing
  <2>3. Kept = rec.log
      BY <2>1, <2>2 DEF Kept
  <2>4. Missing = rec.lost
      BY <1>1, <1>3 DEF Missing
  <2> QED BY <1>1, <1>2, <1>3, <2>1, <2>3, <2>4
<1>4. CASE ~rec.failed /\ last > 0
  <2>1. OnTheWay = queue \o <<last>>
      BY <1>4 DEF OnTheWay
  <2>2. <<last>> \in Seq(Nat)
      BY <1>2, SingleOf
  <2> DEFINE end == <<last>>
  <2>3. queue \o end \in Seq(Nat)
      BY <1>2, <2>2, Joined
  <2>4. closed
      BY <1>4 DEF QueueInv
  <2>5. Missing = rec.lost + lost
      BY <1>4 DEF Missing
  <2> QED BY <1>1, <1>4, <2>1, <2>3, <2>4, <2>5 DEF Kept
<1>5. CASE ~rec.failed /\ ~(last > 0)
  <2> DEFINE end == IF rec.pc = "finish" /\ rec.last > 0 THEN <<rec.last>> ELSE <<>>
  <2>1. OnTheWay = queue \o end
      BY <1>5 DEF OnTheWay
  <2>2. end \in Seq(Nat)
      BY <1>1, <1>2, SingleOf
  <2>3. ~closed => end = <<>>
      BY <1>5 DEF RecInv
  <2> HIDE DEF end
  <2>4. queue \o end \in Seq(Nat)
      BY <1>2, <2>2, Joined
  <2>5. ~closed => OnTheWay = queue
    <3>1. queue \o <<>> = queue
        BY <1>2, JoinNothing
    <3> QED BY <2>1, <2>3, <3>1
  <2>6. Missing = rec.lost + lost
      BY <1>5 DEF Missing
  <2> QED BY <1>1, <1>5, <2>1, <2>4, <2>5, <2>6 DEF Kept
<1> QED BY <1>3, <1>4, <1>5

LEMMA MissingViews ==
    ASSUME QueueInv, RecInv
    PROVE  /\ rec.lost \in Nat /\ Missing \in Nat
           /\ rec.failed => Missing = rec.lost
           /\ ~rec.failed => Missing = rec.lost + lost
<1>1. rec.lost \in Nat /\ lost \in Nat
    BY DEF QueueInv, RecInv, IsRec, Fields
<1>2. CASE rec.failed
  <2>1. Missing = rec.lost
      BY <1>1, <1>2 DEF Missing
  <2> QED BY <1>1, <1>2, <2>1
<1>3. CASE ~rec.failed
  <2>1. Missing = rec.lost + lost
      BY <1>1, <1>3 DEF Missing
  <2> QED BY <1>1, <1>3, <2>1
<1> QED BY <1>2, <1>3

\* The steps of the promise, in the terms of the recorder.
LEMMA OfferIs ==
    ASSUME ~closed, stamps' = stamps + 1, closed' = closed, rec'.failed = rec.failed,
           \/ Kept' = Append(Kept, stamps') /\ Missing' = Missing
           \/ Kept' = Kept /\ Missing' = Missing + 1
           \/ rec.failed /\ Kept' = Kept /\ Missing' = Missing
    PROVE  Promise!Offer
BY DEF Promise!Offer, Promise!Keep, Kept, Missing

LEMMA SealIs ==
    ASSUME ~closed, closed', rec'.failed = rec.failed,
           \/ /\ stamps' = stamps + 1 /\ Missing' = Missing
              /\ Kept' = Append(Kept, stamps') \/ (rec.failed /\ Kept' = Kept)
           \/ stamps' = stamps /\ Missing' = Missing /\ Kept' = Kept
    PROVE  Promise!Seal
BY DEF Promise!Seal, Promise!Keep, Kept, Missing

LEMMA BreakIs ==
    ASSUME rec'.failed, IsPrefix(Kept', Kept), Missing' \in 0..Missing,
           stamps' = stamps, closed' = closed, rec'.failed = TRUE
    PROVE  Promise!Break
BY DEF Promise!Break, Promise!IsPrefix, IsPrefix, Kept, Missing

LEMMA StutterIs ==
    ASSUME Kept' = Kept, Missing' = Missing, stamps' = stamps, closed' = closed,
           rec'.failed = rec.failed
    PROVE  UNCHANGED Promise!vars
BY DEF Promise!vars, Kept, Missing

LEMMA KeptOpen == QueueInv /\ RecInv /\ ~closed /\ ~rec.failed => Kept = rec.log \o queue
BY KeptViews

LEMMA KeptFailed == QueueInv /\ RecInv /\ rec.failed => Kept = rec.log
BY KeptViews

LEMMA KeptEnding ==
    QueueInv /\ RecInv /\ ~rec.failed /\ last > 0 => Kept = rec.log \o (queue \o <<last>>)
BY KeptViews

LEMMA MissingFailed == QueueInv /\ RecInv /\ rec.failed => Missing = rec.lost
BY MissingViews

LEMMA MissingOpen == QueueInv /\ RecInv /\ ~rec.failed => Missing = rec.lost + lost
BY MissingViews

\* Two states of the recorder, side by side.
Next2 == QueueInv /\ RecInv /\ (QueueInv /\ RecInv)'

LEMMA KeptOpen2 == (QueueInv /\ RecInv /\ ~closed /\ ~rec.failed => Kept = rec.log \o queue)'
BY KeptOpen, PTL

LEMMA KeptFailed2 == (QueueInv /\ RecInv /\ rec.failed => Kept = rec.log)'
BY KeptFailed, PTL

LEMMA KeptEnding2 ==
    (QueueInv /\ RecInv /\ ~rec.failed /\ last > 0 => Kept = rec.log \o (queue \o <<last>>))'
BY KeptEnding, PTL

LEMMA MissingFailed2 == (QueueInv /\ RecInv /\ rec.failed => Missing = rec.lost)'
BY MissingFailed, PTL

LEMMA MissingOpen2 == (QueueInv /\ RecInv /\ ~rec.failed => Missing = rec.lost + lost)'
BY MissingOpen, PTL

\* An offer to the open queue is an offer of the promise.
LEMMA OfferMaps == ASSUME Next2, Offered, rec' = rec PROVE Promise!Offer
<1>0. QueueInv /\ RecInv /\ QueueInv' /\ RecInv'
    BY DEF Next2
<1>1. /\ ~closed /\ ~closed' /\ closed' = closed /\ stamps' = stamps + 1
      /\ \/ queue' = Append(queue, stamps + 1) /\ lost' = lost
         \/ queue' = queue /\ lost' = lost + 1
    BY <1>0, OfferedSteps DEF Offered
<1>2. /\ rec.log \in Seq(Nat) /\ rec.lost \in Nat
      /\ queue \in Seq(Nat) /\ stamps + 1 \in Nat /\ lost \in Nat
  <2>1. rec.log \in Seq(Nat) /\ rec.lost \in Nat
      BY <1>0 DEF RecInv, IsRec, Fields
  <2>2. queue \in Seq(Nat) /\ stamps + 1 \in Nat /\ lost \in Nat
      BY <1>0 DEF QueueInv
  <2> QED BY <2>1, <2>2
<1>3. CASE rec.failed
  <2>1. Kept = rec.log /\ Kept' = rec.log /\ Missing = rec.lost /\ Missing' = rec.lost
      BY <1>0, <1>3, KeptFailed, KeptFailed2, MissingFailed, MissingFailed2
  <2> QED BY <1>1, <1>3, <2>1, OfferIs
<1>4. CASE ~rec.failed
  <2> DEFINE k == rec.log \o queue
  <2>1. Kept = k /\ Kept' = rec.log \o queue'
      BY <1>0, <1>1, <1>4, KeptOpen, KeptOpen2
  <2>2. Missing = rec.lost + lost /\ Missing' = rec.lost + lost'
      BY <1>0, <1>4, MissingOpen, MissingOpen2
  <2>3. CASE queue' = Append(queue, stamps + 1) /\ lost' = lost
    <3>1. rec.log \o Append(queue, stamps + 1) = Append(k, stamps + 1)
        BY <1>2, AppendOver, Zenon
    <3> HIDE DEF k
    <3>2. Kept' = Append(Kept, stamps')
        BY <1>1, <2>1, <2>3, <3>1, Zenon
    <3> QED BY <1>1, <2>2, <2>3, <3>2, OfferIs
  <2>4. CASE queue' = queue /\ lost' = lost + 1
    <3>1. Kept' = Kept
        BY <2>1, <2>4, Zenon
    <3>2. Missing' = Missing + 1
      <4> HIDE DEF k
      <4>1. rec.lost \in Nat /\ lost \in Nat
          BY <1>2
      <4>2. Missing = rec.lost + lost /\ Missing' = rec.lost + (lost + 1)
          BY <2>2, <2>4
      <4> QED BY <4>1, <4>2
    <3> QED BY <1>1, <3>1, <3>2, OfferIs
  <2> QED BY <1>1, <2>3, <2>4
<1> QED BY <1>3, <1>4

\* The end, with a last event or without one.
LEMMA SealMaps == ASSUME Next2, DetachSink \/ DropSink, rec' = rec PROVE Promise!Seal
<1>0. QueueInv /\ RecInv /\ QueueInv' /\ RecInv'
    BY DEF Next2
<1>1. ~closed /\ last = 0 /\ closed' /\ queue' = queue /\ lost' = lost
    BY <1>0 DEF QueueInv, DetachSink, DropSink, OnDetach
<1>2. rec.log \in Seq(Nat) /\ rec.lost \in Nat /\ queue \in Seq(Nat) /\ stamps \in Nat /\ lost \in Nat
    BY <1>0 DEF QueueInv, RecInv, IsRec, Fields
<1>3. CASE rec.failed
  <2>1. Kept = rec.log /\ Kept' = rec.log /\ Missing = rec.lost /\ Missing' = rec.lost
      BY <1>0, <1>3, KeptFailed, KeptFailed2, MissingFailed, MissingFailed2
  <2>2. stamps' = stamps + 1 \/ stamps' = stamps
      BY DEF DetachSink, DropSink, OnDetach
  <2> QED BY <1>1, <1>3, <2>1, <2>2, SealIs
<1>4. CASE ~rec.failed
  <2> DEFINE k == rec.log \o queue
  <2>1. Kept = k
      BY <1>0, <1>1, <1>4, KeptOpen
  <2>2. Missing = rec.lost + lost /\ Missing' = rec.lost + lost'
      BY <1>0, <1>4, MissingOpen, MissingOpen2
  <2>3. Missing' = Missing
    <3> HIDE DEF k
    <3> QED BY <1>1, <2>2
  <2>4. CASE DetachSink
    <3>1. stamps' = stamps + 1 /\ last' = stamps + 1 /\ last' > 0 /\ stamps + 1 \in Nat
        BY <1>2, <2>4 DEF DetachSink, OnDetach
    <3>2. Kept' = rec.log \o (queue \o <<last'>>)
        BY <1>0, <1>1, <1>4, <3>1, KeptEnding2
    <3>3. queue \o <<stamps + 1>> = Append(queue, stamps + 1)
        BY <1>2, <3>1
    <3>4. rec.log \o Append(queue, stamps + 1) = Append(k, stamps + 1)
        BY <1>2, <3>1, AppendOver, Zenon
    <3> HIDE DEF k
    <3>5. Kept' = Append(Kept, stamps')
        BY <2>1, <3>1, <3>2, <3>3, <3>4, Zenon
    <3> QED BY <1>1, <2>3, <3>1, <3>5, SealIs
  <2>5. CASE DropSink
    <3>1. stamps' = stamps /\ OnTheWay' = OnTheWay
        BY <1>1, <2>5 DEF DropSink, OnTheWay
    <3>2. Kept' = Kept
        BY <3>1 DEF Kept
    <3> QED BY <1>1, <2>3, <3>1, <3>2, SealIs
  <2> QED BY <2>4, <2>5
<1> QED BY <1>3, <1>4

\* A step that fails leaves the log as it was.
LEMMA FailureMaps ==
    ASSUME Next2, ~rec.failed, rec'.failed, rec'.log = rec.log, rec'.lost = rec.lost,
           stamps' = stamps, closed' = closed
    PROVE  Promise!Break
<1>0. QueueInv /\ RecInv /\ QueueInv' /\ RecInv'
    BY DEF Next2
<1>1. Kept' = rec.log /\ Missing' = rec.lost
    BY <1>0, KeptFailed2, MissingFailed2
<1>2. rec.log \in Seq(Nat) /\ OnTheWay \in Seq(Nat)
    BY <1>0, KeptViews
<1>3. IsPrefix(Kept', Kept)
  <2>1. IsPrefix(rec.log, rec.log \o OnTheWay)
      BY <1>2, LogIsPrefix, Zenon
  <2> QED BY <1>1, <2>1, Zenon DEF Kept
<1>4. Missing' \in 0..Missing
  <2>1. Missing = rec.lost + lost
      BY <1>0, MissingOpen
  <2>2. rec.lost \in Nat /\ lost \in Nat
      BY <1>0, MissingViews DEF QueueInv
  <2> QED BY <1>1, <2>1, <2>2
<1>5. rec'.failed = TRUE
    BY <1>0 DEF RecInv, IsRec, Fields
<1> QED BY <1>3, <1>4, <1>5, BreakIs

LEMMA WorkMaps ==
    ASSUME Next2, IsRec(rec), IsRec(rec'), rec'.log = rec.log, rec'.lost = rec.lost,
           rec'.last = rec.last,
           rec.failed => rec'.failed, rec.pc # "finish", rec'.pc # "finish", UNCHANGED logVars
    PROVE  Promise!Break \/ UNCHANGED Promise!vars
<1>0. QueueInv /\ RecInv /\ QueueInv' /\ RecInv'
    BY DEF Next2
<1>1. stamps' = stamps /\ closed' = closed /\ last' = last /\ queue' = queue /\ lost' = lost
    BY DEF logVars
<1>2. rec.failed \in BOOLEAN /\ rec'.failed \in BOOLEAN
    BY DEF IsRec, Fields
<1>3. CASE rec.failed
  <2>1. Kept = rec.log /\ Kept' = rec.log /\ Missing = rec.lost /\ Missing' = rec.lost
      BY <1>0, <1>3, KeptFailed, KeptFailed2, MissingFailed, MissingFailed2
  <2> QED BY <1>1, <1>2, <1>3, <2>1, StutterIs
<1>4. CASE ~rec.failed /\ rec'.failed
    BY <1>1, <1>4, FailureMaps
<1>5. CASE ~rec.failed /\ ~rec'.failed
  <2>1. OnTheWay' = OnTheWay
      BY <1>1, <1>5 DEF OnTheWay
  <2>2. Kept' = Kept
      BY <2>1 DEF Kept
  <2>3. Missing' = Missing
      BY <1>0, <1>1, <1>5, MissingOpen, MissingOpen2
  <2> QED BY <1>1, <1>2, <1>5, <2>2, <2>3, StutterIs
<1> QED BY <1>3, <1>4, <1>5

\* What the queue held is in the log, or a write has failed.
LEMMA DrainMaps ==
    ASSUME Next2, now \in Nat, Drain PROVE Promise!Break \/ UNCHANGED Promise!vars
<1>0. QueueInv /\ RecInv /\ QueueInv' /\ RecInv' /\ IsRec(rec)
    BY DEF Next2, RecInv
<1>1. rec.pc = "drain" /\ queue' = <<>> /\ lost' = 0 /\ last' = 0 /\ IsRec(rec')
      /\ \E n \in 0..Len(queue), count \in BOOLEAN, bad \in BOOLEAN : Written(n, count, bad)
    BY <1>0, DrainSteps
<1>2. stamps' = stamps /\ closed' = closed
    BY DEF Drain
<1>3. PICK n \in 0..Len(queue), count \in BOOLEAN, bad \in BOOLEAN : Written(n, count, bad)
    BY <1>1
<1> DEFINE end == IF last > 0 THEN <<last>> ELSE <<>>
           part == SubSeq(queue, 1, n)
<1>4. /\ rec.log \in Seq(Nat) /\ rec.lost \in Nat /\ rec.failed \in BOOLEAN /\ rec'.failed \in BOOLEAN
  <2>1. rec.log \in Seq(Nat) /\ rec.lost \in Nat /\ rec.failed \in BOOLEAN
      BY <1>0 DEF IsRec, Fields
  <2>2. rec'.failed \in BOOLEAN
      BY <1>1 DEF IsRec, Fields
  <2> QED BY <2>1, <2>2
<1>5. queue \in Seq(Nat) /\ lost \in Nat /\ last \in Nat /\ (last > 0 => closed)
    BY <1>0 DEF QueueInv
<1>6. end \in Seq(Nat)
  <2>1. last > 0 => <<last>> \in Seq(Nat)
      BY <1>5, SingleOf
  <2>2. <<>> \in Seq(Nat)
      OBVIOUS
  <2> QED BY <2>1, <2>2
<1>7. ~rec.failed => Kept = rec.log \o (queue \o end)
    BY <1>1 DEF Kept, OnTheWay
<1>8. rec'.log = rec.log \o part
    BY <1>3 DEF Written
<1>9. CASE rec.failed
  <2>1. n = 0 /\ rec'.failed /\ rec'.lost = rec.lost
      BY <1>3, <1>4, <1>9 DEF Written
  <2>2. part = <<>>
      BY <1>5, <2>1, NoneTaken
  <2>3. rec'.log = rec.log
    <3>1. rec.log \o <<>> = rec.log
        BY <1>4, JoinNothing
    <3> QED BY <1>8, <2>2, <3>1
  <2>4. Kept = rec.log /\ Kept' = rec.log /\ Missing = rec.lost /\ Missing' = rec.lost
      BY <1>0, <1>9, <2>1, <2>3, KeptFailed, KeptFailed2, MissingFailed, MissingFailed2
  <2> QED BY <1>2, <1>4, <1>9, <2>1, <2>4, StutterIs
<1>10. CASE ~rec.failed /\ rec'.failed
  <2>1. IsPrefix(rec.log \o part, rec.log \o (queue \o end))
    <3> HIDE DEF end
    <3> QED BY <1>4, <1>5, <1>6, PartIsPrefix
  <2> HIDE DEF part, end
  <2>2. Kept' = rec'.log /\ Missing' = rec'.lost
      BY <1>0, <1>10, KeptFailed2, MissingFailed2
  <2>3. IsPrefix(Kept', Kept)
      BY <1>7, <1>8, <1>10, <2>1, <2>2, Zenon
  <2>4. rec'.lost \in {rec.lost, rec.lost + lost}
      BY <1>3, <1>4 DEF Written
  <2>5. Missing = rec.lost + lost
      BY <1>0, <1>10, MissingOpen
  <2>6. Missing' \in 0..Missing
      BY <1>4, <1>5, <2>2, <2>4, <2>5
  <2>7. rec'.failed = TRUE
      BY <1>4, <1>10
  <2> QED BY <1>2, <2>3, <2>6, <2>7, BreakIs
<1>11. CASE ~rec.failed /\ ~rec'.failed
  <2>1. n = Len(queue) /\ (count \/ ~(lost > 0)) /\ rec'.last = last
        /\ (closed => rec'.pc = "finish")
      BY <1>3, <1>4, <1>5, <1>11 DEF Written
  <2>2. part = queue
      BY <1>5, <2>1, WholeIsAll
  <2>3. rec'.lost = rec.lost + lost
      BY <1>3, <1>4, <1>5, <2>1 DEF Written
  <2>4. Missing' = Missing
    <3>1. Missing = rec.lost + lost /\ Missing' = rec'.lost + lost'
        BY <1>0, <1>11, MissingOpen, MissingOpen2
    <3> HIDE DEF end, part
    <3> QED BY <1>1, <1>4, <1>5, <2>3, <3>1
  <2>5. OnTheWay' = queue' \o end
      BY <1>1, <1>5, <1>11, <2>1 DEF OnTheWay
  <2> HIDE DEF end
  <2>6. OnTheWay' = end
    <3>1. <<>> \o end = end
        BY <1>6, JoinNothing
    <3> QED BY <1>1, <2>5, <3>1, Zenon
  <2>7. Kept' = Kept
    <3>1. Kept' = (rec.log \o queue) \o end
        BY <1>8, <2>2, <2>6, Zenon DEF Kept
    <3>2. (rec.log \o queue) \o end = rec.log \o (queue \o end)
        BY <1>4, <1>5, <1>6, JoinOver, Zenon
    <3> QED BY <1>7, <1>11, <3>1, <3>2, Zenon
  <2> QED BY <1>2, <1>4, <1>11, <2>4, <2>7, StutterIs
<1> QED BY <1>9, <1>10, <1>11

\* The last event is in the log, or the last write has failed.
LEMMA FinishMaps ==
    ASSUME Next2, FinishRecording PROVE Promise!Break \/ UNCHANGED Promise!vars
<1>0. QueueInv /\ RecInv /\ QueueInv' /\ RecInv' /\ IsRec(rec)
    BY DEF Next2, RecInv
<1> DEFINE whole == IF rec.last = 0 THEN rec.log ELSE Append(rec.log, rec.last)
<1>1. /\ rec.pc = "finish" /\ rec'.pc = "done" /\ IsRec(rec')
      /\ rec'.lost = rec.lost /\ rec'.last = rec.last
      /\ rec.failed => rec'.failed
      /\ rec'.failed => rec'.log = rec.log
      /\ ~rec'.failed => rec'.log = whole
    BY <1>0, FinishSteps
<1> HIDE DEF whole
<1>2. stamps' = stamps /\ closed' = closed /\ last' = last /\ queue' = queue /\ lost' = lost
    BY DEF FinishRecording, logVars
<1>3. rec.failed \in BOOLEAN /\ rec'.failed \in BOOLEAN /\ rec.log \in Seq(Nat) /\ rec.last \in Nat
    BY <1>0, <1>1 DEF IsRec, Fields
<1>4. CASE rec.failed
  <2>1. Kept = rec.log /\ Kept' = rec.log /\ Missing = rec.lost /\ Missing' = rec.lost
      BY <1>0, <1>1, <1>4, KeptFailed, KeptFailed2, MissingFailed, MissingFailed2
  <2> QED BY <1>1, <1>2, <1>3, <1>4, <2>1, StutterIs
<1>5. CASE ~rec.failed /\ rec'.failed
    BY <1>1, <1>2, <1>5, FailureMaps
<1>6. CASE ~rec.failed /\ ~rec'.failed
  <2>1. queue = <<>> /\ last = 0
      BY <1>0, <1>1, <1>6 DEF RecInv
  <2>2. Missing' = Missing
      BY <1>0, <1>1, <1>2, <1>6, MissingOpen, MissingOpen2
  <2>3. Kept' = whole
    <3>1. OnTheWay' = <<>> \o <<>>
        BY <1>1, <1>2, <1>6, <2>1 DEF OnTheWay
    <3>2. OnTheWay' = <<>>
        BY <3>1
    <3>3. rec'.log = whole /\ rec'.log \in Seq(Nat)
        BY <1>1, <1>6 DEF IsRec, Fields
    <3>4. rec'.log \o <<>> = rec'.log
        BY <3>3, JoinNothing
    <3> QED BY <3>2, <3>3, <3>4, Zenon DEF Kept
  <2>4. Kept = whole
    <3>1. CASE rec.last = 0
      <4>1. OnTheWay = <<>> \o <<>>
          BY <1>1, <1>6, <2>1, <3>1 DEF OnTheWay
      <4>2. OnTheWay = <<>>
          BY <4>1
      <4>3. rec.log \o <<>> = rec.log
          BY <1>3, JoinNothing
      <4> QED BY <3>1, <4>2, <4>3 DEF Kept, whole
    <3>2. CASE rec.last # 0
      <4> DEFINE x == rec.last
      <4>1. OnTheWay = <<>> \o <<x>>
          BY <1>1, <1>3, <1>6, <2>1, <3>2 DEF OnTheWay
      <4>2. <<>> \o <<x>> = <<x>>
          BY <1>3
      <4>3. rec.log \o <<x>> = Append(rec.log, x)
          BY <1>3
      <4>4. whole = Append(rec.log, x)
          BY <3>2 DEF whole
      <4> HIDE DEF x
      <4> QED BY <4>1, <4>2, <4>3, <4>4, Zenon DEF Kept
    <3> QED BY <3>1, <3>2
  <2> QED BY <1>2, <1>3, <1>6, <2>2, <2>3, <2>4, StutterIs
<1> QED BY <1>4, <1>5, <1>6

\* Every step of a recording is a step of the promise, or none.
LEMMA StepMaps ==
    TypeInv /\ TypeInv' /\ [RecorderNext]_recorderVars => [Promise!Next]_(Promise!vars)
<1> SUFFICES ASSUME TypeInv, TypeInv', [RecorderNext]_recorderVars
             PROVE  [Promise!Next]_(Promise!vars)
    OBVIOUS
<1>0. Next2 /\ QueueInv /\ RecInv /\ IsRec(rec) /\ CaptureInv /\ IsRec(rec') /\ now \in Nat
    BY DEF Next2, TypeInv, RecInv, CaptureInv
<1>1. ASSUME UNCHANGED <<logVars, rec>> PROVE UNCHANGED Promise!vars
  <2>1. OnTheWay' = OnTheWay /\ rec' = rec /\ stamps' = stamps /\ closed' = closed /\ lost' = lost
      BY <1>1 DEF logVars, OnTheWay
  <2>2. Kept' = Kept /\ Missing' = Missing /\ rec'.failed = rec.failed
      BY <2>1 DEF Kept, Missing
  <2> QED BY <2>1, <2>2, StutterIs
<1>2. CASE SessionNext
  <2>1. LogNext /\ rec' = rec
      BY <1>2 DEF SessionNext
  <2>2. CASE Offered
      BY <1>0, <2>1, <2>2, OfferMaps DEF Promise!Next
  <2>3. CASE UNCHANGED <<stamps, queue, lost, last, closed, sink>>
    <3>1. OnTheWay' = OnTheWay /\ rec' = rec /\ stamps' = stamps /\ closed' = closed /\ lost' = lost
        BY <2>1, <2>3 DEF OnTheWay
    <3>2. Kept' = Kept /\ Missing' = Missing /\ rec'.failed = rec.failed
        BY <3>1 DEF Kept, Missing
    <3> QED BY <3>1, <3>2, StutterIs
  <2>4. CASE DetachSink \/ DropSink
      BY <1>0, <2>1, <2>4, SealMaps DEF Promise!Next
  <2> QED BY <2>1, <2>2, <2>3, <2>4, SessionSteps
<1>3. CASE Clock \/ CaptureEnd \/ CaptureStops \/ (\E s \in Screen : CaptureBegin(s))
    BY <1>1, <1>3 DEF Clock, CaptureEnd, CaptureStops, CaptureBegin
<1>4. CASE Drain
    BY <1>0, <1>4, DrainMaps DEF Promise!Next
<1>5. CASE TakeFrame
  <2>1. /\ rec.pc = "frame" /\ rec'.pc = "tick"
        /\ rec'.log = rec.log /\ rec'.lost = rec.lost /\ rec'.last = rec.last
        /\ rec.failed => rec'.failed
      BY <1>0, <1>5, TakeFrameSteps DEF Stepped
  <2>2. UNCHANGED logVars
      BY <1>5 DEF TakeFrame
  <2> QED BY <1>0, <2>1, <2>2, WorkMaps DEF Promise!Next
<1>6. CASE EndPass
  <2>1. /\ rec.pc = "tick" /\ rec'.pc = "drain"
        /\ rec'.log = rec.log /\ rec'.lost = rec.lost /\ rec'.last = rec.last
        /\ rec.failed => rec'.failed
      BY <1>0, <1>6, EndPassSteps DEF Stepped
  <2>2. UNCHANGED logVars
      BY <1>6 DEF EndPass
  <2> QED BY <1>0, <2>1, <2>2, WorkMaps DEF Promise!Next
<1>7. CASE FinishRecording
    BY <1>0, <1>7, FinishMaps DEF Promise!Next
<1>8. CASE UNCHANGED recorderVars
    BY <1>1, <1>8 DEF recorderVars
<1> QED BY <1>2, <1>3, <1>4, <1>5, <1>6, <1>7, <1>8 DEF RecorderNext, RecorderPass

LEMMA InitMaps == RecorderInit(Verb) => Promise!Init
<1> SUFFICES ASSUME RecorderInit(Verb) PROVE Promise!Init
    OBVIOUS
<1>1. /\ stamps = 0 /\ queue = <<>> /\ lost = 0 /\ last = 0 /\ closed = FALSE
      /\ rec.log = <<>> /\ rec.lost = 0 /\ rec.failed = FALSE /\ rec.pc = "drain"
    BY DEF RecorderInit, LogInit
<1>2. OnTheWay = <<>> \o <<>>
    BY <1>1 DEF OnTheWay
<1>3. <<>> \o <<>> = <<>> /\ 0 + 0 = 0
    OBVIOUS
<1>4. Kept = <<>>
    BY <1>1, <1>2, <1>3 DEF Kept
<1>5. Missing = 0
    BY <1>1, <1>3 DEF Missing
<1> QED BY <1>1, <1>4, <1>5 DEF Promise!Init, Kept, Missing

\* What a recording wrote is what its session offered, in order and once, with the
\* loss counted, whatever the interleaving of offers, drains and the end, and for
\* every size of the queue (QueueSink, handle_events, finish).
THEOREM PromiseIsKept == RecorderSpec => KeepsPromise
BY InitMaps, TypeHolds, StepMaps, PTL DEF RecorderSpec, KeepsPromise, Promise!Spec

=============================================================================
