----------------------- MODULE RecordingServiceProofs -----------------------
(***************************************************************************)
(* Proofs about the recording service for any number of logs, requests and *)
(* runs of the daemon: no unfinished recording is deleted, an unfinished   *)
(* one of an earlier daemon was tried in vain when this one started, and   *)
(* no order of starts, stops, closes and dead recorders leaves a sink      *)
(* nobody can detach, or detaches the sink of a later recording.           *)
(*                                                                         *)
(* The inductive invariant says who may detach the sink of a log: the      *)
(* recording that is active, that is about to be entered, or that a        *)
(* request took out of `active' is the one whose sink is attached.         *)
(***************************************************************************)
EXTENDS RecordingService, TLAPS

Pc == {"idle", "reaped", "start", "stop", "annotate", "detach", "inner", "scan", "prune",
       "create", "attach", "enter", "refused", "over"}

SlogType == [open : BOOLEAN, sink : Req \cup {NoRec}]
ServiceType ==
    [life : {"starting", "up", "stopping", "down"}, boot : Nat,
     active : [Log -> Req \cup {NoRec}], starting : SUBSET Log, closing : SUBSET Req,
     todo : SUBSET Req, missed : SUBSET Req]
HandsType == SUBSET (Req \cup (Req \X Log))
ReqType ==
    [pc : Pc, op : {"none", "start", "stop", "annotate", "dropped"}, log : Log \cup {"none"},
     hands : HandsType, writing : SUBSET Req]
TapeType ==
    [log : Log \cup {"none"}, thread : {"none", "run", "done"}, ends : BOOLEAN,
     dir : {"none", "open", "done", "gone"}, kept : BOOLEAN, boot : Nat]

TypeInv ==
    /\ slog \in [Log -> SlogType]
    /\ service \in ServiceType
    /\ req \in [Req -> ReqType]
    /\ tape \in [Req -> TapeType]
    /\ minted \in Seq(Req)

\* Request r has taken recording q of log l out of `active' and will detach it.
Hand(r, q, l) == req[r].pc \in {"reaped", "detach"} /\ <<q, l>> \in req[r].hands

\* Who may detach the sink of log l: the holder of recording q.
Claim(q, l) ==
    \/ service.active[l] = q
    \/ req[q].pc = "enter" /\ req[q].log = l
    \/ \E r \in Req : Hand(r, q, l)

\* A daemon that serves nobody has no recordings and no requests.
Quiet ==
    ~Serving =>
        /\ \A l \in Log : slog[l].sink = NoRec /\ service.active[l] = NoRec
        /\ \A r \in Req : req[r].pc \in {"idle", "over"}
        /\ service.closing = {}

Requests ==
    \A r \in Req :
        /\ req[r].pc \notin {"idle", "over"} => req[r].log \in Log \/ req[r].op = "dropped"
        /\ req[r].op = "dropped" => req[r].pc \in {"scan", "prune", "create"}
        /\ req[r].pc = "reaped" => req[r].op \in {"start", "stop", "annotate"}
        /\ req[r].pc \notin {"attach", "enter", "refused", "over"} =>
              tape[r].dir = "none" /\ tape[r].thread = "none"
        /\ req[r].pc \in {"attach", "enter"} => tape[r].log = req[r].log

\* What a prune is about to delete is finished, and stays finished.
Pruning ==
    \A r, q \in Req :
        req[r].pc = "prune" /\ q \in req[r].hands => tape[q].dir \in {"done", "gone"}

Sinks ==
    \A l \in Log : slog[l].sink # NoRec =>
        /\ tape[slog[l].sink].log = l
        /\ req[slog[l].sink].pc \in {"enter", "over"}

Actives ==
    \A l \in Log : service.active[l] # NoRec =>
        /\ tape[service.active[l]].log = l
        /\ req[service.active[l]].pc = "over"

Hands ==
    /\ \A r \in Req : req[r].pc \in {"reaped", "detach"} => req[r].hands \subseteq Req \X Log
    /\ \A r \in Req : req[r].pc = "detach" => \E q \in Req : <<q, req[r].log>> \in req[r].hands
    /\ \A r, q \in Req : \A l \in Log : Hand(r, q, l) =>
          /\ tape[q].log = l /\ req[q].pc = "over"
          /\ service.active[l] # q
          /\ req[r].pc = "detach" => l = req[r].log
    /\ \A r, s, q \in Req : \A l \in Log : Hand(r, q, l) /\ Hand(s, q, l) => r = s

\* Whoever has a claim to a log that still exists finds its own sink there,
Owned == \A q \in Req : \A l \in Log : Held(l) /\ Claim(q, l) => slog[l].sink = q

\* and a sink of a log that still exists is claimed.
Claimed ==
    service.life = "up" =>
        \A l \in Log : Held(l) /\ slog[l].sink # NoRec => Claim(slog[l].sink, l)

\* What an earlier daemon left unfinished is still to be tried, or was tried in vain.
Leftovers ==
    /\ UnfinishedIsOurs
    /\ service.life = "starting" =>
          \A q \in Req : /\ tape[q].dir = "open" => q \in service.todo \cup service.missed
                         /\ q \in service.todo => tape[q].dir = "open"

SvcInv ==
    /\ Quiet /\ Requests /\ Pruning /\ Sinks /\ Actives /\ Hands /\ Owned /\ Claimed
    /\ Leftovers

IInv == TypeInv /\ SvcInv

\* Who has which claim: what the sinks, `active' and the hands say of each other.
Claims == Sinks /\ Actives /\ Hands /\ Owned /\ Claimed

\* A request with no claim, before and after a step.
NoClaim(s) == req[s].pc \notin {"enter", "over", "reaped", "detach"}
StillNoClaim(s) ==
    /\ NoClaim(s) /\ req[s].pc' \notin {"enter", "reaped", "detach"}
    /\ req[s].log' \in {req[s].log, "none"}
SameSinks ==
    \A l \in Log : slog'[l].sink = slog[l].sink /\ (slog'[l].open => slog[l].open)
Untouched(s) == req'[s] = req[s] /\ tape'[s].log = tape[s].log

-----------------------------------------------------------------------------
(* Lemmas about the operators *)

\* The types, one log and one request at a time.
LEMMA Shapes ==
    ASSUME TypeInv
    PROVE  /\ \A l \in Log : /\ slog[l] \in SlogType /\ slog[l].sink \in Req \cup {NoRec}
                             /\ service.active[l] \in Req \cup {NoRec}
           /\ \A r \in Req : req[r] \in ReqType /\ tape[r] \in TapeType
BY DEF TypeInv, SlogType, ServiceType

\* A log that nobody gains is held after a step only if it was before (Weak::upgrade).
LEMMA HeldShrinks ==
    ASSUME TypeInv, NEW l \in Log, slog'[l].open => slog[l].open,
           \A r \in Req : req'[r].log \in {req[r].log, "none"}
    PROVE  Held(l)' => Held(l)
BY RecordingAssumption DEF TypeInv, Held

\* The fields of a record that a step leaves alone.
SameTape(q) == tape'[q].log = tape[q].log /\ tape'[q].dir = tape[q].dir
               /\ tape'[q].boot = tape[q].boot

\* detach_sink reaches the logs that still exist, and the sinks of no others: the
\* sink of a log is a recording of that log.
LEMMA DetachedIs ==
    ASSUME TypeInv, Sinks, NEW logs \in SUBSET Log, Detached(logs)
    PROVE  /\ slog' \in [Log -> SlogType]
           /\ tape' \in [Req -> TapeType]
           /\ \A l \in Log : slog'[l].open = slog[l].open
           /\ \A l \in Log : l \in logs /\ Held(l) => slog'[l].sink = NoRec
           /\ \A l \in Log : ~(l \in logs /\ Held(l)) => slog'[l].sink = slog[l].sink
           /\ \A q \in Req : SameTape(q)
<1> DEFINE gone == {slog[l].sink : l \in {k \in logs : Held(k)}} \ {NoRec}
<1>1. \A l \in Log : slog[l].sink \in gone <=> l \in logs /\ Held(l) /\ slog[l].sink # NoRec
  BY DEF Sinks, TypeInv, SlogType
<1>2. /\ slog' = [l \in Log |-> IF slog[l].sink \in gone
                                THEN [slog[l] EXCEPT !.sink = NoRec] ELSE slog[l]]
      /\ tape' = [r \in Req |-> IF r \in gone THEN [tape[r] EXCEPT !.ends = TRUE] ELSE tape[r]]
  BY DEF Detached
<1> HIDE DEF gone
<1>3. ASSUME NEW l \in Log
      PROVE  /\ slog'[l] \in SlogType /\ slog'[l].open = slog[l].open
             /\ l \in logs /\ Held(l) => slog'[l].sink = NoRec
             /\ ~(l \in logs /\ Held(l)) => slog'[l].sink = slog[l].sink
  <2>1. slog[l] \in SlogType
    BY DEF TypeInv
  <2>2. slog[l].sink \in gone => slog'[l] = [slog[l] EXCEPT !.sink = NoRec]
    BY <1>2
  <2>3. slog[l].sink \notin gone => slog'[l] = slog[l]
    BY <1>2
  <2> QED BY <2>1, <2>2, <2>3, <1>1 DEF SlogType
<1>4. ASSUME NEW q \in Req
      PROVE  tape'[q] \in TapeType /\ SameTape(q)
  <2>1. tape[q] \in TapeType
    BY DEF TypeInv
  <2>2. tape'[q] = tape[q] \/ tape'[q] = [tape[q] EXCEPT !.ends = TRUE]
    BY <1>2
  <2> QED BY <2>1, <2>2 DEF TapeType, SameTape
<1>5. /\ \A l \in Log : slog'[l].open = slog[l].open
      /\ \A l \in Log : l \in logs /\ Held(l) => slog'[l].sink = NoRec
      /\ \A l \in Log : ~(l \in logs /\ Held(l)) => slog'[l].sink = slog[l].sink
      /\ \A q \in Req : SameTape(q)
  BY <1>3, <1>4
<1>6. slog' \in [Log -> SlogType] /\ tape' \in [Req -> TapeType]
  BY <1>2, <1>3, <1>4
<1> QED BY <1>5, <1>6

\* prune deletes finished recordings only, whatever is over the budget or the age.
LEMMA VictimsAreDone ==
    ASSUME NEW writing, NEW aged
    PROVE  Victims(writing, aged) \subseteq {q \in Req : tape[q].dir = "done"}
BY DEF Victims

\* What requests have in their hands stays true while they keep it.
LEMMA HandsStay ==
    ASSUME Hands,
           \A r \in Req : req'[r].pc \in {"reaped", "detach"} => req'[r] = req[r],
           \A q \in Req : req[q].pc = "over" =>
              /\ req'[q].pc = "over" /\ tape'[q].log = tape[q].log
              /\ \A l \in Log : service'.active[l] = q => service.active[l] = q
    PROVE  Hands'
<1>1. \A r, q \in Req : \A l \in Log : Hand(r, q, l)' => Hand(r, q, l) /\ req'[r] = req[r]
  BY DEF Hand
<1>2. \A r \in Req : req'[r].pc \in {"reaped", "detach"} => req'[r].hands \subseteq Req \X Log
  BY DEF Hands
<1>3. \A r \in Req : req'[r].pc = "detach" => \E q \in Req : <<q, req'[r].log>> \in req'[r].hands
  BY DEF Hands
<1>4. ASSUME NEW r \in Req, NEW q \in Req, NEW l \in Log, Hand(r, q, l)'
      PROVE  /\ tape'[q].log = l /\ req'[q].pc = "over" /\ service'.active[l] # q
             /\ req'[r].pc = "detach" => l = req'[r].log
  BY <1>1, <1>4 DEF Hands
<1>5. \A r, s, q \in Req : \A l \in Log : Hand(r, q, l)' /\ Hand(s, q, l)' => r = s
  BY <1>1 DEF Hands
<1> QED BY <1>2, <1>3, <1>4, <1>5 DEF Hands

\* A step of requests without a claim leaves every claim as it is.
LEMMA ClaimsStay ==
    ASSUME TypeInv, TypeInv', Claims, SameSinks, service'.active = service.active,
           service'.life = "up" => service.life = "up",
           \A s \in Req : Untouched(s) \/ StillNoClaim(s)
    PROVE  Claims'
<1>1. \A l \in Log : Held(l)' => Held(l)
  BY HeldShrinks, RecordingAssumption DEF SameSinks, Untouched, StillNoClaim, NoClaim
<1>2. \A r, q \in Req : \A l \in Log : Hand(r, q, l)' <=> Hand(r, q, l)
  BY DEF Hand, Untouched, StillNoClaim, NoClaim
<1>3. \A q \in Req : \A l \in Log :
         (req[q].pc = "enter" /\ req[q].log = l)' <=> (req[q].pc = "enter" /\ req[q].log = l)
  BY DEF Untouched, StillNoClaim, NoClaim
<1>4. \A q \in Req : \A l \in Log : Claim(q, l)' <=> Claim(q, l)
  BY <1>2, <1>3 DEF Claim
<1>5. \A q \in Req : req[q].pc \in {"enter", "over"} =>
         req'[q].pc = req[q].pc /\ tape'[q].log = tape[q].log
  BY DEF Untouched, StillNoClaim, NoClaim
<1>6. Sinks' /\ Actives'
  BY Shapes, <1>5 DEF SameSinks, Claims, Sinks, Actives
<1>7. Hands'
  <2>1. \A r \in Req : req'[r].pc \in {"reaped", "detach"} => req'[r] = req[r]
    BY DEF Untouched, StillNoClaim
  <2> QED BY <2>1, <1>5, HandsStay DEF Claims
<1>8. Owned' /\ Claimed'
  BY Shapes, <1>1, <1>4 DEF SameSinks, Claims, Owned, Claimed
<1> QED BY <1>6, <1>7, <1>8 DEF Claims

-----------------------------------------------------------------------------
(* Steps that touch no claim *)

\* A directory is finished or goes once it is finished, and nothing else.
Aged(s) ==
    /\ tape'[s].log = tape[s].log /\ tape'[s].boot = tape[s].boot
    /\ tape'[s].dir = "open" => tape[s].dir = "open"
    /\ tape[s].dir \in {"done", "gone"} => tape'[s].dir \in {"done", "gone"}
    /\ tape[s].dir = "none" /\ ~Running(s) => tape'[s].dir = "none"
    /\ tape[s].thread = "none" => tape'[s].thread = "none" \/ req'[s].pc = "refused"

\* Request s goes on, without a claim.
MovesOn(s) ==
    /\ Serving /\ NoClaim(s)
    /\ req'[s].pc \notin {"idle", "enter", "reaped", "detach", "attach"}
    /\ req'[s].log \in {req[s].log, "none"}
    /\ req'[s].pc # "over" => req'[s].log \in Log \/ req'[s].op = "dropped"
    /\ req'[s].op = "dropped" => req'[s].pc \in {"scan", "prune", "create"}
    /\ req'[s].pc \notin {"refused", "over"} => req[s].pc \notin {"attach", "refused"}
    /\ req'[s].pc = "prune" =>
          \A q \in Req : q \in req'[s].hands => tape[q].dir \in {"done", "gone"}

SameService ==
    /\ service'.active = service.active /\ service'.life = service.life
    /\ service'.closing = service.closing /\ service'.boot = service.boot
    /\ service'.todo = service.todo /\ service'.missed = service.missed

\* Such steps keep the invariant.
LEMMA Ageing ==
    ASSUME TypeInv, TypeInv', SvcInv, Serving, SameSinks, SameService,
           \A s \in Req : Aged(s),
           \A s \in Req : req'[s] = req[s] \/ MovesOn(s)
    PROVE  SvcInv'
<1>1. Claims'
  <2>1. \A s \in Req : Untouched(s) \/ StillNoClaim(s)
    BY DEF Untouched, StillNoClaim, MovesOn, Aged
  <2> QED BY <2>1, ClaimsStay DEF SvcInv, Claims, SameService
<1>2. Quiet'
  BY DEF SvcInv, Quiet, Serving, SameService, MovesOn, SameSinks
<1>3. Leftovers'
  BY DEF SvcInv, Leftovers, UnfinishedIsOurs, Serving, SameService, Aged
<1>4. ASSUME NEW r \in Req
      PROVE  /\ req'[r].pc \notin {"idle", "over"} => req'[r].log \in Log \/ req'[r].op = "dropped"
             /\ req'[r].op = "dropped" => req'[r].pc \in {"scan", "prune", "create"}
             /\ req'[r].pc = "reaped" => req'[r].op \in {"start", "stop", "annotate"}
             /\ req'[r].pc \notin {"attach", "enter", "refused", "over"} =>
                   tape'[r].dir = "none" /\ tape'[r].thread = "none"
             /\ req'[r].pc \in {"attach", "enter"} => tape'[r].log = req'[r].log
  <2>1. CASE req'[r] = req[r]
    BY <2>1 DEF SvcInv, Requests, Aged, Running
  <2>2. CASE MovesOn(r)
    BY <2>2 DEF SvcInv, Requests, Aged, Running, MovesOn, NoClaim
  <2> QED BY <2>1, <2>2
<1>5. Requests'
  BY <1>4 DEF Requests
<1>6. Pruning'
  BY DEF SvcInv, Pruning, Aged, MovesOn
<1> QED BY <1>1, <1>2, <1>3, <1>5, <1>6 DEF SvcInv, Claims

\* One request gets a new state.
LEMMA Moved ==
    ASSUME TypeInv, NEW r \in Req, NEW v \in ReqType, req' = [req EXCEPT ![r] = v]
    PROVE  /\ req' \in [Req -> ReqType] /\ req'[r] = v
           /\ \A s \in Req : s # r => req'[s] = req[s]
BY DEF TypeInv

\* One recording gets a new state.
LEMMA Taped ==
    ASSUME TypeInv, NEW r \in Req, NEW v \in TapeType, tape' = [tape EXCEPT ![r] = v]
    PROVE  /\ tape' \in [Req -> TapeType] /\ tape'[r] = v
           /\ \A s \in Req : s # r => tape'[s] = tape[s]
BY DEF TypeInv

Gone == [Idle EXCEPT !.pc = "over"]

\* A request that is over holds nothing.
LEMMA GoneIs ==
    /\ Gone \in ReqType
    /\ Gone.pc = "over" /\ Gone.op = "none" /\ Gone.log = "none" /\ Gone.hands = {}
BY DEF Gone, Idle, ReqType, Pc, HandsType

\* What is not touched does not age.
LEMMA SameTapes == tape' = tape => \A s \in Req : Aged(s)
BY DEF Aged

LEMMA SameLogs == TypeInv /\ slog' = slog => slog' \in [Log -> SlogType] /\ SameSinks
BY DEF SameSinks, TypeInv

LEMMA SameServices == TypeInv /\ service' = service => service' \in ServiceType /\ SameService
BY DEF SameService, TypeInv

\* One request moves on, and recordings age.
LEMMA Onward ==
    ASSUME TypeInv, SvcInv, NEW r \in Req, NEW v \in ReqType, req' = [req EXCEPT ![r] = v],
           MovesOn(r), slog' \in [Log -> SlogType], SameSinks, service' \in ServiceType, SameService,
           tape' \in [Req -> TapeType], \A s \in Req : Aged(s), minted' \in Seq(Req)
    PROVE  TypeInv' /\ SvcInv'
<1>1. req' \in [Req -> ReqType] /\ \A s \in Req : req'[s] = req[s] \/ MovesOn(s)
  BY Moved
<1>2. TypeInv'
  BY <1>1 DEF TypeInv
<1>3. Serving
  BY DEF MovesOn
<1> QED BY <1>1, <1>2, <1>3, Ageing

At(x, p) == [x EXCEPT !.pc = p]
AtWith(x, p, h) == [[x EXCEPT !.pc = p] EXCEPT !.hands = h]
AtWriting(x, p, w) == [[x EXCEPT !.pc = p] EXCEPT !.writing = w]

\* The fields of a request that goes on.
LEMMA AtFields ==
    ASSUME NEW x \in ReqType, NEW p \in Pc
    PROVE  /\ At(x, p) \in ReqType /\ At(x, p).pc = p /\ At(x, p).op = x.op
           /\ At(x, p).log = x.log /\ At(x, p).hands = x.hands
BY DEF ReqType, At

LEMMA AtWithFields ==
    ASSUME NEW x \in ReqType, NEW p \in Pc, NEW h \in HandsType
    PROVE  /\ AtWith(x, p, h) \in ReqType /\ AtWith(x, p, h).pc = p
           /\ AtWith(x, p, h).op = x.op /\ AtWith(x, p, h).log = x.log
           /\ AtWith(x, p, h).hands = h
BY DEF ReqType, AtWith

LEMMA AtWritingFields ==
    ASSUME NEW x \in ReqType, NEW p \in Pc, NEW w \in SUBSET Req
    PROVE  /\ AtWriting(x, p, w) \in ReqType /\ AtWriting(x, p, w).pc = p
           /\ AtWriting(x, p, w).op = x.op /\ AtWriting(x, p, w).log = x.log
BY DEF ReqType, AtWriting

\* A request that ends without a claim.
LEMMA OverKeeps ==
    ASSUME TypeInv, SvcInv, NEW r \in Req, Over(r), Serving, NoClaim(r),
           slog' \in [Log -> SlogType], SameSinks,
           UNCHANGED minted, service' \in ServiceType, SameService,
           tape' \in [Req -> TapeType], \A s \in Req : Aged(s)
    PROVE  TypeInv' /\ SvcInv'
<1>1. req' = [req EXCEPT ![r] = Gone] /\ minted' \in Seq(Req)
  BY DEF Over, Gone, TypeInv
<1>2. MovesOn(r)
  BY <1>1, Moved, GoneIs DEF MovesOn
<1> QED BY <1>1, <1>2, GoneIs, Onward

\* A request that only has a new place in its function.
LEMMA ToKeeps ==
    ASSUME TypeInv, SvcInv, NEW r \in Req, NEW pc \in {"inner", "create", "refused"}, To(r, pc),
           Serving, req[r].pc \in {"start", "prune", "create"}, pc = "refused" => req[r].op # "dropped",
           slog' = slog, UNCHANGED minted, service' \in ServiceType, SameService,
           tape' \in [Req -> TapeType], \A s \in Req : Aged(s),
           pc = "inner" => req[r].pc = "start"
    PROVE  TypeInv' /\ SvcInv'
<1> DEFINE v == At(req[r], pc)
<1>1. v \in ReqType /\ v.pc = pc /\ v.op = req[r].op /\ v.log = req[r].log
  <2>1. req[r] \in ReqType /\ pc \in Pc
    BY Shapes DEF Pc
  <2> QED BY <2>1, AtFields
<1>2. req' = [req EXCEPT ![r] = v] /\ minted' \in Seq(Req)
  BY DEF To, TypeInv, At
<1> HIDE DEF v
<1>3. req'[r] = v
  BY <1>1, <1>2, Moved
<1>4. MovesOn(r)
  BY <1>1, <1>3 DEF MovesOn, NoClaim, SvcInv, Requests
<1> QED BY <1>1, <1>2, <1>4, SameLogs, Onward

\* annotate.
LEMMA AnnotateKeeps ==
    ASSUME TypeInv, SvcInv, NEW r \in Req, Annotate(r)
    PROVE  TypeInv' /\ SvcInv'
<1>1. tape' \in [Req -> TapeType] /\ NoClaim(r)
  BY DEF Annotate, TypeInv, NoClaim
<1> QED BY <1>1, SameTapes, SameServices, SameLogs, OverKeeps DEF Annotate

\* start: refused while the session is recording or is about to.
LEMMA StartAdmitKeeps ==
    ASSUME TypeInv, SvcInv, NEW r \in Req, StartAdmit(r)
    PROVE  TypeInv' /\ SvcInv'
<1>1. /\ tape' \in [Req -> TapeType] /\ \A s \in Req : Aged(s)
      /\ Serving /\ req[r].pc = "start" /\ NoClaim(r) /\ slog' = slog /\ UNCHANGED minted
  BY SameTapes DEF StartAdmit, TypeInv, NoClaim
<1>2. CASE Over(r) /\ UNCHANGED service
  BY <1>1, <1>2, SameServices, SameLogs, OverKeeps
<1>3. CASE To(r, "inner") /\ service' = [service EXCEPT !.starting = @ \cup {req[r].log}]
  <2>1. req[r].log \in Log
    BY <1>1 DEF SvcInv, Requests
  <2>2. service' \in ServiceType /\ SameService
    BY <1>3, <2>1 DEF TypeInv, ServiceType, SameService
  <2> QED BY <1>1, <1>3, <2>2, ToKeeps
<1> QED BY <1>2, <1>3 DEF StartAdmit

\* start_inner: the id, and what is being written now.
LEMMA StartInnerKeeps ==
    ASSUME TypeInv, SvcInv, NEW r \in Req, StartInner(r)
    PROVE  TypeInv' /\ SvcInv'
<1> DEFINE v == AtWriting(req[r], "scan", WritingIds)
<1>1. WritingIds \in SUBSET Req
  BY DEF WritingIds, TypeInv, ServiceType
<1>2. v \in ReqType /\ v.pc = "scan" /\ v.op = req[r].op /\ v.log = req[r].log
  <2>1. req[r] \in ReqType /\ "scan" \in Pc
    BY Shapes DEF Pc
  <2> QED BY <2>1, <1>1, AtWritingFields
<1>3. req' = [req EXCEPT ![r] = v]
  BY DEF StartInner, TypeInv, AtWriting
<1>4. minted' \in Seq(Req)
  BY DEF StartInner, TypeInv
<1> HIDE DEF v
<1>5. req'[r] = v
  BY <1>2, <1>3, Moved
<1>6. MovesOn(r)
  BY <1>2, <1>5 DEF StartInner, MovesOn, NoClaim, SvcInv, Requests
<1>7. tape' \in [Req -> TapeType] /\ slog' = slog /\ tape' = tape /\ service' = service
  BY DEF StartInner, TypeInv
<1> QED BY <1>2, <1>3, <1>4, <1>6, <1>7, SameTapes, SameServices, SameLogs, Onward

\* scan and the decision of prune: only finished recordings are chosen.
LEMMA PruneScanKeeps ==
    ASSUME TypeInv, SvcInv, NEW r \in Req, PruneScan(r)
    PROVE  TypeInv' /\ SvcInv'
<1>1. PICK aged \in 0..Len(minted) :
         req' = [req EXCEPT ![r].pc = "prune", ![r].hands = Victims(req[r].writing, aged)]
  BY DEF PruneScan
<1> DEFINE h == Victims(req[r].writing, aged)
           v == AtWith(req[r], "prune", h)
<1>2. h \subseteq {q \in Req : tape[q].dir = "done"}
  BY VictimsAreDone
<1> HIDE DEF h
<1>3. v \in ReqType /\ v.pc = "prune" /\ v.op = req[r].op /\ v.log = req[r].log /\ v.hands = h
  <2>1. req[r] \in ReqType /\ "prune" \in Pc /\ h \in HandsType
    BY <1>2, Shapes DEF Pc, HandsType
  <2> QED BY <2>1, AtWithFields
<1>4. req' = [req EXCEPT ![r] = v]
  BY <1>1 DEF TypeInv, h, AtWith
<1> HIDE DEF v
<1>5. req'[r] = v
  BY <1>3, <1>4, Moved
<1>6. MovesOn(r)
  BY <1>2, <1>3, <1>5 DEF PruneScan, MovesOn, NoClaim, SvcInv, Requests
<1>7. /\ tape' \in [Req -> TapeType] /\ minted' \in Seq(Req)
      /\ slog' = slog /\ tape' = tape /\ service' = service
  BY DEF PruneScan, TypeInv
<1> QED BY <1>3, <1>4, <1>6, <1>7, SameTapes, SameServices, SameLogs, Onward

\* The deletions of a prune, one directory at a time.
LEMMA PruneDeleteKeeps ==
    ASSUME TypeInv, SvcInv, NEW r \in Req, PruneDelete(r)
    PROVE  TypeInv' /\ SvcInv'
<1>1. Serving /\ req[r].pc = "prune" /\ slog' = slog /\ service' = service /\ UNCHANGED minted
  BY DEF PruneDelete
<1>2. service' \in ServiceType /\ SameService
  BY <1>1, SameServices
<1>3. CASE To(r, "create") /\ UNCHANGED tape
  <2>1. tape' \in [Req -> TapeType] /\ \A s \in Req : Aged(s)
    BY <1>3, SameTapes DEF TypeInv
  <2> QED BY <1>1, <1>2, <1>3, <2>1, ToKeeps
<1>4. CASE \E q \in req[r].hands :
              /\ \/ tape' = [tape EXCEPT ![q].dir = "gone", ![q].kept = FALSE]
                 \/ tape' = tape
              /\ req' = [req EXCEPT ![r].hands = @ \ {q}]
  <2>1. PICK q \in req[r].hands :
              /\ \/ tape' = [tape EXCEPT ![q].dir = "gone", ![q].kept = FALSE]
                 \/ tape' = tape
              /\ req' = [req EXCEPT ![r].hands = @ \ {q}]
    BY <1>4
  <2> DEFINE h == req[r].hands \ {q}
             v == AtWith(req[r], "prune", h)
             w == [[tape[q] EXCEPT !.dir = "gone"] EXCEPT !.kept = FALSE]
  <2>2. req[r] \in ReqType /\ "prune" \in Pc /\ h \in HandsType
    BY Shapes DEF Pc, HandsType, ReqType
  <2>8. h = req[r].hands \ {q}
    OBVIOUS
  <2> HIDE DEF h
  <2>3. /\ v \in ReqType /\ v.pc = "prune" /\ v.op = req[r].op /\ v.log = req[r].log
        /\ v.hands = h
    BY <2>2, AtWithFields
  <2>4. req' = [req EXCEPT ![r] = v]
    BY <1>1, <2>1, <2>2, <2>8 DEF AtWith, ReqType, TypeInv
  <2> HIDE DEF v
  <2>5. req'[r] = v /\ (\A s \in Req : s # r => req'[s] = req[s])
    BY <2>3, <2>4, Moved
  <2>6. CASE q \in Req /\ tape' # tape
    <3>1. tape[q].dir \in {"done", "gone"}
      BY <1>1, <2>6 DEF SvcInv, Pruning
    <3>2. w \in TapeType /\ w.dir = "gone" /\ w.log = tape[q].log /\ w.boot = tape[q].boot
          /\ w.thread = tape[q].thread
      BY <2>6, Shapes DEF TapeType
    <3>3. tape' = [tape EXCEPT ![q] = w]
      BY <2>1, <2>6 DEF TypeInv
    <3> HIDE DEF w
    <3>4. /\ tape' \in [Req -> TapeType] /\ tape'[q] = w
          /\ \A s \in Req : s # q => tape'[s] = tape[s]
      BY <2>6, <3>2, <3>3, Taped
    <3>5. \A s \in Req : Aged(s)
      BY <3>1, <3>2, <3>4 DEF Aged, Running
    <3>6. MovesOn(r)
      BY <1>1, <2>8, <2>3, <2>5 DEF MovesOn, NoClaim, SvcInv, Requests, Pruning
    <3>7. minted' \in Seq(Req)
      BY <1>1 DEF TypeInv
    <3> QED BY <1>1, <1>2, <2>3, <2>4, <3>4, <3>5, <3>6, <3>7, SameLogs, Onward
  <2>7. CASE q \notin Req \/ tape' = tape
    <3>1. tape' = tape
      BY <2>1, <2>7 DEF TypeInv
    <3>2. tape' \in [Req -> TapeType] /\ (\A s \in Req : Aged(s)) /\ minted' \in Seq(Req)
      BY <1>1, <3>1, SameTapes DEF TypeInv
    <3>3. MovesOn(r)
      BY <1>1, <2>8, <2>3, <2>5 DEF MovesOn, NoClaim, SvcInv, Requests, Pruning
    <3> QED BY <1>1, <1>2, <2>3, <2>4, <3>2, <3>3, SameLogs, Onward
  <2> QED BY <2>6, <2>7
<1> QED BY <1>3, <1>4 DEF PruneDelete

\* The caller of a start goes away.
LEMMA StartDroppedKeeps ==
    ASSUME TypeInv, SvcInv, NEW r \in Req, StartDropped(r)
    PROVE  TypeInv' /\ SvcInv'
<1> DEFINE v == [[req[r] EXCEPT !.op = "dropped"] EXCEPT !.log = "none"]
<1>1. /\ Serving /\ req[r].pc \in {"scan", "prune", "create"}
      /\ slog' = slog /\ service' = service /\ tape' = tape /\ UNCHANGED minted
  BY DEF StartDropped
<1>2. /\ v \in ReqType /\ v.pc = req[r].pc /\ v.op = "dropped" /\ v.log = "none"
      /\ v.hands = req[r].hands
  <2>1. req[r] \in ReqType
    BY Shapes
  <2> QED BY <2>1 DEF ReqType
<1>3. req' = [req EXCEPT ![r] = v]
  BY DEF StartDropped, TypeInv
<1> HIDE DEF v
<1>4. req'[r] = v
  BY <1>2, <1>3, Moved
<1>5. MovesOn(r)
  BY <1>1, <1>2, <1>4 DEF MovesOn, NoClaim, SvcInv, Pruning
<1>6. tape' \in [Req -> TapeType] /\ minted' \in Seq(Req)
  BY <1>1 DEF TypeInv
<1> QED BY <1>1, <1>2, <1>3, <1>5, <1>6, SameTapes, SameServices, SameLogs, Onward

\* Steps of recordings alone.
LEMMA TapeKeeps ==
    ASSUME TypeInv, SvcInv, Serving, slog' = slog, service' = service, req' = req,
           UNCHANGED minted, NEW q \in Req, NEW v \in TapeType, tape' = [tape EXCEPT ![q] = v],
           v.log = tape[q].log, v.boot = tape[q].boot,
           v.dir = "open" => tape[q].dir = "open",
           tape[q].dir \in {"done", "gone"} => v.dir \in {"done", "gone"},
           tape[q].dir = "none" /\ ~Running(q) => v.dir = "none",
           tape[q].thread = "none" => v.thread = "none"
    PROVE  TypeInv' /\ SvcInv'
<1>1. /\ tape' \in [Req -> TapeType] /\ tape'[q] = v
      /\ \A s \in Req : s # q => tape'[s] = tape[s]
  BY Taped
<1>2. TypeInv'
  BY <1>1 DEF TypeInv
<1>3. \A s \in Req : Aged(s)
  BY <1>1 DEF Aged
<1>4. SameService
  BY SameServices
<1> QED BY <1>2, <1>3, <1>4, SameLogs, Ageing

\* A recorder thread ends; its manifest is finished unless it cannot be written.
LEMMA RecorderStopsKeeps ==
    ASSUME TypeInv, SvcInv, NEW q \in Req, RecorderStops(q)
    PROVE  TypeInv' /\ SvcInv'
<1>1. PICK dir \in {"done", tape[q].dir} :
          tape' = [tape EXCEPT ![q].thread = "done", ![q].dir = IF @ = "gone" THEN @ ELSE dir]
  BY DEF RecorderStops
<1> DEFINE d == IF tape[q].dir = "gone" THEN tape[q].dir ELSE dir
           v == [[tape[q] EXCEPT !.thread = "done"] EXCEPT !.dir = d]
<1>2. tape[q] \in TapeType /\ d \in {"done", tape[q].dir}
  BY Shapes
<1> HIDE DEF d
<1>3. /\ v \in TapeType /\ v.thread = "done" /\ v.dir = d /\ v.log = tape[q].log
      /\ v.boot = tape[q].boot
  BY <1>2 DEF TapeType
<1>4. tape' = [tape EXCEPT ![q] = v]
  BY <1>1, <1>2 DEF TypeInv, d, TapeType
<1> HIDE DEF v
<1>5. tape[q].dir = "gone" => d = "gone"
  BY DEF d
<1>6. /\ slog' = slog /\ service' = service /\ req' = req /\ UNCHANGED minted
      /\ tape[q].thread = "run" /\ Serving
  BY DEF RecorderStops, Running
<1> QED BY <1>2, <1>3, <1>4, <1>5, <1>6, TapeKeeps DEF Running

\* set_keep.
LEMMA KeepKeeps ==
    ASSUME TypeInv, SvcInv, NEW q \in Req, Keep(q)
    PROVE  TypeInv' /\ SvcInv'
<1> DEFINE v == [tape[q] EXCEPT !.kept = ~tape[q].kept]
<1>1. tape[q] \in TapeType
  BY Shapes
<1>2. /\ v \in TapeType /\ v.thread = tape[q].thread /\ v.dir = tape[q].dir
      /\ v.log = tape[q].log /\ v.boot = tape[q].boot
  BY <1>1 DEF TapeType
<1>3. tape' = [tape EXCEPT ![q] = v]
  BY DEF Keep, TypeInv
<1> HIDE DEF v
<1>4. Serving /\ slog' = slog /\ service' = service /\ req' = req /\ UNCHANGED minted
  BY DEF Keep, Serving
<1> QED BY <1>2, <1>3, <1>4, TapeKeeps

-----------------------------------------------------------------------------
(* Steps that move a claim *)

\* A step that gives nobody a claim and nobody's log back, and that leaves the sinks
\* of the claims it leaves, keeps what is said of claims.
LEMMA OwnedStays ==
    ASSUME TypeInv, Owned,
           \A l \in Log : Held(l)' => Held(l),
           \A q \in Req : \A l \in Log : Claim(q, l)' => Claim(q, l),
           \A q \in Req : \A l \in Log :
              Claim(q, l)' /\ Held(l) => slog'[l].sink = slog[l].sink
    PROVE  Owned'
BY DEF Owned

\* Logs that keep their requests are held as before.
LEMMA HeldSame ==
    ASSUME TypeInv, \A l \in Log : slog'[l].open = slog[l].open,
           \A r \in Req : req'[r].log = req[r].log
    PROVE  \A l \in Log : Held(l)' <=> Held(l)
BY DEF TypeInv, Held

\* The step of a claim from `enter' to `active', from `active' to the hands of a
\* request, or none at all: the sinks stay, and the claims are the same.
LEMMA ClaimsMove ==
    ASSUME TypeInv, Claims, SameSinks, service'.life = "up" => service.life = "up",
           \A l \in Log : Held(l)' => Held(l),
           \A q \in Req : \A l \in Log : Claim(q, l)' <=> Claim(q, l)
    PROVE  Owned' /\ Claimed'
BY Shapes DEF Claims, Owned, Claimed, SameSinks

\* The rest of the invariant is about requests and directories.
LEMMA RestKeeps ==
    ASSUME TypeInv, SvcInv, Serving, service'.life = service.life, service'.boot = service.boot,
           service'.missed = service.missed,
           NEW r \in Req, req[r].pc # "over",
           \A s \in Req : s # r => req'[s] = req[s],
           \A s \in Req : /\ tape'[s].log = tape[s].log /\ tape'[s].boot = tape[s].boot
                          /\ tape'[s].dir = tape[s].dir,
           \A s \in Req : s # r => tape'[s].thread = tape[s].thread,
           req'[r].pc \notin {"idle", "prune"},
           req'[r].pc # "over" => req'[r].log \in Log,
           req'[r].op # "dropped",
           req'[r].pc = "reaped" => req'[r].op \in {"start", "stop", "annotate"},
           req'[r].pc \notin {"attach", "enter", "refused", "over"} =>
              req[r].pc \notin {"attach", "enter", "refused"} /\ tape'[r].thread = tape[r].thread,
           req'[r].pc \in {"attach", "enter"} =>
              req[r].pc \in {"attach", "enter"} /\ req'[r].log = req[r].log
    PROVE  Quiet' /\ Requests' /\ Pruning' /\ Leftovers'
<1>1. Quiet'
  BY DEF Quiet, Serving
<1>2. Leftovers'
  BY DEF SvcInv, Leftovers, UnfinishedIsOurs, Serving
<1>3. Pruning'
  BY DEF SvcInv, Pruning
<1>4. ASSUME NEW s \in Req
      PROVE  /\ req'[s].pc \notin {"idle", "over"} => req'[s].log \in Log \/ req'[s].op = "dropped"
             /\ req'[s].op = "dropped" => req'[s].pc \in {"scan", "prune", "create"}
             /\ req'[s].pc = "reaped" => req'[s].op \in {"start", "stop", "annotate"}
             /\ req'[s].pc \notin {"attach", "enter", "refused", "over"} =>
                   tape'[s].dir = "none" /\ tape'[s].thread = "none"
             /\ req'[s].pc \in {"attach", "enter"} => tape'[s].log = req'[s].log
  <2>1. CASE s # r
    BY <2>1 DEF SvcInv, Requests
  <2>2. CASE s = r
    BY <2>2 DEF SvcInv, Requests
  <2> QED BY <2>1, <2>2
<1>5. Requests'
  BY <1>4 DEF Requests
<1> QED BY <1>1, <1>2, <1>3, <1>5

\* The sink is attached and the recording about to be entered.
LEMMA AttachKeeps ==
    ASSUME TypeInv, SvcInv, NEW r \in Req, Attach(r)
    PROVE  TypeInv' /\ SvcInv'
<1> DEFINE l == req[r].log
           p == IF slog[l].sink = NoRec THEN "enter" ELSE "refused"
           v == At(req[r], p)
           w == [[tape[r] EXCEPT !.thread = "run"] EXCEPT !.ends = slog[l].sink # NoRec]
<1>1. /\ Serving /\ req[r].pc = "attach" /\ l \in Log /\ tape[r].log = l /\ req[r].op # "dropped"
      /\ Held(l) /\ service' = service /\ UNCHANGED minted
  BY DEF Attach, SvcInv, Requests, Held
<1>2. req[r] \in ReqType /\ tape[r] \in TapeType /\ p \in Pc /\ p \in {"enter", "refused"}
  BY Shapes DEF Pc
<1> HIDE DEF p
<1>3. v \in ReqType /\ v.pc = p /\ v.op = req[r].op /\ v.log = l
  BY <1>2, AtFields
<1>4. /\ w \in TapeType /\ w.log = tape[r].log /\ w.dir = tape[r].dir /\ w.boot = tape[r].boot
      /\ w.thread = "run"
  BY <1>2 DEF TapeType
<1>5. req' = [req EXCEPT ![r] = v] /\ tape' = [tape EXCEPT ![r] = w]
  BY DEF Attach, To, At, p, TypeInv
<1> HIDE DEF v, w
<1>6. /\ req' \in [Req -> ReqType] /\ req'[r] = v /\ \A s \in Req : s # r => req'[s] = req[s]
      /\ tape' \in [Req -> TapeType] /\ tape'[r] = w /\ \A s \in Req : s # r => tape'[s] = tape[s]
  BY <1>3, <1>4, <1>5, Moved, Taped
<1>7. CASE slog[l].sink # NoRec
  <2>1. p = "refused" /\ slog' = slog
    BY <1>7 DEF Attach, p
  <2>2. MovesOn(r)
    BY <1>1, <1>3, <1>6, <2>1 DEF MovesOn, NoClaim
  <2>3. \A s \in Req : Aged(s)
    BY <1>3, <1>4, <1>6, <2>1 DEF Aged
  <2>4. minted' \in Seq(Req)
    BY <1>1 DEF TypeInv
  <2> QED BY <1>1, <1>3, <1>5, <1>6, <2>1, <2>2, <2>3, <2>4, SameServices, SameLogs, Onward
<1>8. CASE slog[l].sink = NoRec
  <2>1. p = "enter" /\ slog' = [slog EXCEPT ![l].sink = r]
    BY <1>8 DEF Attach, p
  <2>2. /\ slog' \in [Log -> SlogType] /\ slog'[l].sink = r
        /\ \A k \in Log : slog'[k].open = slog[k].open /\ (k # l => slog'[k] = slog[k])
    <3>1. slog[l] \in SlogType
      BY <1>1, Shapes
    <3>2. [slog[l] EXCEPT !.sink = r] \in SlogType /\ [slog[l] EXCEPT !.sink = r].sink = r
          /\ [slog[l] EXCEPT !.sink = r].open = slog[l].open
      BY <3>1 DEF SlogType
    <3>3. slog' = [slog EXCEPT ![l] = [slog[l] EXCEPT !.sink = r]]
      BY <2>1, <1>1 DEF TypeInv
    <3> QED BY <3>2, <3>3, <1>1 DEF TypeInv
  <2>3. TypeInv'
    BY <1>1, <1>6, <2>2 DEF TypeInv
  <2>4. \A k \in Log : Held(k)' <=> Held(k)
    BY <1>3, <1>6, <2>2, HeldSame
  <2>5. \A s, q \in Req : \A k \in Log : Hand(s, q, k)' <=> Hand(s, q, k)
    BY <1>1, <1>3, <1>6, <2>1 DEF Hand
  <2>6. \A q \in Req : \A k \in Log : Claim(q, k)' <=> Claim(q, k) \/ (q = r /\ k = l)
    BY <1>1, <1>3, <1>6, <2>1, <2>5 DEF Claim
  <2>7. \A q \in Req : ~Claim(q, l)
    BY <1>1, <1>8, RecordingAssumption DEF SvcInv, Owned, NoRec
  <2>8. Sinks'
    BY <1>1, <1>3, <1>4, <1>6, <2>1, <2>2, Shapes DEF SvcInv, Sinks
  <2>9. Actives'
    BY <1>1, <1>4, <1>6, Shapes DEF SvcInv, Actives
  <2>10. Hands'
    <3>1. \A s \in Req : req'[s].pc \in {"reaped", "detach"} => req'[s] = req[s]
      BY <1>3, <1>6, <2>1
    <3>2. \A q \in Req : req[q].pc = "over" =>
             /\ req'[q].pc = "over" /\ tape'[q].log = tape[q].log
             /\ \A k \in Log : service'.active[k] = q => service.active[k] = q
      BY <1>1, <1>6
    <3> QED BY <3>1, <3>2, HandsStay DEF SvcInv
  <2>11. Owned'
    BY <2>2, <2>4, <2>6, <2>7, <1>1 DEF SvcInv, Owned
  <2>12. Claimed'
    BY <1>1, <2>2, <2>4, <2>6, Shapes DEF SvcInv, Claimed
  <2>13. Quiet' /\ Requests' /\ Pruning' /\ Leftovers'
    BY <1>1, <1>3, <1>4, <1>6, <2>1, RestKeeps
  <2> QED BY <2>3, <2>8, <2>9, <2>10, <2>11, <2>12, <2>13 DEF SvcInv
<1> QED BY <1>7, <1>8

\* The recording enters `active', or the start is refused.
LEMMA StartEndsKeeps ==
    ASSUME TypeInv, SvcInv, NEW r \in Req, StartEnds(r)
    PROVE  TypeInv' /\ SvcInv'
<1> DEFINE l == req[r].log
<1>1. /\ Serving /\ req[r].pc \in {"enter", "refused"} /\ l \in Log /\ req[r].op # "dropped"
      /\ Held(l) /\ slog' = slog /\ tape' = tape /\ UNCHANGED minted /\ Over(r)
  BY DEF StartEnds, SvcInv, Requests, Held
<1>2. /\ service' \in ServiceType /\ service'.life = service.life /\ service'.boot = service.boot
      /\ service'.closing = service.closing
      /\ service'.todo = service.todo /\ service'.missed = service.missed
      /\ service'.active = [service.active EXCEPT ![l] = IF req[r].pc = "enter" THEN r ELSE @]
  BY <1>1 DEF StartEnds, TypeInv, ServiceType
<1>3. service.active \in [Log -> Req \cup {NoRec}]
  BY DEF TypeInv, ServiceType
<1>4. CASE req[r].pc = "refused"
  <2>1. SameService
    BY <1>2, <1>3, <1>4 DEF SameService
  <2>2. tape' \in [Req -> TapeType] /\ NoClaim(r)
    BY <1>1, <1>4 DEF TypeInv, NoClaim
  <2> QED BY <1>1, <1>2, <2>1, <2>2, SameTapes, SameLogs, OverKeeps
<1>5. CASE req[r].pc = "enter"
  <2>1. service'.active[l] = r /\ \A k \in Log : k # l => service'.active[k] = service.active[k]
    BY <1>1, <1>2, <1>3, <1>5
  <2>2. req' = [req EXCEPT ![r] = Gone]
    BY <1>1 DEF Over, Gone
  <2>3. /\ req' \in [Req -> ReqType] /\ req'[r] = Gone /\ \A s \in Req : s # r => req'[s] = req[s]
        /\ tape' \in [Req -> TapeType] /\ slog' \in [Log -> SlogType] /\ minted' \in Seq(Req)
    BY <1>1, <2>2, GoneIs, Moved DEF TypeInv
  <2>4. TypeInv'
    BY <1>2, <2>3 DEF TypeInv
  <2>5. \A k \in Log : Held(k)' => Held(k)
    BY <1>1, <2>3, GoneIs, HeldShrinks
  <2>6. \A s, q \in Req : \A k \in Log : Hand(s, q, k)' <=> Hand(s, q, k)
    BY <1>5, <2>3, GoneIs DEF Hand
  <2>7. service.active[l] = NoRec
    <3>1. Claim(r, l) /\ slog[l].sink = r
      BY <1>1, <1>5 DEF Claim, SvcInv, Owned
    <3>2. ASSUME service.active[l] \in Req
          PROVE  FALSE
      <4>1. Claim(service.active[l], l)
        BY DEF Claim
      <4>2. service.active[l] = r
        BY <1>1, <3>1, <3>2, <4>1 DEF SvcInv, Owned
      <4> QED BY <1>1, <1>5, <3>2, <4>2, RecordingAssumption DEF SvcInv, Actives, NoRec
    <3> QED BY <1>1, <1>3, <3>2
  <2>8. \A q \in Req : \A k \in Log : Claim(q, k)' <=> Claim(q, k)
    BY <1>1, <1>5, <2>1, <2>3, <2>6, <2>7, GoneIs, RecordingAssumption DEF Claim, NoRec
  <2>9. Sinks'
    BY <1>1, <2>3, GoneIs, Shapes DEF SvcInv, Sinks
  <2>10. Actives'
    BY <1>1, <1>5, <2>1, <2>3, GoneIs, Shapes DEF SvcInv, Actives, Requests
  <2>11. Hands'
    <3>1. \A s \in Req : req'[s].pc \in {"reaped", "detach"} => req'[s] = req[s]
      BY <2>3, GoneIs
    <3>2. \A q \in Req : req[q].pc = "over" =>
             /\ req'[q].pc = "over" /\ tape'[q].log = tape[q].log
             /\ \A k \in Log : service'.active[k] = q => service.active[k] = q
      BY <1>1, <1>5, <2>1, <2>3
    <3> QED BY <3>1, <3>2, HandsStay DEF SvcInv
  <2>12. Owned' /\ Claimed'
    BY <1>1, <1>2, <2>5, <2>8, SameLogs, ClaimsMove DEF SvcInv, Claims
  <2>13. Quiet' /\ Requests' /\ Pruning' /\ Leftovers'
    BY <1>1, <1>2, <1>5, <2>3, GoneIs, RestKeeps
  <2> QED BY <2>4, <2>9, <2>10, <2>11, <2>12, <2>13 DEF SvcInv
<1> QED BY <1>1, <1>4, <1>5

\* What is said of hands, part by part.
LEMMA HandsSplit ==
    ASSUME \A r \in Req : req'[r].pc \in {"reaped", "detach"} => req'[r].hands \subseteq Req \X Log,
           \A r \in Req : req'[r].pc = "detach" =>
              \E q \in Req : <<q, req'[r].log>> \in req'[r].hands,
           \A r, q \in Req : \A l \in Log : Hand(r, q, l)' =>
              /\ tape'[q].log = l /\ req'[q].pc = "over" /\ service'.active[l] # q
              /\ req'[r].pc = "detach" => l = req'[r].log,
           \A r, s, q \in Req : \A l \in Log : Hand(r, q, l)' /\ Hand(s, q, l)' => r = s
    PROVE  Hands'
BY DEF Hands

\* A request takes recordings out of `active' into its hands (stop, reap).
LEMMA TakenKeeps ==
    ASSUME TypeInv, SvcInv, NEW r \in Req, NEW v \in ReqType, req' = [req EXCEPT ![r] = v],
           Serving, req[r].pc \in {"idle", "stop"}, v.pc \in {"reaped", "detach"},
           v.log \in Log, Held(v.log), v.op # "dropped",
           v.pc = "reaped" => v.op \in {"start", "stop", "annotate"},
           v.hands \subseteq Req \X Log,
           \A q \in Req : \A l \in Log : <<q, l>> \in v.hands =>
              service.active[l] = q /\ service'.active[l] = NoRec,
           \A l \in Log : service'.active[l] # service.active[l] =>
              service'.active[l] = NoRec /\ <<service.active[l], l>> \in v.hands,
           v.pc = "detach" => \E q \in Req : <<q, v.log>> \in v.hands,
           v.pc = "detach" => \A q \in Req : \A l \in Log : <<q, l>> \in v.hands => l = v.log,
           service' \in ServiceType, service'.life = service.life, service'.boot = service.boot,
           service'.todo = service.todo, service'.missed = service.missed,
           slog' \in [Log -> SlogType], SameSinks, tape' = tape, UNCHANGED minted
    PROVE  TypeInv' /\ SvcInv'
<1>1. /\ req' \in [Req -> ReqType] /\ req'[r] = v /\ \A s \in Req : s # r => req'[s] = req[s]
  BY Moved
<1>2. TypeInv'
  BY <1>1 DEF TypeInv
<1>3. \A l \in Log : Held(l)' => Held(l)
  BY <1>1 DEF Held, SameSinks
<1>4. \A s, q \in Req : \A l \in Log : s # r => (Hand(s, q, l)' <=> Hand(s, q, l))
  BY <1>1 DEF Hand
<1>5. \A q \in Req : \A l \in Log : Hand(r, q, l)' <=> <<q, l>> \in v.hands
  BY <1>1 DEF Hand
<1>6. \A q \in Req : \A l \in Log : ~Hand(r, q, l)
  BY DEF Hand
<1>7. \A q \in Req : q # NoRec
  BY RecordingAssumption DEF NoRec
<1>8. ASSUME NEW q \in Req, NEW l \in Log
      PROVE  Claim(q, l)' <=> Claim(q, l)
  <2>1. (\E s \in Req : Hand(s, q, l))' <=>
           (\E s \in Req : Hand(s, q, l)) \/ <<q, l>> \in v.hands
    BY <1>4, <1>5, <1>6
  <2>2. (req[q].pc = "enter" /\ req[q].log = l)' <=> (req[q].pc = "enter" /\ req[q].log = l)
    BY <1>1
  <2>3. service.active[l] = q <=> service'.active[l] = q \/ <<q, l>> \in v.hands
    BY <1>7
  <2> QED BY <2>1, <2>2, <2>3 DEF Claim
<1>9. Owned' /\ Claimed'
  BY <1>3, <1>8, ClaimsMove DEF SvcInv, Claims
<1>10. Sinks'
  BY <1>1, Shapes DEF SvcInv, Sinks, SameSinks
<1>11. Actives'
  <2>1. \A l \in Log : service'.active[l] # NoRec => service'.active[l] = service.active[l]
    OBVIOUS
  <2>2. \A q \in Req : req[q].pc = "over" => req'[q].pc = "over" /\ tape'[q].log = tape[q].log
    BY <1>1
  <2> QED BY <2>1, <2>2, Shapes DEF SvcInv, Actives
<1>12. \A q \in Req : req[q].pc = "over" => req'[q].pc = "over" /\ q # r
  BY <1>1
<1>13. \A s \in Req : req'[s].pc \in {"reaped", "detach"} => req'[s].hands \subseteq Req \X Log
  BY <1>1 DEF SvcInv, Hands
<1>14. \A s \in Req : req'[s].pc = "detach" => \E q \in Req : <<q, req'[s].log>> \in req'[s].hands
  <2>1. ASSUME NEW s \in Req, s # r, req[s].pc = "detach"
        PROVE  \E q \in Req : <<q, req[s].log>> \in req[s].hands
    BY <2>1 DEF SvcInv, Hands
  <2> QED BY <1>1, <2>1
<1>15. ASSUME NEW s \in Req, NEW q \in Req, NEW l \in Log, Hand(s, q, l)'
       PROVE  /\ tape'[q].log = l /\ req'[q].pc = "over" /\ service'.active[l] # q
              /\ req'[s].pc = "detach" => l = req'[s].log
  <2>1. CASE s = r
    <3>1. service.active[l] = q /\ service'.active[l] = NoRec
      BY <1>5, <1>15, <2>1
    <3>2. tape[q].log = l /\ req[q].pc = "over"
      BY <3>1, <1>7 DEF SvcInv, Actives
    <3> QED BY <1>1, <1>5, <1>7, <1>12, <1>15, <2>1, <3>1, <3>2
  <2>2. CASE s # r
    <3>1. Hand(s, q, l) /\ req'[s] = req[s]
      BY <1>1, <1>4, <1>15, <2>2
    <3>2. /\ tape[q].log = l /\ req[q].pc = "over" /\ service.active[l] # q
          /\ req[s].pc = "detach" => l = req[s].log
      BY <3>1 DEF SvcInv, Hands
    <3>3. service'.active[l] # q
      BY <1>7, <3>2
    <3> QED BY <1>12, <3>1, <3>2, <3>3
  <2> QED BY <2>1, <2>2
<1>16. \A s, u, q \in Req : \A l \in Log : Hand(s, q, l)' /\ Hand(u, q, l)' => s = u
  <2>1. \A x, q \in Req : \A l \in Log : x # r /\ Hand(x, q, l) => service.active[l] # q
    BY DEF SvcInv, Hands
  <2>2. \A q \in Req : \A l \in Log : Hand(r, q, l)' => service.active[l] = q
    BY <1>5
  <2>3. \A s, u, q \in Req : \A l \in Log : Hand(s, q, l) /\ Hand(u, q, l) => s = u
    BY DEF SvcInv, Hands
  <2> QED BY <1>4, <2>1, <2>2, <2>3
<1>17. Hands'
  BY <1>13, <1>14, <1>15, <1>16, HandsSplit
<1>18. Quiet' /\ Requests' /\ Pruning' /\ Leftovers'
  BY <1>1, RestKeeps
<1> QED BY <1>2, <1>9, <1>10, <1>11, <1>17, <1>18 DEF SvcInv

\* stop, under the lock: the entry of the log leaves `active'.
LEMMA StopTakeKeeps ==
    ASSUME TypeInv, SvcInv, NEW r \in Req, StopTake(r)
    PROVE  TypeInv' /\ SvcInv'
<1> DEFINE l == req[r].log
           q == service.active[l]
<1>1. /\ Serving /\ req[r].pc = "stop" /\ l \in Log /\ Held(l) /\ req[r].op # "dropped"
      /\ slog' = slog /\ tape' = tape /\ UNCHANGED minted /\ q \in Req \cup {NoRec}
  BY Shapes DEF StopTake, SvcInv, Requests, Held
<1>2. CASE q = NoRec
  <2>1. Over(r) /\ service' = service
    BY <1>2 DEF StopTake
  <2>2. tape' \in [Req -> TapeType] /\ NoClaim(r)
    BY <1>1 DEF TypeInv, NoClaim
  <2> QED BY <1>1, <2>1, <2>2, SameTapes, SameServices, SameLogs, OverKeeps
<1>3. CASE q \in Req
  <2> DEFINE h == {<<q, l>>}
             v == AtWith(req[r], "detach", h)
  <2>1. /\ service' = [service EXCEPT !.active[l] = NoRec]
        /\ req' = [req EXCEPT ![r].pc = "detach", ![r].hands = h]
    BY <1>3, RecordingAssumption DEF StopTake, NoRec
  <2>2. req[r] \in ReqType /\ "detach" \in Pc /\ h \in HandsType
    BY <1>1, <1>3, Shapes DEF Pc, HandsType
  <2>3. h \subseteq Req \X Log /\ \A p \in Req, k \in Log : <<p, k>> \in h <=> p = q /\ k = l
    BY <1>1, <1>3
  <2> HIDE DEF h
  <2>4. v \in ReqType /\ v.pc = "detach" /\ v.op = req[r].op /\ v.log = l /\ v.hands = h
    BY <2>2, AtWithFields
  <2>5. req' = [req EXCEPT ![r] = v]
    BY <2>1 DEF AtWith, TypeInv
  <2> HIDE DEF v
  <2>6. /\ service' \in ServiceType /\ service'.life = service.life
        /\ service'.todo = service.todo /\ service'.missed = service.missed
        /\ service'.boot = service.boot /\ service'.active[l] = NoRec
        /\ \A k \in Log : k # l => service'.active[k] = service.active[k]
    BY <1>1, <2>1 DEF TypeInv, ServiceType
  <2>7. /\ \A p \in Req : \A k \in Log : <<p, k>> \in v.hands =>
              service.active[k] = p /\ service'.active[k] = NoRec
        /\ \A k \in Log : service'.active[k] # service.active[k] =>
              service'.active[k] = NoRec /\ <<service.active[k], k>> \in v.hands
        /\ \E p \in Req : <<p, v.log>> \in v.hands
        /\ \A p \in Req : \A k \in Log : <<p, k>> \in v.hands => k = v.log
        /\ v.hands \subseteq Req \X Log
    BY <1>1, <1>3, <2>3, <2>4, <2>6
  <2> QED BY <1>1, <2>4, <2>5, <2>6, <2>7, SameLogs, TakenKeeps
<1> QED BY <1>1, <1>2, <1>3

\* reap, first part: recordings whose recorder has ended leave `active'.
LEMMA ReapKeeps ==
    ASSUME TypeInv, SvcInv, NEW r \in Req, NEW op \in {"start", "stop", "annotate"},
           NEW l \in Log, Reap(r, op, l), Serving, req[r].pc = "idle", Held(l),
           slog' \in [Log -> SlogType], SameSinks, tape' = tape, UNCHANGED minted
    PROVE  TypeInv' /\ SvcInv'
<1> DEFINE dead == {q \in Req : q \in {service.active[k] : k \in Log} /\ ~Running(q)}
           h == {p \in Req \X Log : p[1] \in dead /\ service.active[p[2]] = p[1]}
           v == [Idle EXCEPT !.pc = "reaped", !.op = op, !.log = l, !.hands = h]
<1>1. req' = [req EXCEPT ![r] = v]
  BY DEF Reap
<1>2. service' = [[service EXCEPT !.active = Without(service.active, dead)]
                    EXCEPT !.closing = {q \in service.closing : Running(q)}]
  BY DEF Reap, TypeInv, ServiceType
<1>3. \A q \in Req, k \in Log : <<q, k>> \in h <=> q \in dead /\ service.active[k] = q
  OBVIOUS
<1>4. h \subseteq Req \X Log /\ h \in HandsType
  BY DEF HandsType
<1>5. dead \subseteq Req /\ \A k \in Log : service.active[k] \in dead => service.active[k] \in Req
  OBVIOUS
<1> HIDE DEF dead, h
<1>6. Without(service.active, dead) \in [Log -> Req \cup {NoRec}]
  BY DEF Without, TypeInv, ServiceType
<1>7. /\ service' \in ServiceType /\ service'.life = service.life /\ service'.boot = service.boot
      /\ service'.todo = service.todo /\ service'.missed = service.missed
      /\ service'.active = Without(service.active, dead)
  BY <1>2, <1>6 DEF TypeInv, ServiceType
<1>8. \A k \in Log : service'.active[k] =
         (IF service.active[k] \in dead THEN NoRec ELSE service.active[k])
  BY <1>7 DEF Without
<1>9. v \in ReqType /\ v.pc = "reaped" /\ v.op = op /\ v.log = l /\ v.hands = h
  BY <1>4 DEF Idle, ReqType, Pc
<1> HIDE DEF v
<1>10. /\ \A q \in Req : \A k \in Log : <<q, k>> \in v.hands =>
             service.active[k] = q /\ service'.active[k] = NoRec
       /\ \A k \in Log : service'.active[k] # service.active[k] =>
             service'.active[k] = NoRec /\ <<service.active[k], k>> \in v.hands
  BY <1>3, <1>5, <1>8, <1>9
<1> QED BY <1>1, <1>4, <1>7, <1>9, <1>10, TakenKeeps

\* A request on an open session reaps first.
LEMMA BeginKeeps ==
    ASSUME TypeInv, SvcInv, NEW r \in Req, NEW l \in Log, NEW op \in Ops, Begin(r, op, l)
    PROVE  TypeInv' /\ SvcInv'
<1>1. /\ Serving /\ req[r].pc = "idle" /\ op \in {"start", "stop", "annotate"} /\ Held(l)
      /\ Reap(r, op, l) /\ slog' = slog /\ tape' = tape /\ UNCHANGED minted
  BY DEF Begin, Serving, Held
<1> QED BY <1>1, SameLogs, ReapKeeps

\* A session closes: a recorded one is stopped.
LEMMA SessionClosedKeeps ==
    ASSUME TypeInv, SvcInv, NEW r \in Req, NEW l \in Log, SessionClosed(r, l)
    PROVE  TypeInv' /\ SvcInv'
<1>1. /\ Serving /\ req[r].pc = "idle" /\ Held(l) /\ tape' = tape /\ UNCHANGED minted
      /\ slog' = [slog EXCEPT ![l].open = FALSE]
  BY DEF SessionClosed, Serving, Held
<1>2. slog' \in [Log -> SlogType] /\ SameSinks
  BY <1>1 DEF TypeInv, SlogType, SameSinks
<1>3. CASE Over(r) /\ UNCHANGED service
  <2>1. tape' \in [Req -> TapeType] /\ NoClaim(r)
    BY <1>1 DEF TypeInv, NoClaim
  <2> QED BY <1>1, <1>2, <1>3, <2>1, SameTapes, SameServices, OverKeeps
<1>4. CASE Reap(r, "stop", l)
  BY <1>1, <1>2, <1>4, ReapKeeps
<1> QED BY <1>3, <1>4 DEF SessionClosed

\* A request detaches the sinks of what it has in its hands (stop, reap).
LEMMA DetachKeeps ==
    ASSUME TypeInv, SvcInv, NEW r \in Req, NEW v \in ReqType, req' = [req EXCEPT ![r] = v],
           Serving, req[r].pc \in {"reaped", "detach"},
           v.pc \in {"start", "stop", "annotate", "over"}, v.log \in {req[r].log, "none"},
           v.op # "dropped", v.pc # "over" => v.log \in Log,
           NEW logs \in SUBSET Log, \A l \in Log : l \in logs <=> \E q \in Req : Hand(r, q, l),
           Detached(logs),
           service' \in ServiceType, service'.life = service.life, service'.boot = service.boot,
           service'.todo = service.todo, service'.missed = service.missed,
           service'.active = service.active, UNCHANGED minted
    PROVE  TypeInv' /\ SvcInv'
<1>1. /\ req' \in [Req -> ReqType] /\ req'[r] = v /\ \A s \in Req : s # r => req'[s] = req[s]
  BY Moved
<1>2. /\ slog' \in [Log -> SlogType] /\ tape' \in [Req -> TapeType]
      /\ \A l \in Log : slog'[l].open = slog[l].open
      /\ \A l \in Log : l \in logs /\ Held(l) => slog'[l].sink = NoRec
      /\ \A l \in Log : ~(l \in logs /\ Held(l)) => slog'[l].sink = slog[l].sink
      /\ \A q \in Req : SameTape(q)
  BY DetachedIs DEF SvcInv
<1>3. TypeInv'
  BY <1>1, <1>2 DEF TypeInv
<1>4. \A l \in Log : Held(l)' => Held(l)
  BY <1>1, <1>2, HeldShrinks
<1>5. \A s, q \in Req : \A l \in Log : Hand(s, q, l)' <=> s # r /\ Hand(s, q, l)
  BY <1>1 DEF Hand
<1>6. \A q \in Req : \A l \in Log :
         (req[q].pc = "enter" /\ req[q].log = l)' <=> (req[q].pc = "enter" /\ req[q].log = l)
  BY <1>1
<1>7. \A q \in Req : \A l \in Log : Claim(q, l)' => Claim(q, l)
  BY <1>5, <1>6 DEF Claim
<1>8. \A q \in Req : \A l \in Log : Claim(q, l) => Claim(q, l)' \/ Hand(r, q, l)
  BY <1>5, <1>6 DEF Claim
<1>9. ASSUME NEW q \in Req, NEW l \in Log, l \in logs, Held(l)
      PROVE  ~Claim(q, l)'
  <2>1. PICK p \in Req : Hand(r, p, l)
    BY <1>9
  <2>2. Claim(p, l)
    BY <2>1 DEF Claim
  <2>3. Claim(q, l)' => q = p
    BY <1>7, <1>9, <2>2 DEF SvcInv, Owned
  <2>4. service.active[l] # p /\ req[p].pc = "over" /\ \A s \in Req : Hand(s, p, l) => s = r
    BY <2>1 DEF SvcInv, Hands
  <2>5. ~Claim(p, l)'
    BY <1>5, <1>6, <2>4 DEF Claim
  <2> QED BY <2>3, <2>5
<1>10. Owned'
  BY <1>2, <1>4, <1>7, <1>9 DEF SvcInv, Owned
<1>11. Claimed'
  <2>1. ASSUME NEW l \in Log, service.life = "up", Held(l)', slog'[l].sink # NoRec
        PROVE  Claim(slog[l].sink, l)' /\ slog'[l].sink = slog[l].sink
    <3>1. Held(l) /\ l \notin logs /\ slog'[l].sink = slog[l].sink
      BY <1>2, <1>4, <2>1
    <3>2. Claim(slog[l].sink, l) /\ slog[l].sink \in Req
      BY <2>1, <3>1, Shapes DEF SvcInv, Claimed
    <3>3. ~Hand(r, slog[l].sink, l)
      BY <3>1, <3>2
    <3> QED BY <1>8, <3>1, <3>2, <3>3
  <2> QED BY <2>1 DEF Claimed, Claim
<1>12. \A q \in Req : req[q].pc \in {"enter", "over"} => req'[q] = req[q]
  BY <1>1
<1>13. Sinks'
  BY <1>2, <1>12, Shapes DEF SvcInv, Sinks, SameTape
<1>14. Actives'
  BY <1>2, <1>12, Shapes DEF SvcInv, Actives, SameTape
<1>15. Hands'
  <2>1. \A s \in Req : req'[s].pc \in {"reaped", "detach"} => req'[s] = req[s]
    BY <1>1
  <2>2. \A q \in Req : req[q].pc = "over" =>
           /\ req'[q].pc = "over" /\ tape'[q].log = tape[q].log
           /\ \A l \in Log : service'.active[l] = q => service.active[l] = q
    BY <1>2, <1>12 DEF SameTape
  <2> QED BY <2>1, <2>2, HandsStay DEF SvcInv
<1>16. Quiet' /\ Leftovers'
  BY <1>2 DEF SvcInv, Quiet, Leftovers, UnfinishedIsOurs, Serving, SameTape
<1>17. Pruning'
  BY <1>1, <1>2 DEF SvcInv, Pruning, SameTape
<1>18. tape'[r].dir = "none" /\ \A q \in Req : tape[q].thread = "none" => tape'[q].thread = "none"
  <2>1. tape' = [q \in Req |-> IF q \in {slog[l].sink : l \in {k \in logs : Held(k)}} \ {NoRec}
                               THEN [tape[q] EXCEPT !.ends = TRUE] ELSE tape[q]]
    BY DEF Detached
  <2>2. \A q \in Req : tape[q] \in TapeType
    BY Shapes
  <2>3. \A q \in Req : tape'[q] = tape[q] \/ tape'[q] = [tape[q] EXCEPT !.ends = TRUE]
    BY <2>1
  <2> QED BY <1>2, <2>2, <2>3 DEF TapeType, SvcInv, Requests, SameTape
<1>19. Requests'
  <2>1. ASSUME NEW s \in Req
        PROVE  /\ req'[s].pc \notin {"idle", "over"} => req'[s].log \in Log \/ req'[s].op = "dropped"
               /\ req'[s].op = "dropped" => req'[s].pc \in {"scan", "prune", "create"}
               /\ req'[s].pc = "reaped" => req'[s].op \in {"start", "stop", "annotate"}
               /\ req'[s].pc \notin {"attach", "enter", "refused", "over"} =>
                     tape'[s].dir = "none" /\ tape'[s].thread = "none"
               /\ req'[s].pc \in {"attach", "enter"} => tape'[s].log = req'[s].log
    <3>1. CASE s # r
      BY <1>1, <1>2, <1>18, <3>1 DEF SvcInv, Requests, SameTape
    <3>2. CASE s = r
      BY <1>1, <1>18, <3>2 DEF SvcInv, Requests
    <3> QED BY <3>1, <3>2
  <2> QED BY <2>1 DEF Requests
<1> QED BY <1>3, <1>10, <1>11, <1>13, <1>14, <1>15, <1>16, <1>17, <1>19 DEF SvcInv

\* reap, second part.
LEMMA ReapDetachKeeps ==
    ASSUME TypeInv, SvcInv, NEW r \in Req, ReapDetach(r)
    PROVE  TypeInv' /\ SvcInv'
<1> DEFINE logs == {p[2] : p \in req[r].hands}
           v == AtWith(req[r], req[r].op, {})
           c == service.closing \cup {p[1] : p \in req[r].hands}
<1>1. /\ Serving /\ req[r].pc = "reaped" /\ Detached(logs) /\ UNCHANGED minted
      /\ service' = [service EXCEPT !.closing = c]
      /\ req' = [req EXCEPT ![r].pc = req[r].op, ![r].hands = {}]
  BY DEF ReapDetach
<1>2. /\ req[r].hands \subseteq Req \X Log /\ req[r].log \in Log
      /\ req[r].op \in {"start", "stop", "annotate"}
  BY <1>1 DEF SvcInv, Hands, Requests
<1>3. /\ logs \subseteq Log /\ {p[1] : p \in req[r].hands} \subseteq Req
      /\ \A l \in Log : l \in logs <=> \E q \in Req : <<q, l>> \in req[r].hands
  <2>1. \A p \in req[r].hands : p[1] \in Req /\ p[2] \in Log /\ p = <<p[1], p[2]>>
    BY <1>2
  <2>2. logs \subseteq Log /\ {p[1] : p \in req[r].hands} \subseteq Req
    BY <2>1
  <2>3. ASSUME NEW l \in Log, l \in logs
        PROVE  \E q \in Req : <<q, l>> \in req[r].hands
    <3>1. PICK p \in req[r].hands : p[2] = l
      BY <2>3
    <3>2. <<p[1], l>> \in req[r].hands /\ p[1] \in Req
      BY <2>1, <3>1
    <3> QED BY <3>2
  <2>4. ASSUME NEW l \in Log, NEW q \in Req, <<q, l>> \in req[r].hands
        PROVE  l \in logs
    <3>1. <<q, l>>[2] = l
      OBVIOUS
    <3> QED BY <2>4, <3>1
  <2> QED BY <2>2, <2>3, <2>4
<1>4. \A l \in Log : l \in logs <=> \E q \in Req : Hand(r, q, l)
  BY <1>1, <1>3 DEF Hand
<1>5. c \in SUBSET Req
  BY <1>3 DEF TypeInv, ServiceType
<1> HIDE DEF logs, c
<1>6. /\ service' \in ServiceType /\ service'.life = service.life /\ service'.boot = service.boot
      /\ service'.todo = service.todo /\ service'.missed = service.missed
      /\ service'.active = service.active
  BY <1>1, <1>5 DEF TypeInv, ServiceType
<1>7. req[r] \in ReqType /\ req[r].op \in Pc /\ {} \in HandsType
  BY <1>2, Shapes DEF Pc, HandsType
<1>8. v \in ReqType /\ v.pc = req[r].op /\ v.op = req[r].op /\ v.log = req[r].log
  BY <1>7, AtWithFields
<1>9. req' = [req EXCEPT ![r] = v]
  BY <1>1 DEF AtWith, TypeInv
<1> HIDE DEF v
<1> QED BY <1>1, <1>2, <1>3, <1>4, <1>6, <1>8, <1>9, DetachKeeps

\* stop, after the lock.
LEMMA StopDetachKeeps ==
    ASSUME TypeInv, SvcInv, NEW r \in Req, StopDetach(r)
    PROVE  TypeInv' /\ SvcInv'
<1> DEFINE logs == {req[r].log}
           c == service.closing \cup {p[1] : p \in req[r].hands}
<1>1. /\ Serving /\ req[r].pc = "detach" /\ Detached(logs) /\ UNCHANGED minted
      /\ service' = [service EXCEPT !.closing = c] /\ req' = [req EXCEPT ![r] = Gone]
  BY DEF StopDetach, Over, Gone
<1>2. /\ req[r].hands \subseteq Req \X Log /\ req[r].log \in Log
      /\ \E q \in Req : <<q, req[r].log>> \in req[r].hands
      /\ \A q \in Req : \A l \in Log : Hand(r, q, l) => l = req[r].log
  BY <1>1 DEF SvcInv, Hands, Requests
<1>3. logs \subseteq Log /\ \A l \in Log : l \in logs <=> \E q \in Req : Hand(r, q, l)
  BY <1>1, <1>2 DEF Hand
<1>4. c \in SUBSET Req
  BY <1>2 DEF TypeInv, ServiceType
<1> HIDE DEF logs, c
<1>5. /\ service' \in ServiceType /\ service'.life = service.life /\ service'.boot = service.boot
      /\ service'.todo = service.todo /\ service'.missed = service.missed
      /\ service'.active = service.active
  BY <1>1, <1>4 DEF TypeInv, ServiceType
<1> QED BY <1>1, <1>3, <1>5, GoneIs, DetachKeeps

\* A log that nobody has is dropped with its sink.
LEMMA DroppedKeeps ==
    ASSUME TypeInv, SvcInv, NEW l \in Log, LogDropped(l)
    PROVE  TypeInv' /\ SvcInv'
<1> DEFINE q == slog[l].sink
           w == [tape[q] EXCEPT !.ends = TRUE]
           y == [slog[l] EXCEPT !.sink = NoRec]
<1>1. /\ Serving /\ ~Held(l) /\ q \in Req /\ service' = service /\ req' = req /\ UNCHANGED minted
      /\ tape[q] \in TapeType /\ slog[l] \in SlogType
  BY Shapes DEF LogDropped
<1>2. /\ w \in TapeType /\ w.log = tape[q].log /\ w.boot = tape[q].boot /\ w.dir = tape[q].dir
      /\ w.thread = tape[q].thread
      /\ y \in SlogType /\ y.open = slog[l].open /\ y.sink = NoRec
  BY <1>1 DEF TapeType, SlogType
<1>3. tape' = [tape EXCEPT ![q] = w] /\ slog' = [slog EXCEPT ![l] = y]
  BY <1>1 DEF LogDropped, TypeInv
<1> HIDE DEF q, w, y
<1>4. /\ tape' \in [Req -> TapeType] /\ slog' \in [Log -> SlogType]
      /\ \A s \in Req : /\ tape'[s].log = tape[s].log /\ tape'[s].boot = tape[s].boot
                        /\ tape'[s].dir = tape[s].dir /\ tape'[s].thread = tape[s].thread
      /\ \A k \in Log : slog'[k].open = slog[k].open /\ (k # l => slog'[k].sink = slog[k].sink)
      /\ slog'[l].sink = NoRec
  BY <1>1, <1>2, <1>3 DEF TypeInv
<1>5. TypeInv'
  BY <1>1, <1>4 DEF TypeInv
<1>6. \A k \in Log : Held(k)' <=> Held(k)
  BY <1>1, <1>4, HeldSame
<1>7. (\A s, p \in Req : \A k \in Log : Hand(s, p, k)' <=> Hand(s, p, k))
      /\ \A p \in Req : \A k \in Log : Claim(p, k)' <=> Claim(p, k)
  BY <1>1 DEF Hand, Claim
<1>8. Sinks' /\ Actives'
  BY <1>1, <1>4, Shapes DEF SvcInv, Sinks, Actives
<1>9. Hands'
  BY <1>1, <1>4, HandsStay DEF SvcInv
<1>10. Owned'
  BY <1>1, <1>4, <1>6, <1>7 DEF SvcInv, Owned
<1>11. Claimed'
  BY <1>1, <1>4, <1>6, <1>7, Shapes DEF SvcInv, Claimed
<1>12. Quiet' /\ Requests' /\ Pruning' /\ Leftovers'
  BY <1>1, <1>4 DEF SvcInv, Quiet, Requests, Pruning, Leftovers, UnfinishedIsOurs, Serving
<1> QED BY <1>5, <1>8, <1>9, <1>10, <1>11, <1>12 DEF SvcInv

\* shutdown stops every recording that is active.
LEMMA ShutdownKeeps ==
    ASSUME TypeInv, SvcInv, Shutdown
    PROVE  TypeInv' /\ SvcInv'
<1> DEFINE none == [l \in Log |-> NoRec]
           c == service.closing \cup ({service.active[l] : l \in Log} \ {NoRec})
<1>1. /\ service.life = "up" /\ Detached(LogsOf(Req)) /\ req' = req /\ UNCHANGED minted
      /\ service' = [service EXCEPT !.life = "stopping", !.active = none, !.closing = c]
  BY DEF Shutdown
<1>2. c \in SUBSET Req /\ none \in [Log -> Req \cup {NoRec}]
  BY Shapes DEF TypeInv, ServiceType
<1>3. LogsOf(Req) \subseteq Log /\ \A l \in Log : l \in LogsOf(Req) <=> service.active[l] \in Req
  BY DEF LogsOf
<1>4. /\ slog' \in [Log -> SlogType] /\ tape' \in [Req -> TapeType]
      /\ \A l \in Log : slog'[l].open = slog[l].open
      /\ \A l \in Log : l \in LogsOf(Req) /\ Held(l) => slog'[l].sink = NoRec
      /\ \A l \in Log : ~(l \in LogsOf(Req) /\ Held(l)) => slog'[l].sink = slog[l].sink
      /\ \A q \in Req : SameTape(q)
  BY <1>1, <1>3, DetachedIs DEF SvcInv
<1>5. \A l \in Log : none[l] = NoRec
  OBVIOUS
<1> HIDE DEF c, none
<1>6. /\ service' \in ServiceType /\ service'.boot = service.boot /\ service'.life = "stopping"
      /\ service'.active = none
  BY <1>1, <1>2 DEF TypeInv, ServiceType
<1>7. TypeInv'
  BY <1>1, <1>4, <1>6 DEF TypeInv
<1>8. \A l \in Log : Held(l)' <=> Held(l)
  BY <1>1, <1>4, HeldSame
<1>9. (\A s, q \in Req : \A l \in Log : Hand(s, q, l)' <=> Hand(s, q, l))
      /\ \A q \in Req : q # NoRec
  BY <1>1, RecordingAssumption DEF Hand, NoRec
<1>10. ASSUME NEW q \in Req, NEW l \in Log
       PROVE  Claim(q, l)' => Claim(q, l) /\ service.active[l] # q
  <2>1. Claim(q, l)' => (req[q].pc = "enter" /\ req[q].log = l) \/ \E r \in Req : Hand(r, q, l)
    BY <1>1, <1>5, <1>6, <1>9 DEF Claim
  <2>2. service.active[l] = q => req[q].pc = "over"
    BY <1>9 DEF SvcInv, Actives
  <2>3. \A r \in Req : Hand(r, q, l) => service.active[l] # q
    BY DEF SvcInv, Hands
  <2> QED BY <2>1, <2>2, <2>3 DEF Claim
<1>11. ASSUME NEW q \in Req, NEW l \in Log, Held(l)', Claim(q, l)'
       PROVE  slog'[l].sink = q
  <2>1. slog[l].sink = q /\ service.active[l] # q /\ Held(l)
    BY <1>8, <1>10, <1>11 DEF SvcInv, Owned
  <2>2. service.active[l] \notin Req
    BY <2>1 DEF SvcInv, Owned, Claim
  <2> QED BY <1>3, <1>4, <2>1, <2>2
<1>12. Owned'
  BY <1>11 DEF Owned
<1>13. Claimed'
  BY <1>6 DEF Claimed
<1>14. Sinks'
  BY <1>1, <1>4, Shapes DEF SvcInv, Sinks, SameTape
<1>15. Actives'
  BY <1>5, <1>6 DEF Actives
<1>16. Hands'
  BY <1>1, <1>4, <1>5, <1>6, <1>9, HandsStay DEF SameTape, SvcInv
<1>17. Quiet' /\ Pruning' /\ Leftovers'
  BY <1>1, <1>4, <1>6 DEF SvcInv, Quiet, Pruning, Leftovers, UnfinishedIsOurs, Serving, SameTape
<1>18. \A q \in Req : tape[q].thread = "none" => tape'[q].thread = "none"
  <2>1. tape' = [q \in Req |->
                   IF q \in {slog[l].sink : l \in {k \in LogsOf(Req) : Held(k)}} \ {NoRec}
                   THEN [tape[q] EXCEPT !.ends = TRUE] ELSE tape[q]]
    BY <1>1 DEF Detached
  <2>2. \A q \in Req : tape[q] \in TapeType
    BY Shapes
  <2>3. \A q \in Req : tape'[q] = tape[q] \/ tape'[q] = [tape[q] EXCEPT !.ends = TRUE]
    BY <2>1
  <2> QED BY <2>2, <2>3 DEF TapeType
<1>19. Requests'
  BY <1>1, <1>4, <1>18 DEF SvcInv, Requests, SameTape
<1> QED BY <1>7, <1>12, <1>13, <1>14, <1>15, <1>16, <1>17, <1>19 DEF SvcInv

\* The directory of a recording, of this daemon, or a failure.
LEMMA CreateKeeps ==
    ASSUME TypeInv, SvcInv, NEW r \in Req, Create(r)
    PROVE  TypeInv' /\ SvcInv'
<1> DEFINE w == [[[tape[r] EXCEPT !.dir = "open"] EXCEPT !.boot = service.boot]
                    EXCEPT !.log = req[r].log]
<1>1. /\ Serving /\ req[r].pc = "create" /\ slog' = slog /\ service' = service /\ UNCHANGED minted
      /\ NoClaim(r)
      /\ req[r].op # "dropped" => req[r].log \in Log
      /\ tape[r].dir = "none" /\ tape[r].thread = "none" /\ minted' \in Seq(Req)
  BY DEF Create, NoClaim, SvcInv, Requests, TypeInv
<1>2. CASE UNCHANGED tape /\ IF req[r].op = "dropped" THEN Over(r) ELSE To(r, "refused")
  <2>1. tape' \in [Req -> TapeType] /\ \A s \in Req : Aged(s)
    BY <1>2, SameTapes DEF TypeInv
  <2>2. CASE Over(r)
    BY <1>1, <2>1, <2>2, SameServices, SameLogs, OverKeeps
  <2>3. CASE To(r, "refused") /\ req[r].op # "dropped"
    BY <1>1, <2>1, <2>3, SameServices, ToKeeps
  <2> QED BY <1>2, <2>2, <2>3
<1>3. CASE /\ tape' = [tape EXCEPT ![r].dir = "open", ![r].boot = service.boot,
                                   ![r].log = req[r].log]
           /\ IF req[r].op = "dropped" THEN Over(r) ELSE To(r, "attach")
  <2> DEFINE v == IF req[r].op = "dropped" THEN Gone ELSE At(req[r], "attach")
  <2>1. req[r] \in ReqType /\ tape[r] \in TapeType /\ service.boot \in Nat /\ "attach" \in Pc
    BY Shapes DEF Pc, TypeInv, ServiceType
  <2>2. /\ v \in ReqType /\ v.pc \in {"attach", "over"} /\ v.op # "dropped"
        /\ v.log \in {req[r].log, "none"}
        /\ v.pc = "attach" => v.log = req[r].log /\ req[r].log \in Log
    BY <1>1, <2>1, AtFields, GoneIs DEF SvcInv, Requests
  <2>3. /\ w \in TapeType /\ w.dir = "open" /\ w.boot = service.boot /\ w.log = req[r].log
        /\ w.thread = "none"
    <3>1. req[r].log \in Log \cup {"none"}
      BY <2>1 DEF ReqType
    <3> QED BY <1>1, <2>1, <3>1 DEF TapeType
  <2>4. req' = [req EXCEPT ![r] = v] /\ tape' = [tape EXCEPT ![r] = w]
    BY <1>3 DEF Over, To, At, Gone, TypeInv
  <2> HIDE DEF v, w
  <2>5. /\ req' \in [Req -> ReqType] /\ req'[r] = v /\ \A s \in Req : s # r => req'[s] = req[s]
        /\ tape' \in [Req -> TapeType] /\ tape'[r] = w /\ \A s \in Req : s # r => tape'[s] = tape[s]
    BY <2>2, <2>3, <2>4, Moved, Taped
  <2>6. TypeInv'
    BY <1>1, <2>5 DEF TypeInv
  <2>7. \A s \in Req : Untouched(s) \/ StillNoClaim(s)
    BY <1>1, <2>2, <2>5 DEF Untouched, StillNoClaim
  <2>8. Claims'
    BY <1>1, <2>6, <2>7, SameLogs, ClaimsStay DEF SvcInv, Claims
  <2>9. Quiet' /\ Leftovers'
    BY <1>1, <2>3, <2>5 DEF SvcInv, Quiet, Leftovers, UnfinishedIsOurs, Serving
  <2>10. Pruning'
    <3>1. \A s \in Req : req'[s].pc = "prune" => req'[s] = req[s]
      BY <2>2, <2>5
    <3>2. \A s \in Req : req[s].pc = "prune" => r \notin req[s].hands
      BY <1>1 DEF SvcInv, Pruning
    <3> QED BY <2>5, <3>1, <3>2 DEF SvcInv, Pruning
  <2>11. ASSUME NEW s \in Req
         PROVE  /\ req'[s].pc \notin {"idle", "over"} => req'[s].log \in Log \/ req'[s].op = "dropped"
                /\ req'[s].op = "dropped" => req'[s].pc \in {"scan", "prune", "create"}
                /\ req'[s].pc = "reaped" => req'[s].op \in {"start", "stop", "annotate"}
                /\ req'[s].pc \notin {"attach", "enter", "refused", "over"} =>
                      tape'[s].dir = "none" /\ tape'[s].thread = "none"
                /\ req'[s].pc \in {"attach", "enter"} => tape'[s].log = req'[s].log
    <3>1. CASE s # r
      BY <2>5, <3>1 DEF SvcInv, Requests
    <3>2. CASE s = r
      BY <2>2, <2>3, <2>5, <3>2
    <3> QED BY <3>1, <3>2
  <2>12. Requests'
    BY <2>11 DEF Requests
  <2> QED BY <2>6, <2>8, <2>9, <2>10, <2>12 DEF SvcInv, Claims
<1> QED BY <1>2, <1>3 DEF Create

-----------------------------------------------------------------------------
(* The daemon ends, starts and begins to serve *)

\* No recordings, no sinks and no requests under way.
Fresh ==
    /\ \A l \in Log : slog[l].sink = NoRec /\ service.active[l] = NoRec
    /\ service.closing = {}
    /\ \A r \in Req : /\ req[r].pc \in {"idle", "over"} /\ req[r].op # "dropped"
                      /\ req[r].pc = "idle" => tape[r].dir = "none" /\ tape[r].thread = "none"

\* A daemon without recordings and requests owes nothing.
LEMMA FreshIsSafe == Fresh /\ Leftovers => SvcInv
<1> SUFFICES ASSUME Fresh, Leftovers PROVE SvcInv
  OBVIOUS
<1>1. \A r, q \in Req : \A l \in Log : ~Hand(r, q, l)
  BY DEF Fresh, Hand
<1>2. \A q \in Req : \A l \in Log : ~Claim(q, l)
  BY <1>1, RecordingAssumption DEF Fresh, Claim, NoRec
<1>3. Quiet /\ Requests /\ Pruning
  BY DEF Fresh, Quiet, Requests, Pruning
<1>4. Sinks /\ Actives /\ Claimed
  BY DEF Fresh, Sinks, Actives, Claimed
<1>5. Hands
  BY <1>1 DEF Fresh, Hands
<1>6. Owned
  BY <1>2 DEF Owned
<1> QED BY <1>3, <1>4, <1>5, <1>6 DEF SvcInv

\* The first daemon.
LEMMA InitInv == ServiceInit => IInv
<1> SUFFICES ASSUME ServiceInit PROVE IInv
  OBVIOUS
<1> USE DEF ServiceInit
<1>1. \A l \in Log : slog[l] = [open |-> TRUE, sink |-> NoRec]
  OBVIOUS
<1>2. slog \in [Log -> SlogType]
  BY DEF SlogType
<1>3. service \in ServiceType
  BY DEF ServiceType
<1>4. Idle \in ReqType /\ Idle.pc = "idle" /\ Idle.op = "none"
  BY DEF Idle, ReqType, Pc, HandsType
<1>5. NoTape \in TapeType /\ NoTape.dir = "none" /\ NoTape.thread = "none"
  BY DEF NoTape, TapeType
<1>9. minted \in Seq(Req)
  OBVIOUS
<1>10. req \in [Req -> ReqType] /\ tape \in [Req -> TapeType]
  BY <1>4, <1>5
<1>6. TypeInv
  BY <1>2, <1>3, <1>9, <1>10 DEF TypeInv
<1>7. Fresh
  BY <1>1, <1>4, <1>5 DEF Fresh
<1>8. Leftovers
  BY <1>5 DEF Leftovers, UnfinishedIsOurs
<1> QED BY <1>6, <1>7, <1>8, FreshIsSafe DEF IInv

\* The process ends: everything it held is gone, the directories stay.
LEMMA ProcessEndsKeeps ==
    ASSUME TypeInv, SvcInv, ProcessEnds
    PROVE  TypeInv' /\ SvcInv'
<1>1. /\ slog' = [l \in Log |-> [open |-> FALSE, sink |-> NoRec]]
      /\ service' = [life |-> "down", boot |-> service.boot, active |-> [l \in Log |-> NoRec],
                     starting |-> {}, closing |-> {}, todo |-> {}, missed |-> {}]
      /\ minted' \in Seq(Req)
  BY DEF ProcessEnds, TypeInv
<1>2. slog' \in [Log -> SlogType] /\ \A l \in Log : slog'[l].sink = NoRec
  BY <1>1 DEF SlogType
<1>3. service' \in ServiceType
  BY <1>1 DEF ServiceType, TypeInv
<1>4. Idle \in ReqType /\ Idle.pc = "idle" /\ Idle.op = "none"
  BY DEF Idle, ReqType, Pc, HandsType
<1>5. req' = [r \in Req |-> IF req[r].pc = "idle" THEN Idle ELSE Gone]
  BY DEF ProcessEnds, Gone
<1>6. /\ req' \in [Req -> ReqType]
      /\ \A r \in Req : /\ req'[r].pc \in {"idle", "over"} /\ req'[r].op # "dropped"
                        /\ req'[r].pc = "idle" => req[r].pc = "idle"
  <2>1. \A r \in Req : /\ req[r].pc = "idle" => req'[r] = Idle
                       /\ req[r].pc # "idle" => req'[r] = Gone
    BY <1>5
  <2> QED BY <1>4, <1>5, <2>1, GoneIs
<1>7. ASSUME NEW q \in Req
      PROVE  /\ tape'[q] \in TapeType /\ tape'[q].dir = tape[q].dir
             /\ tape[q].thread = "none" => tape'[q].thread = "none"
  <2>1. tape[q] \in TapeType
    BY Shapes
  <2>2. /\ Running(q) => tape'[q] = [tape[q] EXCEPT !.thread = "done"]
        /\ ~Running(q) => tape'[q] = tape[q]
    BY DEF ProcessEnds
  <2> QED BY <2>1, <2>2 DEF TapeType, Running
<1>8. tape' \in [Req -> TapeType]
  <2>1. tape' = [q \in Req |-> tape'[q]]
    BY DEF ProcessEnds
  <2> QED BY <1>7, <2>1
<1>9. TypeInv'
  BY <1>1, <1>2, <1>3, <1>6, <1>8 DEF TypeInv
<1>10. Fresh'
  BY <1>1, <1>2, <1>6, <1>7 DEF Fresh, SvcInv, Requests
<1>11. Leftovers'
  BY <1>1 DEF Leftovers, UnfinishedIsOurs, Serving
<1>12. Fresh' /\ Leftovers' => SvcInv'
  BY FreshIsSafe, PTL
<1> QED BY <1>9, <1>10, <1>11, <1>12

\* A new daemon, with new sessions, that serves nobody yet.
LEMMA BootKeeps ==
    ASSUME TypeInv, SvcInv, Boot
    PROVE  TypeInv' /\ SvcInv'
<1>1. /\ service.life = "down" /\ req' = req /\ tape' = tape /\ minted' = minted
      /\ service' = [[[service EXCEPT !.life = "starting"] EXCEPT !.boot = service.boot + 1]
                       EXCEPT !.todo = Unfinished]
      /\ slog' = [l \in Log |-> [open |-> TRUE, sink |-> NoRec]]
  BY DEF Boot, TypeInv, ServiceType
<1>2. /\ service' \in ServiceType /\ service'.life = "starting"
      /\ service'.active = service.active /\ service'.closing = service.closing
      /\ service'.todo = Unfinished
  <2>1. service \in ServiceType /\ service.boot + 1 \in Nat /\ Unfinished \in SUBSET Req
    BY DEF TypeInv, ServiceType, Unfinished
  <2> QED BY <1>1, <2>1 DEF ServiceType
<1>3. slog' \in [Log -> SlogType] /\ \A l \in Log : slog'[l].sink = NoRec
  BY <1>1 DEF SlogType
<1>4. TypeInv'
  BY <1>1, <1>2, <1>3 DEF TypeInv
<1>5. Fresh'
  BY <1>1, <1>2, <1>3 DEF SvcInv, Fresh, Quiet, Requests, Serving
<1>6. Leftovers'
  BY <1>1, <1>2 DEF Leftovers, UnfinishedIsOurs, Serving, Unfinished
<1>7. Fresh' /\ Leftovers' => SvcInv'
  BY FreshIsSafe, PTL
<1> QED BY <1>4, <1>5, <1>6, <1>7

\* finalize_leftovers: the recording is finished, or is one that was tried in vain.
LEMMA FinalizeLeftoverKeeps ==
    ASSUME TypeInv, SvcInv, FinalizeLeftover
    PROVE  TypeInv' /\ SvcInv'
<1>1. /\ service.life = "starting" /\ slog' = slog /\ req' = req /\ minted' = minted
      /\ \E q \in service.todo :
            \/ /\ tape' = [tape EXCEPT ![q].dir = "done"]
               /\ service' = [service EXCEPT !.todo = @ \ {q}]
            \/ /\ service' = [service EXCEPT !.todo = @ \ {q}, !.missed = @ \cup {q}]
               /\ tape' = tape
  BY DEF FinalizeLeftover
<1>2. PICK q \in service.todo :
            \/ /\ tape' = [tape EXCEPT ![q].dir = "done"]
               /\ service' = [service EXCEPT !.todo = @ \ {q}]
            \/ /\ service' = [service EXCEPT !.todo = @ \ {q}, !.missed = @ \cup {q}]
               /\ tape' = tape
  BY <1>1
<1>3. service \in ServiceType /\ q \in Req /\ tape[q] \in TapeType
  BY Shapes DEF TypeInv, ServiceType
<1>4. /\ service' \in ServiceType /\ service'.life = "starting"
      /\ service'.active = service.active /\ service'.closing = service.closing
      /\ service'.todo = service.todo \ {q} /\ service.missed \subseteq service'.missed
      /\ tape'[q].dir # "done" => q \in service'.missed
      /\ tape' = tape \/ tape' = [tape EXCEPT ![q].dir = "done"]
  <2>1. CASE /\ tape' = [tape EXCEPT ![q].dir = "done"]
             /\ service' = [service EXCEPT !.todo = @ \ {q}]
    <3>1. tape'[q].dir = "done"
      BY <2>1, <1>3 DEF TypeInv, TapeType
    <3> QED BY <1>1, <1>3, <2>1, <3>1 DEF ServiceType
  <2>2. CASE /\ service' = [service EXCEPT !.todo = @ \ {q}, !.missed = @ \cup {q}]
             /\ tape' = tape
    BY <1>1, <1>3, <2>2 DEF ServiceType
  <2> QED BY <1>2, <2>1, <2>2
<1>5. ASSUME NEW s \in Req
      PROVE  /\ tape'[s] \in TapeType /\ tape'[s].thread = tape[s].thread
             /\ tape[s].dir = "none" /\ s # q => tape'[s].dir = "none"
             /\ tape'[s].dir = "open" => tape[s].dir = "open"
             /\ s # q => tape'[s] = tape[s]
  BY <1>3, <1>4, Shapes DEF TypeInv, TapeType
<1>6. tape' \in [Req -> TapeType]
  <2>1. tape' = [s \in Req |-> tape'[s]]
    BY <1>4 DEF TypeInv
  <2> QED BY <1>5, <2>1
<1>7. TypeInv'
  BY <1>1, <1>4, <1>6 DEF TypeInv
<1>8. Leftovers'
  <2>1. ~Serving'
    BY <1>4 DEF Serving
  <2>2. \A s \in Req : /\ tape'[s].dir = "open" => s \in service'.todo \cup service'.missed
                       /\ s \in service'.todo => tape'[s].dir = "open"
    BY <1>1, <1>4, <1>5 DEF SvcInv, Leftovers
  <2>3. UnfinishedIsOurs'
    BY <2>1 DEF UnfinishedIsOurs
  <2> QED BY <2>2, <2>3 DEF Leftovers
<1>9. tape[q].dir = "open"
  BY <1>1, <1>2, <1>3 DEF SvcInv, Leftovers
<1>10. Fresh'
  BY <1>1, <1>4, <1>5, <1>9 DEF SvcInv, Fresh, Quiet, Requests, Serving
<1>11. Fresh' /\ Leftovers' => SvcInv'
  BY FreshIsSafe, PTL
<1> QED BY <1>7, <1>8, <1>10, <1>11

\* The prune of startup, after which requests are accepted: what is unfinished was
\* tried in vain.
LEMMA StartupKeeps ==
    ASSUME TypeInv, SvcInv, Startup
    PROVE  TypeInv' /\ SvcInv'
<1>1. /\ service.life = "starting" /\ service.todo = {} /\ slog' = slog /\ req' = req
      /\ minted' = minted /\ service' = [service EXCEPT !.life = "up"]
  BY DEF Startup
<1>2. PICK aged \in 0..Len(minted), stuck \in SUBSET Req :
         tape' = [q \in Req |-> IF q \in Victims({}, aged) \ stuck
                                THEN [tape[q] EXCEPT !.dir = "gone"] ELSE tape[q]]
  BY DEF Startup
<1>3. \A q \in Req : tape[q].dir = "open" => q \in service.missed
  BY <1>1 DEF SvcInv, Leftovers
<1>4. ASSUME NEW q \in Req
      PROVE  /\ tape'[q] \in TapeType
             /\ tape'[q].dir = "open" => tape[q].dir = "open"
             /\ tape[q].dir = "none" => tape'[q].dir = "none"
             /\ tape'[q].thread = tape[q].thread
  <2>1. tape[q] \in TapeType
    BY Shapes
  <2>2. \/ q \in Victims({}, aged) /\ tape'[q] = [tape[q] EXCEPT !.dir = "gone"]
        \/ tape'[q] = tape[q]
    BY <1>2
  <2>3. q \in Victims({}, aged) => tape[q].dir = "done"
    BY VictimsAreDone
  <2> QED BY <2>1, <2>2, <2>3 DEF TapeType
<1>5. tape' \in [Req -> TapeType]
  <2>1. tape' = [q \in Req |-> tape'[q]]
    BY <1>2
  <2> QED BY <1>4, <2>1
<1>6. /\ service' \in ServiceType /\ service'.active = service.active
      /\ service'.closing = service.closing /\ service'.missed = service.missed
      /\ service'.life = "up"
  BY <1>1 DEF TypeInv, ServiceType
<1>7. TypeInv'
  BY <1>1, <1>5, <1>6 DEF TypeInv
<1>8. Fresh'
  BY <1>1, <1>4, <1>6 DEF SvcInv, Fresh, Quiet, Requests, Serving
<1>9. Leftovers'
  BY <1>3, <1>4, <1>6 DEF Leftovers, UnfinishedIsOurs
<1>10. Fresh' /\ Leftovers' => SvcInv'
  BY FreshIsSafe, PTL
<1> QED BY <1>7, <1>8, <1>9, <1>10

\* A startup that fails: requests are accepted, and what was not tried is missed.
LEMMA StartupFailsKeeps ==
    ASSUME TypeInv, SvcInv, StartupFails
    PROVE  TypeInv' /\ SvcInv'
<1> DEFINE m == service.missed \cup service.todo
<1>1. /\ service.life = "starting" /\ slog' = slog /\ req' = req /\ minted' = minted
      /\ tape' = tape
      /\ service' = [[[service EXCEPT !.life = "up"] EXCEPT !.todo = {}] EXCEPT !.missed = m]
  BY DEF StartupFails, TypeInv, ServiceType
<1>2. m \in SUBSET Req /\ \A q \in Req : q \in m <=> q \in service.todo \cup service.missed
  BY DEF TypeInv, ServiceType
<1> HIDE DEF m
<1>3. /\ service' \in ServiceType /\ service'.active = service.active
      /\ service'.closing = service.closing /\ service'.missed = m
      /\ service'.life = "up"
  BY <1>1, <1>2 DEF TypeInv, ServiceType
<1>4. TypeInv'
  BY <1>1, <1>3 DEF TypeInv
<1>5. Fresh'
  BY <1>1, <1>3 DEF SvcInv, Fresh, Quiet, Requests, Serving
<1>6. Leftovers'
  BY <1>1, <1>2, <1>3 DEF SvcInv, Leftovers, UnfinishedIsOurs
<1>7. Fresh' /\ Leftovers' => SvcInv'
  BY FreshIsSafe, PTL
<1> QED BY <1>4, <1>5, <1>6, <1>7

-----------------------------------------------------------------------------
(* The theorems *)

\* Every step keeps the invariant.
LEMMA NextKeeps ==
    ASSUME TypeInv, SvcInv, ServiceNext
    PROVE  TypeInv' /\ SvcInv'
<1>1. ASSUME NEW r \in Req, ReqStep(r) \/ StartDropped(r) \/ RecorderStops(r) \/ Keep(r)
      PROVE  TypeInv' /\ SvcInv'
  BY <1>1, ReapDetachKeeps, AnnotateKeeps, StopTakeKeeps, StopDetachKeeps, StartAdmitKeeps,
     StartInnerKeeps, PruneScanKeeps, PruneDeleteKeeps, CreateKeeps, AttachKeeps, StartEndsKeeps,
     StartDroppedKeeps, RecorderStopsKeeps, KeepKeeps
     DEF ReqStep, StartStep
<1>2. CASE \/ Shutdown \/ ShutdownEnds \/ Kill \/ Boot
           \/ FinalizeLeftover \/ Startup \/ StartupFails
  BY <1>2, ShutdownKeeps, ProcessEndsKeeps, BootKeeps, FinalizeLeftoverKeeps, StartupKeeps,
     StartupFailsKeeps
     DEF ShutdownEnds, Kill
<1> QED BY <1>1, <1>2, BeginKeeps, SessionClosedKeeps, DroppedKeeps DEF ServiceNext

\* Neither does a step that changes nothing.
LEMMA StutterKeeps == IInv /\ UNCHANGED serviceVars => IInv'
<1> SUFFICES ASSUME IInv, UNCHANGED serviceVars PROVE IInv'
  OBVIOUS
<1> USE DEF serviceVars
<1>1. TypeInv'
  BY DEF IInv, TypeInv
<1>2. Quiet' /\ Requests' /\ Pruning' /\ Sinks' /\ Actives' /\ Leftovers'
  BY DEF IInv, SvcInv, Quiet, Requests, Pruning, Sinks, Actives, Leftovers, UnfinishedIsOurs, Serving
<1>3. Hands'
  BY HandsStay DEF IInv, SvcInv
<1>4. Owned' /\ Claimed'
  BY DEF IInv, SvcInv, Owned, Claimed, Held, Claim, Hand
<1> QED BY <1>1, <1>2, <1>3, <1>4 DEF IInv, SvcInv

\* The invariant holds throughout.
LEMMA Invariance == ServiceSpec => []IInv
<1>1. ServiceInit => IInv
  BY InitInv
<1>2. IInv /\ [ServiceNext]_serviceVars => IInv'
  BY NextKeeps, StutterKeeps DEF IInv
<1> QED BY <1>1, <1>2, PTL DEF ServiceSpec

\* Once requests are accepted, an unfinished recording belongs to this daemon, or its
\* finish failed when this daemon started, also where daemons died while they were
\* finishing (startup, finalize_leftovers), for any number of daemons, recordings and
\* kills.
THEOREM UnfinishedAreOurs == ServiceSpec => []UnfinishedIsOurs
<1>1. IInv => UnfinishedIsOurs
  BY DEF IInv, SvcInv, Leftovers
<1> QED BY <1>1, Invariance, PTL

\* A directory goes only after its recorder has finished its manifest, for any number
\* of requests that prune at the same time (start_inner, prune).
THEOREM UnfinishedAreKept == ServiceSpec => UnfinishedStays
<1> DEFINE Stays == \A q \in Req : tape[q].dir = "open" => tape'[q].dir # "gone"
<1>1. ASSUME IInv, ServiceNext
      PROVE  Stays
  <2> USE <1>1 DEF IInv
  <2> DEFINE Same(q) == tape'[q].dir = tape[q].dir
  <2>1. ASSUME NEW r \in Req, PruneDelete(r)
        PROVE  Stays
    <3>1. \A q \in req[r].hands : q \in Req => tape[q].dir \in {"done", "gone"}
      BY <2>1 DEF PruneDelete, SvcInv, Pruning
    <3>2. CASE UNCHANGED tape
      BY <3>2
    <3>3. ASSUME NEW p \in req[r].hands, tape' = [tape EXCEPT ![p].dir = "gone", ![p].kept = FALSE]
          PROVE  Stays
      <4>1. \A q \in Req : q # p => tape'[q] = tape[q]
        BY <3>3 DEF TypeInv
      <4> QED BY <3>1, <4>1
    <3> QED BY <2>1, <3>2, <3>3 DEF PruneDelete
  <2>2. ASSUME NEW r \in Req, Create(r)
        PROVE  Stays
    <3>1. tape' = tape \/ tape' = [[[tape EXCEPT ![r].dir = "open"] EXCEPT ![r].boot = service.boot]
                                     EXCEPT ![r].log = req[r].log]
      BY <2>2 DEF Create, TypeInv
    <3>2. tape[r] \in TapeType
      BY Shapes
    <3>3. \A q \in Req : q # r => tape'[q] = tape[q]
      BY <3>1 DEF TypeInv
    <3>4. tape[r].dir = "none"
      BY <2>2 DEF Create, SvcInv, Requests
    <3> QED BY <3>3, <3>4
  <2>3. ASSUME NEW r \in Req, Attach(r)
        PROVE  Stays
    <3>1. tape[r] \in TapeType
      BY Shapes
    <3>2. tape' = [tape EXCEPT ![r] = [[tape[r] EXCEPT !.thread = "run"]
                                          EXCEPT !.ends = slog[req[r].log].sink # NoRec]]
      BY <2>3 DEF Attach, TypeInv
    <3>3. tape'[r].dir = tape[r].dir /\ \A q \in Req : q # r => tape'[q] = tape[q]
      BY <3>1, <3>2 DEF TypeInv, TapeType
    <3> QED BY <3>3
  <2>4. ASSUME NEW r \in Req, ReapDetach(r) \/ StopDetach(r)
        PROVE  Stays
    <3>1. PICK logs \in SUBSET Log : Detached(logs)
      <4>1. req[r].hands \subseteq Req \X Log /\ req[r].log \in Log
        BY <2>4 DEF ReapDetach, StopDetach, SvcInv, Hands, Requests
      <4>2. {p[2] : p \in req[r].hands} \subseteq Log /\ {req[r].log} \subseteq Log
        BY <4>1
      <4> QED BY <2>4, <4>2 DEF ReapDetach, StopDetach
    <3> QED BY <3>1, DetachedIs DEF SvcInv, SameTape
  <2>5. ASSUME NEW q \in Req, RecorderStops(q)
        PROVE  Stays
    <3>1. PICK dir \in {"done", tape[q].dir} :
              tape' = [tape EXCEPT ![q].thread = "done", ![q].dir = IF @ = "gone" THEN @ ELSE dir]
      BY <2>5 DEF RecorderStops
    <3>2. tape[q] \in TapeType /\ \A s \in Req : s # q => tape'[s] = tape[s]
      BY <3>1, Shapes DEF TypeInv
    <3>3. tape[q].dir = "open" => tape'[q].dir = dir
      BY <3>1, <3>2 DEF TypeInv, TapeType
    <3> QED BY <3>2, <3>3
  <2>6. ASSUME NEW q \in Req, Keep(q)
        PROVE  Stays
    <3>1. tape[q] \in TapeType /\ \A s \in Req : s # q => tape'[s] = tape[s]
      BY <2>6, Shapes DEF Keep, TypeInv
    <3>2. tape'[q].dir = tape[q].dir
      BY <2>6, <3>1 DEF Keep, TypeInv, TapeType
    <3> QED BY <3>1, <3>2
  <2>7. ASSUME NEW l \in Log, LogDropped(l)
        PROVE  Stays
    <3>1. slog[l].sink \in Req /\ tape[slog[l].sink] \in TapeType
      BY <2>7, Shapes DEF LogDropped
    <3>2. tape' = [tape EXCEPT ![slog[l].sink].ends = TRUE]
      BY <2>7 DEF LogDropped
    <3>3. \A s \in Req : tape'[s].dir = tape[s].dir
      BY <3>1, <3>2 DEF TypeInv, TapeType
    <3> QED BY <3>3
  <2>8. CASE Shutdown
    <3>1. LogsOf(Req) \in SUBSET Log /\ Detached(LogsOf(Req))
      BY <2>8 DEF Shutdown, LogsOf
    <3> QED BY <3>1, DetachedIs DEF SvcInv, SameTape
  <2>9. CASE ShutdownEnds \/ Kill
    <3>1. \A q \in Req : tape[q] \in TapeType
      BY Shapes
    <3>2. \A q \in Req : tape'[q] = tape[q] \/ tape'[q] = [tape[q] EXCEPT !.thread = "done"]
      BY <2>9 DEF ShutdownEnds, Kill, ProcessEnds
    <3> QED BY <3>1, <3>2 DEF TapeType
  <2>10. CASE FinalizeLeftover
    <3>1. PICK q \in service.todo : tape' = tape \/ tape' = [tape EXCEPT ![q].dir = "done"]
      BY <2>10 DEF FinalizeLeftover
    <3>2. q \in Req /\ tape[q] \in TapeType
      BY Shapes DEF TypeInv, ServiceType
    <3>3. tape'[q].dir \in {"done", tape[q].dir} /\ \A s \in Req : s # q => tape'[s] = tape[s]
      BY <3>1, <3>2 DEF TypeInv, TapeType
    <3> QED BY <3>3
  <2>11. CASE Startup
    <3>1. PICK aged \in 0..Len(minted), stuck \in SUBSET Req :
             tape' = [q \in Req |-> IF q \in Victims({}, aged) \ stuck
                                    THEN [tape[q] EXCEPT !.dir = "gone"] ELSE tape[q]]
      BY <2>11 DEF Startup
    <3>2. \A q \in Req : q \in Victims({}, aged) => tape[q].dir = "done"
      BY VictimsAreDone
    <3>3. \A q \in Req : q \notin Victims({}, aged) => tape'[q] = tape[q]
      BY <3>1
    <3> QED BY <3>2, <3>3
  <2>12. ASSUME NEW r \in Req,
                Annotate(r) \/ StopTake(r) \/ StartAdmit(r) \/ StartInner(r) \/ PruneScan(r)
                \/ StartEnds(r) \/ StartDropped(r)
         PROVE  Stays
    BY <2>12 DEF Annotate, StopTake, StartAdmit, StartInner, PruneScan, StartEnds, StartDropped
  <2>13. CASE Boot \/ StartupFails \/ (\E r \in Req, l \in Log, op \in Ops : Begin(r, op, l))
              \/ \E r \in Req, l \in Log : SessionClosed(r, l)
    BY <2>13 DEF Boot, StartupFails, Begin, SessionClosed
  <2>14. ASSUME NEW r \in Req, ReqStep(r) \/ StartDropped(r) \/ RecorderStops(r) \/ Keep(r)
         PROVE  Stays
    BY <2>1, <2>2, <2>3, <2>4, <2>5, <2>6, <2>12, <2>14 DEF ReqStep, StartStep
  <2> HIDE DEF Stays
  <2> QED BY <1>1, <2>7, <2>8, <2>9, <2>10, <2>11, <2>13, <2>14 DEF ServiceNext
<1>2. IInv /\ [ServiceNext]_serviceVars => [Stays]_serviceVars
  BY <1>1
<1> QED BY <1>2, Invariance, PTL DEF ServiceSpec, UnfinishedStays

\* No order of starts, stops, closes and dead recorders leaves a session recorded that
\* nobody can stop, or stops a later recording than the one asked for, for any number
\* of sessions and requests (start, reap, stop, shutdown).
THEOREM RecordingsAreStoppable == ServiceSpec => []RecordingsCanBeStopped
<1>1. IInv => RecordingsCanBeStopped
  <2> SUFFICES ASSUME TypeInv, SvcInv PROVE RecordingsCanBeStopped
    BY DEF IInv
  <2>1. ASSUME NEW l \in Log, service.life = "up", Held(l), slog[l].sink # NoRec
        PROVE  InHand(slog[l].sink, l)
    <3>1. Claim(slog[l].sink, l)
      BY <2>1 DEF SvcInv, Claimed
    <3> QED BY <3>1 DEF Claim, InHand, Hand
  <2>2. ASSUME NEW r \in Req, req[r].pc \in {"reaped", "detach"}, NEW p \in req[r].hands, Held(p[2])
        PROVE  slog[p[2]].sink \in {NoRec, p[1]}
    <3>1. p \in Req \X Log
      BY <2>2 DEF SvcInv, Hands
    <3>2. p[1] \in Req /\ p[2] \in Log /\ <<p[1], p[2]>> \in req[r].hands
      BY <3>1
    <3>3. Claim(p[1], p[2])
      BY <2>2, <3>2 DEF Claim, Hand
    <3> QED BY <2>2, <3>2, <3>3 DEF SvcInv, Owned
  <2> QED BY <2>1, <2>2 DEF RecordingsCanBeStopped
<1> QED BY <1>1, Invariance, PTL
=============================================================================
