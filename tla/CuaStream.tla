----------------------------- MODULE CuaStream ------------------------------
(* A client's Cua stream in the daemon: forward_cua (rdpilot-daemon ipc/mod.rs),*)
(* the gate that asks the control lease before an acting call passes           *)
(* (ipc/cua_gate.rs), and the tracker that pairs calls in the event log        *)
(* (events.rs).                                                                *)
(*                                                                             *)
(* - The lease is reduced to who controls and how many acting calls are in     *)
(*   flight; SessionControl has the whole of it.                               *)
(* - A stream that is ending may overlap its successor: both count in the same *)
(*   control.                                                                  *)
(* - Cua is external: it answers the calls it has in any order, or never.      *)
(*                                                                             *)
(* Left out: tool names and arguments beyond the three kinds of request,       *)
(* messages that are no requests, and the events' times.                       *)
EXTENDS Integers, Sequences, FiniteSets, SequencesExt

CONSTANTS
    Stream,         \* attachments
    Message,        \* what a client may send: [batch, calls]
    PendingCap,     \* CUA_PENDING_CAP
    MaxSent         \* bound: messages that are sent, numbered in their order

ASSUME CuaStreamAssumption ==
    /\ PendingCap \in Nat \ {0} /\ MaxSent \in Nat
    /\ IsFiniteSet(Stream)

\* A message that is no batch is one call.
ASSUME MessageAssumption ==
    \A m \in Message :
        /\ Len(m.calls) \in Nat \ {0} /\ DOMAIN m.calls = 1..Len(m.calls)
        /\ ~m.batch => Len(m.calls) = 1

VARIABLES
    lease,          \* "agent", "taking" (a take waits) or "human" (granted)
    inflight,       \* State::inflight of the control
    pc,             \* per stream: where forward_cua is
    held,           \* per stream: the number of the message to forward, or 0
    acting, lists,  \* per stream: the ids in the gate's queues
    tracked,        \* per stream: the tracker's [id, call], oldest first
    atCua,          \* per stream: the requests that Cua has
    msgs,           \* the messages sent, each with its stream
    finished,       \* per call number: the outcomes logged
    replies,        \* the answers to requests, and what the client got:
                    \* "refusal", "answer", "patched", or "lost" on the way;
                    \* forgotten when the stream has closed
    lossy           \* streams that reused a pending id or passed a bound

leaseVars == <<lease, inflight>>
gateVars == <<acting, lists>>
callLogVars == <<tracked, finished>>
clientVars == <<msgs, replies>>
streamVars == <<leaseVars, pc, held, gateVars, callLogVars, atCua, clientVars, lossy>>

NoId == 0

StreamInit ==
    /\ lease = "agent" /\ inflight = 0
    /\ pc = [s \in Stream |-> "idle"]
    /\ held = [s \in Stream |-> 0]
    /\ acting = [s \in Stream |-> <<>>] /\ lists = [s \in Stream |-> <<>>]
    /\ tracked = [s \in Stream |-> <<>>]
    /\ atCua = [s \in Stream |-> {}]
    /\ msgs = <<>>
    /\ finished = [n \in 1..MaxSent |-> <<>>]
    /\ replies = {}
    /\ lossy = {}

\* The requests of message number n that expect an answer.
RequestsOf(n, m) ==
    {[msg |-> n, nth |-> i, kind |-> m.calls[i].kind, id |-> m.calls[i].id] :
        i \in {k \in DOMAIN m.calls : m.calls[k].id # NoId}}

\* The acting calls of a message, by position.
ActingCalls(m) == {i \in DOMAIN m.calls : m.calls[i].kind = "acting"}

\* Mutant: the calls of a batch are not counted.
CountedCallsSingle(m) ==
    IF m.batch THEN {} ELSE {i \in ActingCalls(m) : m.calls[i].id # NoId}

\* The acting calls that expect an answer.
CountedCalls(m) == {i \in ActingCalls(m) : m.calls[i].id # NoId}

\* The tools/list requests that expect an answer.
ListCalls(m) == {i \in DOMAIN m.calls : m.calls[i].kind = "list" /\ m.calls[i].id # NoId}

\* `takeover' on a read-only call is removed and ignored.
AsksTakeover(m) == \E i \in ActingCalls(m) : m.calls[i].takeover

\* A loop over the calls of a message that takes the ids at the positions `which'.
OverCalls(Step(_, _), start, m, which) ==
    LET after[k \in 0..Len(m.calls)] ==
            IF k = 0 THEN start
            ELSE IF k \in which THEN Step(after[k - 1], m.calls[k].id)
            ELSE after[k - 1]
    IN after[Len(m.calls)]

-----------------------------------------------------------------------------
(* The gate *)

PushCapped(queue, id) == Append(IF Len(queue) >= PendingCap THEN Tail(queue) ELSE queue, id)

\* remember_acting: the queue, and how many counts it frees.
RememberActing(acc, id) ==
    LET others == RemoveFirst(acc.ids, id)
    IN [ids   |-> PushCapped(others, id),
        freed |-> acc.freed + (Len(acc.ids) - Len(others))
                            + (IF Len(others) >= PendingCap THEN 1 ELSE 0)]

Remembered(s, m) ==
    OverCalls(RememberActing, [ids |-> acting[s], freed |-> 0], m, CountedCalls(m))

\* Mutant: tools/list ids of a batch are not noted.
NotedListsSingle(s, m) ==
    IF m.batch THEN lists[s] ELSE OverCalls(PushCapped, lists[s], m, ListCalls(m))

\* inspect: the ids of tools/list requests, also of a batch refused later.
NotedLists(s, m) == OverCalls(PushCapped, lists[s], m, ListCalls(m))

\* cua_finished
CountDown(count) == IF inflight > count THEN inflight - count ELSE 0

-----------------------------------------------------------------------------
(* The tracker *)

\* Only a single tools/call with an id is recorded.
Recorded(m) == ~m.batch /\ m.calls[1].kind # "list" /\ m.calls[1].id # NoId

CallsOf(queue) == {queue[i].call : i \in DOMAIN queue}

\* The queue without the first call that has this id.
WithoutId(queue, id) == RemoveFirstMatch(queue, LAMBDA p : p.id = id)

\* observe_request: the tracker's queue with call number n.
ObserveRequest(s, n, m) ==
    LET id == m.calls[1].id
        others == WithoutId(tracked[s], id)
    IN IF Recorded(m)
       THEN Append(IF Len(others) >= PendingCap THEN Tail(others) ELSE others,
                   [id |-> id, call |-> n])
       ELSE tracked[s]

\* The client is careless or over a bound: the gate and the tracker match by id
\* and forget the oldest.
Overruns(s, m) ==
    \/ \E i, j \in DOMAIN m.calls : i # j /\ m.calls[i].id = m.calls[j].id /\ m.calls[i].id # NoId
    \/ \E i \in DOMAIN m.calls : \E r \in atCua[s] : r.id = m.calls[i].id
    \/ Len(acting[s]) + Cardinality(CountedCalls(m)) > PendingCap
    \/ Len(lists[s]) + Cardinality(ListCalls(m)) > PendingCap
    \/ Recorded(m) /\ Len(tracked[s]) >= PendingCap

\* The log after the calls of `gone' were finished with `outcome'.
Finish(log, gone, outcome) ==
    [n \in DOMAIN log |-> IF n \in gone THEN Append(log[n], outcome) ELSE log[n]]

\* Mutant: a call that is pushed out or replaced is not finished.
PushedSilently(s, queue) == finished

\* Calls that leave the queue without an answer are finished as no_reply.
Pushed(s, queue) == Finish(finished, CallsOf(tracked[s]) \ CallsOf(queue), "no_reply")

-----------------------------------------------------------------------------
(* forward_cua: a message from the client *)

StreamGoes(s, to) == pc' = [pc EXCEPT ![s] = to]

\* Admitted: the calls are counted before the message waits for releases.
Forward(s, m, n) ==
    LET remembered == Remembered(s, m)
    IN /\ \/ ActingCalls(m) = {} /\ UNCHANGED lease
          \/ ActingCalls(m) # {} /\ lease = "agent" /\ UNCHANGED lease
          \/ ActingCalls(m) # {} /\ lease # "agent" /\ AsksTakeover(m) /\ lease' = "agent"
       /\ acting' = [acting EXCEPT ![s] = remembered.ids]
       /\ inflight' = inflight + Cardinality(CountedCalls(m)) - remembered.freed
       /\ held' = [held EXCEPT ![s] = n]
       /\ StreamGoes(s, "releasing")
       /\ UNCHANGED <<callLogVars, replies>>

\* Refused: every request of the message is answered here.  A write that fails
\* ends the stream.
GateRefuse(s, m, n) ==
    LET queue == ObserveRequest(s, n, m)
        rest == IF Recorded(m) THEN WithoutId(queue, m.calls[1].id) ELSE queue
    IN /\ ActingCalls(m) # {} /\ lease # "agent" /\ ~AsksTakeover(m)
       /\ tracked' = [tracked EXCEPT ![s] = rest]
       /\ finished' = Finish(Pushed(s, queue), CallsOf(queue) \ CallsOf(rest), "error")
       /\ \/ /\ replies' = replies \cup {[to |-> r, what |-> "refusal"] : r \in RequestsOf(n, m)}
             /\ UNCHANGED pc
          \/ /\ RequestsOf(n, m) # {}
             /\ StreamGoes(s, "closing")
             /\ UNCHANGED replies
       /\ UNCHANGED <<lease, inflight, acting, held>>

\* One message is read and classified; the gate's check and count are one
\* critical section of the control.
Receive(s, m) ==
    /\ pc[s] = "idle"
    /\ Len(msgs) < MaxSent
    /\ msgs' = Append(msgs, [stream |-> s, body |-> m])
    /\ lists' = [lists EXCEPT ![s] = NotedLists(s, m)]
    /\ lossy' = IF Overruns(s, m) THEN lossy \cup {s} ELSE lossy
    /\ Forward(s, m, Len(msgs')) \/ GateRefuse(s, m, Len(msgs'))
    /\ UNCHANGED atCua

\* The releases have been made: the call is logged and sent.  A failed send ends
\* the stream.
SendToCua(s) ==
    LET n == held[s]
        queue == ObserveRequest(s, n, msgs[n].body)
    IN /\ pc[s] = "releasing"
       /\ tracked' = [tracked EXCEPT ![s] = queue]
       /\ finished' = Pushed(s, queue)
       /\ held' = [held EXCEPT ![s] = 0]
       /\ \/ /\ atCua' = [atCua EXCEPT ![s] = @ \cup RequestsOf(n, msgs[n].body)]
             /\ StreamGoes(s, "idle")
          \/ StreamGoes(s, "closing") /\ UNCHANGED atCua
       /\ UNCHANGED <<leaseVars, gateVars, clientVars, lossy>>

-----------------------------------------------------------------------------
(* forward_cua: a message from Cua *)

\* response: the acting queue without the answered call.
Settled(s, r) == RemoveFirst(acting[s], r.id)

\* Cua answers a request: the gate settles it, patches a list of tools, the
\* tracker finishes the call, and the client gets the answer.
Outbound(s, r) ==
    LET rest == WithoutId(tracked[s], r.id)
    IN /\ pc[s] = "idle"
       /\ r \in atCua[s]
       /\ atCua' = [atCua EXCEPT ![s] = @ \ {r}]
       /\ acting' = [acting EXCEPT ![s] = Settled(s, r)]
       /\ inflight' = CountDown(Len(acting[s]) - Len(Settled(s, r)))
       /\ lists' = [lists EXCEPT ![s] = RemoveFirst(@, r.id)]
       /\ tracked' = [tracked EXCEPT ![s] = rest]
       /\ finished' = Finish(finished, CallsOf(tracked[s]) \ CallsOf(rest), "answer")
       /\ \/ /\ replies' = replies \cup
                   {[to |-> r, what |-> IF r.id \in ToSet(lists[s]) THEN "patched" ELSE "answer"]}
             /\ UNCHANGED pc
          \/ /\ replies' = replies \cup {[to |-> r, what |-> "lost"]}
             /\ StreamGoes(s, "closing")
       /\ UNCHANGED <<lease, held, msgs, lossy>>

-----------------------------------------------------------------------------
(* The end of a stream *)

\* The client or the attachment closes, or the session is found closed.
StreamEnds(s) ==
    /\ pc[s] = "idle"
    /\ StreamGoes(s, "closing")
    /\ UNCHANGED <<leaseVars, held, gateVars, callLogVars, atCua, clientVars, lossy>>

\* The gate is dropped, which releases its counts, and the tracker is closed.
Detach(s) ==
    /\ pc[s] = "closing"
    /\ acting' = [acting EXCEPT ![s] = <<>>]
    /\ lists' = [lists EXCEPT ![s] = <<>>]
    /\ inflight' = CountDown(Len(acting[s]))
    /\ tracked' = [tracked EXCEPT ![s] = <<>>]
    /\ finished' = Finish(finished, CallsOf(tracked[s]), "no_reply")
    /\ StreamGoes(s, "detached")
    /\ UNCHANGED <<lease, held, atCua, clientVars, lossy>>

\* The attachment is closed: its Cua runtime ends.
CloseAttachment(s) ==
    /\ pc[s] = "detached"
    /\ atCua' = [atCua EXCEPT ![s] = {}]
    /\ replies' = {p \in replies : msgs[p.to.msg].stream # s}
    /\ StreamGoes(s, "closed")
    /\ UNCHANGED <<leaseVars, held, gateVars, callLogVars, msgs, lossy>>

-----------------------------------------------------------------------------
(* The control lease, reduced *)

LeaseGoes(to) ==
    /\ lease' = to
    /\ UNCHANGED <<inflight, pc, held, gateVars, callLogVars, atCua, clientVars, lossy>>

Take == lease = "agent" /\ LeaseGoes("taking")

\* wait_settled, then the grant.
Grant == lease = "taking" /\ inflight = 0 /\ LeaseGoes("human")

\* The bound of the take passes, or the lease ends.
LeaseEnds == lease # "agent" /\ LeaseGoes("agent")

StreamNext ==
    \/ \E s \in Stream :
          \/ \E m \in Message : Receive(s, m)
          \/ \E r \in atCua[s] : Outbound(s, r)
          \/ SendToCua(s) \/ StreamEnds(s) \/ Detach(s) \/ CloseAttachment(s)
    \/ Take \/ Grant \/ LeaseEnds

StreamSpec == StreamInit /\ [][StreamNext]_streamVars

-----------------------------------------------------------------------------
StreamOpen(s) == pc[s] \in {"idle", "releasing", "closing"}

\* The control counts exactly the acting calls that the gates remember, however
\* ids are reused, pushed out, batched or refused, and streams end.
\* While a human has the lease no acting call is waiting to be sent or is with
\* Cua, on any stream that is open: for clients that keep ids apart and stay
\* within the bound.
GrantedIsQuiet ==
    /\ inflight = SumFunction([s \in Stream |-> Len(acting[s])])
    /\ lease = "human" => \A s \in Stream : StreamOpen(s) /\ s \notin lossy =>
        /\ \A r \in atCua[s] : r.kind # "acting"
        /\ pc[s] = "releasing" => \A r \in RequestsOf(held[s], msgs[held[s]].body) : r.kind # "acting"

\* A tracked call is finished once: never while it is tracked, always when it no
\* longer is; and its outcome is its own answer's.
CallsAreFinished ==
    \A n \in DOMAIN msgs :
        LET s == msgs[n].stream
            begun == Recorded(msgs[n].body) /\ held[s] # n
        IN /\ begun => Len(finished[n]) = IF n \in CallsOf(tracked[s]) THEN 0 ELSE 1
           /\ s \notin lossy /\ pc[s] # "closed" /\ finished[n] # <<>> =>
                  (finished[n][1] = "answer" <=> \E p \in replies : p.to.msg = n /\ p.what # "refusal")

\* A client that reads gets one reply to each request, from Cua or from the gate,
\* and a list of tools always has the takeover argument: nothing gets lost or is
\* answered twice while the stream is open.
AnsweredOnce ==
    \A n \in DOMAIN msgs :
        LET s == msgs[n].stream
        IN pc[s] = "idle" =>
              \A r \in RequestsOf(n, msgs[n].body) :
                  /\ Cardinality({p \in replies : p.to = r}) = IF r \in atCua[s] THEN 0 ELSE 1
                  /\ s \notin lossy /\ r.kind = "list" =>
                         [to |-> r, what |-> "answer"] \notin replies

=============================================================================
