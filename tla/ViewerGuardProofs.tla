-------------------------- MODULE ViewerGuardProofs --------------------------
(***************************************************************************)
(* Proofs about the live viewer for any number of viewers, connections and *)
(* requests: what gets through the checks, that the gate and the permits   *)
(* count, and that a human lease ends with its viewer.                     *)
(*                                                                         *)
(* The inductive invariant follows a lease back to the viewer it was taken *)
(* through: the connection was accepted, so the viewer was bound; a body   *)
(* is read, so the viewer is not read-only; and a take that did not begin  *)
(* late began while the viewer was held, which only EndAll leads away.     *)
(***************************************************************************)
EXTENDS ViewerGuard, FiniteSetTheorems, TLAPS

ViewPc == {"idle", "binding", "answering", "holding", "stopping", "off"}

ViewType ==
    [pc : ViewPc, read_only : BOOLEAN, addrs : SUBSET ({"lo"} \cup InRange),
     accepting : BOOLEAN, permits : Nat]
ClientType ==
    [pc : {"closed", "open", "body", "replying", "taking"}, viewer : Viewer \cup {"none"},
     effect : {"none", "note", "control", "input"}]
HumanType ==
    [by : Client \cup {"none"}, viewer : Viewer \cup {"none"}, granted : BOOLEAN, late : BOOLEAN]

ViewerTypeInv ==
    /\ gate \in BOOLEAN
    /\ view \in [Viewer -> ViewType]
    /\ client \in [Client -> ClientType]
    /\ human \in HumanType

\* The viewer has been bound: its addresses and its mode no longer change.
Bound(v) == view[v].pc \notin {"idle", "binding"}

Accepting == \A v \in Viewer : view[v].accepting => Bound(v)

\* A connection is one of a bound viewer, and reads a body only of one with control.
Connections ==
    \A c \in Client :
        /\ client[c].pc = "closed" => client[c].viewer = "none"
        /\ client[c].pc # "closed" => client[c].viewer \in Viewer /\ Bound(client[c].viewer)
        /\ client[c].pc \in {"body", "taking"} => ~view[client[c].viewer].read_only

\* A lease that did not begin late is of a viewer that has not ended the leases yet.
Leases ==
    human.by # "none" =>
        /\ human.viewer \in Viewer /\ Bound(human.viewer) /\ ~view[human.viewer].read_only
        /\ ~human.late => view[human.viewer].pc \in {"holding", "stopping"}

Served(v) == {c \in Client : client[c].viewer = v}

Permits ==
    \A v \in Viewer :
        /\ IsFiniteSet(Served(v))
        /\ Cardinality(Served(v)) + view[v].permits = MaxConnections

Busy == {v \in Viewer : view[v].pc \in {"binding", "answering", "holding"}}

Gate == (gate => \E v \in Viewer : Busy = {v}) /\ (~gate => Busy = {})

ViewerInv == ViewerTypeInv /\ Accepting /\ Connections /\ Leases /\ Permits /\ Gate

-----------------------------------------------------------------------------
(* What each kind of step changes.                                          *)

\* A step of viewer v alone; a bound viewer stays bound and keeps its mode.
Moves(v) ==
    /\ view' \in [Viewer -> ViewType]
    /\ \A w \in Viewer : w # v => view'[w] = view[w]
    /\ view'[v].permits = view[v].permits
    /\ Bound(v) => Bound(v)' /\ view'[v].read_only = view[v].read_only
    /\ view'[v].accepting => Bound(v)'
    /\ client' = client

\* A step of connection c that stays with its viewer.
Talks(c) ==
    /\ client' \in [Client -> ClientType]
    /\ \A d \in Client : d # c => client'[d] = client[d]
    /\ client[c].pc # "closed" /\ client'[c].pc # "closed"
    /\ client'[c].viewer = client[c].viewer
    /\ client'[c].pc \in {"body", "taking"} => ~view[client[c].viewer].read_only
    /\ view' = view /\ gate' = gate

LEMMA MovesKeep ==
    ASSUME ViewerInv, NEW v \in Viewer, Moves(v)
    PROVE  Accepting' /\ Connections' /\ Permits'
<1>1. Accepting'
  BY DEF ViewerInv, ViewerTypeInv, Accepting, Moves, Bound
<1>2. \A w \in Viewer : Bound(w) => Bound(w)' /\ view'[w].read_only = view[w].read_only
  BY DEF Moves, Bound
<1>3. Connections'
  <2>1. \A c \in Client : client'[c] = client[c]
    BY DEF Moves
  <2> QED  BY <1>2, <2>1 DEF ViewerInv, Connections
<1>4. Permits'
  <2>1. \A w \in Viewer : Served(w)' = Served(w) /\ view'[w].permits = view[w].permits
    BY DEF Moves, Served
  <2> QED  BY <2>1 DEF ViewerInv, Permits
<1> QED  BY <1>1, <1>3, <1>4

LEMMA MovesLease ==
    ASSUME ViewerInv, NEW v \in Viewer, Moves(v), human' = human,
           view[v].pc \in {"holding", "stopping"} => view'[v].pc \in {"holding", "stopping"}
    PROVE  Leases'
BY DEF ViewerInv, ViewerTypeInv, Leases, Moves, Bound

LEMMA NoLease ==
    ASSUME human' = NoHuman
    PROVE  Leases' /\ human' \in HumanType
BY DEF Leases, NoHuman, HumanType

LEMMA BusyStays ==
    ASSUME ViewerInv, NEW v \in Viewer, Moves(v), gate' = gate,
           v \in Busy <=> v \in Busy'
    PROVE  Gate'
<1>1. Busy' = Busy
  BY DEF Busy, Moves
<1> QED  BY <1>1 DEF ViewerInv, Gate

LEMMA BusyStarts ==
    ASSUME ViewerInv, NEW v \in Viewer, Moves(v), ~gate, gate' = TRUE, v \in Busy'
    PROVE  Gate'
<1>1. Busy' = {v}
  BY DEF ViewerInv, Gate, Busy, Moves
<1> QED  BY <1>1 DEF Gate

LEMMA BusyEnds ==
    ASSUME ViewerInv, NEW v \in Viewer, Moves(v), gate' = FALSE, v \in Busy, v \notin Busy'
    PROVE  Gate'
<1>1. PICK w \in Viewer : Busy = {w}
  BY DEF ViewerInv, ViewerTypeInv, Gate
<1>2. Busy' = {}
  BY <1>1 DEF Busy, Moves
<1> QED  BY <1>2 DEF Gate

LEMMA TalksKeep ==
    ASSUME ViewerInv, NEW c \in Client, Talks(c)
    PROVE  Accepting' /\ Connections' /\ Permits' /\ Gate'
<1>1. Accepting' /\ Gate'
  BY DEF ViewerInv, Accepting, Gate, Busy, Bound, Talks
<1>2. Connections'
  BY DEF ViewerInv, Connections, Bound, Talks
<1>3. Permits'
  <2>1. \A w \in Viewer : Served(w)' = Served(w)
    BY DEF Talks, Served
  <2> QED  BY <2>1 DEF ViewerInv, Permits, Talks
<1> QED  BY <1>1, <1>2, <1>3

LEMMA TalksLease ==
    ASSUME ViewerInv, view' = view, human' = human
    PROVE  Leases'
BY DEF ViewerInv, Leases, Bound

-----------------------------------------------------------------------------
(* The steps of a viewer.                                                   *)

\* A viewer whose pc goes from p to q and that keeps the rest.
LEMMA PcGoes ==
    ASSUME ViewerTypeInv, Accepting, NEW v \in Viewer, NEW q \in ViewPc,
           view' = [view EXCEPT ![v].pc = q],
           Bound(v) => q \notin {"idle", "binding"},
           client' = client
    PROVE  Moves(v) /\ view'[v].pc = q
BY DEF ViewerTypeInv, ViewType, ViewPc, Moves, Bound, Accepting

LEMMA StartsKeeps ==
    ASSUME ViewerInv, NEW v \in Viewer, ViewerStarts(v)
    PROVE  ViewerInv'
<1>1. Moves(v) /\ view'[v].pc = "binding" /\ view[v].pc = "idle"
  BY PcGoes DEF ViewerInv, ViewerStarts, Bound, ViewPc
<1>2. ViewerTypeInv'
  BY <1>1 DEF ViewerInv, ViewerTypeInv, ViewerStarts, Moves
<1>3. Accepting' /\ Connections' /\ Permits'
  BY <1>1, MovesKeep
<1>4. Leases'
  BY <1>1, MovesLease DEF ViewerStarts
<1>5. Gate'
  BY <1>1, BusyStarts DEF ViewerStarts, Busy
<1> QED  BY <1>2, <1>3, <1>4, <1>5 DEF ViewerInv

LEMMA RefusedKeeps ==
    ASSUME ViewerInv, NEW v \in Viewer, ViewerRefused(v)
    PROVE  ViewerInv'
<1>1. Moves(v) /\ view'[v].pc = "off" /\ view[v].pc = "idle"
  BY PcGoes DEF ViewerInv, ViewerRefused, Bound, ViewPc
<1>2. ViewerTypeInv'
  BY <1>1 DEF ViewerInv, ViewerTypeInv, ViewerRefused, Moves
<1>3. Accepting' /\ Connections' /\ Permits'
  BY <1>1, MovesKeep
<1>4. Leases'
  BY <1>1, MovesLease DEF ViewerRefused
<1>5. Gate'
  BY <1>1, BusyStays DEF ViewerRefused, Busy
<1> QED  BY <1>2, <1>3, <1>4, <1>5 DEF ViewerInv

\* No address outside loopback and the tailnet is bound.
LEMMA BindsInRange ==
    ASSUME NEW tailnet, NEW a \in bind_listeners(tailnet)
    PROVE  a \subseteq {"lo"} \cup InRange
BY DEF bind_listeners

LEMMA BindsMoves ==
    ASSUME ViewerInv, NEW v \in Viewer, ViewerBinds(v)
    PROVE  Moves(v) /\ view'[v].pc = "answering" /\ view[v].pc = "binding"
<1>1. PICK i \in Interfaces, p \in Params :
          \E a \in bind_listeners(select_tailnet_address(i, p)) :
             view' = [view EXCEPT ![v].pc = "answering", ![v].addrs = a, ![v].accepting = TRUE,
                                  ![v].read_only = p.read_only]
  BY DEF ViewerBinds
<1>2. PICK a \in bind_listeners(select_tailnet_address(i, p)) :
             view' = [view EXCEPT ![v].pc = "answering", ![v].addrs = a, ![v].accepting = TRUE,
                                  ![v].read_only = p.read_only]
  BY <1>1
<1> DEFINE r == p.read_only
<1>3. r \in BOOLEAN
  BY ViewerAssumption
<1>4. a \in SUBSET ({"lo"} \cup InRange)
  BY BindsInRange
<1>5. view' = [view EXCEPT ![v].pc = "answering", ![v].addrs = a, ![v].accepting = TRUE,
                           ![v].read_only = r]
  BY <1>2
<1> HIDE DEF r
<1> DEFINE f == [view EXCEPT ![v].pc = "answering"]
           g == [f EXCEPT ![v].addrs = a]
           h == [g EXCEPT ![v].accepting = TRUE]
<1>6. view' = [h EXCEPT ![v].read_only = r]
  BY <1>5
<1>7. f \in [Viewer -> ViewType] /\ f[v].permits = view[v].permits /\ f[v].pc = "answering"
  BY DEF ViewerInv, ViewerTypeInv, ViewType, ViewPc
<1> HIDE DEF f
<1>8. g \in [Viewer -> ViewType] /\ g[v].permits = view[v].permits /\ g[v].pc = "answering"
  BY <1>7, <1>4 DEF ViewType
<1> HIDE DEF g
<1>9. h \in [Viewer -> ViewType] /\ h[v].permits = view[v].permits /\ h[v].pc = "answering"
  BY <1>8 DEF ViewType
<1> HIDE DEF h
<1>10. view' \in [Viewer -> ViewType] /\ view'[v].permits = view[v].permits /\ view'[v].pc = "answering"
  BY <1>6, <1>9, <1>3 DEF ViewType
<1>11. \A w \in Viewer : w # v => view'[w] = view[w]
  BY <1>5 DEF ViewerInv, ViewerTypeInv
<1> QED  BY <1>10, <1>11 DEF ViewerBinds, Moves, Bound

LEMMA BindsKeeps ==
    ASSUME ViewerInv, NEW v \in Viewer, ViewerBinds(v)
    PROVE  ViewerInv'
<1>1. Moves(v) /\ view'[v].pc = "answering" /\ view[v].pc = "binding"
  BY BindsMoves
<1>2. ViewerTypeInv'
  BY <1>1 DEF ViewerInv, ViewerTypeInv, ViewerBinds, Moves
<1>3. Accepting' /\ Connections' /\ Permits'
  BY <1>1, MovesKeep
<1>4. Leases'
  BY <1>1, MovesLease DEF ViewerBinds
<1>5. Gate'
  BY <1>1, BusyStays DEF ViewerBinds, Busy
<1> QED  BY <1>2, <1>3, <1>4, <1>5 DEF ViewerInv

LEMMA BindFailsKeeps ==
    ASSUME ViewerInv, NEW v \in Viewer, ViewerBindFails(v)
    PROVE  ViewerInv'
<1>1. Moves(v) /\ view'[v].pc = "off" /\ view[v].pc = "binding"
  BY PcGoes DEF ViewerInv, ViewerBindFails, Bound, ViewPc
<1>2. ViewerTypeInv'
  BY <1>1 DEF ViewerInv, ViewerTypeInv, ViewerBindFails, Moves
<1>3. Accepting' /\ Connections' /\ Permits'
  BY <1>1, MovesKeep
<1>4. Leases'
  BY <1>1, MovesLease DEF ViewerBindFails
<1>5. Gate'
  BY <1>1, BusyEnds DEF ViewerBindFails, Busy
<1> QED  BY <1>2, <1>3, <1>4, <1>5 DEF ViewerInv

LEMMA AnsweredKeeps ==
    ASSUME ViewerInv, NEW v \in Viewer, ViewerAnswered(v)
    PROVE  ViewerInv'
<1>1. Moves(v) /\ view'[v].pc = "holding" /\ view[v].pc = "answering"
  BY PcGoes DEF ViewerInv, ViewerAnswered, Bound, ViewPc
<1>2. ViewerTypeInv'
  BY <1>1 DEF ViewerInv, ViewerTypeInv, ViewerAnswered, Moves
<1>3. Accepting' /\ Connections' /\ Permits'
  BY <1>1, MovesKeep
<1>4. Leases'
  BY <1>1, MovesLease DEF ViewerAnswered
<1>5. Gate'
  BY <1>1, BusyStays DEF ViewerAnswered, Busy
<1> QED  BY <1>2, <1>3, <1>4, <1>5 DEF ViewerInv

\* A lease of a viewer whose answer fails began late: nobody had its token.
LEMMA AnswerFailsKeeps ==
    ASSUME ViewerInv, NEW v \in Viewer, ViewerAnswerFails(v)
    PROVE  ViewerInv'
<1>1. Moves(v) /\ view'[v].pc = "off" /\ view[v].pc = "answering"
  BY PcGoes DEF ViewerInv, ViewerAnswerFails, Bound, ViewPc
<1>2. ViewerTypeInv'
  BY <1>1 DEF ViewerInv, ViewerTypeInv, ViewerAnswerFails, Moves
<1>3. Accepting' /\ Connections' /\ Permits'
  BY <1>1, MovesKeep
<1>4. Leases'
  BY <1>1, MovesLease DEF ViewerAnswerFails
<1>5. Gate'
  BY <1>1, BusyEnds DEF ViewerAnswerFails, Busy
<1> QED  BY <1>2, <1>3, <1>4, <1>5 DEF ViewerInv

LEMMA StopsKeeps ==
    ASSUME ViewerInv, NEW v \in Viewer, ViewerStops(v)
    PROVE  ViewerInv'
<1>1. Moves(v) /\ view'[v].pc = "stopping" /\ view[v].pc = "holding"
  BY PcGoes DEF ViewerInv, ViewerStops, Bound, ViewPc
<1>2. ViewerTypeInv'
  BY <1>1 DEF ViewerInv, ViewerTypeInv, ViewerStops, Moves
<1>3. Accepting' /\ Connections' /\ Permits'
  BY <1>1, MovesKeep
<1>4. Leases'
  BY <1>1, MovesLease DEF ViewerStops
<1>5. Gate'
  BY <1>1, BusyEnds DEF ViewerStops, Busy
<1> QED  BY <1>2, <1>3, <1>4, <1>5 DEF ViewerInv

LEMMA EndAllKeeps ==
    ASSUME ViewerInv, NEW v \in Viewer, EndAll(v)
    PROVE  ViewerInv'
<1>1. Moves(v) /\ view'[v].pc = "off" /\ view[v].pc = "stopping"
  BY PcGoes DEF ViewerInv, EndAll, Bound, ViewPc
<1>2. Leases' /\ human' \in HumanType
  BY NoLease DEF EndAll
<1>3. ViewerTypeInv'
  BY <1>1, <1>2 DEF ViewerInv, ViewerTypeInv, EndAll, Moves
<1>4. Accepting' /\ Connections' /\ Permits'
  BY <1>1, MovesKeep
<1>5. Gate'
  BY <1>1, BusyStays DEF EndAll, Busy
<1> QED  BY <1>2, <1>3, <1>4, <1>5 DEF ViewerInv

LEMMA AcceptDroppedKeeps ==
    ASSUME ViewerInv, NEW v \in Viewer, AcceptDropped(v)
    PROVE  ViewerInv'
<1>1. Moves(v) /\ view'[v].pc = view[v].pc
  BY DEF ViewerInv, ViewerTypeInv, ViewType, Moves, Bound, AcceptDropped
<1>2. ViewerTypeInv'
  BY <1>1 DEF ViewerInv, ViewerTypeInv, AcceptDropped, Moves
<1>3. Accepting' /\ Connections' /\ Permits'
  BY <1>1, MovesKeep
<1>4. Leases'
  BY <1>1, MovesLease DEF AcceptDropped
<1>5. Gate'
  BY <1>1, BusyStays DEF AcceptDropped, Busy
<1> QED  BY <1>2, <1>3, <1>4, <1>5 DEF ViewerInv

LEMMA SweepKeeps ==
    ASSUME ViewerInv, NEW v \in Viewer, Sweep(v)
    PROVE  ViewerInv'
<1>1. Leases' /\ human' \in HumanType
  BY NoLease DEF Sweep
<1>2. ViewerTypeInv' /\ Accepting' /\ Connections'
  BY <1>1 DEF ViewerInv, ViewerTypeInv, Accepting, Connections, Bound, Sweep
<1>3. Permits' /\ Gate'
  BY DEF ViewerInv, Permits, Served, Gate, Busy, Sweep
<1> QED  BY <1>1, <1>2, <1>3 DEF ViewerInv

-----------------------------------------------------------------------------
(* What gets through the checks.                                            *)

\* A request that is let through to a path passed every check of that path.
LEMMA LetThrough ==
    ASSUME NEW v, NEW r, handle(v, r) # "refused"
    PROVE  /\ handle(v, r) = r.path /\ check(v, r) /\ allows(r.path, r.method)
           /\ r.path \in Reads \cup Replays \cup Writes
           /\ r.method = "POST" => ~view[v].read_only
           /\ r.path \in {"control", "input"} => check_control(v, r)
BY DEF handle, Reads, Replays, Writes

\* Only a viewer with control is written through.
LEMMA WritesHaveControl ==
    ASSUME NEW v, NEW r, handle(v, r) \in Writes
    PROVE  r.method = "POST" /\ r.path # "/" /\ ~view[v].read_only
<1>1. handle(v, r) # "refused"
  BY DEF Writes
<1>2. r.path \in Writes /\ allows(r.path, r.method)
  BY <1>1, LetThrough
<1>3. r.path \notin Reads \cup Replays \cup {"bad id"}
  BY <1>2 DEF Reads, Replays, Writes
<1>4. r.method = "POST"
  BY <1>2, <1>3 DEF allows
<1> QED  BY <1>1, <1>3, <1>4, LetThrough DEF Reads

\* No request that is let through lacks the token, names another host than one of
\* the viewer, or comes from another site, but for the page itself.
LEMMA ThroughIsChecked ==
    ASSUME NEW v, NEW r, handle(v, r) # "refused"
    PROVE  LET own == view[v].addrs \cup {"localhost"}
               to == handle(v, r) IN
           /\ r.token # "none" /\ r.host \in own /\ r.origin \in own \cup {"absent"}
           /\ r.site = "cross-site" => to = "/" /\ r.token = "query" /\ r.navigation
           /\ to \in Writes => r.method = "POST" /\ r.token = "bearer" /\ ~view[v].read_only
           /\ to \in {"control", "input"} => r.origin \in own
<1>1. handle(v, r) = r.path /\ check(v, r)
  BY LetThrough
<1>2. r.token = (IF r.path = "/" THEN "query" ELSE "bearer")
  BY <1>1 DEF check
<1>3. r.token # "none"
  BY <1>2
<1>4. r.host \in view[v].addrs \cup {"localhost"} /\ r.origin \in view[v].addrs \cup {"localhost"} \cup {"absent"}
  BY <1>1 DEF check, authorities
<1>5. ASSUME r.site = "cross-site" PROVE r.path = "/" /\ r.token = "query" /\ r.navigation
  BY <1>1, <1>2, <1>5 DEF check
<1>6. ASSUME handle(v, r) \in Writes PROVE r.method = "POST" /\ r.token = "bearer" /\ ~view[v].read_only
  BY <1>2, <1>6, WritesHaveControl
<1>7. ASSUME handle(v, r) \in {"control", "input"} PROVE r.origin \in view[v].addrs \cup {"localhost"}
  BY <1>1, <1>7, LetThrough DEF check_control, authorities
<1> QED  BY <1>1, <1>3, <1>4, <1>5, <1>6, <1>7

-----------------------------------------------------------------------------
(* The steps of a connection.                                               *)

LEMMA UndoneLease ==
    ASSUME ViewerInv, NEW c \in Client, Undone(c), view' = view
    PROVE  Leases' /\ human' \in HumanType
<1>1. CASE human' = NoHuman
  BY <1>1, NoLease
<1>2. CASE human' = human
  BY <1>2, TalksLease DEF ViewerInv, ViewerTypeInv
<1> QED  BY <1>1, <1>2 DEF Undone

\* A permit is taken with the connection it is for.
LEMMA AcceptKeeps ==
    ASSUME ViewerInv, NEW c \in Client, NEW v \in Viewer, Accept(c, v)
    PROVE  ViewerInv'
<1> DEFINE n == view[v].permits - 1
           fresh == [NoClient EXCEPT !.pc = "open", !.viewer = v]
<1>1. n \in Nat /\ n + 1 = view[v].permits
  BY DEF Accept, ViewerInv, ViewerTypeInv, ViewType
<1>2. view' = [view EXCEPT ![v].permits = n]
  BY DEF Accept
<1>3. fresh \in ClientType /\ fresh.pc = "open" /\ fresh.viewer = v
  BY DEF NoClient, ClientType
<1>4. client' = [client EXCEPT ![c] = fresh]
  BY DEF Accept
<1> HIDE DEF n, fresh
<1>5. view' \in [Viewer -> ViewType] /\ view'[v].permits = n
      /\ \A w \in Viewer : w # v => view'[w].permits = view[w].permits
  BY <1>1, <1>2 DEF ViewerInv, ViewerTypeInv, ViewType
<1>6. \A w \in Viewer : view'[w].pc = view[w].pc /\ view'[w].read_only = view[w].read_only
                        /\ view'[w].accepting = view[w].accepting
  BY <1>2 DEF ViewerInv, ViewerTypeInv, ViewType
<1>7. client' \in [Client -> ClientType] /\ client'[c] = fresh
      /\ \A d \in Client : d # c => client'[d] = client[d]
  BY <1>3, <1>4 DEF ViewerInv, ViewerTypeInv
<1>8. ViewerTypeInv'
  BY <1>5, <1>7 DEF ViewerInv, ViewerTypeInv, Accept
<1>9. Accepting' /\ Gate'
  BY <1>6 DEF ViewerInv, Accepting, Bound, Gate, Busy, Accept
<1>10. Leases'
  BY <1>6 DEF ViewerInv, Leases, Bound, Accept
<1>11. Bound(v)
  BY DEF ViewerInv, Accepting, Accept
<1>12. Connections'
  BY <1>3, <1>6, <1>7, <1>11 DEF ViewerInv, Connections, Bound
<1>13. Permits'
  <2>1. c \notin Served(v) /\ Served(v)' = Served(v) \cup {c}
    BY <1>3, <1>7, ViewerAssumption DEF ViewerInv, Connections, Served, Accept
  <2>2. \A w \in Viewer : w # v => Served(w)' = Served(w)
    <3> SUFFICES ASSUME NEW w \in Viewer, w # v PROVE Served(w)' = Served(w)
      OBVIOUS
    <3>1. client[c].viewer = "none" /\ w # "none"
      BY ViewerAssumption DEF ViewerInv, Connections, Accept
    <3> QED  BY <3>1, <1>3, <1>7 DEF Served
  <2>3. IsFiniteSet(Served(v)) /\ Cardinality(Served(v)) + view[v].permits = MaxConnections
    BY DEF ViewerInv, Permits
  <2>4. Cardinality(Served(v)) \in Nat
    BY <2>3, FS_CardinalityType
  <2>5. IsFiniteSet(Served(v)') /\ Cardinality(Served(v)') = Cardinality(Served(v)) + 1
    BY <2>1, <2>3, FS_AddElement
  <2>6. Cardinality(Served(v)') + n = MaxConnections
    BY <1>1, <2>3, <2>4, <2>5
  <2> QED  BY <1>5, <2>2, <2>5, <2>6 DEF ViewerInv, Permits
<1> QED  BY <1>8, <1>9, <1>10, <1>12, <1>13 DEF ViewerInv

\* A connection that ends gives its permit back.
LEMMA EndsKeeps ==
    ASSUME ViewerInv, NEW c \in Client, ConnectionEnds(c)
    PROVE  ViewerInv'
<1>0. PICK v \in Viewer : client[c].viewer = v
  BY DEF ViewerInv, Connections, ConnectionEnds
<1> DEFINE n == view[v].permits + 1
<1>5. c \in Served(v)
  BY <1>0 DEF Served
<1>1. n \in Nat /\ n = view[v].permits + 1
  BY DEF ViewerInv, ViewerTypeInv, ViewType
<1>2. view' = [view EXCEPT ![v].permits = n]
  BY <1>0 DEF ConnectionEnds
<1>3. NoClient \in ClientType /\ NoClient.pc = "closed" /\ NoClient.viewer = "none"
  BY DEF NoClient, ClientType
<1>4. client' = [client EXCEPT ![c] = NoClient]
  BY DEF ConnectionEnds
<1> HIDE DEF n
<1>6. view' \in [Viewer -> ViewType] /\ view'[v].permits = n
      /\ \A w \in Viewer : w # v => view'[w].permits = view[w].permits
  BY <1>1, <1>2 DEF ViewerInv, ViewerTypeInv, ViewType
<1>7. \A w \in Viewer : view'[w].pc = view[w].pc /\ view'[w].read_only = view[w].read_only
                        /\ view'[w].accepting = view[w].accepting
  BY <1>2 DEF ViewerInv, ViewerTypeInv, ViewType
<1>8. client' \in [Client -> ClientType] /\ client'[c] = NoClient
      /\ \A d \in Client : d # c => client'[d] = client[d]
  BY <1>3, <1>4 DEF ViewerInv, ViewerTypeInv
<1>9. Leases' /\ human' \in HumanType
  <2>1. CASE human' = NoHuman
    BY <2>1, NoLease
  <2>2. CASE human' = human
    BY <2>2, <1>7 DEF ViewerInv, ViewerTypeInv, Leases, Bound
  <2> QED  BY <2>1, <2>2 DEF ConnectionEnds, Undone
<1>10. ViewerTypeInv'
  BY <1>6, <1>8, <1>9 DEF ViewerInv, ViewerTypeInv, ConnectionEnds
<1>11. Accepting' /\ Gate'
  BY <1>7 DEF ViewerInv, Accepting, Bound, Gate, Busy, ConnectionEnds
<1>12. Connections'
  BY <1>3, <1>7, <1>8 DEF ViewerInv, Connections, Bound
<1>13. Permits'
  <2>1. Served(v)' = Served(v) \ {c}
    BY <1>3, <1>8, ViewerAssumption DEF Served
  <2>2. \A w \in Viewer : w # v => Served(w)' = Served(w)
    BY <1>3, <1>0, <1>8, ViewerAssumption DEF Served
  <2>3. IsFiniteSet(Served(v)) /\ Cardinality(Served(v)) + view[v].permits = MaxConnections
    BY DEF ViewerInv, Permits
  <2>4. Cardinality(Served(v)) \in Nat /\ view[v].permits \in Nat
    BY <2>3, FS_CardinalityType DEF ViewerInv, ViewerTypeInv, ViewType
  <2>5. IsFiniteSet(Served(v)') /\ Cardinality(Served(v)') = Cardinality(Served(v)) - 1
    BY <1>5, <2>1, <2>3, FS_RemoveElement
  <2>6. Cardinality(Served(v)') + n = MaxConnections
    BY <1>1, <2>3, <2>4, <2>5
  <2> QED  BY <1>6, <2>2, <2>5, <2>6 DEF ViewerInv, Permits
<1> QED  BY <1>9, <1>10, <1>11, <1>12, <1>13 DEF ViewerInv

\* A connection that goes from one state to the next.
LEMMA TalksOn ==
    ASSUME ViewerInv, NEW c \in Client, NEW q \in {"open", "body", "replying", "taking"},
           NEW e \in {"none", "note", "control", "input"}, client[c].pc # "closed",
           client' = [client EXCEPT ![c].pc = q, ![c].effect = e],
           q \in {"body", "taking"} => ~view[client[c].viewer].read_only,
           view' = view, gate' = gate
    PROVE  Talks(c)
<1> DEFINE f == [client EXCEPT ![c].pc = q]
<1>1. client' = [f EXCEPT ![c].effect = e]
  OBVIOUS
<1>2. f \in [Client -> ClientType] /\ f[c].pc = q /\ f[c].viewer = client[c].viewer
      /\ \A d \in Client : d # c => f[d] = client[d]
  BY DEF ViewerInv, ViewerTypeInv, ClientType
<1> HIDE DEF f
<1>3. f[c] \in ClientType
  BY <1>2
<1> DEFINE n == [f[c] EXCEPT !.effect = e]
<1>4. n \in ClientType
  BY <1>3 DEF ClientType
<1>5. n.pc = q /\ n.viewer = client[c].viewer
  BY <1>2, <1>3 DEF ClientType
<1>6. client' = [f EXCEPT ![c] = n]
  BY <1>1
<1> HIDE DEF n
<1>7. client' \in [Client -> ClientType] /\ client'[c] = n
      /\ \A d \in Client : d # c => client'[d] = client[d]
  BY <1>2, <1>4, <1>6
<1> QED  BY <1>5, <1>7 DEF Talks

LEMMA RespondTalks ==
    ASSUME ViewerInv, NEW c \in Client, client[c].pc # "closed", Respond(c),
           view' = view, gate' = gate
    PROVE  Talks(c)
<1> DEFINE again == [NoClient EXCEPT !.pc = "open", !.viewer = client[c].viewer]
<1>1. client[c].viewer \in Viewer \cup {"none"}
  BY DEF ViewerInv, ViewerTypeInv, ClientType
<1>2. again \in ClientType /\ again.pc = "open" /\ again.viewer = client[c].viewer
  BY <1>1 DEF NoClient, ClientType
<1>3. client' = [client EXCEPT ![c] = again]
  BY DEF Respond
<1> HIDE DEF again
<1> QED  BY <1>2, <1>3 DEF ViewerInv, ViewerTypeInv, Talks

LEMMA TalksInv ==
    ASSUME ViewerInv, NEW c \in Client, Talks(c), Leases', human' \in HumanType
    PROVE  ViewerInv'
<1>1. ViewerTypeInv'
  BY DEF ViewerInv, ViewerTypeInv, Talks
<1> QED  BY <1>1, TalksKeep DEF ViewerInv

LEMMA QuietKeeps ==
    ASSUME ViewerInv, NEW c \in Client, Talks(c), human' = human
    PROVE  ViewerInv'
<1>1. Leases' /\ human' \in HumanType
  BY TalksLease DEF ViewerInv, ViewerTypeInv, Talks
<1> QED  BY <1>1, TalksInv

LEMMA RequestKeeps ==
    ASSUME ViewerInv, NEW c \in Client, client[c].pc = "open", NEW r \in HttpRequest, Request(c, r)
    PROVE  ViewerInv'
<1> DEFINE to == handle(client[c].viewer, r)
           q == IF to \in Writes THEN "body" ELSE "replying"
           e == IF to \in Writes THEN Kind(to) ELSE "none"
<1>1. q \in {"open", "body", "replying", "taking"} /\ e \in {"none", "note", "control", "input"}
  BY DEF Kind
<1>2. q = "body" => ~view[client[c].viewer].read_only
  BY WritesHaveControl
<1>3. q # "taking"
  OBVIOUS
<1>4. client' = [client EXCEPT ![c].pc = q, ![c].effect = e]
  BY DEF Request
<1> HIDE DEF q, e
<1>5. Talks(c)
  BY <1>1, <1>2, <1>3, <1>4, TalksOn DEF Request
<1> QED  BY <1>5, QuietKeeps DEF Request

LEMMA BodyRefusedKeeps ==
    ASSUME ViewerInv, NEW c \in Client, BodyRefused(c) \/ Replied(c) \/ TooMany(c)
    PROVE  ViewerInv'
<1>1. Talks(c)
  BY RespondTalks DEF BodyRefused, Replied, TooMany
<1> QED  BY <1>1, QuietKeeps DEF BodyRefused, Replied, TooMany

LEMMA PostedKeeps ==
    ASSUME ViewerInv, NEW c \in Client, Posted(c) \/ Input(c)
    PROVE  ViewerInv'
<1>1. Talks(c)
  BY TalksOn DEF Posted, Input
<1> QED  BY <1>1, QuietKeeps DEF Posted, Input

\* A take has read its body, so its viewer has control; the token was out, so a
\* viewer that is not held is on its way out.
LEMMA TakeBeginsKeeps ==
    ASSUME ViewerInv, NEW c \in Client, TakeBegins(c)
    PROVE  ViewerInv'
<1> DEFINE v == client[c].viewer
           late == view[v].pc # "holding"
<1>1. v \in Viewer /\ Bound(v) /\ ~view[v].read_only
  BY DEF ViewerInv, Connections, TakeBegins
<1>2. Talks(c)
  <2>1. client' \in [Client -> ClientType] /\ client'[c].pc = "taking" /\ client'[c].viewer = v
        /\ \A d \in Client : d # c => client'[d] = client[d]
    BY DEF ViewerInv, ViewerTypeInv, ClientType, TakeBegins
  <2> QED  BY <1>1, <2>1 DEF Talks, TakeBegins
<1>3. human'.by = c /\ human'.viewer = v /\ human'.late = late /\ human' \in HumanType
  BY <1>1 DEF TakeBegins, HumanType
<1>4. Leases'
  <2>1. view' = view
    BY DEF TakeBegins
  <2> HIDE DEF v
  <2> QED  BY <1>1, <1>3, <2>1 DEF Leases, Bound
<1> QED  BY <1>2, <1>3, <1>4, TalksInv

LEMMA TakeEndsKeeps ==
    ASSUME ViewerInv, NEW c \in Client, TakeEnds(c)
    PROVE  ViewerInv'
<1>1. Talks(c)
  BY RespondTalks DEF TakeEnds
<1>2. human' \in HumanType /\ human'.by = human.by /\ human'.viewer = human.viewer
      /\ human'.late = human.late
  BY DEF ViewerInv, ViewerTypeInv, HumanType, TakeEnds
<1>3. Leases'
  BY <1>2 DEF ViewerInv, Leases, Bound, TakeEnds
<1> QED  BY <1>1, <1>2, <1>3, TalksInv

LEMMA TakeFailsKeeps ==
    ASSUME ViewerInv, NEW c \in Client, TakeFails(c)
    PROVE  ViewerInv'
<1>1. Talks(c)
  BY RespondTalks DEF TakeFails
<1>2. Leases' /\ human' \in HumanType
  BY UndoneLease DEF TakeFails
<1> QED  BY <1>1, <1>2, TalksInv

LEMMA ReleasedKeeps ==
    ASSUME ViewerInv, NEW c \in Client, Released(c)
    PROVE  ViewerInv'
<1>1. Talks(c)
  BY TalksOn DEF Released
<1>2. CASE human' = NoHuman
  BY <1>1, <1>2, NoLease, TalksInv
<1>3. CASE human' = human
  BY <1>1, <1>3, QuietKeeps
<1> QED  BY <1>2, <1>3 DEF Released

-----------------------------------------------------------------------------
(* The theorems.                                                            *)

LEMMA ViewerStarted == ViewerInit => ViewerInv
<1> SUFFICES ASSUME ViewerInit PROVE ViewerInv
  OBVIOUS
<1>1. ViewerTypeInv
  BY ViewerAssumption DEF ViewerInit, ViewerTypeInv, NoView, NoClient, NoHuman,
     ViewType, ViewPc, ClientType, HumanType
<1>2. Accepting /\ Connections /\ Leases /\ Gate
  BY DEF ViewerInit, Accepting, Connections, Leases, Gate, Busy, NoView, NoClient, NoHuman
<1>3. Permits
  <2> SUFFICES ASSUME NEW v \in Viewer
               PROVE  IsFiniteSet(Served(v)) /\ Cardinality(Served(v)) + view[v].permits = MaxConnections
    BY DEF Permits
  <2>1. Served(v) = {}
    BY ViewerAssumption DEF ViewerInit, NoClient, Served
  <2>2. IsFiniteSet(Served(v)) /\ Cardinality(Served(v)) = 0
    BY <2>1, FS_EmptySet
  <2>3. view[v].permits = MaxConnections
    BY DEF ViewerInit, NoView
  <2> QED  BY <2>2, <2>3, ViewerAssumption
<1> QED  BY <1>1, <1>2, <1>3 DEF ViewerInv

LEMMA ViewerStep == ViewerInv /\ [ViewerNext]_guardVars => ViewerInv'
<1> SUFFICES ASSUME ViewerInv, [ViewerNext]_guardVars PROVE ViewerInv'
  OBVIOUS
<1>1. ASSUME UNCHANGED guardVars PROVE ViewerInv'
  BY <1>1 DEF ViewerInv, ViewerTypeInv, Accepting, Connections, Leases, Permits, Gate, Bound,
     Served, Busy, guardVars
<1>2. ASSUME NEW v \in Viewer,
             \/ ViewerStarts(v) \/ ViewerRefused(v) \/ ViewerBinds(v) \/ ViewerBindFails(v)
             \/ ViewerAnswered(v) \/ ViewerAnswerFails(v) \/ ViewerStops(v) \/ EndAll(v)
             \/ AcceptDropped(v) \/ Sweep(v)
      PROVE  ViewerInv'
  BY <1>2, StartsKeeps, RefusedKeeps, BindsKeeps, BindFailsKeeps, AnsweredKeeps, AnswerFailsKeeps,
     StopsKeeps, EndAllKeeps, AcceptDroppedKeeps, SweepKeeps
<1>3. ASSUME NEW c \in Client,
             \/ ConnectionEnds(c) \/ BodyRefused(c) \/ Posted(c) \/ Replied(c)
             \/ TooMany(c) \/ TakeBegins(c) \/ TakeEnds(c) \/ TakeFails(c) \/ Released(c) \/ Input(c)
      PROVE  ViewerInv'
  BY <1>3, EndsKeeps, BodyRefusedKeeps, PostedKeeps, TakeBeginsKeeps, TakeEndsKeeps, TakeFailsKeeps,
     ReleasedKeeps
<1>4. ASSUME NEW c \in Client, NEW v \in Viewer, Accept(c, v) PROVE ViewerInv'
  BY <1>4, AcceptKeeps
<1>5. ASSUME NEW c \in Client, client[c].pc = "open", NEW r \in HttpRequest, Request(c, r)
      PROVE  ViewerInv'
  BY <1>5, RequestKeeps
<1> QED  BY <1>1, <1>2, <1>3, <1>4, <1>5 DEF ViewerNext

LEMMA InvGuards == ViewerInv => ViewerIsGuarded
<1> SUFFICES ASSUME ViewerInv PROVE ViewerIsGuarded
  OBVIOUS
<1>1. \A v \in Viewer : view[v].addrs \subseteq {"lo"} \cup InRange
  BY DEF ViewerInv, ViewerTypeInv, ViewType
<1>2. ASSUME NEW v \in Viewer
      PROVE  Cardinality({c \in Client : client[c].viewer = v}) = MaxConnections - view[v].permits
  <2>1. IsFiniteSet(Served(v)) /\ Cardinality(Served(v)) + view[v].permits = MaxConnections
    BY DEF ViewerInv, Permits
  <2>2. Cardinality(Served(v)) \in Nat /\ view[v].permits \in Nat
    BY <2>1, FS_CardinalityType DEF ViewerInv, ViewerTypeInv, ViewType
  <2>3. Cardinality(Served(v)) = MaxConnections - view[v].permits
    BY <2>1, <2>2, ViewerAssumption
  <2> QED  BY <2>3 DEF Served
<1>3. Cardinality(Busy) = (IF gate THEN 1 ELSE 0)
  <2>1. CASE gate
    BY <2>1, FS_Singleton DEF ViewerInv, Gate
  <2>2. CASE ~gate
    BY <2>2, FS_EmptySet DEF ViewerInv, Gate
  <2> QED  BY <2>1, <2>2
<1>4. Cardinality({v \in Viewer : view[v].pc \in {"binding", "answering", "holding"}})
      = (IF gate THEN 1 ELSE 0)
  BY <1>3 DEF Busy
<1> QED  BY <1>1, <1>2, <1>4, ThroughIsChecked DEF ViewerIsGuarded

\* The gate of the one viewer, the permits of its connections and every check of
\* a request (viewer/mod.rs, http.rs, auth.rs, bind.rs): nothing has an effect
\* without the token, from another site or through a read-only viewer, for every
\* set of requests, addresses and interfaces.
THEOREM OnlyOwnPage == ViewerSpec => []ViewerIsGuarded
<1>1. ViewerSpec => []ViewerInv
  BY ViewerStarted, ViewerStep, PTL DEF ViewerSpec
<1> QED  BY <1>1, InvGuards, PTL

\* hold_viewer ends every lease with the viewer: one that outlives it began after
\* the handle was dropped.
THEOREM LeasesEnd == ViewerSpec => []LeasesEndWithViewer
<1>1. ViewerSpec => []ViewerInv
  BY ViewerStarted, ViewerStep, PTL DEF ViewerSpec
<1>2. ViewerInv => LeasesEndWithViewer
  BY DEF ViewerInv, Leases, LeasesEndWithViewer
<1> QED  BY <1>1, <1>2, PTL
=============================================================================
