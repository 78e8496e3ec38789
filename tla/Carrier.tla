------------------------------ MODULE Carrier -------------------------------
(* The Cua carrier from end to end: callers that attach, send, receive and     *)
(* detach (rdpilot/bridge.rs), the session loop that moves frames              *)
(* (session_loop.rs), the channel, and the guest runtime.                      *)
(*                                                                             *)
(* A step of a caller or of the loop is one critical section: a claim comes    *)
(* after the number is drawn, the end of a handle takes the lock twice.  The   *)
(* loop's select is biased and polls one branch after the other: `poll' is the *)
(* next one, and what arrives behind it waits for the next round.              *)
(* What the guest sends arrives in order, at any time.                         *)
EXTENDS GuestRuntime

CONSTANTS
    Handle,         \* callers of attach, each at most once
    MaxMcp,         \* bound: MCP messages that are sent, numbered in their order
    Faults,         \* what may go wrong: see below
    MaxLaunch       \* bound: bridge processes that the bootstrap starts

\* "deadline": an attach times out or is cancelled; "child": the Cua child ends;
\* "guest": the bridge process ends; "silence": a heartbeat deadline passes
\* although the guest lives; "session": the session loop ends.
FaultKinds == {"deadline", "child", "guest", "silence", "session"}
ASSUME CarrierAssumption == Faults \subseteq FaultKinds /\ MaxLaunch \in Nat /\ MaxMcp \in Nat

Mcp == 1..MaxMcp

VARIABLES
    loopUp,         \* the session loop runs
    poll,           \* what the loop's select polls next: "retire", "input", "data"
    launches,       \* bridge processes started so far
    hs,             \* per handle: [pc, id, ctl, run]
    owner,          \* per message sent: the handle that sent it
    rcvd,           \* per handle: the messages received
    runs,           \* per message: how often a child began to work on it
    lapsed,         \* an attach was given up, or its channel
                    \* restarted, before the guest answered it
    outranked       \* the Close of the runtime in the guest gave way to
                    \* that of a later attachment in the slot

wireVars == <<channelVars, loopUp, poll, launches>>
ghostVars == <<lapsed, outranked>>
handleVars == <<hs, owner, rcvd, runs, ghostVars>>
carrierVars == <<bridgeVars, guestVars, wireVars, handleVars>>

Init ==
    /\ BridgeInit
    /\ GuestInit
    /\ loopUp = TRUE
    /\ poll = "retire"
    /\ launches = 0
    /\ hs = [h \in Handle |-> [pc |-> "idle", id |-> 0, ctl |-> 0, run |-> 0]]
    /\ owner = <<>>
    /\ rcvd = [h \in Handle |-> <<>>]
    /\ runs = [m \in Mcp |-> 0]
    /\ lapsed = FALSE /\ outranked = FALSE

Goto(h, pc) == hs' = [hs EXCEPT ![h].pc = pc]

-----------------------------------------------------------------------------
(* Callers *)

AttachCheck(h) ==
    /\ hs[h].pc = "idle"
    /\ ready /\ ~dead
    /\ Goto(h, "checked")
    /\ UNCHANGED <<bridgeVars, guestVars, wireVars, owner, rcvd, runs, ghostVars>>

\* The attachment's number is drawn before the lock is taken.
AttachNumber(h) ==
    /\ hs[h].pc = "checked"
    /\ next' = next + 1
    /\ hs' = [hs EXCEPT ![h].pc = "numbered", ![h].id = next]
    /\ UNCHANGED <<stateVars, retire, inputQ, guestVars, wireVars, owner, rcvd, runs, ghostVars>>

\* The attachment is claimed under the lock, or refused: one at a time.
AttachClaim(h) ==
    /\ hs[h].pc = "numbered"
    /\ \/ /\ attachment.id # 0
          /\ Goto(h, "gone")
          /\ UNCHANGED attachment
       \/ /\ attachment.id = 0
          /\ attachment' = [NoAttachment EXCEPT !.id = hs[h].id]
          /\ Goto(h, "claimed")
    /\ UNCHANGED <<ready, dead, pending, answers, outgoing, retire, next, inputQ,
                   guestVars, wireVars, owner, rcvd, runs, ghostVars>>

\* The Open request is registered, or refused, which drops the handle.
AttachRequest(h) ==
    /\ hs[h].pc = "claimed"
    /\ next' = next + 1
    /\ \/ /\ MayRequest
          /\ pending' = pending \cup {next}
          /\ hs' = [hs EXCEPT ![h].pc = "sending", ![h].ctl = next]
          /\ UNCHANGED attachment
       \/ /\ ~MayRequest
          /\ CloseOwn(hs[h].id)
          /\ Goto(h, "dropping")
          /\ UNCHANGED pending
    /\ UNCHANGED <<ready, dead, answers, outgoing, retire, inputQ, guestVars, wireVars,
                   owner, rcvd, runs, ghostVars>>

AttachSend(h) ==
    /\ hs[h].pc = "sending" /\ loopUp
    /\ inputQ' = Append(inputQ, Env("Open", hs[h].ctl, hs[h].id, 0, NoBody))
    /\ Goto(h, "waiting")
    /\ UNCHANGED <<stateVars, retire, next, guestVars, wireVars, owner, rcvd, runs, ghostVars>>

\* The guest opened a runtime: the handle is returned if it is still attached.
AttachOpened(h) ==
    /\ hs[h].pc = "waiting"
    /\ attachment.id = hs[h].id
    /\ \E a \in Answered(hs[h].ctl) :
          /\ a[2] = "Opened"
          /\ attachment' = [attachment EXCEPT !.run = a[3]]
          /\ hs' = [hs EXCEPT ![h].pc = "open", ![h].run = a[3]]
    /\ Forget(hs[h].ctl)
    /\ UNCHANGED <<ready, dead, outgoing, retire, next, inputQ, guestVars, wireVars,
                   owner, rcvd, runs, ghostVars>>

\* Every other end of attach drops the request, then the provisional handle;
\* nobody sees the one without the other.
AttachFails(h) ==
    /\ hs[h].pc \in {"sending", "waiting"}
    /\ \/ /\ \E a \in Answered(hs[h].ctl) : a[2] = "Error" \/ attachment.id # hs[h].id
          /\ UNCHANGED lapsed
       \/ /\ \/ Unanswerable(hs[h].ctl)
             \/ hs[h].pc = "sending" /\ ~loopUp
             \/ "deadline" \in Faults
          /\ lapsed' = TRUE
    /\ Forget(hs[h].ctl)
    /\ CloseOwn(hs[h].id)
    /\ Goto(h, "dropping")
    /\ UNCHANGED <<ready, dead, outgoing, retire, next, inputQ, guestVars, wireVars,
                   owner, rcvd, runs, outranked>>

Attached(h) == hs[h].pc = "open" /\ attachment.id = hs[h].id

Send(h) ==
    /\ Attached(h) /\ ~dead
    /\ Len(owner) < MaxMcp
    /\ Len(outgoing) < StreamDepth
    /\ owner' = Append(owner, h)
    /\ outgoing' = Append(outgoing, Env("Mcp", 0, hs[h].id, hs[h].run, Len(owner')))
    /\ UNCHANGED <<ready, dead, pending, answers, attachment, retire, next, inputQ,
                   guestVars, wireVars, hs, rcvd, runs, ghostVars>>

Recv(h) ==
    /\ Attached(h)
    /\ attachment.output # <<>>
    /\ rcvd' = [rcvd EXCEPT ![h] = Append(@, Head(attachment.output))]
    /\ attachment' = [attachment EXCEPT !.output = Tail(@)]
    /\ UNCHANGED <<ready, dead, pending, answers, outgoing, retire, next, inputQ,
                   guestVars, wireVars, hs, owner, runs, ghostVars>>

\* end: the caller closes, finds its attachment closed or the queue full.
End(h) ==
    /\ hs[h].pc = "open"
    /\ CloseOwn(hs[h].id)
    /\ Goto(h, "ending")
    /\ UNCHANGED <<ready, dead, pending, answers, outgoing, retire, next, inputQ,
                   guestVars, wireVars, owner, rcvd, runs, ghostVars>>

\* The handle is dropped, after an end too: it retires its attachment again.
DropHandle(h) ==
    /\ hs[h].pc \in {"open", "ended"}
    /\ CloseOwn(hs[h].id)
    /\ Goto(h, "dropping")
    /\ UNCHANGED <<ready, dead, pending, answers, outgoing, retire, next, inputQ,
                   guestVars, wireVars, owner, rcvd, runs, ghostVars>>

\* Of a Close in the slot and one that comes, the older attachment's gives way.
GivesWay(id) == IF id >= retire THEN retire ELSE id

\* The second critical section of retire.
Retired(h) ==
    /\ \/ hs[h].pc = "ending" /\ Goto(h, "ended")
       \/ hs[h].pc = "dropping" /\ Goto(h, "gone")
    /\ Retire(hs[h].id)
    /\ outranked' = \/ outranked
                    \/ hs[h].id # retire /\ active.id # 0 /\ GivesWay(hs[h].id) = active.id
    /\ UNCHANGED <<ready, dead, pending, answers, attachment, next, inputQ, guestVars,
                   wireVars, owner, rcvd, runs, lapsed>>

-----------------------------------------------------------------------------
(* The session loop *)

\* A branch that completes ends the round.
Polls(branch) == loopUp /\ poll = branch /\ poll' = "retire"

\* A branch that is not ready: the next one is polled.  After the last one the
\* loop sleeps until it is woken.
LoopPasses ==
    /\ loopUp
    /\ \/ poll = "retire" /\ retire = 0 /\ poll' = "input"
       \/ poll = "input" /\ inputQ = <<>> /\ poll' = "data"
       \/ poll = "data" /\ poll' = "retire"
    /\ UNCHANGED <<bridgeVars, guestVars, channelVars, loopUp, launches, handleVars>>

LoopRetire ==
    /\ Polls("retire") /\ retire # 0
    /\ Transmit(<<Env("Close", 0, retire, 0, NoBody)>>)
    /\ retire' = 0
    /\ UNCHANGED <<stateVars, next, inputQ, guestVars, up, loopUp, toHost, launches, handleVars>>

LoopCommand ==
    /\ Polls("input") /\ inputQ # <<>>
    /\ Transmit(<<Head(inputQ)>>)
    /\ inputQ' = Tail(inputQ)
    /\ UNCHANGED <<stateVars, retire, next, guestVars, up, loopUp, toHost, launches, handleVars>>

LoopData ==
    /\ Polls("data") /\ outgoing # <<>>
    /\ Transmit(<<Head(outgoing)>>)
    /\ outgoing' = Tail(outgoing)
    /\ UNCHANGED <<ready, dead, pending, answers, attachment, retire, next, inputQ,
                   guestVars, up, loopUp, toHost, launches, handleVars>>

LoopRead ==
    /\ Polls("input") /\ toHost # <<>>
    /\ Process(Head(toHost))
    /\ lapsed' = \/ lapsed
                 \/ /\ Head(toHost).type = "Created"
                    /\ \E h \in Handle : hs[h].pc \in {"claimed", "sending", "waiting"}
    /\ UNCHANGED <<retire, next, inputQ, guestVars, up, loopUp, launches, hs, owner, rcvd, runs,
                   outranked>>

\* The ping tick finds that nothing arrived for too long.
CheckLiveness ==
    /\ Polls("input") /\ ready
    /\ ~up \/ "silence" \in Faults
    /\ Invalidate
    /\ UNCHANGED <<retire, next, inputQ, guestVars, channelVars, loopUp, launches, handleVars>>

\* The loop ends for any reason; the processor is dropped with it.
LoopEnds ==
    /\ loopUp /\ "session" \in Faults
    /\ loopUp' = FALSE
    /\ Invalidate
    /\ inputQ' = <<>>
    /\ UNCHANGED <<retire, next, guestVars, channelVars, poll, launches, handleVars>>

-----------------------------------------------------------------------------
(* The guest *)

\* The bootstrap starts a bridge process, which opens the channel.
Launch ==
    /\ loopUp /\ launches < MaxLaunch
    /\ GuestStart
    /\ launches' = launches + 1
    /\ toGuest' = <<>>
    /\ toHost' = Append(toHost, Env("Created", 0, 0, 0, NoBody))
    /\ UNCHANGED <<bridgeVars, loopUp, poll, handleVars>>

GuestGone ==
    /\ "guest" \in Faults \/ ~loopUp \/ dead     \* a dead bridge sends no pings
    /\ GuestEnds
    /\ toGuest' = <<>>
    /\ UNCHANGED <<bridgeVars, loopUp, poll, toHost, launches, handleVars>>

GuestReads ==
    /\ toGuest # <<>>
    /\ GuestHandle(Head(toGuest))
    /\ UNCHANGED <<bridgeVars, loopUp, poll, launches, handleVars>>

ChildWorks ==
    /\ ChildTakes
    /\ runs' = [runs EXCEPT ![Head(active.input)] = @ + 1]
    /\ UNCHANGED <<bridgeVars, wireVars, hs, owner, rcvd, ghostVars>>

ChildStep ==
    /\ \/ \E m \in Mcp : ChildAnswers(m)
       \/ "child" \in Faults /\ ChildEnds
    /\ UNCHANGED <<bridgeVars, wireVars, handleVars>>

GuestWrites ==
    /\ GuestOutput
    /\ UNCHANGED <<bridgeVars, up, loopUp, poll, toGuest, launches, handleVars>>

-----------------------------------------------------------------------------
CallerStep(h) ==
    \/ AttachCheck(h) \/ AttachNumber(h) \/ AttachClaim(h) \/ AttachRequest(h) \/ AttachSend(h)
    \/ AttachOpened(h) \/ AttachFails(h)
    \/ Send(h) \/ Recv(h) \/ End(h) \/ DropHandle(h) \/ Retired(h)

LoopStep == LoopPasses \/ LoopRetire \/ LoopCommand \/ LoopData \/ LoopRead \/ CheckLiveness

GuestStep == GuestReads \/ ChildWorks \/ ChildStep \/ GuestWrites

Next ==
    \/ \E h \in Handle : CallerStep(h)
    \/ LoopStep \/ LoopEnds
    \/ Launch \/ GuestGone \/ GuestStep

Spec == Init /\ [][Next]_carrierVars

-----------------------------------------------------------------------------
HandlePc == {"idle", "checked", "numbered", "claimed", "sending", "waiting", "open",
             "ending", "ended", "dropping", "gone"}

MessageType == {"Created", "Hello", "Ready", "Open", "Opened", "Mcp", "Close", "Closed",
                "Transfer", "Result", "Error"}
Envelope == [type : MessageType, ctl : Nat, id : Nat, run : Nat, body : Nat]

TypeOK ==
    /\ ready \in BOOLEAN /\ dead \in BOOLEAN /\ loopUp \in BOOLEAN /\ up \in BOOLEAN
    /\ helloed \in BOOLEAN /\ lapsed \in BOOLEAN /\ outranked \in BOOLEAN
    /\ poll \in {"retire", "input", "data"}
    /\ next \in Nat /\ retire \in Nat /\ launches \in Nat /\ lastId \in Nat /\ runGen \in Nat
    /\ pending \in SUBSET Nat
    /\ answers \in SUBSET (Nat \X MessageType \X Nat)
    /\ outgoing \in Seq(Envelope) /\ inputQ \in Seq(Envelope)
    /\ toGuest \in Seq(Envelope) /\ toHost \in Seq(Envelope)
    /\ attachment \in [id : Nat, run : Nat, output : Seq(Nat)]
    /\ active \in [id : Nat, run : Nat, input : Seq(Nat), work : SUBSET Nat,
                   output : Seq(Nat), alive : BOOLEAN]
    /\ transfer \in [ctl : Nat, done : BOOLEAN]
    /\ hs \in [Handle -> [pc : HandlePc, id : Nat, ctl : Nat, run : Nat]]
    /\ owner \in Seq(Handle)
    /\ rcvd \in [Handle -> Seq(Nat)]
    /\ runs \in [Mcp -> Nat]
    /\ Len(attachment.output) <= StreamDepth /\ Len(outgoing) <= StreamDepth
    /\ Len(active.input) <= QueueDepth /\ Len(active.output) <= QueueDepth

\* An MCP message reaches the runtime of the attachment that sent it and no
\* other, and its answer reaches that attachment and no other, whatever
\* attachments came before; and it is worked on at most once (attachment and
\* runtime ids on every message).
NoCrossTalk ==
    /\ \A m \in DOMAIN owner :
          \/ m \in active.work
          \/ \E i \in DOMAIN active.input : active.input[i] = m
          \/ \E i \in DOMAIN active.output : active.output[i] = m
          => hs[owner[m]].id = active.id
    /\ \A i \in DOMAIN attachment.output : hs[owner[attachment.output[i]]].id = attachment.id
    /\ \A h \in Handle : \A i \in DOMAIN rcvd[h] : owner[rcvd[h][i]] = h
    /\ \A m \in Mcp : runs[m] <= 1

\* A handle that is attached has its runtime in the guest, unless the news that
\* it closed is on its way or the bridge process is another one by now.
OpenMeansRunning ==
    \A h \in Handle :
        Attached(h) /\ Connected
        /\ (\A i \in DOMAIN toHost : toHost[i].type # "Closed" \/ toHost[i].id # hs[h].id)
            => active.id = hs[h].id /\ active.run = hs[h].run

Quiet == toGuest = <<>> /\ toHost = <<>> /\ inputQ = <<>> /\ retire = 0

\* The runtime in the guest has a handle, once all messages have arrived.  A
\* dead bridge is excepted: it sends no pings, and the guest ends for that.
RuntimeOwned ==
    loopUp /\ up /\ ~dead /\ Quiet /\ active.id # 0 =>
        \E h \in Handle : hs[h].id = active.id /\ hs[h].pc \notin {"ended", "gone"}

\* "Drop/close kills its Cua runtime": while no attach was given up early, and
\* no later attachment took the slot from the runtime's Close.
RuntimeDies == ~lapsed /\ ~outranked => RuntimeOwned

\* The same sentence (bridge.rs:266), also of an attach that was given up.
GivenUpRuntimeDies == ~outranked => RuntimeOwned

\* The Close of attachment `id' is in the channel, in the slot or in the hands of
\* a handle that has freed the attachment already.
BeingClosed(id) ==
    \/ \E i \in DOMAIN toGuest : toGuest[i].type = "Close" /\ toGuest[i].id = id
    \/ retire = id
    \/ \E h \in Handle : hs[h].id = id /\ hs[h].pc \in {"ending", "dropping"}

\* The guest refuses an attachment as busy only while the Close of its predecessor
\* is on its way: with the same exceptions, a later attach succeeds.  A dead bridge
\* refuses later callers, whose retirements take the slot.
BusyIsPassing ==
    ~lapsed /\ ~outranked /\ ~dead /\ up /\ helloed
    /\ toGuest # <<>> /\ Head(toGuest).type = "Open" /\ active.id # 0
        => BeingClosed(active.id)

=============================================================================
