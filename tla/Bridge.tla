------------------------------- MODULE Bridge -------------------------------
(* The host end of the Cua carrier of one RDP connection (rdpilot/bridge.rs):  *)
(* BridgeShared, its requests and the DVC processor.                           *)
(*                                                                             *)
(* - An attachment and a request are numbers of one counter, `next'.           *)
(* - `pending' holds the control ids that wait for an answer, `answers' the    *)
(*   answers that arrived.  A control id in neither has lost its sender, which *)
(*   the caller sees as a closed bridge.                                       *)
(* - `inputQ' holds the requests in the session loop's command channel;        *)
(*   input and epochs share that channel in the code and are left out here.    *)
(*                                                                             *)
(* Left out: generations (one connection), bundle and protocol mismatches      *)
(* (they end the carrier before it is ready) and the bytes of a frame.         *)
EXTENDS Integers, Sequences, FiniteSets

CONSTANTS
    StreamDepth,    \* STREAM_DEPTH
    PendingMax      \* the limit of 32 pending requests

ASSUME BridgeAssumption == StreamDepth \in Nat \ {0} /\ PendingMax \in Nat \ {0}

VARIABLES
    ready, dead,    \* State::ready, State::dead
    pending,        \* State::pending
    answers,        \* the answers of requests: <<control id, message type, run>>
    attachment,     \* State::attachment
    outgoing,       \* State::outgoing
    retire,         \* State::retire: the attachment to close, or 0
    next,           \* BridgeShared::next
    inputQ,         \* LoopCommand::Request envelopes in the loop's channel
    up,             \* the guest's bridge process runs and has opened the channel
    toGuest, toHost \* the frames in the channel, each way

stateVars == <<ready, dead, pending, answers, attachment, outgoing>>
bridgeVars == <<stateVars, retire, next, inputQ>>
channelVars == <<up, toGuest, toHost>>

\* An envelope: `ctl' is its control id, `id' an attachment, `run' a runtime
\* generation, `body' an MCP message (a number).
Env(type, ctl, id, run, body) ==
    [type |-> type, ctl |-> ctl, id |-> id, run |-> run, body |-> body]
NoBody == 0

NoAttachment == [id |-> 0, run |-> 0, output |-> <<>>]

BridgeInit ==
    /\ ready = FALSE /\ dead = FALSE
    /\ pending = {} /\ answers = {}
    /\ attachment = NoAttachment
    /\ outgoing = <<>>
    /\ retire = 0
    /\ next = 1
    /\ inputQ = <<>>
    /\ up = FALSE
    /\ toGuest = <<>> /\ toHost = <<>>

\* The channel of this guest process is open on both sides, once `arrived' are
\* the frames that still are to arrive at the host.
Open(arrived) == up /\ \A i \in DOMAIN arrived : arrived[i].type # "Created"
Connected == Open(toHost)

\* A frame that finds no open channel is dropped.
Transmit(frames) == toGuest' = IF Connected THEN toGuest \o frames ELSE toGuest

-----------------------------------------------------------------------------
(* BridgeShared *)

Invalidate ==
    /\ dead' = TRUE
    /\ ready' = FALSE
    /\ pending' = {}
    /\ outgoing' = <<>>
    /\ attachment' = NoAttachment
    /\ UNCHANGED answers

\* The attachment after close_attachment(id).
Closing(id) == IF attachment.id = id THEN NoAttachment ELSE attachment

\* retain: the envelopes that are not of attachment `id', in their order.
DataWithout(envelopes, id) ==
    LET kept[n \in 0..Len(envelopes)] ==
            IF n = 0 THEN <<>>
            ELSE IF envelopes[n].id = id THEN kept[n - 1]
            ELSE Append(kept[n - 1], envelopes[n])
    IN  kept[Len(envelopes)]

OtherData(id) == DataWithout(outgoing, id)

\* Mutant: the slot keeps the first retirement.
RetireSlotFirst(id) == IF retire = 0 THEN id ELSE retire

\* Mutant: only the holder of the attachment is retired.
RetireSlotHeld(id) == IF attachment.id = id THEN id ELSE retire

\* The slot after retire(id): the highest id stays.
RetireSlot(id) == IF id >= retire THEN id ELSE retire

\* retire takes the lock twice.  First the attachment of the handle is closed...
CloseOwn(id) == attachment' = Closing(id)

\* ... and later its data is removed and its runtime's Close takes the slot.
Retire(id) ==
    /\ outgoing' = OtherData(id)
    /\ retire' = RetireSlot(id)

\* The first half of request: the caller is registered under a new control id.
MayRequest == ~dead /\ Cardinality(pending) < PendingMax

Answered(ctl) == {a \in answers : a[1] = ctl}

\* The sender of `ctl' was dropped without an answer.
Unanswerable(ctl) == ctl \notin pending /\ Answered(ctl) = {}

\* The request future has ended, with an answer or without: PendingRequest.
Forget(ctl) ==
    /\ pending' = pending \ {ctl}
    /\ answers' = answers \ Answered(ctl)

-----------------------------------------------------------------------------
(* BridgeProcessor: what one message from the guest does.  The frame leaves    *)
(* the channel, and the processor may send one back at once.                   *)

Reply(frames) ==
    /\ toHost' = Tail(toHost)
    /\ toGuest' = IF Open(toHost') THEN toGuest \o frames ELSE toGuest

\* start: the guest opened the channel, perhaps again.
Start ==
    /\ Reply(<<Env("Hello", 0, 0, 0, NoBody)>>)
    /\ ready' = FALSE
    /\ pending' = {}
    /\ outgoing' = <<>>
    /\ attachment' = NoAttachment
    /\ UNCHANGED <<dead, answers>>

\* The answer goes to the caller that waits for the control id.
Resolve(e) ==
    /\ pending' = pending \ {e.ctl}
    /\ answers' = answers \cup
          {a \in {<<e.ctl, e.type, e.run>>} : e.ctl \in pending}

\* Mutant: a message goes to whatever attachment there is.
AddressedAny(e) == attachment.id # 0

Addressed(e) == e.id = attachment.id /\ e.run = attachment.run

ProcessReady(e) ==
    /\ e.type = "Ready"
    /\ ready' = TRUE
    /\ Reply(<<>>)
    /\ Resolve(e)
    /\ UNCHANGED <<dead, attachment, outgoing>>

ProcessOpened(e) ==
    /\ e.type = "Opened"
    /\ attachment' = IF attachment.id = e.id THEN [attachment EXCEPT !.run = e.run]
                                             ELSE attachment
    /\ Reply(<<>>)
    /\ Resolve(e)
    /\ UNCHANGED <<ready, dead, outgoing>>

\* An MCP message goes to the attachment it names; a caller that does not read
\* loses its attachment.
ProcessMcp(e) ==
    /\ e.type = "Mcp"
    /\ \/ /\ Addressed(e)
          /\ Len(attachment.output) < StreamDepth
          /\ attachment' = [attachment EXCEPT !.output = Append(@, e.body)]
          /\ Reply(<<>>)
       \/ /\ Addressed(e)
          /\ Len(attachment.output) >= StreamDepth
          /\ attachment' = Closing(e.id)
          /\ Reply(<<Env("Close", 0, e.id, 0, NoBody)>>)
       \/ /\ ~Addressed(e)
          /\ Reply(<<>>)
          /\ UNCHANGED attachment
    /\ UNCHANGED <<ready, dead, pending, answers, outgoing>>

ProcessClosed(e) ==
    /\ e.type = "Closed"
    /\ attachment' = Closing(e.id)
    /\ Reply(<<>>)
    /\ UNCHANGED <<ready, dead, pending, answers, outgoing>>

ProcessOther(e) ==
    /\ e.type \in {"Error", "Result"}
    /\ Reply(<<>>)
    /\ Resolve(e)
    /\ UNCHANGED <<ready, dead, attachment, outgoing>>

\* A dead bridge ignores every message.
Process(e) ==
    \/ e.type = "Created" /\ Start
    \/ /\ e.type # "Created" /\ dead
       /\ Reply(<<>>)
       /\ UNCHANGED stateVars
    \/ /\ ~dead
       /\ \/ ProcessReady(e)
          \/ ProcessOpened(e)
          \/ ProcessMcp(e)
          \/ ProcessClosed(e)
          \/ ProcessOther(e)

=============================================================================
