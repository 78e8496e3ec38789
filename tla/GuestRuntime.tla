---------------------------- MODULE GuestRuntime ----------------------------
(* The guest end of the Cua carrier (rdpilot-bridge/runtime.rs): one control   *)
(* loop, at most one Cua child, at most one file transfer.                     *)
(*                                                                             *)
(* - `active' is the attachment with its child.  The queues between the loop,  *)
(*   the supervisor and the pipes of the child are one input and one output    *)
(*   queue; `work' holds the messages the child is working on.  `alive' is     *)
(*   false once the supervisor has ended and the loop has not noticed.         *)
(* - `transfer' is the file transfer that runs, by its control id.             *)
(*                                                                             *)
(* Left out: the contents of messages (a duplicate id ends the child, which    *)
(* is one of the reasons of ChildEnds) and the platform's process containment. *)
EXTENDS Bridge

CONSTANTS QueueDepth    \* QUEUE_DEPTH of the child's queues

ASSUME GuestAssumption == QueueDepth \in Nat \ {0}

VARIABLES
    helloed,        \* `ready' of run
    active,         \* `active' of run
    lastId,         \* last_attachment_id
    runGen,         \* runtime_generation
    transfer        \* [ctl, done] of the running transfer

guestVars == <<helloed, active, lastId, runGen, transfer>>

NoActive == [id |-> 0, run |-> 0, input |-> <<>>, work |-> {}, output |-> <<>>, alive |-> FALSE]
NoTransfer == [ctl |-> 0, done |-> FALSE]

GuestInit ==
    /\ helloed = FALSE
    /\ active = NoActive
    /\ lastId = 0
    /\ runGen = 0
    /\ transfer = NoTransfer

\* A fresh bridge process opens the channel.
GuestStart ==
    /\ ~up
    /\ up' = TRUE
    /\ helloed' = FALSE /\ active' = NoActive
    /\ lastId' = 0 /\ runGen' = 0
    /\ transfer' = NoTransfer

\* run returns: a closed or congested channel, a missed heartbeat or a transfer
\* that passed its deadline.  The child dies with it.
GuestEnds ==
    /\ up
    /\ up' = FALSE
    /\ active' = NoActive
    /\ transfer' = NoTransfer
    /\ UNCHANGED <<helloed, lastId, runGen>>

-----------------------------------------------------------------------------
(* One message from the host.  It leaves the channel, and the loop may emit    *)
(* one.                                                                        *)

Emit(frames) == toHost' = toHost \o frames

GuestHello(e) ==
    /\ e.type = "Hello"
    /\ helloed' = TRUE
    /\ Emit(<<Env("Ready", e.ctl, 0, 0, NoBody)>>)
    /\ UNCHANGED <<active, lastId, runGen, transfer>>

Refuse(e) == <<Env("Error", e.ctl, 0, 0, NoBody)>>

GuestOpen(e) ==
    /\ e.type = "Open" /\ helloed
    /\ \/ /\ active.id # 0 \/ e.id <= lastId
          /\ Emit(Refuse(e))
          /\ UNCHANGED <<active, lastId, runGen>>
       \/ /\ active.id = 0 /\ e.id > lastId
          /\ lastId' = e.id
          /\ runGen' = runGen + 1
          /\ \/ /\ active' = [NoActive EXCEPT !.id = e.id, !.run = runGen', !.alive = TRUE]
                /\ Emit(<<Env("Opened", e.ctl, e.id, runGen', NoBody)>>)
             \/ /\ Emit(Refuse(e))             \* the child did not start
                /\ UNCHANGED active
    /\ UNCHANGED <<helloed, transfer>>

ToChild(e) == e.id = active.id /\ e.run = active.run

GuestMcp(e) ==
    /\ e.type = "Mcp" /\ helloed
    /\ \/ /\ active.id # 0 /\ ToChild(e) /\ active.alive
          /\ Len(active.input) < QueueDepth
          /\ active' = [active EXCEPT !.input = Append(@, e.body)]
          /\ Emit(<<>>)
       \/ /\ active.id # 0 /\ ToChild(e)
          /\ ~active.alive \/ Len(active.input) >= QueueDepth
          /\ active' = NoActive
          /\ Emit(<<Env("Closed", 0, e.id, 0, NoBody)>>)
       \/ /\ active.id = 0 \/ ~ToChild(e)
          /\ Emit(<<>>)
          /\ UNCHANGED active
    /\ UNCHANGED <<helloed, lastId, runGen, transfer>>

\* Mutant: a Close ends the active attachment whatever id it names.
GuestCloseAny(e) ==
    /\ e.type = "Close" /\ helloed
    /\ active' = NoActive
    /\ Emit(IF active.id # 0 THEN <<Env("Closed", e.ctl, e.id, 0, NoBody)>> ELSE <<>>)
    /\ UNCHANGED <<helloed, lastId, runGen, transfer>>

GuestClose(e) ==
    /\ e.type = "Close" /\ helloed
    /\ active' = IF active.id = e.id THEN NoActive ELSE active
    /\ Emit(IF active.id = e.id THEN <<Env("Closed", e.ctl, e.id, 0, NoBody)>> ELSE <<>>)
    /\ UNCHANGED <<helloed, lastId, runGen, transfer>>

GuestTransfer(e) ==
    /\ e.type = "Transfer" /\ helloed
    /\ IF transfer.ctl = 0
       THEN /\ transfer' = [ctl |-> e.ctl, done |-> FALSE]
            /\ Emit(<<>>)
       ELSE /\ Emit(Refuse(e))
            /\ UNCHANGED transfer
    /\ UNCHANGED <<helloed, active, lastId, runGen>>

\* Nothing but a Hello is served before it; this host always says Hello first.
GuestUnready(e) ==
    /\ e.type # "Hello" /\ ~helloed
    /\ Emit(Refuse(e))
    /\ UNCHANGED <<helloed, active, lastId, runGen, transfer>>

GuestHandle(e) ==
    /\ up
    /\ toGuest' = Tail(toGuest)
    /\ \/ GuestHello(e)
       \/ GuestOpen(e)
       \/ GuestMcp(e)
       \/ GuestClose(e)
       \/ GuestTransfer(e)
       \/ GuestUnready(e)
    /\ UNCHANGED up

-----------------------------------------------------------------------------
(* The child, its supervisor and the transfer thread.                          *)

\* The supervisor hands the next message to the child.
ChildTakes ==
    /\ active.alive /\ active.input # <<>>
    /\ active' = [active EXCEPT !.input = Tail(@), !.work = @ \cup {Head(active.input)}]
    /\ UNCHANGED <<helloed, lastId, runGen, transfer>>

\* The child answers a message.  An output queue that is full ends the child.
ChildAnswers(m) ==
    /\ active.alive /\ m \in active.work
    /\ active' = IF Len(active.output) < QueueDepth
                 THEN [active EXCEPT !.work = @ \ {m}, !.output = Append(@, m)]
                 ELSE [active EXCEPT !.work = {}, !.input = <<>>, !.alive = FALSE]
    /\ UNCHANGED <<helloed, lastId, runGen, transfer>>

\* The child exits, a pipe fails or a request passes its deadline.
ChildEnds ==
    /\ active.alive
    /\ active' = [active EXCEPT !.work = {}, !.input = <<>>, !.alive = FALSE]
    /\ UNCHANGED <<helloed, lastId, runGen, transfer>>

\* The loop forwards an answer, or notices that the supervisor has ended.
GuestOutput ==
    /\ active.id # 0
    /\ \/ /\ active.output # <<>>
          /\ Emit(<<Env("Mcp", 0, active.id, active.run, Head(active.output))>>)
          /\ active' = [active EXCEPT !.output = Tail(@)]
       \/ /\ active.output = <<>> /\ ~active.alive
          /\ Emit(<<Env("Closed", 0, active.id, 0, NoBody)>>)
          /\ active' = NoActive
    /\ UNCHANGED <<helloed, lastId, runGen, transfer>>

\* The blocking copy of a transfer finishes.
TransferDone ==
    /\ transfer.ctl # 0 /\ ~transfer.done
    /\ transfer' = [transfer EXCEPT !.done = TRUE]
    /\ UNCHANGED <<helloed, active, lastId, runGen>>

\* The heartbeat tick collects the finished transfer.
TransferReply ==
    /\ transfer.done
    /\ Emit(<<Env("Result", transfer.ctl, 0, 0, NoBody)>>)
    /\ transfer' = NoTransfer
    /\ UNCHANGED <<helloed, active, lastId, runGen>>

=============================================================================
