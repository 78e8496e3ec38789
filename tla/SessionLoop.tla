----------------------------- MODULE SessionLoop -----------------------------
(***************************************************************************)
(* The input side of a session's loop thread (crates/rdpilot/src/          *)
(* session_loop.rs) and the bounded channel that feeds it (session.rs).    *)
(*                                                                         *)
(* The loop owns the pressed keys and buttons of the session and the input *)
(* epoch it has reached.  A batch of an older epoch is refused; the first  *)
(* batch or SetEpoch of a newer epoch releases everything still pressed    *)
(* before it takes effect.  A command carries the task that waits for its  *)
(* answer; `reply' is FALSE once that task stopped waiting (its oneshot    *)
(* receiver was dropped), and the command itself stays queued.             *)
(*                                                                         *)
(* One module of the composition in SessionControl: the callers' half of   *)
(* every command is there.                                                 *)
(***************************************************************************)
EXTENDS Naturals, Sequences

CONSTANTS
    Take,       \* control leases: one id per take request of a viewer tab
    Call,       \* native input calls of the agent
    Slot,       \* places for transitions that are not discharged yet
    Key,        \* keys and mouse buttons
    QueueCap,   \* INPUT_CHANNEL_CAPACITY
    Agent,      \* the agent as a controller
    None        \* no lease, nobody

ASSUME LoopAssumption ==
    /\ QueueCap \in Nat \ {0}
    /\ Agent \notin Take
    /\ None \notin Take \cup {Agent}

VARIABLES
    queue,      \* commands in the input channel, oldest first
    loopUp,     \* the loop still takes commands
    loopEpoch,  \* LoopInput.epoch
    pressed     \* LoopInput.database: who pressed each key, None if it is up

loopVars == <<queue, loopUp, loopEpoch, pressed>>

Controller == Take \cup {Agent}

AllUp == [k \in Key |-> None]

\* LoopCommand: a batch of the agent or of a viewer tab, the releases of a
\* transition, and an epoch change.
Batch(kind, senders) ==
    [kind : {kind}, epoch : Nat, down : SUBSET Key, up : SUBSET Key,
     from : senders, reply : BOOLEAN]
Command ==
    Batch("agent", Call) \cup Batch("tab", Take) \cup
    [kind : {"release", "epoch"}, epoch : Nat, down : {{}}, up : SUBSET Key,
     from : Slot, reply : BOOLEAN]

LoopTypeOK ==
    /\ queue \in Seq(Command)
    /\ loopUp \in BOOLEAN
    /\ loopEpoch \in Nat
    /\ pressed \in [Key -> Controller \cup {None}]

LoopInit ==
    /\ queue = <<>>
    /\ loopUp = TRUE
    /\ loopEpoch = 0
    /\ pressed = AllUp

-----------------------------------------------------------------------------
(* The channel: send_input and set_epoch wait for a free place, then for   *)
(* the loop's answer.  A closed channel refuses at once.                   *)

Room == loopUp /\ Len(queue) < QueueCap

Enqueue(kind, e, down, up, from) ==
    /\ Room
    /\ queue' = Append(queue, [kind |-> kind, epoch |-> e, down |-> down,
                               up |-> up, from |-> from, reply |-> TRUE])
    /\ UNCHANGED <<loopUp, loopEpoch, pressed>>

\* The waiting task of `from' is gone; what it queued stays queued.
Orphan(kinds, from) ==
    [i \in DOMAIN queue |->
        IF queue[i].kind \in kinds /\ queue[i].from = from
        THEN [queue[i] EXCEPT !.reply = FALSE] ELSE queue[i]]

-----------------------------------------------------------------------------
(* LoopInput *)

\* Whose input a batch is.
Presser(m) == IF m.kind = "agent" THEN Agent ELSE m.from

\* What is still pressed once the loop has reached epoch e.
ChangeEpoch(e) == IF e > loopEpoch THEN AllUp ELSE pressed

\* Mutant: the loop takes input of any epoch.
StaleNever(m) == FALSE

\* LoopInput::apply refuses a batch of an earlier epoch.
Stale(m) == m.epoch < loopEpoch

\* LoopInput::apply of the batch m.
Apply(m) ==
    LET base == ChangeEpoch(m.epoch)
    IN  IF Stale(m) THEN UNCHANGED <<loopEpoch, pressed>>
        ELSE /\ loopEpoch' = m.epoch
             /\ pressed' = [k \in Key |->
                              IF k \in m.up THEN None
                              ELSE IF k \in m.down /\ base[k] = None
                                   THEN Presser(m) ELSE base[k]]

\* LoopCommand::SetEpoch.
SetEpoch(m) ==
    /\ loopEpoch' = IF m.epoch > loopEpoch THEN m.epoch ELSE loopEpoch
    /\ pressed' = ChangeEpoch(m.epoch)

\* The loop takes its next command.
Dequeue ==
    /\ loopUp
    /\ queue # <<>>
    /\ queue' = Tail(queue)
    /\ IF Head(queue).kind = "epoch" THEN SetEpoch(Head(queue))
                                     ELSE Apply(Head(queue))
    /\ UNCHANGED loopUp

\* The loop ends (a server end, a write past its deadline, a close): what is
\* still queued is never applied and every waiting sender gets an error.
Stop ==
    /\ loopUp
    /\ loopUp' = FALSE
    /\ queue' = <<>>
    /\ UNCHANGED <<loopEpoch, pressed>>
=============================================================================
