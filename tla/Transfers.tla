----------------------------- MODULE Transfers ------------------------------
(* The transfer worker of one live session (rdpilot-daemon/transfer.rs) on top *)
(* of the carrier: callers enqueue Put and Get jobs, a worker task starts them *)
(* one at a time on a blocking thread, and each job asks the guest to copy a   *)
(* file (rdpilot/session.rs).                                                  *)
(*                                                                             *)
(* - A caller's future holds one end of the job: when it goes away the job is  *)
(*   skipped, or stopped at its next await.                                    *)
(* - `queue' is cancelled by the close of the session and dropped at the exit  *)
(*   of the daemon.                                                            *)
(*                                                                             *)
(* Left out: the Connect bootstrap, which the worker runs on its own task, the *)
(* staged files and their checksums.                                           *)
EXTENDS Carrier

CONSTANTS
    Job,            \* Put and Get requests
    QueueBound      \* TRANSFER_QUEUE_BOUND

ASSUME TransfersAssumption == QueueBound \in Nat \ {0}

VARIABLES
    queue,          \* the watch of TransferQueue: "live", "cancelled", "dropped"
    waiting,        \* the jobs in the channel
    worker,         \* "idle", "running" or "ended"
    running,        \* the job the worker waits for
    thread,         \* per job: [pc, ctl] of its blocking thread
    call,           \* per job: where its caller is
    reply,          \* per job: the result it sent to its caller
    forsaken        \* a job has stopped or failed while the guest had its request

jobVars == <<queue, waiting, worker, running, thread, call, reply, forsaken>>
transferVars == <<carrierVars, jobVars>>

NoJob == "no job"
NoThread == [pc |-> "none", ctl |-> 0]

TransfersInit ==
    /\ Init
    /\ queue = "live"
    /\ waiting = <<>>
    /\ worker = "idle"
    /\ running = NoJob
    /\ thread = [j \in Job |-> NoThread]
    /\ call = [j \in Job |-> "idle"]
    /\ reply = [j \in Job |-> "none"]
    /\ forsaken = FALSE

-----------------------------------------------------------------------------
(* Callers: TransferHandle::run *)

CallerGoes(j, to) == call' = [call EXCEPT ![j] = to]

\* The caller has cloned the handle of the queue.
Call(j) ==
    /\ call[j] = "idle"
    /\ CallerGoes(j, "sending")
    /\ UNCHANGED <<carrierVars, queue, waiting, worker, running, thread, reply, forsaken>>

Enqueue(j) ==
    /\ call[j] = "sending"
    /\ queue # "cancelled" /\ worker # "ended"
    /\ Len(waiting) < QueueBound
    /\ waiting' = Append(waiting, j)
    /\ CallerGoes(j, "waiting")
    /\ UNCHANGED <<carrierVars, queue, worker, running, thread, reply, forsaken>>

\* The job can send no reply any more: it was dropped.
Lost(j) ==
    /\ reply[j] = "none"
    /\ thread[j] = NoThread
    /\ \A i \in DOMAIN waiting : waiting[i] # j
    /\ running # j

\* The caller is answered: the cancel comes first.
Answer(j) ==
    /\ \/ call[j] \in {"sending", "waiting"} /\ queue = "cancelled"
       \/ call[j] = "sending" /\ worker = "ended"
       \/ call[j] = "waiting" /\ (reply[j] # "none" \/ Lost(j))
    /\ CallerGoes(j, "answered")
    /\ UNCHANGED <<carrierVars, queue, waiting, worker, running, thread, reply, forsaken>>

\* The client has gone.
Abandon(j) ==
    /\ call[j] \in {"sending", "waiting"}
    /\ CallerGoes(j, "gone")
    /\ UNCHANGED <<carrierVars, queue, waiting, worker, running, thread, reply, forsaken>>

-----------------------------------------------------------------------------
(* The worker *)

\* The next job is started, or skipped when its caller has gone.
WorkerTakes ==
    /\ worker = "idle" /\ queue = "live"
    /\ waiting # <<>>
    /\ waiting' = Tail(waiting)
    /\ LET j == Head(waiting) IN
          IF call[j] = "gone"
          THEN UNCHANGED <<worker, running, thread>>
          ELSE /\ worker' = "running"
               /\ running' = j
               /\ thread' = [thread EXCEPT ![j].pc = "begin"]
    /\ UNCHANGED <<carrierVars, queue, call, reply, forsaken>>

\* Mutant: the worker does not wait for the thread of an abandoned job.
WorkerNextEarly ==
    /\ worker = "running"
    /\ thread[running] = NoThread \/ call[running] = "gone"
    /\ worker' = "idle"
    /\ running' = NoJob
    /\ UNCHANGED <<carrierVars, queue, waiting, thread, call, reply, forsaken>>

\* Mutant: the worker waits for a reply, which an abandoned job never sends.
WorkerNextReplied ==
    /\ worker = "running"
    /\ thread[running] = NoThread /\ reply[running] # "none"
    /\ worker' = "idle"
    /\ running' = NoJob
    /\ UNCHANGED <<carrierVars, queue, waiting, thread, call, reply, forsaken>>

\* The thread has left the job.
WorkerNext ==
    /\ worker = "running"
    /\ thread[running] = NoThread
    /\ worker' = "idle"
    /\ running' = NoJob
    /\ UNCHANGED <<carrierVars, queue, waiting, thread, call, reply, forsaken>>

\* The queue is cancelled or dropped: the worker ends at once and drops the
\* queued jobs; the thread of the running job is on its own.
WorkerEnds ==
    /\ worker # "ended" /\ queue # "live"
    /\ worker' = "ended"
    /\ running' = NoJob
    /\ waiting' = <<>>
    /\ UNCHANGED <<carrierVars, queue, thread, call, reply, forsaken>>

-----------------------------------------------------------------------------
(* The blocking thread of a job *)

Stopped(j) == queue # "live" \/ worker = "ended" \/ call[j] = "gone"

ThreadGoes(j, pc) == thread' = [thread EXCEPT ![j].pc = pc]
ThreadLeaves(j) == thread' = [thread EXCEPT ![j] = NoThread]

keptByThread == <<guestVars, wireVars, handleVars, queue, waiting, worker, running, call>>

\* The job begins: its local part, which may fail, then the registration of the
\* request, which may be refused.
ThreadBegins(j) ==
    /\ thread[j].pc = "begin" /\ ~Stopped(j)
    /\ \/ /\ MayRequest
          /\ next' = next + 1
          /\ pending' = pending \cup {next}
          /\ thread' = [thread EXCEPT ![j] = [pc |-> "sending", ctl |-> next]]
          /\ UNCHANGED reply
       \/ /\ ThreadLeaves(j)
          /\ reply' = [reply EXCEPT ![j] = "error"]
          /\ UNCHANGED <<next, pending>>
    /\ UNCHANGED <<ready, dead, answers, attachment, outgoing, retire, inputQ, forsaken, keptByThread>>

ThreadSends(j) ==
    /\ thread[j].pc = "sending" /\ loopUp /\ ~Stopped(j)
    /\ inputQ' = Append(inputQ, Env("Transfer", thread[j].ctl, 0, 0, NoBody))
    /\ ThreadGoes(j, "waiting")
    /\ UNCHANGED <<stateVars, retire, next, reply, forsaken, keptByThread>>

\* The answer of the guest: the job goes on locally or fails.
ThreadAnswered(j) ==
    /\ thread[j].pc = "waiting" /\ ~Stopped(j)
    /\ \E a \in Answered(thread[j].ctl) :
          IF a[2] = "Result"
          THEN ThreadGoes(j, "tail") /\ UNCHANGED reply
          ELSE ThreadLeaves(j) /\ reply' = [reply EXCEPT ![j] = "error"]
    /\ Forget(thread[j].ctl)
    /\ UNCHANGED <<ready, dead, attachment, outgoing, retire, next, inputQ, forsaken, keptByThread>>

\* The request fails: its deadline passes, the bridge or the loop is gone.
ThreadFails(j) ==
    /\ thread[j].pc \in {"sending", "waiting"} /\ ~Stopped(j)
    /\ \/ Unanswerable(thread[j].ctl)
       \/ thread[j].pc = "sending" /\ ~loopUp
       \/ "deadline" \in Faults
    /\ Forget(thread[j].ctl)
    /\ ThreadLeaves(j)
    /\ reply' = [reply EXCEPT ![j] = "error"]
    /\ forsaken' = TRUE
    /\ UNCHANGED <<ready, dead, attachment, outgoing, retire, next, inputQ, keptByThread>>

\* The job is dropped at an await, or at its begin because the thread has no
\* runtime.
ThreadStops(j) ==
    /\ \/ thread[j].pc = "begin"
       \/ thread[j].pc \in {"sending", "waiting"} /\ Stopped(j)
    /\ IF thread[j].pc = "begin"
       THEN UNCHANGED <<pending, answers, forsaken>>
       ELSE Forget(thread[j].ctl) /\ forsaken' = TRUE
    /\ ThreadLeaves(j)
    /\ UNCHANGED <<ready, dead, attachment, outgoing, retire, next, inputQ, reply, keptByThread>>

\* The synchronous local part after the answer cannot be stopped; a checksum may
\* differ.
ThreadFinishes(j) ==
    /\ thread[j].pc = "tail"
    /\ ThreadLeaves(j)
    /\ \E r \in {"ok", "error"} : reply' = [reply EXCEPT ![j] = r]
    /\ UNCHANGED <<bridgeVars, forsaken, keptByThread>>

-----------------------------------------------------------------------------
(* The ends of the session and of the daemon, and the guest's copy             *)

\* The registry closes the session.
Cancel ==
    /\ queue = "live"
    /\ queue' = "cancelled"
    /\ UNCHANGED <<carrierVars, waiting, worker, running, thread, call, reply, forsaken>>

\* The entry is dropped without a close.
DropQueue ==
    /\ queue = "live"
    /\ queue' = "dropped"
    /\ UNCHANGED <<carrierVars, waiting, worker, running, thread, call, reply, forsaken>>

GuestCopies ==
    /\ TransferDone
    /\ UNCHANGED <<bridgeVars, wireVars, handleVars, jobVars>>

GuestAnswers ==
    /\ TransferReply
    /\ UNCHANGED <<bridgeVars, up, toGuest, loopUp, poll, launches, handleVars, jobVars>>

-----------------------------------------------------------------------------
JobStep(j) ==
    \/ Call(j) \/ Enqueue(j) \/ Answer(j) \/ Abandon(j)
    \/ ThreadBegins(j) \/ ThreadSends(j) \/ ThreadAnswered(j) \/ ThreadFails(j)
    \/ ThreadStops(j) \/ ThreadFinishes(j)

TransfersNext ==
    \/ Next /\ UNCHANGED jobVars
    \/ \E j \in Job : JobStep(j)
    \/ WorkerTakes \/ WorkerNext \/ WorkerEnds
    \/ Cancel \/ DropQueue
    \/ GuestCopies \/ GuestAnswers

TransfersSpec == TransfersInit /\ [][TransfersNext]_transferVars

\* The daemon's tasks and threads run, and requests have deadlines.  Nothing is
\* assumed of the loop, the channel and the guest, of callers or of the closers.
TransfersJustice ==
    /\ WF_transferVars(WorkerTakes) /\ WF_transferVars(WorkerNext) /\ WF_transferVars(WorkerEnds)
    /\ \A j \in Job :
          /\ WF_transferVars(Enqueue(j)) /\ WF_transferVars(Answer(j))
          /\ WF_transferVars(ThreadBegins(j) \/ ThreadStops(j) \/ ThreadFails(j)
                                \/ ThreadAnswered(j) \/ ThreadFinishes(j))

TransfersFair == TransfersSpec /\ TransfersJustice

-----------------------------------------------------------------------------
\* The worker runs one job at a time, also while it ends and when a caller goes
\* away; and the guest refuses a transfer as busy only after an earlier job was
\* stopped or failed while the guest had its request.
NeverBusy ==
    /\ \A i, j \in Job : thread[i] # NoThread /\ thread[j] # NoThread => i = j
    /\ ~forsaken /\ up /\ helloed /\ toGuest # <<>> /\ Head(toGuest).type = "Transfer"
          => transfer.ctl = 0

\* Every caller is answered: by its job, by the cancel, or because the worker is
\* gone; also when callers before it went away.
CallersAreAnswered ==
    \A j \in Job : call[j] \in {"sending", "waiting"} ~> call[j] \in {"answered", "gone"}

=============================================================================
