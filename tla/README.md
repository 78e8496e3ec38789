# Verification of rdpilot

TLA+ modules, TLC runs and TLAPS proofs about rdpilot: a daemon that keeps RDP
sessions to Windows machines, lets an agent act on them through native input and
through Cua Driver, and lets a human watch a session and take control of it.

`PROJECT.json` lists the components, runs, mutants, findings, hazards and theorems,
and maps every definition that models code to its lines.

## 1. Inventory

### Parts and how they interact

```
 rdpilot, rdpilot-mcp --IPC--> daemon ---------------------------> session (rdpilot)
   one call, one exit code       |  dispatch, connections            |  connect future, session thread
                                 |  registry: names -> generations   |  session loop: input channel, epochs,
                                 |  record book (file, survives)     |    outputs, reactivation, frames
                                 |  control lease per session        |  bridge: requests, data, pings
 viewer page (browser) --HTTP--> |  viewer: gate, checks, frames     |  redirected drive (files, bundle)
                                 |  transfer queue per session       +==RDP, DVC, RDPDR==> guest bridge
                                 |  Cua stream per attachment                               - Cua child
                                 |  event log -> recorder -> store                          - file transfer
                                 |  bundle cache (disk)
```

| Part | State | Operations | What is hard | What makes it correct |
|---|---|---|---|---|
| Session control (`control.rs`) | lease, epoch, in-flight Cua count, undischarged transitions, remembered ends | take, grant, blur, release, expire, takeover, end, admit agent, admit Cua, viewer input | several tasks share one mutex held for moments only; awaits with deadlines in between; releases and epoch changes travel through a bounded channel | one controller at a time, as the session sees it; nobody waits for ever |
| Session loop, input side (`session_loop.rs`) | input channel, epoch, pressed keys | input, epoch change, end | late and stale commands | stale input is refused; keys of the old holder are released |
| Session life (`session.rs`, `connect.rs`, `session_loop.rs`, `lifecycle.rs`, `framebuffer.rs`) | connect future, thread, lifecycle, shared frame, close state | connect, handshake stages, outputs, reactivate, close, drop | futures dropped half way, two-step publication of frames and ends, several closers | the end is told in order; no thread stays without an owner |
| Registry (`registry.rs`, `dispatch.rs`) | name -> Connecting / Live / Orphaned, generations, connect tasks, closers | connect, cancel, promote, disconnect, replace, reclaim, expire | a Connect spans many awaits; names are reused; peers leave | no session leaks; nobody takes away another client's session |
| Record book (`reconcile.rs`) | records in memory, owners, a file | open, close, close orphan, purge, flush | failing writes, late removals, kill -9 | what was live is shown as Orphaned after a crash; no record outlives its session |
| Daemon life cycle (`server.rs`, `lifecycle.rs`) | phase of the process, reaper, watcher | start, seed, reap, watch, exit, crash | decisions on snapshots | an empty daemon exits, ended sessions leave |
| Cua carrier (`bridge.rs`, `rdpilot-bridge/runtime.rs`) | attachment, pending requests, outgoing data, retirement slot; guest: active child, ids, transfer slot | attach, send, receive, end; hello, open, mcp, close | two ends of a channel that restarts; Close, Open and data have different priorities | messages stay with their attachment, are not replayed; a retired runtime dies |
| Transfer queue (`transfer.rs`, `session.rs`) | bounded queue, worker, blocking threads | put, get, abandon, cancel | threads that cannot be interrupted; a single slot in the guest | the guest is never found busy by a job of its own queue; every caller is answered |
| Redirected drive (`rdpdr_backend.rs`, `session.rs`) | open handles, listings, staged files, share, bundle | create, read, write, close, query, rename; put, get | writes in any order, the host gives up while the guest writes, paths that leave the share | a file that has a name is whole; nothing outside the share is written |
| Bundle cache (`bundle/*`) | entries, assembled bundles, remembered answers, temporary names | resolve, look up, download, publish, assemble, sweep | connects on one directory, damage, crash between rename and data | the bundle served is the one asked for, with its checksums |
| Cua stream (`ipc/mod.rs`, `ipc/cua_gate.rs`, `events.rs`) | acting ids, list ids, tracked calls | receive, refuse, forward, answer, end | awaits between admission and send, id matching, batches, bounds | a granted human is alone; calls finished once, each request answered once |
| Event log (`events.rs`) | ring, sink, running verbs | begin, finish, offer, page | a ring that moves between two reads | a reader learns how much it missed |
| Recorder (`recording/recorder.rs`, `capture.rs`, `webm.rs`, `log.rs`, `encoder.rs`) | mailbox, event queue, segment file, figures | capture, drain, encode, close segment, finish | three threads, two bounded queues, failures in the middle, 16-bit times | the log is the offered events or says what is missing; frames add up; segments play |
| Recording service and store (`recording/mod.rs`, `store.rs`) | active, starting, closing; directories, keep marks | start, stop, close, reap, prune, startup, shutdown | futures dropped half-way, several locks, kill -9 | a recording can be stopped, its directory outlives its recorder |
| Viewer (`viewer/*`, `hold_viewer`) | gate, listeners, permits, connections | start, accept, check, route, take, stop | order of checks, asynchronous end | only its own page reaches control; leases end with the viewer |
| Viewer frames (`viewer/frames.rs`) | slot per name, lock, interval | long-poll | polls share a lock, names are reused | every poll is answered |
| Client programs and IPC (`rdpilot-cli`, `rdpilot-mcp`, `rdpilot-ipc`, `dispatch.rs`, `ipc/*`) | socket file or pipe, daemon processes, one call, its connection, the local file of a get | bind, probe, spawn, send, dispatch, answer, acknowledge, kill | daemons that come and go between the steps of a call | the exit code says what was done |

Not modelled parts (grammar, tables, pixel code, Windows calls, the page's script,
parsers) are in section 7. The hazards of `PROJECT.json` name, at their lines, the
interleavings, late answers, partial failures and bounds this code is exposed to, each
with the properties that would catch it.

## 2. Modules

| Module | Models | Extends |
|---|---|---|
| `SessionLoop` | input side of `session_loop.rs`, the bounded channel | |
| `SessionControl` | `control.rs` and all its callers | `SessionLoop` |
| `SessionLife` | connect, handshake, loop outputs, lifecycle, frame, close, drop | |
| `RecordBook` | `reconcile.rs` | |
| `Registry` | `registry.rs`, Connect of `dispatch.rs` and `ipc/mod.rs` | `RecordBook` |
| `Daemon` | `server.rs`, `lifecycle.rs`, crashes | `Registry` |
| `Bridge` | `bridge.rs`: `BridgeShared`, DVC processor | |
| `GuestRuntime` | `rdpilot-bridge/runtime.rs` | `Bridge` |
| `Carrier` | callers, the branches of the loop's biased select, the channel, faults | `GuestRuntime` |
| `Transfers` | `transfer.rs`, the request of `upload_file`, `download_file` | `Carrier` |
| `RedirectedDrive` | `rdpdr_backend.rs`, the files of `upload_file`, `download_file` and of the guest's copy | |
| `BundleCache` | `bundle/` | |
| `CuaStream` | `forward_cua`, gate, call tracker | |
| `EventLog` | `events.rs`, `recording/log.rs` | |
| `RecordPromise` | abstract: what the log of a recording promises | |
| `Recorder` | capture stage, mailbox, recorder thread, segment file | `EventLog`, instance of `RecordPromise` |
| `RecordingService` | `recording/mod.rs`, `recording/store.rs` | |
| `FrameCache` | `viewer/frames.rs` | |
| `ViewerGuard` | `viewer/` except frames, `hold_viewer` | |
| `ClientCall` | `rdpilot-cli`, `rdpilot-mcp`, `rdpilot-ipc` transport, connection loop and dispatch | |
| `SessionControlProofs`, `SessionLifeProofs`, `DaemonProofs`, `RecordingServiceProofs`, `RecorderProofs`, `ViewerGuardProofs` | theorems | the module they are named after |
| `CarrierProofs` | theorems about the carrier and the transfer worker | `Transfers` |
| `CallPathProofs` | theorems about the bundle cache, the client's daemon and exit code, and the Cua stream | `BundleCache`, `ClientCall`, `CuaStream` |
| `MC*` | instances for TLC | |

**Granularity.** One step is one critical section of a mutex, or one await that
completed; everything between two awaits that no other thread can observe is one
step. Clocks are left out: a deadline may pass whenever a task waits on one. A
request that can be dropped may be dropped at any of its awaits.

**SessionControl / SessionLoop.** `lease`, `epoch`, `inflight`, `ended` are the
fields of `State`. A `Slot` of `trans` is a `Transition` that is not discharged; the
code's pending count is the number of occupied slots. `tpc` is the program counter of
a take (`take_within`), `sweep` the sweeper between its two locks (`expire`), `inp` the
viewer input that holds `input_lock`, `acts` and `cua` the agent's calls. `queue` is the
loop's channel; `loopEpoch` and `pressed` are `LoopInput`. `pressed` records who
pressed a key, which the code does not know: that is what the properties are about.

**SessionLife.** `future` is the future of `Session::connect` and then the `Session`,
`thread` the session thread (`outs` the outputs its loop still has to handle), `life` the
lifecycle, `slot` and `signal` the two halves of the shared frame, `join` the result of
`CloseState`. `LifecycleOwner::end` and `mark_ended`, and `SharedFrame::write`, are two
steps each because another thread can look in between.

**Registry / RecordBook / Daemon.** `entries` is the map; a generation `g` numbers an
attempt and its session. `sess`, `cancel`, `result`, `hook`, `mark`, `closer` are the
session, the cancel handle, the connect task's channel, the end hook, the bootstrap
mark and `close_removed` of a generation. `conn` is the Connect request from its claim to
its acknowledgement. `disk`, `owner` and the pending removals are the book. Memory is
lost in a crash, `disk` is not. `list`, `call` and `events` change nothing of this state
and are no actions.

**Bridge / GuestRuntime / Carrier.** `attachment`, `pending`, `outgoing`, `retire`,
`ready`, `dead`, `next` are `State` and `BridgeShared`. `answers` are answers that
arrived at a request's channel and were not read yet. `toGuest` and `toHost` are the
channel, which keeps the order of each direction; "Created" stands for the channel
being opened by a new guest process. `hs` has the place of a caller between two of its
critical sections: an attach draws its number (`AttachNumber`) before it takes the lock
under which it claims (`AttachClaim`), and a handle that ends frees the attachment under
one lock (`CloseOwn`, at `End`, `DropHandle`, `AttachFails` or a refused request) and fills the
retirement slot under the next (`Retire`, at `Retired`). The loop's select is biased, and one
round of it is several steps: `poll` is the branch that is looked at next, `LoopPasses` goes on
to the following one when a branch has nothing, and a branch that completes ends the round. So a
retirement that comes behind the look at its branch waits for the next round, and an
`Open` may leave before it. The pings and what the guest sends share the place of the commands.

**Transfers.** `queue` is the watch of `TransferQueue`, `waiting` its channel, `thread`
the blocking thread of a job, `call` the caller's future. A thread looks at cancel,
worker and caller first (`biased`) and only then at its own request; its last,
synchronous part cannot be stopped.

**RedirectedDrive.** `openFiles`, `listings`, `nextFileId`, `nextStagingId` are the
fields of the back end, `disk` the share and the bundle as path -> chunks (a chunk is its
number in the right file, or a hole). Requests of the redirector arrive in any
order, from the guest's copy and from any other program of the guest. `fetch` is the host's half of
a transfer, `asked`, `result`, `copying` and `guestFile` the guest's.

**BundleCache.** `entry` and `bundle` are directories on the disk (absent, good, bad),
`resolved` the remembered answers, `litter` the temporary names, `conn` a connect between
two of its steps on the disk.

**CuaStream.** `acting` and `lists` are the gate's queues, `tracked` the tracker's,
`atCua` the requests that the external Cua has. The lease is reduced to
agent / taking / human; `SessionControl` has the rest. A stream that ends may overlap its
successor, as `serve_connection` detaches after the attachment was lost.

**EventLog / Recorder / RecordingService.** The ring, its numbers and the sink are one
lock; `reader` is a client that pages. `cap`, `box`, `rec` are the capture stage, the mailbox
and the recorder thread with the segment it writes, as clusters of blocks. In the service, `req` is a request between two of its locks, `tape` a recorder
thread with its directory, `service` the state under the service's mutex.

**FrameCache, ViewerGuard.** `slotOf` and `cached` are the map of slots and the slots,
`holder` the lock of a slot, `poll` a tab's long-poll. `gate`, `view`, `client` are the
gate, the server of one `rdpilot view` and a connection; `handle` is the chain of checks
of a request as one operator; `human` is a lease with the connection that took it.

**ClientCall.** `proc` are daemon processes, `name` whose socket file has the path,
`cl` a client between two of its steps, `link` its connection with what is on its way, `ses`
the session of its connect, `did` what the daemon has done, `dest` the local file of a
`get`. `VerbCall`, `Answer`, `WireCode` and `code_for` are the tables that lead from a verb to its
request, from there to its answer and from an error to an exit code.

## 3. Runs

Every property is broken by a mutant of the code (`PROJECT.json`, "mutants"), so none
of them holds by the shape of a model.

Some runs hold several parts that share no state. A variable `part`, chosen in the
initial state, says which of them moves; the others rest in their initial states. The state
graph is the disjoint union of the parts' graphs, so a property says of its part what it
would say alone.

| Run | Parts and instances | Checks |
|---|---|---|
| `control_handover` | tabs: 2 takes and their input. Drag: 2 takes and a native drag. Keys: 1 take, a drag, two keys, one of them a button. Channel of 1, deadlines, dropped requests, a loop end (not in keys) | `TypeOK`; `HandoverInv`, the inductive invariant of the proofs; `OneControllerPresses`; `LossIsKnown` |
| `control_progress` | control: 1 take, 1 drag, 1 Cua call, no fault. Life: two closers, 2 sizes, 1 frame. Frames: 2 tabs, 2 connections of the name. All fair | `PressedIsTracked`, `GrantedHasNoCua`, `CuaAfterReleases`, `ControlIsSettled`; `SessionEndIsTold`, `SessionThreadsEnd`; `PollsAreAnswered` |
| `daemon_records` | records: 1 name, 2 Connects, every request, failing writes, kill -9. Bootstrap: the same with a bundle, without failing writes and idle reaper. Viewer: 2 viewers in turn, 2 connections, 1 permit, 68 forms of request, 3 interface lists | `RecordsMatch`, `NoSessionLeaks`, `ConnectedStays`, `OwnedRecordStays`; `ViewerIsGuarded`, `LeasesEndWithViewer` |
| `daemon_progress` | 1 name, 2 Connects, failing reads, the idle reaper, kill -9, fair | `ConnectSettles`, `SessionsAreClosed`, `EmptyExits` |
| `cua_path` | carrier: 2 handles, 1 message (2 with one handle and one launch), 2 launches, queues of 1, five kinds of fault. Client: 3 daemon processes on one path, Unix and Windows, 8 verbs. Bundle: 2 connects, 2 versions, 6 forms of request, a crash; and 4 connects for the same bundle. Stream: 2 streams, 2 messages each way, 2 ids, queues of 1 | `NoCrossTalk`, `OpenMeansRunning`, `RuntimeDies`, `BusyIsPassing`; `DaemonsAreOne`, `ExitIsTrue`; `BundleIsAsAsked`; `GrantedIsQuiet`, `CallsAreFinished`, `AnsweredOnce` |
| `transfers` | jobs: 2 jobs, queue of 1, deadlines, end of guest and session. Drive: 2 transfers of 2 chunks, 2 handles at once, 8 paths. All fair | `NeverBusy`, `CallersAreAnswered`; `TransfersAreWhole` |
| `recording` | log: 2 verbs, ring of 1, a reader. Recorder: 3 screens of 2 sizes, 2 ticks, queues of 1, every failure. Service: 1 session log, 3 requests, a budget of 0, kill and restart | `PagesTellGaps`; `KeepsPromise`, `VideoAddsUp`; `RecordingsCanBeStopped`, `UnfinishedIsOurs`, `UnfinishedStays`, `ClosedIsFinished` |
| `daemon_boot_reuse` | violation | `BootstrapIsMarked` |
| `daemon_exit_live` | violation | `ExitLeavesNoLive` |
| `carrier_retire` | violation | `GivenUpRuntimeDies` |
| `recording_starting` | violation | `StartingIsBeingSetUp` |
| `viewer_frames` | violation | `FramesAreTheSessions` |

### An implementation of an abstract specification

`RecordPromise` says what the log of a recording is: the events that were offered, in
order and once, with a count of the ones that are missing, sealed by a last event that is
never missing, and a prefix after a failed write. `Recorder` instantiates it (`Promise`): what
was offered is the ring's number, what is kept is the file followed by what is in
the queue or held as the last event, and what is missing is what the recorder has
written down as lost and what the sink still counts. `KeepsPromise == Promise!Spec` is
checked as a property of `recording` and proved for every size of ring and queue (section 4).

### Bounds, and why they are enough

- Deadlock is not checked: requests are finite in number, and a session with nothing
  left to do rests. What has to happen is stated as liveness.
- `Slot` has two members: a take makes one transition, and one more (of a sweep, a
  blur or a takeover) can be pending beside it; a third waits for a slot, as it would
  for the mutex. The proofs hold for every number of slots.
- `QueueCap` 1 makes every sender wait for the loop at some time.
- Two keys make "keys of two controllers are down together" possible; two takes make a
  lease move from tab to tab. All at once are too many states, so each pair of human, other
  human and agent has its part of `control_handover`.
- `RecentEnds` 2 with two takes: the bound of the remembered ends is not passed, which
  `LossIsKnown` presupposes.
- Two Connects of one name are a session and whoever takes its name; `MaxGen` equals the
  number of Connects, so it never binds. More names do not interact, except in the
  record file, where a write rewrites all of them.
- Two handles are an attachment and its successor, which is what the two locks of a
  retirement and the polls of the loop need; two launches are a restart of the channel; queues of
  one place are full after one message. A second message needs no second handle
  (`FewMessages`), and with two handles the end of the session comes without a
  message or a restart, and a message and a restart without an attach that lapsed
  (`FewFailures`): all at once are too many states, and the proofs
  hold for every number and every combination.
- Two jobs: one runs while the other waits, or both wait for the one place.
- Two messages on two streams with queues of one place: reuse of an id, a push-out,
  and a call on the successor while the old stream ends.
- Three daemon processes are the least that the removal of a live socket needs: one that
  left the file, one that probes it, one that binds in between.
- Two connects race for every step of the cache; the second failure of a publication needs
  four that want the same, because each of them removes a damaged entry once.
- Three branches of the code are in the model and fire in no run: a channel
  without any release (`ResolveChannel`), an event after the sink has closed (`OnEvent`),
  and a guest message before the `Hello` (`GuestUnready`); this host sends neither of the
  last two.
- Two chunks make a hole possible; two transfers a file of another one under the name.
- `MaxRelative` 0 and `SegmentMs` 1 put every second frame at the limits of a cluster and
  of a segment; a budget of 0 makes every start prune.
- `MaxFrames`, `MaxSeq`, `MaxInc`, `MaxSlot`, `MaxNotes`, `MaxTime`, `MaxBoot`, `MaxTries`, `CrashMax`
  and `MaxLaunch` stop counters; behaviours end there.
- Symmetry is used for interchangeable model values and in no run with liveness.

### Fairness

- Weak fairness of the daemon's tasks, of the loop and of the reaper and watcher ticks:
  tokio runs every task that is ready, the loop is a thread of its own, the ticks are
  intervals.
- Control assumes that a Cua call is answered: the guest's request deadline
  (`runtime.rs`, `REQUEST_TIMEOUT`) closes the attachment otherwise, and the close
  settles the call.
- Session life: writes have a deadline of 5 seconds and reactivations one of 10, so the
  thread's own steps are weakly fair; a handshake has no deadline here and is left only
  when nobody waits for it. `InputClosed` is strongly fair: in the biased select a closed
  input channel comes after the PDUs and is seen as soon as the server pauses.
- Frames: a poll that waits for a slot's lock gets it in turn (a tokio mutex is fair to
  its waiters), hence strong fairness of `LockSlot`.
- `daemon_progress` assumes that a handshake ends (`DeadlineConnector`) and that an
  acknowledgement comes or times out (`CONNECT_ACK_TIMEOUT`).
- `transfers` assumes that the worker, its threads and the callers' futures run
  and that a request to the guest ends (its deadline of 30 seconds). It assumes nothing of
  the loop, the channel and the guest, which may stop at any time.
- The recording service assumes that a recorder whose queue has closed ends, and that a log nobody
  has is dropped.
- Nothing is assumed of clients, viewers, servers or the guest's child.

## 4. Proofs

TLAPS proves the following for every set of actors, every bound and every combination of
faults, except where a hypothesis is named. A module's theorems rest on the named
assumptions of the modules it extends, which TLC evaluates in every run; the main ones are
that bounds are positive, that kinds of names are disjoint, and that the kinds of faults are
the ones the code can meet. `BundleAssumption` says besides that there are finitely many
versions, that what is published is a version and that a request is one of the command
line's; `VerbAssumption` that a client calls the verbs of the command line, and
`CallerAssumption` that no client is called like one of the states of a destination file;
`NameAssumption` that the names of staged files and transfers, which carry counters and the
time, are new, and `ExplorerAssumption` that no other program of the guest opens them.
Each proof has the same shape: an inductive invariant, one lemma for each action (or
a contract that says field by field what the action does, and the invariant over the
contract), and PTL for the temporal step.

| Theorem | Statement |
|---|---|
| **Control** `TypeCorrect` | `[]TypeOK` |
| `CuaExclusion` | `[](InflightIsExact /\ GrantedHasNoCua)` |
| `HandoverInvariant`, `Handover` | `[]HandoverInv`, and from it the four handover properties |
| `LossIsTold` | `[](NothingForgotten => LossIsKnown)` |
| `CuaWaitsForReleases`, `KeysAreTracked` | `CuaAfterReleases` (an action property) and `[]PressedIsTracked`, where `Faults = {}` |
| **Session life** `EndIsTold` | `[]SessionEndIsTold` |
| **Daemon** `TypeCorrect` | `[]TypeOK` |
| `SessionsAreHeld`, `ConnectedIsKept`, `RecordsAreTrue` | `[]NoSessionLeaks`, `[]ConnectedStays`, `[]RecordsMatch` |
| `OwnedRecordIsKept` | `OwnedRecordStays` (an action property), where `"read" \notin DiskFaults` |
| **Recording service** `UnfinishedAreOurs`, `RecordingsAreStoppable` | `[]UnfinishedIsOurs`, where the recordings that could not be finished are excepted, and `[]RecordingsCanBeStopped` |
| `UnfinishedAreKept` | `UnfinishedStays` (an action property) |
| **Recorder** `PagesAreWhole` | `[]PagesTellGaps` |
| `FramesAddUp` | `[]FramesAccounted`, the part of `VideoAddsUp` about frames |
| `PromiseIsKept` | `KeepsPromise`: `Recorder` implements `RecordPromise` |
| **Viewer** `OnlyOwnPage`, `LeasesEnd` | `[]ViewerIsGuarded`, `[]LeasesEndWithViewer` |
| **Carrier** `CarrierTypes` | `[]TypeOK`, the bounds of the queues included |
| `NoCrossTalkEver`, `OpenMeansRunningEver` | `[]NoCrossTalk`, `[]OpenMeansRunning` |
| `RuntimeDiesEver`, `BusyIsPassingEver` | `[]RuntimeDies`, `[]BusyIsPassing`, with the hypotheses `~lapsed` and `~outranked` |
| **Transfers** `NeverBusyEver` | `TransfersSpec => []NeverBusy` |
| **Bundle cache** `BundleIsAsAskedEver` | `[]BundleIsAsAsked` |
| **Drive** `TransfersAreWholeEver` | `DriveSpec => []TransfersAreWhole` |
| **Cua stream** `GrantedIsQuietEver`, `CallsAreFinishedEver`, `AnsweredOnceEver` | `[]GrantedIsQuiet`, `[]CallsAreFinished`, `[]AnsweredOnce` |
| **Client** `DaemonsAreOneEver`, `ExitIsTrueEver` | `[]DaemonsAreOne`, `[]ExitIsTrue` |

### The inductive invariants

**Cua exclusion.** `GrantedHasNoCua` is not inductive: a take that moves from another
tab does not look at the count. `SettledHasNoCua` says why it need not: a lease that is
past its first wait exists, and no call is admitted while a lease exists, so the count
stays 0 until the lease ends.

**Handover.** The properties speak of what the loop does with commands that were sent
long before. The invariant has two layers. `SyncInv` relates the lease, the take that
made it, its transition and the command in the channel: a transition of a take carries
the take's epoch; a reply that is waited for belongs to exactly one transition; a
transition that is answered is one the loop has performed. So a grant, which needs an
answered transition, implies that the loop is at the lease's epoch
(`GrantedIsConfirmed`). `OwnerInv` says that an epoch has one controller: `Stamp(e, b)`
collects every way in which `b` has acted or may still act with epoch `e` (a command in
the channel, an admitted call, the input request, a pressed key), and two controllers
never share an `e`. The epoch of a take that is not granted yet has no stamp at all
(`EpochIsFresh`), so the grant hands a clean epoch to the new holder, and whatever an
old holder still has in the channel carries a smaller epoch and is stale.

**Loss, releases and keys.** `LossInv` follows a take from its lease to the place among the
remembered ends; `NothingForgotten` is the bound of that list, which `LossIsKnown` needs.
`Reached` says that the loop is at the current epoch or the change to it is on its way; without
faults that makes the wait of a Cua call enough. A release that is dropped when its deadline passes lets
a call through with a key down (section 5), hence the hypothesis. `LockInv` (who holds
`input_lock`) and `KeysInv` (pressed or tracked, or on its way to be) carry
`PressedIsTracked`.

**Session life.** `Parts` relates the future, the thread and the lifecycle; `Markers` and
`Frames` say what the two halves of an end, and of a published frame, may look like in
between.

**Daemon.** `RegInv`: a Connect that is not promoted holds its session alone (`EarlyOK`);
the session of a Live entry is closed by nobody, and while it runs its record is its own
(`LiveOK`); whoever owns a record will remove it (`OwnerOK`); what a Connect replaces had
ended (`ReplaceOK`); from its promotion on a session is taken away by a Disconnect or the
reaper only (`ConnectedOK`); generations are handed out once (`Numbers`). `PhaseInv`
covers the start and the exit of the process, `BookSafe` a write of the file: it never drops
an owned record, unless `load_records` could not read the file, took it for empty and the
next write replaced it; hence the hypothesis of `OwnedRecordIsKept`.

**Recording.** `Requests`, `Sinks`, `Actives` and `Hands` follow a claim on a session's log
through the two-step starts and stops; `Owned` says that who claims a log has its sink.
`Pruning` says that what is selected for deletion was finished when it was scanned.
`Leftovers` follows what a predecessor left unfinished through a start: it is still to be tried
(`todo`) or could not be finished (`missed`), so that nothing is passed over.
`RecorderProofs` uses three small invariants: of the ring and a reader's place in it
(`PageInv`), of the frames that were captured and where each of them is now (`FramesInv`),
and of the types of the queues (`TypeInv`). The refinement takes `Kept`, the file followed by
what is on its way, and `Missing`, what is written down as lost or still counted; each step
of capture, sink and recorder is a step of the promise or a stutter under that mapping.

**Viewer.** A server accepts only while it is bound, a connection belongs to a server that
was bound (`Connections`), a permit to a connection (`Permits`), a lease to a connection
(`Leases`), and the gate is set by exactly one server (`Gate`). What a request may do is one
operator, `handle`; the properties unfold it once for all requests.

**Carrier.** `HandleIds`: ids are handed out once. `Talk` looks at a message in each
of the seven places it may be in (host queue, channel each way, guest queues, work, the
attachment's output): the attachment that is named there, or that has the place, is its
owner's. `Once`: the numbers rise in each queue and from queue to queue on the way to the
child, which has begun to work only on smaller ones. `HandleCtls` and `Asking` do the same
for requests: an answer under way is the answer to the request that has this number.
`Holder` and `Running` then relate an attachment, the answered Open and the guest's active
runtime. What `retain` does to the queue (`DataWithout`, a recursive function) is proved by
least-number induction (`LeastNat`), since an induction rule cannot be applied here.

**Retirement.** `Leaves` says where the retirement of a runtime is once its attachment is free:
in the hands of the handle that has left the first of its two critical sections, in the slot, or in the channel.
It can be lost in two ways, and each is a hypothesis. An attach that is given up, or whose channel restarts (`lapsed`), may have its `Open` still before
it. The retirement of a later attachment, which the guest has refused as busy, may take the slot (`outranked`). That `Leaves` holds for the
runtime that an `Open` starts rests on the caller of a request under way: it waits for it (`Sent`), has the
attachment (`Held`), and is the only one (`Alone`). Until the request is read its caller is `Unknown`,
and there is nothing in the guest, or from the guest, that bears its number (`Fresh`). `Counted` says that every number comes from one counter;
`Labelled` that a runtime is there only behind a `Hello`, and that its end has not been reported
while it is. All of it (`Way`) holds while the bridge lives, no attach was given up and no Close gave way.

**Transfers.** `NeverBusy` is two statements. That one job has a thread follows from where the
worker is (`OneJob`): it takes a job only after the thread of the last one has left, and when it
ends it leaves that thread to itself and takes no other. That the guest's slot is free needs to know where a request
may be. `JobNumbers` says that a job's control id is nobody else's and is seen nowhere before it
is sent. `OnePlace` says that a request is in one of the loop's channel, the carrier and the slot,
and that its job still waits for it, without an answer on the way (`WaitsFor`): so while the
request of one job is under way, no job asks. A job that stops or fails breaks this and sets
`forsaken`, the hypothesis of the property. Nearly every step of the carrier is `Calm`: it moves
no request for a transfer and no answer to one.

**Drive.** `DriveInv` has one part for each thing a transfer's file depends on. `Grants`: a handle
leads into the share or the bundle, no two writers have a staged file in common, and a handle
that is not the copy's closes over no transfer's file and no staged one. `OwnHandle`: the copy's
handle leads to its transfer's file, and what is staged holds every chunk that is no longer to
be written (`Written`), so when none is left it is the whole file. `Course`: a transfer asks once
and is answered once, after its copy. `Content`: what an answer says of the file under the
transfer's name, which an upload has as long as the host waits and a download only after its
close. Whether a path leads out of the share is decided on what `Canonicalize` returns; only for a
transfer's own name is the walk itself followed (`RootIsCanonical`).

**Bundle cache.** `BundleInv` says of every connect what holds at each of its steps, whatever
the others do: which component it is at (`Place`), that the driver is the one asked for
(`Driver`), that another bridge than the daemon's own is looked for only when its own has no
release (`OwnBridge`). Only a crash makes files bad and a crash ends every connect, so a
component that was found or published is removed at most, never bad (`Whole`); the bundle that is
served is not bad either, and without a crash it is there (`Given`, `Undamaged`). `Litters`
accounts for each temporary name.

**Cua stream.** `StreamInv` counts first (`Counted`): the control's number is the sum of the
lengths of the gates' queues, for which each step must free exactly the counts of the ids that it
drops. What one message does to a queue is a loop over its calls (`OverCalls`); what it keeps,
drops and frees is proved by least-number induction over the calls done (`LeastNat`). A lease of
a human says that the number is 0 (`HumanIsQuiet`), hence all queues are empty; `ActingAreNoted`
says that the queue has every acting request of a client that keeps ids apart, also of the message
that still waits for releases, so there is none. `ListsAreNoted` does the same for lists of tools. The log
needs that a tracked call is of its stream, has an id of its own and is not the message that waits
(`TrackedAreOwn`, `FinishedOnce`); the answers that the trackers believe
(`OutcomesAreTrue`) need that a tracked call is still at Cua (`TrackedAreAsked`). `RepliesAreOne`
follows each request from the gate to Cua or to its one reply. What is assumed of a message is that it
has calls, and one if it is no batch.

**Client's daemon.** `ListenInv`: on Unix the path is the socket of a process that has bound it,
whoever listens has the path unless a file was removed under it (`raced`), and what a probe
took for a stale file stays one (`Stale`).

**Client's exit.** `CallInv` says of every client what holds between it, its connection and its
session while others come and go. It looks at what the client has told the daemon so far:
nothing but the probe, so nothing was done for it (`Unasked`); its request, which is on its way,
worked on, answered or cut, each with what was done by then (`Asked`); or the acknowledgement of
a session (`Acking`). An answer on its way says what is so (`Outcome`): success means done, a
refusal for a name in use or a bundle means not done. `Exited` is the property with what keeps it
true after the exit: while a request of the client may still be carried out (`Waits`), the client
has said no more than that its transport failed.

Every inductive invariant was checked with TLC before it was proved, on instances at least as
large as the runs'. What the proofs changed in the modules: the ghost of a seeded
record is set by `Seed`, not by the crash; `RecordingsCanBeStopped` speaks of a log that a
request holds, which differs from the earlier form with two session logs; `"none"` is no
name of a log; `ReadPage`, `Victims`,
`Reap`, `DataWithout`, `Remembered`, `NotedLists`, `Overruns`, `NewestCached`, `Canonicalize` and the names of staged files were rewritten,
with the same meaning, in forms that can be reasoned about.

### Only model-checked

- All liveness (`ControlIsSettled`, `SessionThreadsEnd`, `PollsAreAnswered`, `ConnectSettles`,
  `SessionsAreClosed`, `EmptyExits`, `CallersAreAnswered`, `ClosedIsFinished`): out of the
  prover's reach.
- `SegmentsPlay` and what `VideoAddsUp` says of the manifest's sums: folds over sequences, whose
  value for every input needs an induction over data.

## 5. Findings

- `daemon_boot_reuse`: the bootstrap of a Connect looks its session up by name. When the
  session was disconnected and the name taken by another Connect meanwhile, its launch
  keys go to a session without a bootstrap mark (`dispatch.rs:238`, against
  `dispatch.rs:227-228`).
- `daemon_exit_live`: a Connect admitted after the watcher's last look and live before
  the exit is dropped with the process; `run` closes retained entries only
  (`server.rs:296`, against `lifecycle.rs:258-259`).
- `carrier_retire`: an attach that gives up while its Open is still in the loop's channel
  sets the retirement slot, which the loop looks at first: Close overtakes Open, and the
  guest runs a Cua runtime that no handle owns (`bridge.rs:149`, against `bridge.rs:232`
  and `:266`).
- `recording_starting`: a start whose caller goes away while its blocking part runs leaves its session in
  `starting`, and every later start of it is refused (`recording/mod.rs:316`, against `:130`).
- `viewer_frames`: slots of the frame cache go by a session's name and frames by their
  number, so a name that is connected again is first shown the picture of the session
  before (`viewer/frames.rs:150`, against `:3` and `:8`). The same comparison hides new frames
  until their numbers pass the old ones.

### Divergences seen, without a run

Control and daemon:

- `expire` judges a lease under one lock and ends it under the next (`control.rs:968-970`);
  a heartbeat in between comes too late. The model has both steps.
- `ControlTaken` is recorded after the unlock, and an undone take from another tab leaves
  no event (`control.rs:886`, `806-814`; `README.md:449`).
- A release that is dropped because its wait timed out lets a Cua call pass
  (`control.rs:362`, against `24-25`); hence `CuaAfterReleases` is checked without faults.
- The reaper closes by name after its scan (`lifecycle.rs:226-231`): a session that reused
  the name, or was taken by a human since, is closed (`README.md:383`).
- A client that reuses a JSON-RPC id before its answer arrives lets the old answer settle
  the new call (`cua_gate.rs:214`); `GrantedIsQuiet` excludes such streams.

Carrier:

- `retire` frees the attachment under one lock and fills the slot under the next. An
  attach that claims in between reaches the guest first, is refused as busy and retires a higher
  number: the predecessor's Close is discarded at `bridge.rs:142`, or overwritten before the loop
  takes it, and its runtime stays (against `bridge.rs:129-130` and `:266`). The model has these
  steps, and `outranked` marks them; without that exception TLC refutes `RuntimeDies`, also
  when nothing fails.
- A successor need not open. Its Open can reach the guest before its predecessor's Close,
  which may not be in the slot yet, or which the loop, having looked at the slot already, takes
  in its next round only (`session_loop.rs:211`, `:229`). `BusyIsPassing` says what is so: but
  for `lapsed` and `outranked`, the Close of what runs is on its way when an attach is refused as
  busy, so that a later one succeeds.
- Numbers are drawn before the lock under which an attachment is claimed: a later number can
  reach the guest first, and the earlier attach is refused for its own (`bridge.rs:217`, against
  `rdpilot-bridge/README.md:11`). The model draws them in a step of its own (`AttachNumber`).

Clients and IPC:

- Unix bind: a daemon that has probed the file of one process unlinks by path, and may
  remove the socket another has bound meanwhile; both then listen (`ipc/unix.rs:45`,
  against `transport.rs:258-263`: "exactly one daemon process wins the bind"). The exit of
  a daemon unlinks by path too and can do the same. `DaemonsAreOne` admits exactly these cases (`raced`).
- A start that fails behind the bind leaves the socket file; a client that connects to the
  backlog of a daemon that is leaving is closed without an answer; on Windows one failed
  accept leaves the listener without an instance of the pipe.
- A `get` whose last look at its destination fails reports an error and leaves the whole
  file (`session.rs`, `download_file`); a daemon killed while it copies leaves a part; a
  killed `get --force` leaves its private directory.
- A screenshot above the frame limit of 16 MiB ends the connection without an answer; exit code 1
  is shared by several classes of error; a drag cut by a take exits with 10 although part of
  it was done.

Files:

- A stopped transfer leaves its file in the share (`session.rs:738`).
- The drive does not enforce "no clobber" for what it names when a download closes.
- An upload that the guest opens after the host gave up is read as it is then.
- Two connects that found the same damaged bundle: one may remove the good one the other
  has just published; the other serves a name that is gone (`bundle/cache.rs:115`).
- A keep mark set between a prune's scan and its deletion is lost with its recording.

Recording, viewer, session:

- A start that cannot write the manifest of a leftover, or cannot read its settings, accepts
  requests with the recording of an earlier daemon unfinished (`store.rs:294`, `mod.rs:281-283`,
  `server.rs:231-236`, against `mod.rs:276-278`). The model has these failures, `missed` holds
  what they leave, and `UnfinishedIsOurs` says what remains of the sentence: nothing else is
  unfinished that is not this daemon's.
- Segments may overlap in time when a recorder closes one and opens the next.
- The viewer's handle is dropped, its gate freed and the leases ended in three steps: a
  take that begins in a connection that was not told yet can leave a lease without a viewer
  (`late` in `ViewerGuard`), and `end_all` of the old viewer can end a lease of the next.
- A connect that is dropped after its answer only closes the input channel, which the loop's
  biased select sees when the server pauses. A close can meet its deadline of 15 seconds when several writes stall.
- The bounds of pointer events come from the frame in `InputHandle` and from the desktop
  size in `Session`; after a reactivation they differ until the next update.

## 6. What the models leave out

Contents of messages, names, formats, logs and diagnostics; heartbeats, which only move
a clock that is nondeterministic here; the bytes of frames, packets and files (chunks and
checksums stand for them); bundle and protocol mismatches, which end the carrier before
it is ready; the links between parts that are modelled side by side: a lease in the
registry, in the viewer and in the Cua stream is a reduced copy of the one in
`SessionControl`, and a request that `ClientCall` dispatches is done or refused without
the detail of its part.

## 7. Not modelled

- **Daemon support**: a diagnostic log of stages and calls of the Windows security API;
  no state other parts read.
- **Input translation, grammar of the command line, tables, configuration files**: pure,
  sequential translation; their results and errors are inputs of the models.
- **Pixels and video encoding**: cropping, PNG, colour conversion and AV1 are arithmetic on arrays
  far beyond TLC's bounds; the encoder is a queue that may fail.
- **Guest installer and platform code, TLS, HTTP, RDP protocol**: library and Windows
  calls; each is an outcome at the place where it is used.
- **Carrier protocol and wire types**: decoders and data types without state.
- **Viewer page**: a script in the browser; its requests are the inputs of `ViewerGuard`.

## 8. Plan

What is left is outside the prover's reach or outside the models:

1. The sums of `VideoAddsUp` and `SegmentsPlay`, once an induction over sequences can be cited.
2. The two hazards without a property (`control.rs:970`, `lifecycle.rs:231`).
