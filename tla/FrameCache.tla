----------------------------- MODULE FrameCache -----------------------------
(***************************************************************************)
(* The frames of the live viewer (crates/rdpilot-daemon/src/viewer/        *)
(* frames.rs): long-polls of several tabs on one session name share one    *)
(* encoded picture, kept in a slot under the name; one poll at a time      *)
(* captures and encodes, the others wait for the slot's lock.              *)
(*                                                                         *)
(* Under the name, sessions come and go (Inc is one connection of it), and *)
(* a poll keeps the source it has looked up.  The clock is two flags:      *)
(* `recent' of an encoded frame (younger than FRAME_INTERVAL) and `late'   *)
(* of a poll (its deadline has passed).                                    *)
(***************************************************************************)
EXTENDS Naturals, FiniteSets

CONSTANTS
    Tab,        \* tabs that poll for frames
    MaxInc,     \* bound on the connections of the name
    MaxSeq,     \* bound on the frames that are written
    MaxSlot     \* bound on the slots that are in use at once

ASSUME FrameCacheAssumption == MaxInc \in Nat /\ MaxSeq \in Nat /\ MaxSlot \in Nat \ {0}

Inc == 1 .. MaxInc
SlotId == 1 .. MaxSlot
NoFrame == [inc |-> 0, seq |-> 0]
NoSlot == [frame |-> NoFrame, recent |-> FALSE]

VARIABLES
    entry,      \* the registry's entry of the name: "none", "connecting", "live"
    inc,        \* the connection that has, or last had, the name
    source,     \* frame source of each connection: [seq, ended]
    slotOf,     \* the slot under the name, 0 if there is none
    cached,     \* what each slot keeps: a frame and whether it is recent
    holder,     \* the tab that holds the lock of each slot
    poll        \* the long-poll of each tab

frameCacheVars == <<entry, inc, source, slotOf, cached, holder, poll>>

\* `after' is the number of the request, `inc' the source it has looked up.
NoPoll == [pc |-> "idle", after |-> 0, inc |-> 0, slot |-> 0, late |-> FALSE]

FrameCacheInit ==
    /\ entry = "none" /\ inc = 0
    /\ source = [i \in Inc |-> [seq |-> 0, ended |-> FALSE]]
    /\ slotOf = 0
    /\ cached = [k \in SlotId |-> NoSlot]
    /\ holder = [k \in SlotId |-> "free"]
    /\ poll = [t \in Tab |-> NoPoll]

cacheUnchanged == UNCHANGED <<slotOf, cached, holder>>
nameUnchanged == UNCHANGED <<entry, inc, source>>

-----------------------------------------------------------------------------
(* The session of the name: external to the cache (Registry, SessionLife).  *)

NameConnects ==
    /\ entry = "none" /\ inc < MaxInc
    /\ entry' = "connecting" /\ inc' = inc + 1
    /\ cacheUnchanged /\ UNCHANGED <<source, poll>>

NameIsLive ==
    /\ entry = "connecting"
    /\ entry' = "live"
    /\ cacheUnchanged /\ UNCHANGED <<inc, source, poll>>

NameCloses ==
    /\ entry # "none"
    /\ entry' = "none"
    /\ source' = [source EXCEPT ![inc].ended = TRUE]
    /\ cacheUnchanged /\ UNCHANGED <<inc, poll>>

FrameIsWritten ==
    /\ entry = "live" /\ \A i \in Inc : i < inc => source[inc].seq + source[i].seq < MaxSeq
    /\ source[inc].seq < MaxSeq
    /\ source' = [source EXCEPT ![inc].seq = @ + 1]
    /\ cacheUnchanged /\ UNCHANGED <<entry, inc, poll>>

ServerEndsIt ==
    /\ entry = "live" /\ ~source[inc].ended
    /\ source' = [source EXCEPT ![inc].ended = TRUE]
    /\ cacheUnchanged /\ UNCHANGED <<entry, inc, poll>>

IntervalPasses(k) ==
    /\ cached[k].recent
    /\ cached' = [cached EXCEPT ![k].recent = FALSE]
    /\ nameUnchanged /\ UNCHANGED <<slotOf, holder, poll>>

-----------------------------------------------------------------------------
(* FrameCache::next.                                                        *)

\* With a frame, or without one: no change, ended, closed, failed.
Answered(t) == poll' = [poll EXCEPT ![t] = NoPoll]

\* A tab asks for what is newer than what it shows, a new one for anything.
Asks(t) ==
    /\ poll[t].pc = "idle"
    /\ \E after \in 0 .. MaxSeq :
          poll' = [poll EXCEPT ![t] = [NoPoll EXCEPT !.pc = "look", !.after = after]]
    /\ cacheUnchanged /\ nameUnchanged

\* registry.frame_source and what its status says.
LookUp(t) ==
    /\ poll[t].pc = "look" /\ entry = "live"
    /\ LET s == source[inc] IN
       IF s.seq > poll[t].after
         THEN poll' = [poll EXCEPT ![t].pc = "slot", ![t].inc = inc, ![t].late = FALSE]
         ELSE IF s.ended \/ poll[t].late THEN Answered(t)
         ELSE poll' = [poll EXCEPT ![t].pc = "wait"]
    /\ cacheUnchanged /\ nameUnchanged

LookUpClosed(t) ==
    /\ poll[t].pc = "look" /\ entry = "none"
    /\ poll' = [poll EXCEPT ![t] = [NoPoll EXCEPT !.pc = "remove"]]
    /\ cacheUnchanged /\ nameUnchanged

\* The slot is removed after the lookup, by name.
RemoveSlot(t) ==
    /\ poll[t].pc = "remove"
    /\ slotOf' = 0
    /\ Answered(t)
    /\ nameUnchanged /\ UNCHANGED <<cached, holder>>

LookUpUnavailable(t) ==
    /\ poll[t].pc = "look" /\ entry = "connecting"
    /\ IF poll[t].late THEN Answered(t) ELSE poll' = [poll EXCEPT ![t].pc = "wait"]
    /\ cacheUnchanged /\ nameUnchanged

\* changed, or RECHECK or the rest of the deadline passed.
LooksAgain(t) ==
    /\ poll[t].pc = "wait"
    /\ poll' = [poll EXCEPT ![t].pc = "look"]
    /\ cacheUnchanged /\ nameUnchanged

DeadlinePasses(t) ==
    /\ poll[t].pc \in {"look", "wait"} /\ ~poll[t].late
    /\ poll' = [poll EXCEPT ![t].late = TRUE]
    /\ cacheUnchanged /\ nameUnchanged

-----------------------------------------------------------------------------
(* FrameCache::encoded_after.                                               *)

\* entry(id).or_default(): the slot under the name, or a new one; a slot that was
\* removed lives on as long as a poll has it.
TakeSlot(t) ==
    /\ poll[t].pc = "slot"
    /\ \/ slotOf # 0 /\ UNCHANGED <<slotOf, cached>>
       \/ /\ slotOf = 0
          /\ \E k \in SlotId :
                /\ \A u \in Tab : poll[u].slot # k
                /\ \A j \in SlotId : j < k => \E u \in Tab : poll[u].slot = j
                /\ slotOf' = k
                /\ cached' = [cached EXCEPT ![k] = NoSlot]
    /\ poll' = [poll EXCEPT ![t].pc = "lock", ![t].slot = slotOf']
    /\ nameUnchanged /\ UNCHANGED <<holder>>

\* A cached frame newer than the tab's is served while it is the newest or the
\* interval has not passed.
Fresh(t, k) ==
    /\ cached[k].frame.seq > poll[t].after
    /\ cached[k].frame.seq >= source[poll[t].inc].seq \/ cached[k].recent

LockSlot(t) ==
    LET k == poll[t].slot IN
    /\ poll[t].pc = "lock" /\ holder[k] = "free"
    /\ IF Fresh(t, k)
         THEN Answered(t) /\ UNCHANGED holder
         ELSE /\ holder' = [holder EXCEPT ![k] = t]
              /\ poll' = [poll EXCEPT ![t].pc = "sleep"]
    /\ nameUnchanged /\ UNCHANGED <<slotOf, cached>>

\* The rest of the interval is slept with the lock held, then the capture runs on
\* a blocking thread.
Capture(t) ==
    LET k == poll[t].slot
        f == [inc |-> poll[t].inc, seq |-> source[poll[t].inc].seq] IN
    /\ poll[t].pc = "sleep" /\ ~cached[k].recent
    /\ cached' = [cached EXCEPT ![k] = [frame |-> f, recent |-> TRUE]]
    /\ holder' = [holder EXCEPT ![k] = "free"]
    /\ Answered(t)
    /\ nameUnchanged /\ UNCHANGED <<slotOf>>

\* Mutant: the lock is given back by hand, and the failure path forgets it.
CaptureFailsLocked(t) ==
    /\ poll[t].pc = "sleep" /\ ~cached[poll[t].slot].recent
    /\ Answered(t)
    /\ nameUnchanged /\ UNCHANGED <<slotOf, cached, holder>>

CaptureFails(t) ==
    /\ poll[t].pc = "sleep" /\ ~cached[poll[t].slot].recent
    /\ holder' = [holder EXCEPT ![poll[t].slot] = "free"]
    /\ Answered(t)
    /\ nameUnchanged /\ UNCHANGED <<slotOf, cached>>

\* The connection of the tab is closed: its future is dropped, the lock freed.
TabGone(t) ==
    /\ poll[t].pc # "idle"
    /\ holder' = [k \in SlotId |-> IF holder[k] = t THEN "free" ELSE holder[k]]
    /\ Answered(t)
    /\ nameUnchanged /\ UNCHANGED <<slotOf, cached>>

-----------------------------------------------------------------------------
(* sessions: the cache is cut down to the names that are listed.  The list   *)
(* is read a moment before; a cut by an old list is what RemoveSlot does too. *)

Retain ==
    /\ entry = "none" /\ slotOf # 0
    /\ slotOf' = 0
    /\ nameUnchanged /\ UNCHANGED <<cached, holder, poll>>

-----------------------------------------------------------------------------
PollSteps(t) ==
    \/ LookUp(t) \/ LookUpClosed(t) \/ RemoveSlot(t) \/ LookUpUnavailable(t)
    \/ TakeSlot(t) \/ LockSlot(t) \/ Capture(t) \/ CaptureFails(t) \/ LooksAgain(t)

FrameCacheNext ==
    \/ NameConnects \/ NameIsLive \/ NameCloses \/ FrameIsWritten \/ ServerEndsIt
    \/ Retain \/ \E k \in SlotId : IntervalPasses(k)
    \/ \E t \in Tab : Asks(t) \/ PollSteps(t) \/ DeadlinePasses(t) \/ TabGone(t)

\* The clock, the polls' tasks, and tokio's mutex, which is first come, first served.
FrameCacheFairness ==
    /\ \A k \in SlotId : WF_frameCacheVars(IntervalPasses(k))
    /\ \A t \in Tab : /\ WF_frameCacheVars(PollSteps(t)) /\ SF_frameCacheVars(LockSlot(t))
                      /\ WF_frameCacheVars(DeadlinePasses(t))

FrameCacheSpec == FrameCacheInit /\ [][FrameCacheNext]_frameCacheVars

-----------------------------------------------------------------------------
(* Properties.                                                              *)

\* What frames.rs says of the cache ("At most one encoded PNG per session is
\* kept, and all clients of that session share it", "Stale frames are dropped"):
\* a cached frame a poll is answered with is not of a session before the one the poll has
\* looked up.
\* Violated: slots go by the session's name and frames by their number, so a
\* poll on a name that was connected again is answered with a picture of the
\* session before (FrameCache::encoded_after).
FramesAreTheSessions ==
    [][\A t \in Tab : (LockSlot(t) /\ Fresh(t, poll[t].slot)) =>
                         cached[poll[t].slot].frame.inc >= poll[t].inc]_frameCacheVars

\* Every long-poll is answered: at its deadline when nothing is new, and because
\* a poll that holds the slot's lock gives it back, also when its capture fails
\* or its client goes away (FrameCache::next, encoded_after).
PollsAreAnswered == \A t \in Tab : (poll[t].pc # "idle") ~> (poll[t].pc = "idle")
=============================================================================
