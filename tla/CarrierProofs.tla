---------------------------- MODULE CarrierProofs ---------------------------
(* Theorems about Carrier, Transfers and RedirectedDrive, for every set of     *)
(* callers, jobs and transfers, every bound and every combination of faults.   *)
EXTENDS Transfers, RedirectedDrive, FiniteSetTheorems, WellFoundedInduction, TLAPS

-----------------------------------------------------------------------------
(* DataWithout: induction over a queue *)

\* The order of the numbers, as a relation.
LessNat == OpToRel(<, Nat)

\* A set of numbers has a least member: induction, where a lemma of the library
\* cannot be applied.
LEMMA LeastNat == ASSUME NEW T, T \subseteq Nat, T # {} PROVE \E x \in T : \A y \in T : x <= y
  <1>1. \A x, y \in Nat : x < y => <<x, y>> \in LessNat
    BY DEF OpToRel, LessNat
  <1>2. \E x \in T : \A y \in T : ~ (<<y, x>> \in LessNat)
    BY NatLessThanWellFounded, WFMin DEF LessNat
  <1>3. PICK x \in T : \A y \in T : ~ (<<y, x>> \in LessNat)
    BY <1>2
  <1>4. ASSUME NEW y \in T PROVE x <= y
    <2>1. x \in Nat /\ y \in Nat
      OBVIOUS
    <2>2. ~ (y < x)
      BY <1>1, <1>3, <2>1
    <2> QED BY <2>1, <2>2
  <1> QED BY <1>4

\* What the recursion of DataWithout says of its first m values.
Keeps(f, q, id, m) ==
    f = [n \in 0..m |-> IF n = 0 THEN <<>>
                        ELSE IF q[n].id = id THEN f[n - 1] ELSE Append(f[n - 1], q[n])]

\* There is such a function.
LEMMA KeepsExists ==
    ASSUME NEW q \in Seq(Envelope), NEW id, NEW m \in Nat
    PROVE  \E f : Keeps(f, q, id, m)
  <1> DEFINE Bad == {n \in Nat : ~ \E f : Keeps(f, q, id, n)}
  <1>1. SUFFICES ASSUME Bad # {} PROVE FALSE
    OBVIOUS
  <1>2. PICK n \in Bad : \A k \in Bad : n <= k
    <2> HIDE DEF Bad
    <2>1. Bad \subseteq Nat
      BY DEF Bad
    <2> QED BY <1>1, <2>1, LeastNat
  <1>3. CASE n = 0
    <2>1. Keeps([k \in 0..0 |-> <<>>], q, id, 0)
      BY DEF Keeps
    <2> QED BY <1>3, <2>1
  <1>4. CASE n # 0
    <2>1. n - 1 \in Nat /\ n - 1 \notin Bad
      BY <1>2, <1>4
    <2>2. PICK f : Keeps(f, q, id, n - 1)
      BY <2>1
    <2> DEFINE last == IF q[n].id = id THEN f[n - 1] ELSE Append(f[n - 1], q[n])
    <2> DEFINE g == [k \in 0..n |-> IF k = n THEN last ELSE f[k]]
    <2>3. DOMAIN f = 0..(n - 1) /\ DOMAIN g = 0..n
      BY <2>2 DEF Keeps
    <2>4. \A k \in 0..(n - 1) : g[k] = f[k]
      BY <2>1
    <2>5. g[n] = last
      BY <2>1
    <2> HIDE DEF g, last
    <2>6. \A k \in 0..(n - 1) : f[k] = IF k = 0 THEN <<>>
                                       ELSE IF q[k].id = id THEN f[k - 1] ELSE Append(f[k - 1], q[k])
      BY <2>2 DEF Keeps
    <2>7. \A k \in 0..n : g[k] = IF k = 0 THEN <<>>
                                       ELSE IF q[k].id = id THEN g[k - 1] ELSE Append(g[k - 1], q[k])
      <3> TAKE k \in 0..n
      <3>1. CASE k = n
        <4>1. n - 1 \in 0..(n - 1) /\ g[n - 1] = f[n - 1]
          BY <2>1, <2>4
        <4> QED BY <3>1, <4>1, <1>4, <2>5 DEF last
      <3>2. CASE k # n
        <4>1. k \in 0..(n - 1) /\ g[k] = f[k]
          BY <2>1, <2>4, <3>2
        <4>2. CASE k = 0
          BY <4>1, <4>2, <2>6
        <4>3. CASE k # 0
          <5>1. k - 1 \in 0..(n - 1) /\ g[k - 1] = f[k - 1]
            BY <2>1, <2>4, <4>1, <4>3
          <5> QED BY <5>1, <4>1, <4>3, <2>6
        <4> QED BY <4>2, <4>3
      <3> QED BY <3>1, <3>2
    <2>8. Keeps(g, q, id, n)
      <3>1. g = [k \in 0..n |-> g[k]]
        BY DEF g
      <3> QED BY <2>3, <2>7, <3>1 DEF Keeps
    <2> QED BY <2>8
  <1> QED BY <1>3, <1>4

\* s is taken from the first m places of q, in their order, without those of `id'.
Part(s, q, m, id) ==
    /\ s \in Seq(Envelope) /\ Len(s) <= m
    /\ \A i \in 1..Len(s) : \E a \in 1..m : s[i] = q[a] /\ q[a].id # id
    /\ \A i, k \in 1..Len(s) : i < k => \E a, b \in 1..m : a < b /\ s[i] = q[a] /\ s[k] = q[b]

\* A place that is left out.
LEMMA PartStays ==
    ASSUME NEW q \in Seq(Envelope), NEW id, NEW n \in 1..Len(q), NEW s, Part(s, q, n - 1, id)
    PROVE  Part(s, q, n, id)
  BY DEF Part

\* A place that is kept.
LEMMA PartGrows ==
    ASSUME NEW q \in Seq(Envelope), NEW id, NEW n \in 1..Len(q), q[n].id # id,
           NEW s, Part(s, q, n - 1, id)
    PROVE  Part(Append(s, q[n]), q, n, id)
  <1>1. PICK len \in Nat : Len(s) = len /\ DOMAIN s = 1..len /\ len <= n - 1 /\ s \in Seq(Envelope)
    BY DEF Part
  <1>2. q[n] \in Envelope /\ n \in Nat /\ n > 0 /\ n <= Len(q)
    OBVIOUS
  <1> DEFINE t == Append(s, q[n])
  <1>3. /\ t \in Seq(Envelope) /\ Len(t) = len + 1 /\ t[len + 1] = q[n]
        /\ \A i \in 1..len : t[i] = s[i]
    BY <1>1, <1>2
  <1>4. \A i \in 1..len : \E a \in 1..(n - 1) : s[i] = q[a] /\ q[a].id # id
    BY <1>1 DEF Part
  <1>5. \A i, k \in 1..len : i < k => \E a, b \in 1..(n - 1) : a < b /\ s[i] = q[a] /\ s[k] = q[b]
    BY <1>1 DEF Part
  <1> HIDE DEF t
  <1>6. \A i \in 1..(len + 1) : \E a \in 1..n : t[i] = q[a] /\ q[a].id # id
    <2> TAKE i \in 1..(len + 1)
    <2>1. CASE i = len + 1
      BY <2>1, <1>2, <1>3
    <2>2. CASE i # len + 1
      <3>1. i \in 1..len
        BY <2>2, <1>1
      <3>2. PICK a \in 1..(n - 1) : s[i] = q[a] /\ q[a].id # id
        BY <3>1, <1>4
      <3> QED BY <3>1, <3>2, <1>2, <1>3
    <2> QED BY <2>1, <2>2
  <1>7. \A i, k \in 1..(len + 1) : i < k => \E a, b \in 1..n : a < b /\ t[i] = q[a] /\ t[k] = q[b]
    <2> SUFFICES ASSUME NEW i \in 1..(len + 1), NEW k \in 1..(len + 1), i < k
                 PROVE  \E a, b \in 1..n : a < b /\ t[i] = q[a] /\ t[k] = q[b]
      OBVIOUS
    <2>1. i \in 1..len
      BY <1>1
    <2>2. CASE k = len + 1
      <3>1. PICK a \in 1..(n - 1) : s[i] = q[a]
        BY <2>1, <1>4
      <3>2. a < n /\ n \in 1..n /\ a \in 1..n /\ t[k] = q[n] /\ t[i] = q[a]
        BY <2>1, <2>2, <3>1, <1>2, <1>3
      <3> QED BY <3>2
    <2>3. CASE k # len + 1
      <3>1. k \in 1..len
        BY <2>3, <1>1
      <3>2. PICK a \in 1..(n - 1), b \in 1..(n - 1) : a < b /\ s[i] = q[a] /\ s[k] = q[b]
        BY <2>1, <3>1, <1>5
      <3>3. a \in 1..n /\ b \in 1..n /\ t[i] = q[a] /\ t[k] = q[b]
        BY <2>1, <3>1, <3>2, <1>2, <1>3
      <3> QED BY <3>2, <3>3
    <2> QED BY <2>2, <2>3
  <1>8. Part(t, q, n, id)
    <2>1. len + 1 <= n
      BY <1>1, <1>2
    <2> QED BY <1>3, <1>6, <1>7, <2>1 DEF Part
  <1> QED BY <1>8 DEF t

\* What retire leaves in the queue comes from the queue, in its order.
LEMMA WithoutIsPart ==
    ASSUME NEW q \in Seq(Envelope), NEW id
    PROVE  Part(DataWithout(q, id), q, Len(q), id)
  <1> DEFINE kept == CHOOSE f : Keeps(f, q, id, Len(q))
  <1>1. DataWithout(q, id) = kept[Len(q)]
    BY DEF DataWithout, Keeps
  <1>2. Keeps(kept, q, id, Len(q))
    BY KeepsExists
  <1> HIDE DEF kept
  <1>3. \A n \in 0..Len(q) : kept[n] = IF n = 0 THEN <<>>
                               ELSE IF q[n].id = id THEN kept[n - 1] ELSE Append(kept[n - 1], q[n])
    BY <1>2 DEF Keeps
  <1> DEFINE Bad == {n \in 0..Len(q) : ~ Part(kept[n], q, n, id)}
  <1>4. SUFFICES ASSUME Bad # {} PROVE FALSE
    BY <1>1
  <1>5. Bad \subseteq Nat
    OBVIOUS
  <1>6. PICK n \in Bad : \A k \in Bad : n <= k
    <2> HIDE DEF Bad
    <2> QED BY <1>4, <1>5, LeastNat
  <1>7. n \in 0..Len(q) /\ ~ Part(kept[n], q, n, id)
    BY <1>6
  <1>8. \A k \in 0..Len(q) : k < n => Part(kept[k], q, k, id)
    BY <1>6, <1>7
  <1> HIDE DEF Bad
  <1>9. CASE n = 0
    <2>1. kept[0] = <<>>
      BY <1>3
    <2>2. Part(<<>>, q, 0, id)
      BY DEF Part
    <2> QED BY <1>7, <1>9, <2>1, <2>2
  <1>10. CASE n # 0
    <2>1. n \in 1..Len(q) /\ n - 1 \in 0..Len(q) /\ n - 1 < n
      BY <1>7, <1>10
    <2>2. Part(kept[n - 1], q, n - 1, id)
      BY <2>1, <1>8
    <2>3. CASE q[n].id = id
      BY <2>1, <2>2, <2>3, <1>3, <1>7, PartStays
    <2>4. CASE q[n].id # id
      <3>1. kept[n] = Append(kept[n - 1], q[n])
        <4>1. n \in 0..Len(q) /\ n # 0
          BY <1>7, <1>10
        <4>2. kept[n] = IF n = 0 THEN <<>>
                        ELSE IF q[n].id = id THEN kept[n - 1] ELSE Append(kept[n - 1], q[n])
          BY <4>1, <1>3
        <4> QED BY <4>1, <4>2, <2>4
      <3> QED BY <2>1, <2>2, <2>4, <3>1, <1>7, PartGrows
    <2> QED BY <2>3, <2>4
  <1> QED BY <1>9, <1>10
-----------------------------------------------------------------------------
(* The ends of a channel *)

LEMMA EnvelopeTail ==
    ASSUME NEW s \in Seq(Envelope), s # <<>>
    PROVE  /\ Head(s) = s[1] /\ 1 \in DOMAIN s /\ Head(s) \in Envelope
           /\ Tail(s) \in Seq(Envelope)
           /\ DOMAIN Tail(s) = 1..(Len(s) - 1) /\ Len(Tail(s)) = Len(s) - 1
           /\ \A i \in DOMAIN Tail(s) : i + 1 \in DOMAIN s /\ Tail(s)[i] = s[i + 1]
           /\ \A i \in DOMAIN s : i # 1 => i - 1 \in DOMAIN Tail(s) /\ s[i] = Tail(s)[i - 1]
  OBVIOUS

LEMMA EnvelopeLast ==
    ASSUME NEW s \in Seq(Envelope), NEW e \in Envelope
    PROVE  /\ s \o <<e>> \in Seq(Envelope)
           /\ DOMAIN (s \o <<e>>) = 1..(Len(s) + 1) /\ Len(s \o <<e>>) = Len(s) + 1
           /\ \A i \in DOMAIN s : i \in DOMAIN (s \o <<e>>) /\ (s \o <<e>>)[i] = s[i]
           /\ (s \o <<e>>)[Len(s) + 1] = e
           /\ Append(s, e) = s \o <<e>>
  OBVIOUS

LEMMA EnvelopeNone ==
    ASSUME NEW s \in Seq(Envelope)
    PROVE  s \o <<>> = s
  OBVIOUS

LEMMA NumberTail ==
    ASSUME NEW s \in Seq(Nat), s # <<>>
    PROVE  /\ Head(s) = s[1] /\ 1 \in DOMAIN s /\ Head(s) \in Nat
           /\ Tail(s) \in Seq(Nat) /\ Len(Tail(s)) = Len(s) - 1
           /\ DOMAIN Tail(s) = 1..(Len(s) - 1)
           /\ \A i \in DOMAIN Tail(s) : i + 1 \in DOMAIN s /\ Tail(s)[i] = s[i + 1]
  OBVIOUS

LEMMA NumberLast ==
    ASSUME NEW s \in Seq(Nat), NEW m \in Nat
    PROVE  /\ Append(s, m) \in Seq(Nat) /\ Len(Append(s, m)) = Len(s) + 1
           /\ DOMAIN Append(s, m) = 1..(Len(s) + 1)
           /\ \A i \in DOMAIN s : i \in DOMAIN Append(s, m) /\ Append(s, m)[i] = s[i]
           /\ Append(s, m)[Len(s) + 1] = m
  OBVIOUS

LEMMA EnvelopeMade ==
    ASSUME NEW type \in MessageType, NEW ctl \in Nat, NEW id \in Nat, NEW run \in Nat, NEW body \in Nat
    PROVE  /\ Env(type, ctl, id, run, body) \in Envelope
           /\ Env(type, ctl, id, run, body).type = type /\ Env(type, ctl, id, run, body).ctl = ctl
           /\ Env(type, ctl, id, run, body).id = id /\ Env(type, ctl, id, run, body).run = run
           /\ Env(type, ctl, id, run, body).body = body
  BY DEF Env, Envelope

-----------------------------------------------------------------------------
(* The fields of a handle, and of a caller's state *)

Handles == [Handle -> [pc : HandlePc, id : Nat, ctl : Nat, run : Nat]]

\* Another step of the caller h.
LEMMA GotoAt ==
    ASSUME NEW h \in Handle, hs \in Handles, NEW pc \in HandlePc, Goto(h, pc)
    PROVE  /\ hs' \in Handles
           /\ hs'[h].pc = pc /\ hs'[h].id = hs[h].id /\ hs'[h].ctl = hs[h].ctl /\ hs'[h].run = hs[h].run
           /\ \A g \in Handle : g # h => hs'[g] = hs[g]
  BY DEF Goto, Handles, HandlePc

LEMMA NumberAt ==
    ASSUME NEW h \in Handle, hs \in Handles, NEW pc \in HandlePc, NEW n \in Nat,
           hs' = [hs EXCEPT ![h].pc = pc, ![h].id = n]
    PROVE  /\ hs' \in Handles
           /\ hs'[h].pc = pc /\ hs'[h].id = n /\ hs'[h].ctl = hs[h].ctl /\ hs'[h].run = hs[h].run
           /\ \A g \in Handle : g # h => hs'[g] = hs[g]
  BY DEF Handles, HandlePc

LEMMA RequestAt ==
    ASSUME NEW h \in Handle, hs \in Handles, NEW pc \in HandlePc, NEW n \in Nat,
           hs' = [hs EXCEPT ![h].pc = pc, ![h].ctl = n]
    PROVE  /\ hs' \in Handles
           /\ hs'[h].pc = pc /\ hs'[h].id = hs[h].id /\ hs'[h].ctl = n /\ hs'[h].run = hs[h].run
           /\ \A g \in Handle : g # h => hs'[g] = hs[g]
  BY DEF Handles, HandlePc

LEMMA OpenedAt ==
    ASSUME NEW h \in Handle, hs \in Handles, NEW pc \in HandlePc, NEW n \in Nat,
           hs' = [hs EXCEPT ![h].pc = pc, ![h].run = n]
    PROVE  /\ hs' \in Handles
           /\ hs'[h].pc = pc /\ hs'[h].id = hs[h].id /\ hs'[h].ctl = hs[h].ctl /\ hs'[h].run = n
           /\ \A g \in Handle : g # h => hs'[g] = hs[g]
  BY DEF Handles, HandlePc

-----------------------------------------------------------------------------
(* The operators the actions are built from *)

Attachments == [id : Nat, run : Nat, output : Seq(Nat)]

LEMMA NoAttachmentIs ==
    /\ NoAttachment \in Attachments /\ NoAttachment.id = 0 /\ NoAttachment.run = 0
    /\ NoAttachment.output = <<>>
  BY DEF NoAttachment, Attachments

LEMMA AttachmentRun ==
    ASSUME NEW a \in Attachments, NEW n \in Nat
    PROVE  /\ [a EXCEPT !.run = n] \in Attachments
           /\ [a EXCEPT !.run = n].id = a.id /\ [a EXCEPT !.run = n].run = n
           /\ [a EXCEPT !.run = n].output = a.output
  BY DEF Attachments

LEMMA AttachmentOutput ==
    ASSUME NEW a \in Attachments, NEW s \in Seq(Nat)
    PROVE  /\ [a EXCEPT !.output = s] \in Attachments
           /\ [a EXCEPT !.output = s].id = a.id /\ [a EXCEPT !.output = s].run = a.run
           /\ [a EXCEPT !.output = s].output = s
  BY DEF Attachments

LEMMA AttachmentClaimed ==
    ASSUME NEW n \in Nat
    PROVE  /\ [NoAttachment EXCEPT !.id = n] \in Attachments
           /\ [NoAttachment EXCEPT !.id = n].id = n
           /\ [NoAttachment EXCEPT !.id = n].output = <<>>
  <1> DEFINE a == [NoAttachment EXCEPT !.id = n]
  <1> DEFINE b == [id |-> n, run |-> 0, output |-> <<>>]
  <1>1. a = b
    BY DEF NoAttachment
  <1>2. b \in Attachments /\ b.id = n /\ b.output = <<>>
    BY DEF Attachments
  <1> HIDE DEF a, b
  <1> QED BY <1>1, <1>2 DEF a

\* The first half of retire (bridge.rs): the attachment is closed.
LEMMA DetachAt ==
    ASSUME TypeOK, NEW id \in Nat, CloseOwn(id)
    PROVE  /\ attachment' = (IF attachment.id = id THEN NoAttachment ELSE attachment)
           /\ attachment' \in Attachments /\ Len(attachment'.output) <= StreamDepth
  <1>1. /\ attachment \in Attachments /\ StreamDepth \in Nat
        /\ Len(attachment.output) <= StreamDepth
    BY BridgeAssumption DEF TypeOK, Attachments
  <1>2. attachment' = (IF attachment.id = id THEN NoAttachment ELSE attachment)
    BY DEF CloseOwn, Closing
  <1>3. Len(NoAttachment.output) <= StreamDepth
    BY <1>1, BridgeAssumption, NoAttachmentIs
  <1> QED BY <1>1, <1>2, <1>3, NoAttachmentIs

\* The second half: its data is gone, the slot is taken.
LEMMA RetireAt ==
    ASSUME TypeOK, NEW id \in Nat, Retire(id)
    PROVE  /\ retire' = (IF id >= retire THEN id ELSE retire) /\ retire' \in Nat
           /\ outgoing' \in Seq(Envelope) /\ Len(outgoing') <= Len(outgoing)
           /\ \A i \in DOMAIN outgoing' : \E a \in DOMAIN outgoing : outgoing'[i] = outgoing[a]
           /\ \A i, k \in DOMAIN outgoing' :
                 i < k => \E a, b \in DOMAIN outgoing :
                             a < b /\ outgoing'[i] = outgoing[a] /\ outgoing'[k] = outgoing[b]
  <1>1. outgoing \in Seq(Envelope) /\ retire \in Nat
    BY DEF TypeOK
  <1>2. Part(outgoing', outgoing, Len(outgoing), id)
    BY <1>1, WithoutIsPart DEF Retire, OtherData
  <1>3. retire' = (IF id >= retire THEN id ELSE retire)
    BY DEF Retire, RetireSlot
  <1>5. outgoing' \in Seq(Envelope) /\ DOMAIN outgoing' = 1..Len(outgoing') /\ DOMAIN outgoing = 1..Len(outgoing)
    BY <1>1, <1>2 DEF Part
  <1>6. \A i \in DOMAIN outgoing' : \E a \in DOMAIN outgoing : outgoing'[i] = outgoing[a]
    BY <1>2, <1>5 DEF Part
  <1>7. \A i, k \in DOMAIN outgoing' :
           i < k => \E a, b \in DOMAIN outgoing :
                       a < b /\ outgoing'[i] = outgoing[a] /\ outgoing'[k] = outgoing[b]
    <2> SUFFICES ASSUME NEW i \in DOMAIN outgoing', NEW k \in DOMAIN outgoing', i < k
                 PROVE  \E a, b \in DOMAIN outgoing :
                           a < b /\ outgoing'[i] = outgoing[a] /\ outgoing'[k] = outgoing[b]
      OBVIOUS
    <2>1. i \in 1..Len(outgoing') /\ k \in 1..Len(outgoing')
      BY <1>5
    <2>2. PICK a \in 1..Len(outgoing), b \in 1..Len(outgoing) :
             a < b /\ outgoing'[i] = outgoing[a] /\ outgoing'[k] = outgoing[b]
      BY <1>2, <2>1 DEF Part
    <2> QED BY <2>2, <1>5
  <1>8. Len(outgoing') <= Len(outgoing) /\ retire' \in Nat
    BY <1>1, <1>2, <1>3 DEF Part
  <1> QED BY <1>3, <1>5, <1>6, <1>7, <1>8

\* PendingRequest is dropped: nothing of the control id is left.
LEMMA ForgetAt ==
    ASSUME TypeOK, NEW ctl \in Nat, Forget(ctl)
    PROVE  /\ pending' \subseteq pending /\ ctl \notin pending'
           /\ \A c \in pending : c # ctl => c \in pending'
           /\ answers' \subseteq answers
           /\ \A a \in answers' : a[1] # ctl
           /\ \A a \in answers : a[1] # ctl => a \in answers'
           /\ pending' \in SUBSET Nat /\ answers' \in SUBSET (Nat \X MessageType \X Nat)
  BY DEF TypeOK, Forget, Answered

\* A frame that the processor leaves (read) and the frame it sends back.
LEMMA ReplyAt ==
    ASSUME TypeOK, toHost # <<>>, NEW frames, Reply(frames),
           \/ frames = <<>>
           \/ \E e \in Envelope : frames = <<e>>
    PROVE  toHost' \in Seq(Envelope) /\ toGuest' \in Seq(Envelope)
  BY EnvelopeTail, EnvelopeLast, EnvelopeNone DEF TypeOK, Reply

\* An answer goes to the caller who waits for it, or nowhere.
LEMMA ResolveAt ==
    ASSUME TypeOK, NEW e \in Envelope, Resolve(e)
    PROVE  /\ pending' \subseteq pending /\ pending' \in SUBSET Nat
           /\ \A c \in pending : c # e.ctl => c \in pending'
           /\ e.ctl \notin pending'
           /\ answers' \in SUBSET (Nat \X MessageType \X Nat)
           /\ \A a \in answers' : a \in answers \/ (a = <<e.ctl, e.type, e.run>> /\ e.ctl \in pending)
           /\ answers \subseteq answers'
           /\ e.ctl \in pending => <<e.ctl, e.type, e.run>> \in answers'
  <1>1. <<e.ctl, e.type, e.run>> \in Nat \X MessageType \X Nat
    BY DEF Envelope
  <1>2. pending \in SUBSET Nat /\ answers \in SUBSET (Nat \X MessageType \X Nat)
    BY DEF TypeOK
  <1>3. pending' = pending \ {e.ctl}
    BY DEF Resolve
  <1>4. \A a : a \in answers' <=> a \in answers \/ (a = <<e.ctl, e.type, e.run>> /\ e.ctl \in pending)
    BY DEF Resolve
  <1> HIDE DEF Resolve
  <1> QED BY <1>1, <1>2, <1>3, <1>4

-----------------------------------------------------------------------------
(* Types *)

LEMMA TypeCaller ==
    ASSUME TypeOK, NEW h \in Handle, CallerStep(h)
    PROVE  TypeOK'
  <1>0. hs \in Handles /\ attachment \in Attachments /\ next \in Nat
    BY DEF TypeOK, Handles, Attachments
  <1>1. CASE AttachCheck(h)
    <2>1. hs' \in Handles
      BY <1>0, <1>1, GotoAt DEF AttachCheck, HandlePc
    <2> QED BY <1>1, <2>1
            DEF TypeOK, AttachCheck, Handles, bridgeVars, stateVars, guestVars, wireVars, channelVars, ghostVars
  <1>10. CASE AttachNumber(h)
    <2>1. next' \in Nat /\ hs' = [hs EXCEPT ![h].pc = "numbered", ![h].id = next]
      <3>1. next' = next + 1
        BY <1>10 DEF AttachNumber
      <3> QED BY <1>0, <1>10, <3>1 DEF AttachNumber
    <2>2. hs' \in Handles
      BY <1>0, <2>1, NumberAt DEF HandlePc
    <2> QED BY <1>10, <2>1, <2>2
            DEF TypeOK, AttachNumber, Handles, stateVars, guestVars, wireVars, channelVars, ghostVars
  <1>2. CASE AttachClaim(h)
    <2>1. hs[h].id \in Nat
      BY <1>0 DEF Handles
    <2>2. hs' \in Handles
      BY <1>0, <1>2, GotoAt DEF AttachClaim, HandlePc
    <2>3. attachment' \in Attachments /\ Len(attachment'.output) <= StreamDepth
      <3>1. CASE attachment' = attachment
        BY <3>1 DEF TypeOK, Attachments
      <3>2. CASE attachment' = [NoAttachment EXCEPT !.id = hs[h].id]
        BY <3>2, <2>1, AttachmentClaimed, BridgeAssumption
      <3> QED BY <1>2, <3>1, <3>2 DEF AttachClaim
    <2> QED BY <1>2, <2>2, <2>3
            DEF TypeOK, AttachClaim, Handles, Attachments, guestVars, wireVars, channelVars, ghostVars
  <1>3. CASE AttachRequest(h)
    <2>1. next \in Nat /\ next' \in Nat /\ hs[h].id \in Nat
      <3>1. next' = next + 1
        BY <1>3 DEF AttachRequest
      <3> QED BY <1>0, <3>1 DEF Handles
    <2>2. CASE MayRequest
      <3>1. hs' \in Handles
        BY <1>0, <1>3, <2>1, <2>2, RequestAt DEF AttachRequest, HandlePc
      <3>2. pending' \in SUBSET Nat
        BY <1>3, <2>1, <2>2 DEF AttachRequest, TypeOK
      <3>3. UNCHANGED <<ready, dead, answers, attachment, outgoing, retire, inputQ, guestVars,
                        wireVars, owner, rcvd, runs, ghostVars>>
        BY <1>3, <2>2 DEF AttachRequest
      <3> QED BY <2>1, <3>1, <3>2, <3>3
              DEF TypeOK, Handles, guestVars, wireVars, channelVars, ghostVars
    <2>3. CASE ~MayRequest
      <3>1. hs' \in Handles
        BY <1>0, <1>3, <2>3, GotoAt DEF AttachRequest, HandlePc
      <3>2. CloseOwn(hs[h].id) /\ UNCHANGED pending
        BY <1>3, <2>3 DEF AttachRequest
      <3>3. attachment' \in Attachments /\ Len(attachment'.output) <= StreamDepth
        BY <2>1, <3>2, DetachAt
      <3> QED BY <1>3, <2>1, <3>1, <3>2, <3>3
              DEF TypeOK, AttachRequest, Handles, Attachments, guestVars, wireVars, channelVars, ghostVars
    <2> QED BY <2>2, <2>3
  <1>4. CASE AttachSend(h)
    <2>1. hs' \in Handles
      BY <1>0, <1>4, GotoAt DEF AttachSend, HandlePc
    <2>2. Env("Open", hs[h].ctl, hs[h].id, 0, NoBody) \in Envelope
      BY <1>0, EnvelopeMade DEF Handles, MessageType, NoBody
    <2>3. inputQ' \in Seq(Envelope)
      BY <1>4, <2>2 DEF TypeOK, AttachSend
    <2> QED BY <1>4, <2>1, <2>3
            DEF TypeOK, AttachSend, Handles, stateVars, guestVars, wireVars, channelVars, ghostVars
  <1>5. CASE AttachOpened(h)
    <2>1. hs[h].ctl \in Nat /\ Forget(hs[h].ctl)
      BY <1>0, <1>5 DEF AttachOpened, Handles
    <2>2. pending' \in SUBSET Nat /\ answers' \in SUBSET (Nat \X MessageType \X Nat)
      BY <2>1, ForgetAt
    <2>3. PICK a \in Answered(hs[h].ctl) :
             /\ attachment' = [attachment EXCEPT !.run = a[3]]
             /\ hs' = [hs EXCEPT ![h].pc = "open", ![h].run = a[3]]
      BY <1>5 DEF AttachOpened
    <2>4. a[3] \in Nat
      BY <2>3 DEF TypeOK, Answered
    <2>5. hs' \in Handles
      BY <1>0, <2>3, <2>4, OpenedAt DEF HandlePc
    <2>6. attachment' \in Attachments /\ attachment'.output = attachment.output
      BY <1>0, <2>3, <2>4, AttachmentRun
    <2> QED BY <1>5, <2>2, <2>5, <2>6
            DEF TypeOK, AttachOpened, Handles, Attachments, guestVars, wireVars, channelVars, ghostVars
  <1>6. CASE AttachFails(h)
    <2>1. hs[h].ctl \in Nat /\ hs[h].id \in Nat /\ Forget(hs[h].ctl) /\ CloseOwn(hs[h].id) /\ Goto(h, "dropping")
      BY <1>0, <1>6 DEF AttachFails, Handles
    <2>2. pending' \in SUBSET Nat /\ answers' \in SUBSET (Nat \X MessageType \X Nat)
      BY <2>1, ForgetAt
    <2>3. hs' \in Handles
      BY <1>0, <2>1, GotoAt DEF HandlePc
    <2>4. attachment' \in Attachments /\ Len(attachment'.output) <= StreamDepth
      BY <2>1, DetachAt
    <2>6. lapsed' \in BOOLEAN
      BY <1>6 DEF AttachFails, TypeOK
    <2> QED BY <1>6, <2>2, <2>3, <2>4, <2>6
            DEF TypeOK, AttachFails, Handles, Attachments, guestVars, wireVars, channelVars
  <1>7. CASE Send(h)
    <2>1. owner' \in Seq(Handle) /\ Len(owner') \in Nat
      BY <1>7 DEF TypeOK, Send
    <2>2. Env("Mcp", 0, hs[h].id, hs[h].run, Len(owner')) \in Envelope
      BY <1>0, <2>1, EnvelopeMade DEF Handles, MessageType
    <2>3. outgoing' \in Seq(Envelope) /\ Len(outgoing') = Len(outgoing) + 1
      BY <1>7, <2>2, EnvelopeLast DEF TypeOK, Send
    <2>4. Len(outgoing') <= StreamDepth
      BY <1>7, <2>3, BridgeAssumption DEF TypeOK, Send
    <2> QED BY <1>7, <2>1, <2>3, <2>4 DEF TypeOK, Send, guestVars, wireVars, channelVars, ghostVars
  <1>8. CASE Recv(h)
    <2>1. attachment.output \in Seq(Nat) /\ attachment.output # <<>> /\ Len(attachment.output) <= StreamDepth
      BY <1>0, <1>8 DEF Recv, Attachments, TypeOK
    <2>2. /\ Head(attachment.output) \in Nat /\ Tail(attachment.output) \in Seq(Nat)
          /\ Len(Tail(attachment.output)) = Len(attachment.output) - 1
      BY <2>1, NumberTail
    <2>3. attachment' = [attachment EXCEPT !.output = Tail(attachment.output)]
      BY <1>8 DEF Recv
    <2>4. attachment' \in Attachments /\ attachment'.output = Tail(attachment.output)
      BY <1>0, <2>2, <2>3, AttachmentOutput
    <2>5. Len(attachment'.output) <= StreamDepth
      BY <2>1, <2>2, <2>4, BridgeAssumption
    <2>6. rcvd' \in [Handle -> Seq(Nat)]
      BY <1>8, <2>2 DEF Recv, TypeOK
    <2> QED BY <1>8, <2>4, <2>5, <2>6
            DEF TypeOK, Recv, Attachments, guestVars, wireVars, channelVars, ghostVars
  <1>9. CASE End(h) \/ DropHandle(h)
    <2>1. hs[h].id \in Nat /\ CloseOwn(hs[h].id) /\ \E pc \in HandlePc : Goto(h, pc)
      BY <1>0, <1>9 DEF End, DropHandle, Handles, HandlePc
    <2>2. hs' \in Handles
      BY <1>0, <2>1, GotoAt
    <2>3. attachment' \in Attachments /\ Len(attachment'.output) <= StreamDepth
      BY <2>1, DetachAt
    <2>4. UNCHANGED <<ready, dead, pending, answers, outgoing, retire, next, inputQ,
                      guestVars, wireVars, owner, rcvd, runs, ghostVars>>
      BY <1>9 DEF End, DropHandle
    <2> QED BY <2>2, <2>3, <2>4
            DEF TypeOK, Handles, Attachments, guestVars, wireVars, channelVars, ghostVars
  <1>11. CASE Retired(h)
    <2>1. hs[h].id \in Nat /\ Retire(hs[h].id) /\ \E pc \in HandlePc : Goto(h, pc)
      BY <1>0, <1>11 DEF Retired, Handles, HandlePc
    <2>2. hs' \in Handles
      BY <1>0, <2>1, GotoAt
    <2>3. retire' \in Nat /\ outgoing' \in Seq(Envelope) /\ Len(outgoing') <= Len(outgoing)
      BY <2>1, RetireAt
    <2>4. Len(outgoing') <= StreamDepth
      BY <2>3, BridgeAssumption DEF TypeOK
    <2>5. outranked' \in BOOLEAN
      BY <1>11 DEF Retired, TypeOK
    <2> QED BY <1>11, <2>2, <2>3, <2>4, <2>5
            DEF TypeOK, Retired, Handles, Attachments, guestVars, wireVars, channelVars
  <1> QED BY <1>1, <1>2, <1>3, <1>4, <1>5, <1>6, <1>7, <1>8, <1>9, <1>10, <1>11 DEF CallerStep

Actives == [id : Nat, run : Nat, input : Seq(Nat), work : SUBSET Nat, output : Seq(Nat), alive : BOOLEAN]

LEMMA NoActiveIs ==
    /\ NoActive \in Actives /\ NoActive.id = 0 /\ NoActive.run = 0 /\ NoActive.input = <<>>
    /\ NoActive.work = {} /\ NoActive.output = <<>> /\ NoActive.alive = FALSE
  BY DEF NoActive, Actives

LEMMA ActiveBegun ==
    ASSUME NEW n \in Nat, NEW r \in Nat, active' = [NoActive EXCEPT !.id = n, !.run = r, !.alive = TRUE]
    PROVE  /\ active' \in Actives /\ active'.id = n /\ active'.run = r /\ active'.alive = TRUE
           /\ active'.input = <<>> /\ active'.work = {} /\ active'.output = <<>>
  <1> DEFINE b == [NoActive EXCEPT !.id = n]
  <1> DEFINE c == [b EXCEPT !.run = r]
  <1> DEFINE d == [c EXCEPT !.alive = TRUE]
  <1>1. NoActive \in Actives
    BY NoActiveIs
  <1>2. b \in Actives /\ b.id = n /\ b.input = <<>> /\ b.work = {} /\ b.output = <<>>
    <2> HIDE DEF NoActive
    <2> QED BY <1>1, NoActiveIs DEF Actives
  <1>0. active' = d
    OBVIOUS
  <1> HIDE DEF b
  <1>3. c \in Actives /\ c.id = n /\ c.run = r /\ c.input = <<>> /\ c.work = {} /\ c.output = <<>>
    BY <1>2 DEF Actives
  <1> HIDE DEF c
  <1>4. /\ d \in Actives /\ d.id = n /\ d.run = r /\ d.input = <<>> /\ d.work = {}
        /\ d.output = <<>> /\ d.alive = TRUE
    BY <1>3 DEF Actives
  <1> HIDE DEF d
  <1> QED BY <1>0, <1>4

LEMMA ActiveInput ==
    ASSUME NEW a \in Actives, NEW s \in Seq(Nat)
    PROVE  LET b == [a EXCEPT !.input = s]
           IN  /\ b \in Actives /\ b.id = a.id /\ b.run = a.run /\ b.input = s /\ b.work = a.work
               /\ b.output = a.output /\ b.alive = a.alive
  BY DEF Actives

LEMMA ActiveOutput ==
    ASSUME NEW a \in Actives, NEW s \in Seq(Nat)
    PROVE  LET b == [a EXCEPT !.output = s]
           IN  /\ b \in Actives /\ b.id = a.id /\ b.run = a.run /\ b.input = a.input /\ b.work = a.work
               /\ b.output = s /\ b.alive = a.alive
  BY DEF Actives

LEMMA ActiveTakes ==
    ASSUME active \in Actives, NEW s \in Seq(Nat), NEW w \in SUBSET Nat,
           active' = [active EXCEPT !.input = s, !.work = w]
    PROVE  /\ active' \in Actives /\ active'.id = active.id /\ active'.run = active.run
           /\ active'.input = s /\ active'.work = w
           /\ active'.output = active.output /\ active'.alive = active.alive
  BY DEF Actives

LEMMA ActiveAnswers ==
    ASSUME active \in Actives, NEW w \in SUBSET Nat, NEW s \in Seq(Nat),
           active' = [active EXCEPT !.work = w, !.output = s]
    PROVE  /\ active' \in Actives /\ active'.id = active.id /\ active'.run = active.run
           /\ active'.input = active.input /\ active'.work = w
           /\ active'.output = s /\ active'.alive = active.alive
  BY DEF Actives

LEMMA ActiveEnds ==
    ASSUME NEW a \in Actives
    PROVE  LET b == [a EXCEPT !.work = {}, !.input = <<>>, !.alive = FALSE]
           IN  /\ b \in Actives /\ b.id = a.id /\ b.run = a.run /\ b.input = <<>> /\ b.work = {}
               /\ b.output = a.output /\ b.alive = FALSE
  <1> DEFINE b == [a EXCEPT !.work = {}]
  <1> DEFINE c == [b EXCEPT !.input = <<>>]
  <1> DEFINE d == [c EXCEPT !.alive = FALSE]
  <1>1. /\ b \in Actives /\ b.id = a.id /\ b.run = a.run /\ b.work = {} /\ b.output = a.output
    BY DEF Actives
  <1> HIDE DEF b
  <1>2. /\ c \in Actives /\ c.id = a.id /\ c.run = a.run /\ c.input = <<>> /\ c.work = {} /\ c.output = a.output
    <2>1. <<>> \in Seq(Nat)
      OBVIOUS
    <2> QED BY <1>1, <2>1, ActiveInput
  <1> HIDE DEF c
  <1>3. /\ d \in Actives /\ d.id = a.id /\ d.run = a.run /\ d.input = <<>> /\ d.work = {}
        /\ d.output = a.output /\ d.alive = FALSE
    BY <1>2 DEF Actives
  <1> QED BY <1>3 DEF b, c

\* A frame that is sent: at the end of the channel, or nowhere.
LEMMA TransmitAt ==
    ASSUME TypeOK, NEW e \in Envelope, Transmit(<<e>>)
    PROVE  /\ toGuest' \in Seq(Envelope)
           /\ toGuest' = IF Connected THEN toGuest \o <<e>> ELSE toGuest
  BY EnvelopeLast DEF TypeOK, Transmit

\* One message that arrives at the processor.
LEMMA TypeProcess ==
    ASSUME TypeOK, toHost # <<>>, Process(Head(toHost))
    PROVE  /\ ready' \in BOOLEAN /\ dead' \in BOOLEAN
           /\ pending' \in SUBSET Nat /\ answers' \in SUBSET (Nat \X MessageType \X Nat)
           /\ outgoing' \in Seq(Envelope) /\ Len(outgoing') <= StreamDepth
           /\ attachment' \in Attachments /\ Len(attachment'.output) <= StreamDepth
           /\ toHost' \in Seq(Envelope) /\ toGuest' \in Seq(Envelope)
  <1> DEFINE e == Head(toHost)
  <1>0. e \in Envelope /\ toHost \in Seq(Envelope)
    BY EnvelopeTail DEF TypeOK
  <1>1. /\ ready \in BOOLEAN /\ dead \in BOOLEAN
        /\ pending \in SUBSET Nat /\ answers \in SUBSET (Nat \X MessageType \X Nat)
        /\ outgoing \in Seq(Envelope) /\ Len(outgoing) <= StreamDepth
        /\ attachment \in Attachments /\ Len(attachment.output) <= StreamDepth
        /\ <<>> \in Seq(Envelope) /\ StreamDepth \in Nat
    BY BridgeAssumption DEF TypeOK, Attachments
  <1>2. Process(e)
    OBVIOUS
  <1>3. NoAttachment \in Attachments /\ Len(NoAttachment.output) <= StreamDepth
    BY <1>1, NoAttachmentIs
  <1>4. \A frames : Reply(frames) /\ (frames = <<>> \/ \E x \in Envelope : frames = <<x>>)
            => toHost' \in Seq(Envelope) /\ toGuest' \in Seq(Envelope)
    BY ReplyAt
  <1>5. Resolve(e) => pending' \in SUBSET Nat /\ answers' \in SUBSET (Nat \X MessageType \X Nat)
    BY <1>0, ResolveAt
  <1>6. e.id \in Nat /\ e.run \in Nat /\ e.body \in Nat
    BY <1>0 DEF Envelope
  <1> HIDE DEF e
  <1>7. CASE Start
    <2>1. Env("Hello", 0, 0, 0, NoBody) \in Envelope
      BY EnvelopeMade DEF MessageType, NoBody
    <2>2. Reply(<<Env("Hello", 0, 0, 0, NoBody)>>)
      BY <1>7 DEF Start
    <2>3. toHost' \in Seq(Envelope) /\ toGuest' \in Seq(Envelope)
      BY <1>4, <2>1, <2>2
    <2>4. outgoing' \in Seq(Envelope) /\ Len(outgoing') <= StreamDepth
      <3>1. outgoing' = <<>>
        BY <1>7 DEF Start
      <3> QED BY <1>1, <3>1
    <2>5. attachment' \in Attachments /\ Len(attachment'.output) <= StreamDepth
      BY <1>3, <1>7 DEF Start
    <2> QED BY <1>1, <1>7, <2>3, <2>4, <2>5 DEF Start
  <1>8. CASE Reply(<<>>) /\ UNCHANGED stateVars
    BY <1>1, <1>4, <1>8 DEF stateVars
  <1>9. CASE ProcessReady(e) \/ ProcessOther(e)
    <2>1. Reply(<<>>) /\ Resolve(e) /\ UNCHANGED <<dead, attachment, outgoing>> /\ ready' \in BOOLEAN
      BY <1>1, <1>9 DEF ProcessReady, ProcessOther
    <2> QED BY <1>1, <1>4, <1>5, <2>1
  <1>10. CASE ProcessOpened(e)
    <2>1. Reply(<<>>) /\ Resolve(e) /\ UNCHANGED <<ready, dead, outgoing>>
      BY <1>10 DEF ProcessOpened
    <2>2. attachment' \in Attachments /\ attachment'.output = attachment.output
      BY <1>1, <1>6, <1>10, AttachmentRun DEF ProcessOpened
    <2> QED BY <1>1, <1>4, <1>5, <2>1, <2>2
  <1>11. CASE ProcessMcp(e)
    <2>1. UNCHANGED <<ready, dead, pending, answers, outgoing>>
      BY <1>11 DEF ProcessMcp
    <2>2. CASE /\ Len(attachment.output) < StreamDepth /\ Reply(<<>>)
               /\ attachment' = [attachment EXCEPT !.output = Append(@, e.body)]
      <3>1. attachment.output \in Seq(Nat)
        BY <1>1 DEF Attachments
      <3>2. /\ Append(attachment.output, e.body) \in Seq(Nat)
            /\ Len(Append(attachment.output, e.body)) = Len(attachment.output) + 1
        BY <1>6, <3>1, NumberLast
      <3>3. attachment' \in Attachments /\ attachment'.output = Append(attachment.output, e.body)
        BY <1>1, <2>2, <3>2, AttachmentOutput
      <3>4. Len(attachment'.output) <= StreamDepth
        BY <1>1, <2>2, <3>1, <3>2, <3>3
      <3> QED BY <1>1, <1>4, <2>1, <2>2, <3>3, <3>4
    <2>3. CASE attachment' = Closing(e.id) /\ Reply(<<Env("Close", 0, e.id, 0, NoBody)>>)
      <3>1. Env("Close", 0, e.id, 0, NoBody) \in Envelope
        BY <1>6, EnvelopeMade DEF MessageType, NoBody
      <3>2. attachment' \in Attachments /\ Len(attachment'.output) <= StreamDepth
        BY <1>1, <1>3, <2>3 DEF Closing
      <3>3. toHost' \in Seq(Envelope) /\ toGuest' \in Seq(Envelope)
        BY <1>4, <2>3, <3>1
      <3> QED BY <1>1, <2>1, <3>2, <3>3
    <2>4. CASE Reply(<<>>) /\ UNCHANGED attachment
      BY <1>1, <1>4, <2>1, <2>4
    <2> QED BY <1>11, <2>2, <2>3, <2>4 DEF ProcessMcp
  <1>12. CASE ProcessClosed(e)
    <2>1. attachment' \in Attachments /\ Len(attachment'.output) <= StreamDepth
      BY <1>1, <1>3, <1>12 DEF Closing, ProcessClosed
    <2> QED BY <1>1, <1>4, <1>12, <2>1 DEF ProcessClosed
  <1> QED BY <1>2, <1>7, <1>8, <1>9, <1>10, <1>11, <1>12 DEF Process

LEMMA TypeInvalidate ==
    ASSUME TypeOK, Invalidate
    PROVE  /\ ready' \in BOOLEAN /\ dead' \in BOOLEAN
           /\ pending' \in SUBSET Nat /\ answers' \in SUBSET (Nat \X MessageType \X Nat)
           /\ outgoing' \in Seq(Envelope) /\ Len(outgoing') <= StreamDepth
           /\ attachment' \in Attachments /\ Len(attachment'.output) <= StreamDepth
  <1>1. <<>> \in Seq(Envelope) /\ Len(<<>>) = 0 /\ StreamDepth \in Nat
    BY BridgeAssumption
  <1>2. outgoing' = <<>> /\ attachment' = NoAttachment
    BY DEF Invalidate
  <1>3. outgoing' \in Seq(Envelope) /\ Len(outgoing') <= StreamDepth
    BY <1>1, <1>2
  <1>4. attachment' \in Attachments /\ Len(attachment'.output) <= StreamDepth
    BY <1>1, <1>2, NoAttachmentIs
  <1> QED BY <1>3, <1>4 DEF TypeOK, Invalidate

LEMMA TypeLoop ==
    ASSUME TypeOK, LoopStep \/ LoopEnds
    PROVE  TypeOK'
  <1>1. CASE LoopRetire
    <2>1. retire \in Nat
      BY DEF TypeOK
    <2>2. Env("Close", 0, retire, 0, NoBody) \in Envelope
      BY <2>1, EnvelopeMade DEF MessageType, NoBody
    <2>3. toGuest' \in Seq(Envelope)
      BY <1>1, <2>2, TransmitAt DEF LoopRetire
    <2> QED BY <1>1, <2>3 DEF TypeOK, LoopRetire, Polls, stateVars, guestVars, handleVars, ghostVars
  <1>2. CASE LoopCommand
    <2>1. inputQ \in Seq(Envelope) /\ inputQ # <<>>
      BY <1>2 DEF TypeOK, LoopCommand
    <2>2. Head(inputQ) \in Envelope /\ Tail(inputQ) \in Seq(Envelope)
      BY <2>1, EnvelopeTail
    <2>3. toGuest' \in Seq(Envelope)
      BY <1>2, <2>2, TransmitAt DEF LoopCommand
    <2> QED BY <1>2, <2>2, <2>3 DEF TypeOK, LoopCommand, Polls, stateVars, guestVars, handleVars, ghostVars
  <1>3. CASE LoopData
    <2>1. outgoing \in Seq(Envelope) /\ outgoing # <<>> /\ Len(outgoing) <= StreamDepth
      BY <1>3 DEF TypeOK, LoopData
    <2>2. Head(outgoing) \in Envelope /\ Tail(outgoing) \in Seq(Envelope) /\ Len(Tail(outgoing)) = Len(outgoing) - 1
      BY <2>1, EnvelopeTail
    <2>3. toGuest' \in Seq(Envelope)
      BY <1>3, <2>2, TransmitAt DEF LoopData
    <2>4. outgoing' = Tail(outgoing)
      BY <1>3 DEF LoopData
    <2>5. outgoing' \in Seq(Envelope) /\ Len(outgoing') <= StreamDepth
      BY <2>1, <2>2, <2>4, BridgeAssumption
    <2> QED BY <1>3, <2>3, <2>5 DEF TypeOK, LoopData, Polls, guestVars, handleVars, ghostVars
  <1>4. CASE LoopRead
    <2>1. toHost # <<>> /\ Process(Head(toHost))
      BY <1>4 DEF LoopRead
    <2>2. lapsed' \in BOOLEAN
      BY <1>4 DEF LoopRead, TypeOK
    <2> QED BY <1>4, <2>1, <2>2, TypeProcess DEF TypeOK, LoopRead, Polls, guestVars, Attachments
  <1>5. CASE CheckLiveness
    <2>1. Invalidate
      BY <1>5 DEF CheckLiveness
    <2> HIDE DEF Invalidate
    <2>2. /\ ready' \in BOOLEAN /\ dead' \in BOOLEAN
          /\ pending' \in SUBSET Nat /\ answers' \in SUBSET (Nat \X MessageType \X Nat)
          /\ outgoing' \in Seq(Envelope) /\ Len(outgoing') <= StreamDepth
          /\ attachment' \in Attachments /\ Len(attachment'.output) <= StreamDepth
      BY <2>1, TypeInvalidate
    <2> QED BY <1>5, <2>2 DEF TypeOK, CheckLiveness, Polls, guestVars, channelVars, handleVars, ghostVars, Attachments
  <1>6. CASE LoopEnds
    <2>1. Invalidate /\ inputQ' = <<>>
      BY <1>6 DEF LoopEnds
    <2>2. /\ ready' \in BOOLEAN /\ dead' \in BOOLEAN
          /\ pending' \in SUBSET Nat /\ answers' \in SUBSET (Nat \X MessageType \X Nat)
          /\ outgoing' \in Seq(Envelope) /\ Len(outgoing') <= StreamDepth
          /\ attachment' \in Attachments /\ Len(attachment'.output) <= StreamDepth
      BY <2>1, TypeInvalidate
    <2>3. inputQ' \in Seq(Envelope)
      BY <2>1
    <2> QED BY <1>6, <2>2, <2>3 DEF TypeOK, LoopEnds, guestVars, channelVars, handleVars, ghostVars, Attachments
  <1>7. CASE LoopPasses
    BY <1>7 DEF TypeOK, LoopPasses, bridgeVars, stateVars, guestVars, channelVars, handleVars, ghostVars
  <1> QED BY <1>1, <1>2, <1>3, <1>4, <1>5, <1>6, <1>7 DEF LoopStep

LEMMA TypeEmit ==
    ASSUME TypeOK, NEW frames, Emit(frames),
           \/ frames = <<>>
           \/ \E e \in Envelope : frames = <<e>>
    PROVE  toHost' \in Seq(Envelope)
  BY EnvelopeLast, EnvelopeNone DEF TypeOK, Emit

\* One message that the guest reads.
LEMMA TypeGuestReads ==
    ASSUME TypeOK, GuestReads
    PROVE  TypeOK'
  <1> DEFINE e == Head(toGuest)
  <1>0. /\ e \in Envelope /\ toGuest \in Seq(Envelope) /\ Tail(toGuest) \in Seq(Envelope)
        /\ e.id \in Nat /\ e.run \in Nat /\ e.body \in Nat /\ e.ctl \in Nat
    BY EnvelopeTail DEF TypeOK, GuestReads, Envelope
  <1>1. GuestHandle(e) /\ UNCHANGED <<bridgeVars, loopUp, poll, launches, handleVars>>
    BY DEF GuestReads
  <1> HIDE DEF e
  <1>2. toGuest' \in Seq(Envelope) /\ up' = up
    <2>1. toGuest' = Tail(toGuest) /\ up' = up
      BY <1>1 DEF GuestHandle, e
    <2> QED BY <1>0, <2>1
  <1>3. \A frames : Emit(frames) /\ (frames = <<>> \/ \E x \in Envelope : frames = <<x>>)
            => toHost' \in Seq(Envelope)
    BY TypeEmit
  <1>4. /\ Env("Ready", e.ctl, 0, 0, NoBody) \in Envelope
        /\ Env("Error", e.ctl, 0, 0, NoBody) \in Envelope
        /\ Env("Closed", 0, e.id, 0, NoBody) \in Envelope
        /\ Env("Closed", e.ctl, e.id, 0, NoBody) \in Envelope
    BY <1>0, EnvelopeMade DEF MessageType, NoBody
  <1>5. active \in Actives /\ Len(active.input) <= QueueDepth /\ Len(active.output) <= QueueDepth
        /\ QueueDepth \in Nat /\ lastId \in Nat /\ runGen \in Nat /\ helloed \in BOOLEAN
        /\ transfer \in [ctl : Nat, done : BOOLEAN]
    BY GuestAssumption DEF TypeOK, Actives
  <1>6. NoActive \in Actives /\ Len(NoActive.input) <= QueueDepth /\ Len(NoActive.output) <= QueueDepth
    BY <1>5, NoActiveIs
  <1>7. SUFFICES /\ toHost' \in Seq(Envelope) /\ helloed' \in BOOLEAN
                 /\ active' \in Actives /\ Len(active'.input) <= QueueDepth /\ Len(active'.output) <= QueueDepth
                 /\ lastId' \in Nat /\ runGen' \in Nat /\ transfer' \in [ctl : Nat, done : BOOLEAN]
    BY <1>1, <1>2 DEF TypeOK, Actives, bridgeVars, stateVars, handleVars, ghostVars
  <1>8. CASE GuestHello(e)
    BY <1>3, <1>4, <1>5, <1>8 DEF GuestHello
  <1>9. CASE GuestOpen(e)
    <2>1. CASE Emit(Refuse(e)) /\ UNCHANGED <<active, lastId, runGen>>
      BY <1>3, <1>4, <1>5, <1>9, <2>1 DEF GuestOpen, Refuse
    <2>2. CASE /\ lastId' = e.id /\ runGen' = runGen + 1
               /\ active' = [NoActive EXCEPT !.id = e.id, !.run = runGen', !.alive = TRUE]
               /\ Emit(<<Env("Opened", e.ctl, e.id, runGen', NoBody)>>)
      <3>1. lastId' \in Nat /\ runGen' \in Nat
        BY <1>0, <1>5, <2>2
      <3>2. active' \in Actives /\ active'.input = <<>> /\ active'.output = <<>>
        BY <1>0, <2>2, <3>1, ActiveBegun
      <3>3. Env("Opened", e.ctl, e.id, runGen', NoBody) \in Envelope
        BY <1>0, <3>1, EnvelopeMade DEF MessageType, NoBody
      <3>4. toHost' \in Seq(Envelope)
        BY <1>3, <2>2, <3>3
      <3>5. UNCHANGED <<helloed, transfer>>
        BY <1>9 DEF GuestOpen
      <3>6. Len(active'.input) <= QueueDepth /\ Len(active'.output) <= QueueDepth
        BY <1>5, <3>2
      <3> QED BY <1>5, <3>1, <3>2, <3>4, <3>5, <3>6
    <2>3. CASE lastId' = e.id /\ runGen' = runGen + 1 /\ Emit(Refuse(e)) /\ UNCHANGED active
      BY <1>0, <1>3, <1>4, <1>5, <1>9, <2>3 DEF GuestOpen, Refuse
    <2> QED BY <1>9, <2>1, <2>2, <2>3 DEF GuestOpen
  <1>10. CASE GuestMcp(e)
    <2>1. UNCHANGED <<helloed, lastId, runGen, transfer>>
      BY <1>10 DEF GuestMcp
    <2>2. CASE /\ Len(active.input) < QueueDepth /\ Emit(<<>>)
               /\ active' = [active EXCEPT !.input = Append(@, e.body)]
      <3>1. active.input \in Seq(Nat)
        BY <1>5 DEF Actives
      <3>2. Append(active.input, e.body) \in Seq(Nat) /\ Len(Append(active.input, e.body)) = Len(active.input) + 1
        BY <1>0, <3>1, NumberLast
      <3>3. active' \in Actives /\ active'.input = Append(active.input, e.body) /\ active'.output = active.output
        BY <1>5, <2>2, <3>2, ActiveInput
      <3>4. Len(active'.input) <= QueueDepth
        BY <1>5, <2>2, <3>1, <3>2, <3>3
      <3>5. toHost' \in Seq(Envelope)
        BY <1>3, <2>2
      <3> QED BY <1>5, <2>1, <3>3, <3>4, <3>5
    <2>3. CASE active' = NoActive /\ Emit(<<Env("Closed", 0, e.id, 0, NoBody)>>)
      BY <1>3, <1>4, <1>5, <1>6, <2>1, <2>3
    <2>4. CASE Emit(<<>>) /\ UNCHANGED active
      BY <1>3, <1>5, <2>1, <2>4
    <2> QED BY <1>10, <2>2, <2>3, <2>4 DEF GuestMcp
  <1>11. CASE GuestClose(e)
    <2>1. toHost' \in Seq(Envelope)
      BY <1>3, <1>4, <1>11 DEF GuestClose
    <2>2. active' = NoActive \/ active' = active
      BY <1>11 DEF GuestClose
    <2> QED BY <1>5, <1>6, <1>11, <2>1, <2>2 DEF GuestClose
  <1>12. CASE GuestTransfer(e)
    <2>1. toHost' \in Seq(Envelope)
      BY <1>3, <1>4, <1>12 DEF GuestTransfer, Refuse
    <2>2. transfer' \in [ctl : Nat, done : BOOLEAN]
      <3>1. transfer' = transfer \/ transfer' = [ctl |-> e.ctl, done |-> FALSE]
        BY <1>12 DEF GuestTransfer
      <3>2. e.ctl \in Nat /\ transfer \in [ctl : Nat, done : BOOLEAN]
        BY <1>0, <1>5
      <3>3. [ctl |-> e.ctl, done |-> FALSE] \in [ctl : Nat, done : BOOLEAN]
        BY <3>2
      <3> QED BY <3>1, <3>2, <3>3
    <2> QED BY <1>5, <1>12, <2>1, <2>2 DEF GuestTransfer
  <1>13. CASE GuestUnready(e)
    BY <1>3, <1>4, <1>5, <1>13 DEF GuestUnready, Refuse
  <1> QED BY <1>1, <1>8, <1>9, <1>10, <1>11, <1>12, <1>13 DEF GuestHandle

LEMMA TypeGuest ==
    ASSUME TypeOK, Launch \/ GuestGone \/ GuestStep
    PROVE  TypeOK'
  <1>0. /\ active \in Actives /\ Len(active.input) <= QueueDepth /\ Len(active.output) <= QueueDepth
        /\ QueueDepth \in Nat /\ toHost \in Seq(Envelope)
        /\ active.id \in Nat /\ active.run \in Nat /\ active.input \in Seq(Nat) /\ active.output \in Seq(Nat)
        /\ active.work \in SUBSET Nat
    BY GuestAssumption DEF TypeOK, Actives
  <1>1. NoActive \in Actives /\ Len(NoActive.input) <= QueueDepth /\ Len(NoActive.output) <= QueueDepth
    BY <1>0, NoActiveIs
  <1>2. NoTransfer \in [ctl : Nat, done : BOOLEAN]
    BY DEF NoTransfer
  <1>3. CASE Launch
    <2>1. Env("Created", 0, 0, 0, NoBody) \in Envelope
      BY EnvelopeMade DEF MessageType, NoBody
    <2>2. toHost' \in Seq(Envelope)
      <3>1. toHost' = Append(toHost, Env("Created", 0, 0, 0, NoBody))
        BY <1>3 DEF Launch
      <3> QED BY <1>0, <2>1, <3>1
    <2>3. toGuest' \in Seq(Envelope)
      <3>1. toGuest' = <<>>
        BY <1>3 DEF Launch
      <3> QED BY <3>1
    <2>4. launches' \in Nat
      <3>1. launches' = launches + 1 /\ launches \in Nat
        BY <1>3 DEF Launch, TypeOK
      <3> QED BY <3>1
    <2>5. active' \in Actives /\ Len(active'.input) <= QueueDepth /\ Len(active'.output) <= QueueDepth
      BY <1>1, <1>3 DEF Launch, GuestStart
    <2> QED BY <1>2, <1>3, <2>2, <2>3, <2>4, <2>5
            DEF TypeOK, Launch, GuestStart, bridgeVars, stateVars, handleVars, ghostVars, Actives
  <1>4. CASE GuestGone
    <2>1. active' \in Actives /\ Len(active'.input) <= QueueDepth /\ Len(active'.output) <= QueueDepth
      BY <1>1, <1>4 DEF GuestGone, GuestEnds
    <2>2. toGuest' \in Seq(Envelope)
      <3>1. toGuest' = <<>>
        BY <1>4 DEF GuestGone
      <3> QED BY <3>1
    <2> QED BY <1>2, <1>4, <2>1, <2>2
            DEF TypeOK, GuestGone, GuestEnds, bridgeVars, stateVars, handleVars, ghostVars, Actives
  <1>5. ASSUME active' \in Actives, Len(active'.input) <= QueueDepth, Len(active'.output) <= QueueDepth,
               toHost' \in Seq(Envelope), runs' \in [Mcp -> Nat],
               UNCHANGED <<bridgeVars, helloed, lastId, runGen, transfer, up, toGuest, loopUp, poll, launches,
                           hs, owner, rcvd, lapsed, outranked>>
        PROVE  TypeOK'
    BY <1>5 DEF TypeOK, bridgeVars, stateVars, Actives
  <1>6. runs \in [Mcp -> Nat]
    BY DEF TypeOK
  <1>7. CASE ChildWorks
    <2>1. active.input # <<>> /\ UNCHANGED toHost
      BY <1>7 DEF ChildWorks, ChildTakes, wireVars, channelVars, ghostVars
    <2>2. Head(active.input) \in Nat /\ Tail(active.input) \in Seq(Nat)
          /\ Len(Tail(active.input)) = Len(active.input) - 1
      BY <1>0, <2>1, NumberTail
    <2>3. active.work \cup {Head(active.input)} \in SUBSET Nat
      BY <1>0, <2>2
    <2>4. active' = [active EXCEPT !.input = Tail(active.input), !.work = active.work \cup {Head(active.input)}]
      BY <1>7 DEF ChildWorks, ChildTakes
    <2>5. active' \in Actives /\ active'.input = Tail(active.input) /\ active'.output = active.output
      BY <1>0, <2>2, <2>3, <2>4, ActiveTakes
    <2>6. Len(active'.input) <= QueueDepth /\ Len(active'.output) <= QueueDepth
      BY <1>0, <2>2, <2>5
    <2>7. runs' \in [Mcp -> Nat]
      <3>1. runs' = [runs EXCEPT ![Head(active.input)] = runs[Head(active.input)] + 1]
        BY <1>7 DEF ChildWorks
      <3>2. CASE Head(active.input) \in Mcp
        BY <1>6, <3>1, <3>2
      <3>3. CASE Head(active.input) \notin Mcp
        BY <1>6, <3>1, <3>3
      <3> QED BY <3>2, <3>3
    <2> QED BY <1>0, <1>5, <1>7, <2>1, <2>5, <2>6, <2>7 DEF ChildWorks, ChildTakes, wireVars, channelVars, ghostVars
  <1>8. CASE ChildStep
    <2>1. active' \in Actives /\ Len(active'.input) <= QueueDepth /\ Len(active'.output) <= QueueDepth
      <3>1. ASSUME active' = [active EXCEPT !.work = {}, !.input = <<>>, !.alive = FALSE]
            PROVE  active' \in Actives /\ Len(active'.input) <= QueueDepth /\ Len(active'.output) <= QueueDepth
        <4>1. active' \in Actives /\ active'.input = <<>> /\ active'.output = active.output
          BY <1>0, <3>1, ActiveEnds
        <4> QED BY <1>0, <4>1
      <3>2. ASSUME NEW m \in Mcp, m \in active.work, Len(active.output) < QueueDepth,
                   active' = [active EXCEPT !.work = @ \ {m}, !.output = Append(@, m)]
            PROVE  active' \in Actives /\ Len(active'.input) <= QueueDepth /\ Len(active'.output) <= QueueDepth
        <4>1. m \in Nat /\ active.work \ {m} \in SUBSET Nat
          BY <1>0, <3>2
        <4>2. Append(active.output, m) \in Seq(Nat) /\ Len(Append(active.output, m)) = Len(active.output) + 1
          BY <1>0, <4>1, NumberLast
        <4>3. active' = [active EXCEPT !.work = active.work \ {m}, !.output = Append(active.output, m)]
          BY <3>2
        <4>4. active' \in Actives /\ active'.input = active.input /\ active'.output = Append(active.output, m)
          BY <1>0, <4>1, <4>2, <4>3, ActiveAnswers
        <4> QED BY <1>0, <3>2, <4>2, <4>4
      <3> QED BY <1>8, <3>1, <3>2 DEF ChildStep, ChildAnswers, ChildEnds
    <2> QED BY <1>0, <1>5, <1>6, <1>8, <2>1
            DEF ChildStep, ChildAnswers, ChildEnds, wireVars, channelVars, handleVars, ghostVars
  <1>9. CASE GuestWrites
    <2>1. UNCHANGED <<bridgeVars, helloed, lastId, runGen, transfer, up, toGuest, loopUp, poll, launches,
                      hs, owner, rcvd, lapsed, outranked, runs>>
      BY <1>9 DEF GuestWrites, GuestOutput, handleVars, ghostVars
    <2>2. CASE /\ active.output # <<>>
               /\ Emit(<<Env("Mcp", 0, active.id, active.run, Head(active.output))>>)
               /\ active' = [active EXCEPT !.output = Tail(@)]
      <3>1. Head(active.output) \in Nat /\ Tail(active.output) \in Seq(Nat)
            /\ Len(Tail(active.output)) = Len(active.output) - 1
        BY <1>0, <2>2, NumberTail
      <3>2. Env("Mcp", 0, active.id, active.run, Head(active.output)) \in Envelope
        BY <1>0, <3>1, EnvelopeMade DEF MessageType
      <3>3. toHost' \in Seq(Envelope)
        BY <2>2, <3>2, TypeEmit
      <3>4. active' = [active EXCEPT !.output = Tail(active.output)]
        BY <2>2
      <3>5. active' \in Actives /\ active'.input = active.input /\ active'.output = Tail(active.output)
        BY <1>0, <3>1, <3>4, ActiveOutput
      <3>6. Len(active'.input) <= QueueDepth /\ Len(active'.output) <= QueueDepth
        BY <1>0, <3>1, <3>5
      <3> QED BY <1>5, <1>6, <2>1, <3>3, <3>5, <3>6
    <2>3. CASE Emit(<<Env("Closed", 0, active.id, 0, NoBody)>>) /\ active' = NoActive
      <3>1. Env("Closed", 0, active.id, 0, NoBody) \in Envelope
        BY <1>0, EnvelopeMade DEF MessageType, NoBody
      <3>2. toHost' \in Seq(Envelope)
        BY <2>3, <3>1, TypeEmit
      <3> QED BY <1>1, <1>5, <1>6, <2>1, <2>3, <3>2
    <2> QED BY <1>9, <2>2, <2>3 DEF GuestWrites, GuestOutput
  <1> QED BY <1>3, <1>4, <1>7, <1>8, <1>9, TypeGuestReads DEF GuestStep

\* Every step keeps the types.
LEMMA TypeStep ==
    ASSUME TypeOK, [Next]_carrierVars
    PROVE  TypeOK'
  <1>1. CASE UNCHANGED carrierVars
    BY <1>1 DEF TypeOK, carrierVars, bridgeVars, stateVars, guestVars, wireVars, channelVars, handleVars, ghostVars
  <1> QED BY <1>1, TypeCaller, TypeLoop, TypeGuest DEF Next

LEMMA TypeInit == Init => TypeOK
  <1> SUFFICES ASSUME Init PROVE TypeOK
    OBVIOUS
  <1>1. /\ attachment \in Attachments /\ Len(attachment.output) <= StreamDepth
        /\ active \in Actives /\ Len(active.input) <= QueueDepth /\ Len(active.output) <= QueueDepth
    BY NoAttachmentIs, NoActiveIs, BridgeAssumption, GuestAssumption DEF Init, BridgeInit, GuestInit
  <1>2. /\ outgoing \in Seq(Envelope) /\ inputQ \in Seq(Envelope) /\ Len(outgoing) <= StreamDepth
        /\ toGuest \in Seq(Envelope) /\ toHost \in Seq(Envelope) /\ owner \in Seq(Handle)
    <2>1. outgoing = <<>> /\ inputQ = <<>> /\ toGuest = <<>> /\ toHost = <<>> /\ owner = <<>>
      BY DEF Init, BridgeInit
    <2> QED BY <2>1, BridgeAssumption
  <1>3. hs \in Handles
    BY DEF Init, Handles, HandlePc
  <1>4. rcvd \in [Handle -> Seq(Nat)] /\ runs \in [Mcp -> Nat]
    BY DEF Init
  <1>5. transfer \in [ctl : Nat, done : BOOLEAN]
    BY DEF Init, GuestInit, NoTransfer
  <1> QED BY <1>1, <1>2, <1>3, <1>4, <1>5
          DEF Init, BridgeInit, GuestInit, TypeOK, Attachments, Actives, Handles

-----------------------------------------------------------------------------
(* The types of the carrier *)

\* The types, the bounded queues of a caller and of the Cua child (STREAM_DEPTH,
\* QUEUE_DEPTH) among them.
THEOREM CarrierTypes == Spec => []TypeOK
  <1>1. TypeOK /\ [Next]_carrierVars => TypeOK'
    BY TypeStep
  <1> QED BY TypeInit, <1>1, PTL DEF Spec

-----------------------------------------------------------------------------
(* What is in a queue *)

Frames(q) == {q[i] : i \in DOMAIN q}
Messages(q) == {e \in Frames(q) : e.type = "Mcp"}
Members(s) == {s[i] : i \in DOMAIN s}

\* The messages of a queue rise.
Rising(q) == \A i, k \in DOMAIN q :
                i < k /\ q[i].type = "Mcp" /\ q[k].type = "Mcp" => q[i].body < q[k].body
Increasing(s) == \A i, k \in DOMAIN s : i < k => s[i] < s[k]

LEMMA FramesNone == Messages(<<>>) = {} /\ Rising(<<>>) /\ Members(<<>>) = {} /\ Increasing(<<>>)
  BY DEF Frames, Messages, Rising, Members, Increasing

LEMMA FramesTail ==
    ASSUME NEW q \in Seq(Envelope), q # <<>>
    PROVE  /\ Head(q) \in Frames(q) /\ Frames(Tail(q)) \subseteq Frames(q)
           /\ Messages(Tail(q)) \subseteq Messages(q)
           /\ Head(q).type = "Mcp" => Head(q) \in Messages(q)
           /\ Rising(q) => Rising(Tail(q))
           /\ Rising(q) /\ Head(q).type = "Mcp" => \A e \in Messages(Tail(q)) : Head(q).body < e.body
  <1>1. PICK n \in Nat : Len(q) = n /\ DOMAIN q = 1..n /\ n > 0
    OBVIOUS
  <1>2. Head(q) = q[1] /\ DOMAIN Tail(q) = 1..(n - 1) /\ \A i \in 1..(n - 1) : Tail(q)[i] = q[i + 1]
    BY <1>1, EnvelopeTail
  <1>3. Frames(Tail(q)) \subseteq Frames(q) /\ Head(q) \in Frames(q)
    BY <1>1, <1>2 DEF Frames
  <1>4. Rising(q) => Rising(Tail(q))
    <2> SUFFICES ASSUME Rising(q), NEW i \in 1..(n - 1), NEW k \in 1..(n - 1), i < k,
                        Tail(q)[i].type = "Mcp", Tail(q)[k].type = "Mcp"
                 PROVE  Tail(q)[i].body < Tail(q)[k].body
      BY <1>2 DEF Rising
    <2>1. i + 1 \in 1..n /\ k + 1 \in 1..n /\ i + 1 < k + 1
      BY <1>1
    <2> QED BY <1>1, <1>2, <2>1 DEF Rising
  <1>5. ASSUME Rising(q), Head(q).type = "Mcp", NEW e \in Messages(Tail(q))
        PROVE  Head(q).body < e.body
    <2>1. PICK i \in 1..(n - 1) : e = Tail(q)[i]
      BY <1>2 DEF Messages, Frames
    <2>2. 1 \in 1..n /\ i + 1 \in 1..n /\ 1 < i + 1 /\ e = q[i + 1] /\ e.type = "Mcp"
      BY <1>1, <1>2, <2>1 DEF Messages
    <2> QED BY <1>1, <1>2, <1>5, <2>2 DEF Rising
  <1> QED BY <1>3, <1>4, <1>5 DEF Messages

LEMMA FramesLast ==
    ASSUME NEW q \in Seq(Envelope), NEW e \in Envelope
    PROVE  /\ Frames(q \o <<e>>) = Frames(q) \cup {e}
           /\ e.type # "Mcp" => Messages(q \o <<e>>) = Messages(q)
           /\ e.type = "Mcp" => Messages(q \o <<e>>) = Messages(q) \cup {e}
           /\ Rising(q) /\ (e.type = "Mcp" => \A f \in Messages(q) : f.body < e.body)
                => Rising(q \o <<e>>)
  <1> DEFINE t == q \o <<e>>
  <1>1. PICK n \in Nat : Len(q) = n /\ DOMAIN q = 1..n
    OBVIOUS
  <1>2. DOMAIN t = 1..(n + 1) /\ t[n + 1] = e /\ \A i \in 1..n : t[i] = q[i]
    BY <1>1, EnvelopeLast
  <1> HIDE DEF t
  <1>3. Frames(t) = Frames(q) \cup {e}
    <2>1. ASSUME NEW i \in 1..(n + 1)
          PROVE  t[i] \in Frames(q) \cup {e}
      <3>1. i \in 1..n \/ i = n + 1
        BY <1>1
      <3> QED BY <3>1, <1>1, <1>2 DEF Frames
    <2>2. \A i \in 1..n : q[i] \in Frames(t)
      BY <1>1, <1>2 DEF Frames
    <2>3. e \in Frames(t)
      BY <1>1, <1>2 DEF Frames
    <2> QED BY <1>1, <1>2, <2>1, <2>2, <2>3 DEF Frames
  <1>4. ASSUME Rising(q), e.type = "Mcp" => \A f \in Messages(q) : f.body < e.body
        PROVE  Rising(t)
    <2> SUFFICES ASSUME NEW i \in 1..(n + 1), NEW k \in 1..(n + 1), i < k,
                        t[i].type = "Mcp", t[k].type = "Mcp"
                 PROVE  t[i].body < t[k].body
      BY <1>2 DEF Rising
    <2>1. i \in 1..n /\ t[i] = q[i] /\ q[i] \in Messages(q)
      BY <1>1, <1>2 DEF Messages, Frames
    <2>2. CASE k = n + 1
      BY <2>1, <2>2, <1>2, <1>4
    <2>3. CASE k # n + 1
      <3>1. k \in 1..n /\ t[k] = q[k]
        BY <2>3, <1>1, <1>2
      <3> QED BY <2>1, <3>1, <1>1, <1>4 DEF Rising
    <2> QED BY <2>2, <2>3
  <1> QED BY <1>3, <1>4 DEF Messages, t

LEMMA FramesWithout ==
    ASSUME NEW q \in Seq(Envelope), NEW id
    PROVE  /\ Messages(DataWithout(q, id)) \subseteq Messages(q)
           /\ Rising(q) => Rising(DataWithout(q, id))
           /\ \A e \in Frames(DataWithout(q, id)) : e \in Frames(q) /\ e.id # id
  <1> DEFINE s == DataWithout(q, id)
  <1>1. Part(s, q, Len(q), id)
    BY WithoutIsPart
  <1> HIDE DEF s
  <1>2. DOMAIN s = 1..Len(s) /\ DOMAIN q = 1..Len(q)
    BY <1>1 DEF Part
  <1>3. \A e \in Frames(s) : e \in Frames(q) /\ e.id # id
    BY <1>1, <1>2 DEF Part, Frames
  <1>4. ASSUME Rising(q) PROVE Rising(s)
    <2> SUFFICES ASSUME NEW i \in 1..Len(s), NEW k \in 1..Len(s), i < k,
                        s[i].type = "Mcp", s[k].type = "Mcp"
                 PROVE  s[i].body < s[k].body
      BY <1>2 DEF Rising
    <2>1. PICK a \in 1..Len(q), b \in 1..Len(q) : a < b /\ s[i] = q[a] /\ s[k] = q[b]
      BY <1>1 DEF Part
    <2> QED BY <2>1, <1>2, <1>4 DEF Rising
  <1> QED BY <1>3, <1>4 DEF Messages, s

LEMMA MembersTail ==
    ASSUME NEW s \in Seq(Nat), s # <<>>
    PROVE  /\ Members(Tail(s)) \subseteq Members(s) /\ Head(s) \in Members(s)
           /\ Increasing(s) => Increasing(Tail(s)) /\ \A m \in Members(Tail(s)) : Head(s) < m
  <1>1. PICK n \in Nat : Len(s) = n /\ DOMAIN s = 1..n /\ n > 0
    OBVIOUS
  <1>2. Head(s) = s[1] /\ DOMAIN Tail(s) = 1..(n - 1) /\ \A i \in 1..(n - 1) : Tail(s)[i] = s[i + 1]
    BY <1>1, NumberTail
  <1>3. Members(Tail(s)) \subseteq Members(s) /\ Head(s) \in Members(s)
    BY <1>1, <1>2 DEF Members
  <1>4. ASSUME Increasing(s), NEW i \in 1..(n - 1), NEW k \in 1..(n - 1), i < k
        PROVE  Tail(s)[i] < Tail(s)[k]
    <2>1. i + 1 \in 1..n /\ k + 1 \in 1..n /\ i + 1 < k + 1
      BY <1>1, <1>4
    <2> QED BY <1>1, <1>2, <1>4, <2>1 DEF Increasing
  <1>5. ASSUME Increasing(s), NEW m \in Members(Tail(s))
        PROVE  Head(s) < m
    <2>1. PICK i \in 1..(n - 1) : m = s[i + 1]
      BY <1>2 DEF Members
    <2>2. 1 \in 1..n /\ i + 1 \in 1..n /\ 1 < i + 1
      BY <1>1
    <2> QED BY <1>1, <1>2, <1>5, <2>1, <2>2 DEF Increasing
  <1>6. Increasing(s) => Increasing(Tail(s))
    BY <1>2, <1>4 DEF Increasing
  <1> QED BY <1>3, <1>5, <1>6

LEMMA MembersLast ==
    ASSUME NEW s \in Seq(Nat), NEW m \in Nat
    PROVE  /\ Members(Append(s, m)) = Members(s) \cup {m}
           /\ Increasing(s) /\ (\A k \in Members(s) : k < m) => Increasing(Append(s, m))
  <1> DEFINE t == Append(s, m)
  <1>1. PICK n \in Nat : Len(s) = n /\ DOMAIN s = 1..n
    OBVIOUS
  <1>2. DOMAIN t = 1..(n + 1) /\ t[n + 1] = m /\ \A i \in 1..n : t[i] = s[i]
    BY <1>1, NumberLast
  <1> HIDE DEF t
  <1>3. Members(t) = Members(s) \cup {m}
    <2>1. ASSUME NEW i \in 1..(n + 1)
          PROVE  t[i] \in Members(s) \cup {m}
      <3>1. i \in 1..n \/ i = n + 1
        BY <1>1
      <3> QED BY <3>1, <1>1, <1>2 DEF Members
    <2>2. m \in Members(t) /\ \A i \in 1..n : s[i] \in Members(t)
      BY <1>1, <1>2 DEF Members
    <2> QED BY <1>1, <1>2, <2>1, <2>2 DEF Members
  <1>4. ASSUME Increasing(s), \A k \in Members(s) : k < m
        PROVE  Increasing(t)
    <2> SUFFICES ASSUME NEW i \in 1..(n + 1), NEW k \in 1..(n + 1), i < k
                 PROVE  t[i] < t[k]
      BY <1>2 DEF Increasing
    <2>1. i \in 1..n /\ t[i] = s[i] /\ s[i] \in Members(s)
      BY <1>1, <1>2 DEF Members
    <2>2. CASE k = n + 1
      BY <2>1, <2>2, <1>2, <1>4
    <2>3. CASE k # n + 1
      <3>1. k \in 1..n /\ t[k] = s[k]
        BY <2>3, <1>1, <1>2
      <3> QED BY <2>1, <3>1, <1>1, <1>4 DEF Increasing
    <2> QED BY <2>2, <2>3
  <1> QED BY <1>3, <1>4 DEF t

-----------------------------------------------------------------------------
(* NoCrossTalk: who owns a message, and where it is                            *)

\* Attachment `id' sent message `m'.
Owned(m, id) == m \in DOMAIN owner /\ id # 0 /\ hs[owner[m]].id = id

\* What the numbers of attachments say: they are new, and one handle has each.
HandleIds ==
    /\ \A h \in Handle :
          /\ hs[h].id < next
          /\ hs[h].pc \in {"idle", "checked"} => hs[h].id = 0
          /\ hs[h].pc \notin {"idle", "checked"} => hs[h].id # 0
    /\ \A g, h \in Handle : hs[g].id = hs[h].id /\ hs[g].id # 0 => g = h
    /\ Messages(inputQ) = {}

\* A message, or its answer, is where its attachment is named or where its handle is.
Talk ==
    /\ \A e \in Messages(outgoing) : Owned(e.body, e.id)
    /\ \A e \in Messages(toGuest) : Owned(e.body, e.id)
    /\ \A e \in Messages(toHost) : Owned(e.body, e.id)
    /\ \A m \in active.work : Owned(m, active.id)
    /\ \A m \in Members(active.input) : Owned(m, active.id)
    /\ \A m \in Members(active.output) : Owned(m, active.id)
    /\ \A m \in Members(attachment.output) : Owned(m, attachment.id)
    /\ \A h \in Handle : \A m \in Members(rcvd[h]) : m \in DOMAIN owner /\ owner[m] = h

Begun == {m \in Mcp : runs[m] # 0}

\* Messages overtake none on the way to the child, and the child has begun to work
\* only on messages that precede all that are on the way.
Once ==
    /\ \A m \in Mcp : runs[m] <= 1
    /\ Begun \subseteq DOMAIN owner
    /\ Rising(outgoing) /\ Rising(toGuest) /\ Increasing(active.input)
    /\ \A m \in Begun, k \in Members(active.input) : m < k
    /\ \A m \in Begun, e \in Messages(toGuest) : m < e.body
    /\ \A m \in Begun, e \in Messages(outgoing) : m < e.body
    /\ \A m \in Members(active.input), e \in Messages(toGuest) : m < e.body
    /\ \A m \in Members(active.input), e \in Messages(outgoing) : m < e.body
    /\ \A e \in Messages(toGuest), f \in Messages(outgoing) : e.body < f.body

LEMMA TalkIsNoCrossTalk ==
    ASSUME TypeOK, HandleIds, Talk, Once
    PROVE  NoCrossTalk
  <1>1. ASSUME NEW m \in DOMAIN owner,
               \/ m \in active.work
               \/ \E i \in DOMAIN active.input : active.input[i] = m
               \/ \E i \in DOMAIN active.output : active.output[i] = m
        PROVE  hs[owner[m]].id = active.id
    <2>1. m \in active.work \/ m \in Members(active.input) \/ m \in Members(active.output)
      BY <1>1 DEF Members
    <2> QED BY <2>1 DEF Talk, Owned
  <1>2. ASSUME NEW i \in DOMAIN attachment.output
        PROVE  hs[owner[attachment.output[i]]].id = attachment.id
    BY DEF Talk, Owned, Members
  <1>3. ASSUME NEW h \in Handle, NEW i \in DOMAIN rcvd[h]
        PROVE  owner[rcvd[h][i]] = h
    BY DEF Talk, Members
  <1>4. \A m \in Mcp : runs[m] <= 1
    BY DEF Once
  <1> QED BY <1>1, <1>2, <1>3, <1>4 DEF NoCrossTalk

LEMMA TalkInit == ASSUME Init PROVE HandleIds /\ Talk /\ Once
  <1>1. /\ outgoing = <<>> /\ toGuest = <<>> /\ toHost = <<>> /\ inputQ = <<>> /\ owner = <<>>
        /\ active = NoActive /\ attachment = NoAttachment /\ next = 1
        /\ \A h \in Handle : rcvd[h] = <<>> /\ hs[h].id = 0 /\ hs[h].pc = "idle"
        /\ \A m \in Mcp : runs[m] = 0
    BY DEF Init, BridgeInit, GuestInit
  <1>2. active.work = {} /\ active.input = <<>> /\ active.output = <<>> /\ attachment.output = <<>>
    BY <1>1, NoActiveIs, NoAttachmentIs
  <1>3. Begun = {}
    BY <1>1 DEF Begun
  <1>4. /\ Messages(outgoing) = {} /\ Messages(toGuest) = {} /\ Messages(toHost) = {} /\ Messages(inputQ) = {}
        /\ Members(active.input) = {} /\ Members(active.output) = {} /\ Members(attachment.output) = {}
        /\ Rising(outgoing) /\ Rising(toGuest) /\ Increasing(active.input)
        /\ \A h \in Handle : Members(rcvd[h]) = {}
    BY <1>1, <1>2, FramesNone
  <1>5. HandleIds
    BY <1>1, <1>4 DEF HandleIds
  <1>6. Talk
    BY <1>2, <1>4 DEF Talk
  <1>7. Once
    BY <1>1, <1>3, <1>4 DEF Once
  <1> QED BY <1>5, <1>6, <1>7

\* Handles take a number once, and keep it.
IdsStay == \A h \in Handle : hs[h].id # 0 => hs'[h].id = hs[h].id

\* The same of the state after a step.
OwnedNext(m, id) == m \in DOMAIN owner' /\ id # 0 /\ hs'[owner'[m]].id = id

\* The guest has what it had, or less.
GuestKeeps ==
    \/ active' = active
    \/ /\ active'.work = {} /\ active'.input = <<>>
       /\ \/ active'.output = <<>>
          \/ active'.output = active.output /\ active'.id = active.id

\* The attachment has what it had, or nothing.
AttachmentKeeps ==
    \/ attachment'.output = <<>>
    \/ attachment'.output = attachment.output /\ attachment'.id = attachment.id

QueuesKeep ==
    /\ Messages(outgoing') \subseteq Messages(outgoing) /\ Rising(outgoing')
    /\ Messages(toGuest') \subseteq Messages(toGuest) /\ Rising(toGuest')
    /\ Messages(toHost') \subseteq Messages(toHost)

LEMMA OwnedStays ==
    ASSUME TypeOK, IdsStay, owner' = owner, NEW m, NEW id, Owned(m, id)
    PROVE  OwnedNext(m, id)
  <1>1. owner[m] \in Handle
    BY DEF TypeOK, Owned
  <1> QED BY <1>1 DEF Owned, OwnedNext, IdsStay

\* A step that sends no message on.
LEMMA TalkQuiet ==
    ASSUME TypeOK, Talk, Once, IdsStay, GuestKeeps, AttachmentKeeps, QueuesKeep,
           owner' = owner, rcvd' = rcvd, runs' = runs
    PROVE  Talk' /\ Once'
  <1>1. \A m, id : Owned(m, id) => OwnedNext(m, id)
    BY OwnedStays
  <1>2. /\ \A e \in Messages(outgoing') : OwnedNext(e.body, e.id)
        /\ \A e \in Messages(toGuest') : OwnedNext(e.body, e.id)
        /\ \A e \in Messages(toHost') : OwnedNext(e.body, e.id)
    BY <1>1 DEF Talk, QueuesKeep
  <1>3. /\ \A m \in active'.work : OwnedNext(m, active'.id)
        /\ \A m \in Members(active'.input) : OwnedNext(m, active'.id)
        /\ \A m \in Members(active'.output) : OwnedNext(m, active'.id)
    BY <1>1, FramesNone DEF Talk, GuestKeeps
  <1>4. \A m \in Members(attachment'.output) : OwnedNext(m, attachment'.id)
    BY <1>1, FramesNone DEF Talk, AttachmentKeeps
  <1>5. Talk'
    BY <1>2, <1>3, <1>4 DEF Talk, Owned, OwnedNext
  <1>6. Begun' = Begun
    BY DEF Begun
  <1>7. Members(active'.input) \subseteq Members(active.input) /\ Increasing(active'.input)
    BY FramesNone DEF GuestKeeps, Once
  <1>8. Once'
    BY <1>6, <1>7 DEF Once, QueuesKeep
  <1> QED BY <1>5, <1>8

Unattached == {"idle", "checked"}

\* Every step of a caller but the draw of a number leaves the numbers of attachments
\* alone.
LEMMA CallerMoves ==
    ASSUME TypeOK, NEW h \in Handle, CallerStep(h), ~AttachNumber(h)
    PROVE  /\ hs' \in Handles
           /\ hs'[h].id = hs[h].id /\ \A g \in Handle : g # h => hs'[g] = hs[g]
           /\ hs'[h].pc \in Unattached <=> hs[h].pc \in Unattached
           /\ next' \in {next, next + 1}
  <1>0. hs \in Handles
    BY DEF TypeOK, Handles
  <1>1. CASE \E pc \in HandlePc :
                /\ Goto(h, pc) /\ next' \in {next, next + 1}
                /\ pc \in Unattached <=> hs[h].pc \in Unattached
    BY <1>0, <1>1, GotoAt
  <1>2. CASE AttachCheck(h)
    BY <1>1, <1>2 DEF AttachCheck, HandlePc, Unattached, bridgeVars
  <1>3. CASE AttachClaim(h)
    BY <1>1, <1>3 DEF AttachClaim, HandlePc, Unattached
  <1>4. CASE AttachRequest(h)
    <2>1. CASE hs' = [hs EXCEPT ![h].pc = "sending", ![h].ctl = next]
      <3>1. next \in Nat
        BY DEF TypeOK
      <3>2. "sending" \in HandlePc
        BY DEF HandlePc
      <3>3. /\ hs' \in Handles /\ hs'[h].pc = "sending" /\ hs'[h].id = hs[h].id
            /\ \A g \in Handle : g # h => hs'[g] = hs[g]
        BY <1>0, <2>1, <3>1, <3>2, RequestAt
      <3> QED BY <1>4, <3>3 DEF AttachRequest, Unattached
    <2>2. CASE Goto(h, "dropping")
      BY <1>1, <1>4, <2>2 DEF AttachRequest, HandlePc, Unattached
    <2> QED BY <1>4, <2>1, <2>2 DEF AttachRequest
  <1>5. CASE AttachSend(h)
    BY <1>1, <1>5 DEF AttachSend, HandlePc, Unattached
  <1>6. CASE AttachOpened(h)
    <2>1. PICK a \in Answered(hs[h].ctl) : hs' = [hs EXCEPT ![h].pc = "open", ![h].run = a[3]]
      BY <1>6 DEF AttachOpened
    <2>2. a[3] \in Nat /\ "open" \in HandlePc
      BY <2>1 DEF TypeOK, Answered, HandlePc
    <2>3. /\ hs' \in Handles /\ hs'[h].pc = "open" /\ hs'[h].id = hs[h].id
          /\ \A g \in Handle : g # h => hs'[g] = hs[g]
      BY <1>0, <2>1, <2>2, OpenedAt
    <2> QED BY <1>6, <2>3 DEF AttachOpened, Unattached
  <1>7. CASE AttachFails(h)
    BY <1>1, <1>7 DEF AttachFails, HandlePc, Unattached
  <1>8. CASE Send(h)
    BY <1>0, <1>8 DEF Send
  <1>9. CASE Recv(h)
    BY <1>0, <1>9 DEF Recv
  <1>10. CASE End(h)
    BY <1>1, <1>10 DEF End, HandlePc, Unattached
  <1>11. CASE DropHandle(h)
    BY <1>1, <1>11 DEF DropHandle, HandlePc, Unattached
  <1>12. CASE Retired(h)
    BY <1>1, <1>12 DEF Retired, HandlePc, Unattached
  <1> QED BY <1>2, <1>3, <1>4, <1>5, <1>6, <1>7, <1>8, <1>9, <1>10, <1>11, <1>12 DEF CallerStep

\* The draw of a number.
LEMMA NumberDoes ==
    ASSUME TypeOK, NEW h \in Handle, AttachNumber(h)
    PROVE  /\ hs' \in Handles /\ hs[h].pc = "checked"
           /\ hs'[h].pc = "numbered" /\ hs'[h].id = next /\ hs'[h].ctl = hs[h].ctl /\ hs'[h].run = hs[h].run
           /\ \A g \in Handle : g # h => hs'[g] = hs[g]
           /\ next \in Nat /\ next' = next + 1
           /\ UNCHANGED <<ready, dead, pending, answers, attachment, outgoing, retire, inputQ,
                          guestVars, wireVars, owner, rcvd, runs, ghostVars>>
  <1>1. hs \in Handles /\ next \in Nat /\ "numbered" \in HandlePc
    BY DEF TypeOK, Handles, HandlePc
  <1>2. hs' = [hs EXCEPT ![h].pc = "numbered", ![h].id = next]
        /\ next' = next + 1 /\ hs[h].pc = "checked"
    BY DEF AttachNumber
  <1>3. UNCHANGED <<ready, dead, pending, answers, attachment, outgoing, retire, inputQ,
                    guestVars, wireVars, owner, rcvd, runs, ghostVars>>
    BY DEF AttachNumber, stateVars
  <1>5. /\ hs' \in Handles
        /\ hs'[h].pc = "numbered" /\ hs'[h].id = next /\ hs'[h].ctl = hs[h].ctl /\ hs'[h].run = hs[h].run
        /\ \A g \in Handle : g # h => hs'[g] = hs[g]
    BY <1>1, <1>2, NumberAt
  <1> QED BY <1>1, <1>2, <1>3, <1>5

\* The claim.
LEMMA ClaimDoes ==
    ASSUME TypeOK, NEW h \in Handle, AttachClaim(h), attachment.id = 0
    PROVE  /\ hs' \in Handles /\ hs[h].pc = "numbered"
           /\ hs'[h].pc = "claimed" /\ hs'[h].id = hs[h].id /\ hs'[h].ctl = hs[h].ctl
           /\ hs'[h].run = hs[h].run
           /\ \A g \in Handle : g # h => hs'[g] = hs[g]
           /\ attachment' \in Attachments /\ attachment'.id = hs[h].id /\ attachment'.output = <<>>
           /\ UNCHANGED <<ready, dead, pending, answers, outgoing, retire, next, inputQ,
                          guestVars, wireVars, owner, rcvd, runs, ghostVars>>
  <1>1. hs \in Handles /\ hs[h].id \in Nat /\ "claimed" \in HandlePc
    BY DEF TypeOK, Handles, HandlePc
  <1>2. Goto(h, "claimed") /\ attachment' = [NoAttachment EXCEPT !.id = hs[h].id]
        /\ hs[h].pc = "numbered"
    BY DEF AttachClaim
  <1>3. UNCHANGED <<ready, dead, pending, answers, outgoing, retire, next, inputQ,
                    guestVars, wireVars, owner, rcvd, runs, ghostVars>>
    BY DEF AttachClaim
  <1>4. attachment' \in Attachments /\ attachment'.id = hs[h].id /\ attachment'.output = <<>>
    BY <1>1, <1>2, AttachmentClaimed
  <1>5. /\ hs' \in Handles
        /\ hs'[h].pc = "claimed" /\ hs'[h].id = hs[h].id /\ hs'[h].ctl = hs[h].ctl
        /\ hs'[h].run = hs[h].run
        /\ \A g \in Handle : g # h => hs'[g] = hs[g]
    BY <1>1, <1>2, GotoAt
  <1> QED BY <1>2, <1>3, <1>4, <1>5

LEMMA IdsCaller ==
    ASSUME TypeOK, HandleIds, NEW h \in Handle, CallerStep(h)
    PROVE  HandleIds' /\ IdsStay
  <1>0. next \in Nat /\ hs \in Handles /\ \A g \in Handle : hs[g].id \in Nat /\ hs[g].id < next
    BY DEF TypeOK, Handles, HandleIds
  <1>1. Messages(inputQ') = {}
    <2>1. CASE inputQ' = inputQ
      BY <2>1 DEF HandleIds
    <2>2. CASE AttachSend(h)
      <3>1. inputQ' = Append(inputQ, Env("Open", hs[h].ctl, hs[h].id, 0, NoBody))
        BY <2>2 DEF AttachSend
      <3>2. inputQ \in Seq(Envelope) /\ hs[h].ctl \in Nat /\ hs[h].id \in Nat
        BY <1>0 DEF TypeOK, Handles
      <3>5. "Open" \in MessageType /\ 0 \in Nat /\ NoBody \in Nat
        BY DEF MessageType, NoBody
      <3>3. /\ Env("Open", hs[h].ctl, hs[h].id, 0, NoBody) \in Envelope
            /\ Env("Open", hs[h].ctl, hs[h].id, 0, NoBody).type = "Open"
        BY <3>2, <3>5 DEF Env, Envelope
      <3>4. inputQ' = inputQ \o <<Env("Open", hs[h].ctl, hs[h].id, 0, NoBody)>>
        BY <3>1, <3>2, <3>3, EnvelopeLast
      <3> QED BY <3>2, <3>3, <3>4, FramesLast DEF HandleIds
    <2> QED BY <2>1, <2>2
            DEF CallerStep, AttachCheck, AttachClaim, AttachRequest, AttachOpened, AttachFails,
                AttachNumber, Send, Recv, End, DropHandle, Retired, bridgeVars
  <1>2. CASE AttachNumber(h)
    <2>1. /\ hs' \in Handles /\ hs[h].pc = "checked" /\ hs'[h].pc = "numbered" /\ hs'[h].id = next
          /\ \A g \in Handle : g # h => hs'[g] = hs[g]
          /\ next' = next + 1
      BY <1>2, NumberDoes
    <2>2. \A g \in Handle : g # h => hs'[g].id # hs'[h].id
      BY <1>0, <2>1
    <2>3. hs[h].id = 0 /\ next # 0
      BY <1>0, <2>1 DEF HandleIds
    <2>4. \A g \in Handle : hs'[g].id < next'
      BY <1>0, <2>1
    <2>5. HandleIds'
      BY <1>1, <2>1, <2>2, <2>3, <2>4 DEF HandleIds
    <2> QED BY <2>1, <2>3, <2>5 DEF IdsStay
  <1>3. CASE ~AttachNumber(h)
    <2>1. /\ hs'[h].id = hs[h].id /\ \A g \in Handle : g # h => hs'[g] = hs[g]
          /\ hs'[h].pc \in Unattached <=> hs[h].pc \in Unattached
          /\ next' \in {next, next + 1}
      BY <1>3, CallerMoves
    <2>2. \A g \in Handle : hs'[g].id = hs[g].id
      BY <2>1
    <2>3. \A g \in Handle : hs'[g].id < next'
      BY <1>0, <2>1, <2>2
    <2>4. HandleIds'
      BY <1>1, <2>1, <2>2, <2>3 DEF HandleIds, Unattached
    <2> QED BY <2>2, <2>4 DEF IdsStay
  <1> QED BY <1>2, <1>3

LEMMA IdsOthers ==
    ASSUME TypeOK, HandleIds, LoopStep \/ LoopEnds \/ Launch \/ GuestGone \/ GuestStep
    PROVE  HandleIds' /\ IdsStay
  <1>1. hs' = hs /\ next' = next
    BY DEF LoopStep, LoopEnds, Launch, GuestGone, GuestStep, LoopPasses, LoopRetire, LoopCommand, LoopData, LoopRead,
           CheckLiveness, GuestReads, ChildWorks, ChildStep, GuestWrites, handleVars, ghostVars, bridgeVars
  <1>2. inputQ \in Seq(Envelope)
    BY DEF TypeOK
  <1>3. inputQ' = inputQ \/ inputQ' = <<>> \/ (inputQ # <<>> /\ inputQ' = Tail(inputQ))
    BY DEF LoopStep, LoopEnds, Launch, GuestGone, GuestStep, LoopPasses, LoopRetire, LoopCommand, LoopData, LoopRead,
           CheckLiveness, GuestReads, ChildWorks, ChildStep, GuestWrites, bridgeVars
  <1>4. Messages(inputQ') = {}
    BY <1>2, <1>3, FramesNone, FramesTail DEF HandleIds
  <1> QED BY <1>1, <1>4 DEF HandleIds, IdsStay

\* retire (bridge.rs) takes messages away, and adds none.
LEMMA RetireKeeps ==
    ASSUME TypeOK, Once, NEW id \in Nat, Retire(id)
    PROVE  Messages(outgoing') \subseteq Messages(outgoing) /\ Rising(outgoing')
  <1>1. outgoing' = DataWithout(outgoing, id) /\ outgoing \in Seq(Envelope)
    BY DEF Retire, OtherData, TypeOK
  <1> QED BY <1>1, FramesWithout DEF Once

LEMMA DetachKeeps ==
    ASSUME TypeOK, NEW id \in Nat, CloseOwn(id)
    PROVE  AttachmentKeeps
  <1>1. attachment' = attachment \/ attachment' = NoAttachment
    BY DEF CloseOwn, Closing
  <1> QED BY <1>1, NoAttachmentIs DEF AttachmentKeeps

\* The steps of a caller that neither send nor receive.
LEMMA TalkCallerQuiet ==
    ASSUME TypeOK, HandleIds, Talk, Once, NEW h \in Handle, CallerStep(h), ~Send(h), ~Recv(h)
    PROVE  Talk' /\ Once'
  <1>1. IdsStay
    BY IdsCaller
  <1>2. UNCHANGED <<active, owner, rcvd, runs, toGuest, toHost>>
    BY DEF CallerStep, AttachCheck, AttachClaim, AttachRequest, AttachSend, AttachOpened, AttachFails,
           AttachNumber, End, DropHandle, Retired, guestVars, wireVars, channelVars
  <1>3. Rising(outgoing) /\ Rising(toGuest) /\ attachment \in Attachments /\ hs[h].id \in Nat
    BY DEF Once, TypeOK, Attachments
  <1>4. AttachmentKeeps /\ Messages(outgoing') \subseteq Messages(outgoing) /\ Rising(outgoing')
    <2>1. CASE Retire(hs[h].id) /\ UNCHANGED attachment
      BY <1>3, <2>1, RetireKeeps DEF AttachmentKeeps
    <2>5. CASE CloseOwn(hs[h].id) /\ UNCHANGED outgoing
      BY <1>3, <2>5, DetachKeeps
    <2>2. CASE UNCHANGED <<attachment, outgoing>>
      BY <1>3, <2>2 DEF AttachmentKeeps
    <2>3. CASE AttachClaim(h)
      <3>1. CASE attachment.id = 0
        BY <1>3, <2>3, <3>1, ClaimDoes DEF AttachmentKeeps
      <3>2. CASE attachment.id # 0
        BY <2>2, <2>3, <3>2 DEF AttachClaim
      <3> QED BY <3>1, <3>2
    <2>4. CASE AttachOpened(h)
      <3>1. PICK a \in Answered(hs[h].ctl) : attachment' = [attachment EXCEPT !.run = a[3]]
        BY <2>4 DEF AttachOpened
      <3>2. a[3] \in Nat
        BY <3>1 DEF TypeOK, Answered
      <3>3. attachment'.id = attachment.id /\ attachment'.output = attachment.output
        BY <1>3, <3>1, <3>2, AttachmentRun
      <3> QED BY <1>3, <2>4, <3>3 DEF AttachOpened, AttachmentKeeps
    <2> QED BY <2>1, <2>2, <2>3, <2>4, <2>5
            DEF CallerStep, AttachCheck, AttachNumber, AttachRequest, AttachSend, AttachFails, End,
                DropHandle, Retired, bridgeVars, stateVars
  <1>5. GuestKeeps /\ QueuesKeep
    BY <1>2, <1>3, <1>4 DEF GuestKeeps, QueuesKeep
  <1> QED BY <1>1, <1>2, <1>4, <1>5, TalkQuiet

\* A new message is behind all others.
LEMMA TalkSend ==
    ASSUME TypeOK, HandleIds, Talk, Once, NEW h \in Handle, Send(h)
    PROVE  Talk' /\ Once'
  <1>1. PICK n \in Nat : Len(owner) = n /\ DOMAIN owner = 1..n /\ owner \in Seq(Handle)
    BY DEF TypeOK
  <1> DEFINE e == Env("Mcp", 0, hs[h].id, hs[h].run, n + 1)
  <1>2. owner' \in Seq(Handle) /\ Len(owner') = n + 1 /\ DOMAIN owner' = 1..(n + 1)
        /\ owner'[n + 1] = h /\ \A m \in 1..n : owner'[m] = owner[m]
    <2>1. owner' = Append(owner, h)
      BY DEF Send
    <2> QED BY <1>1, <2>1
  <1>3. hs[h].id \in Nat /\ hs[h].run \in Nat
    BY DEF TypeOK
  <1>15. "Mcp" \in MessageType
    BY DEF MessageType
  <1>4. e \in Envelope /\ e.type = "Mcp" /\ e.id = hs[h].id /\ e.body = n + 1
    BY <1>3, <1>15 DEF Env, Envelope
  <1>5. outgoing \in Seq(Envelope) /\ outgoing' = Append(outgoing, e)
    BY <1>2 DEF Send, TypeOK
  <1> HIDE DEF e
  <1>6. outgoing' = outgoing \o <<e>>
    BY <1>4, <1>5, EnvelopeLast
  <1>7. UNCHANGED <<active, attachment, rcvd, runs, toGuest, toHost, hs>> /\ hs[h].id # 0
    BY DEF Send, Attached, guestVars, wireVars, channelVars, HandleIds
  <1>8. \A m, id : Owned(m, id) => m \in 1..n /\ OwnedNext(m, id)
    BY <1>1, <1>2, <1>7 DEF Owned, OwnedNext
  <1>9. Messages(outgoing') = Messages(outgoing) \cup {e}
    BY <1>4, <1>5, <1>6, FramesLast
  <1>10. \A f \in Messages(outgoing) : f.body < e.body
    <2>1. \A f \in Messages(outgoing) : f.body \in 1..n
      BY <1>8 DEF Talk
    <2> QED BY <2>1, <1>4
  <1>11. Rising(outgoing')
    BY <1>4, <1>5, <1>6, <1>10, FramesLast DEF Once
  <1>12. OwnedNext(e.body, e.id)
    BY <1>2, <1>4, <1>7 DEF OwnedNext
  <1>13. Talk'
    <2>1. \A f \in Messages(outgoing') : OwnedNext(f.body, f.id)
      BY <1>8, <1>9, <1>12 DEF Talk
    <2>2. /\ \A f \in Messages(toGuest') : OwnedNext(f.body, f.id)
          /\ \A f \in Messages(toHost') : OwnedNext(f.body, f.id)
          /\ \A m \in active'.work : OwnedNext(m, active'.id)
          /\ \A m \in Members(active'.input) : OwnedNext(m, active'.id)
          /\ \A m \in Members(active'.output) : OwnedNext(m, active'.id)
          /\ \A m \in Members(attachment'.output) : OwnedNext(m, attachment'.id)
      BY <1>7, <1>8 DEF Talk
    <2>3. \A g \in Handle : \A m \in Members(rcvd'[g]) : m \in DOMAIN owner' /\ owner'[m] = g
      BY <1>1, <1>2, <1>7 DEF Talk
    <2> QED BY <2>1, <2>2, <2>3 DEF Talk, Owned, OwnedNext
  <1>14. Once'
    <2>1. Begun' = Begun /\ Begun \subseteq 1..n
      BY <1>1, <1>7 DEF Begun, Once
    <2>2. /\ \A m \in Members(active.input) : m \in 1..n
          /\ \A f \in Messages(toGuest) : f.body \in 1..n
      BY <1>8 DEF Talk
    <2>3. \A m \in Begun, f \in Messages(outgoing') : m < f.body
      BY <1>4, <1>9, <2>1 DEF Once
    <2>4. \A m \in Members(active'.input), f \in Messages(outgoing') : m < f.body
      BY <1>4, <1>7, <1>9, <2>2 DEF Once
    <2>5. \A d \in Messages(toGuest'), f \in Messages(outgoing') : d.body < f.body
      BY <1>4, <1>7, <1>9, <2>2 DEF Once
    <2>6. Begun' \subseteq DOMAIN owner'
      BY <1>2, <2>1
    <2> QED BY <1>7, <1>11, <2>1, <2>3, <2>4, <2>5, <2>6 DEF Once
  <1> QED BY <1>13, <1>14

\* What a caller receives is an answer to it.
LEMMA TalkRecv ==
    ASSUME TypeOK, HandleIds, Talk, Once, NEW h \in Handle, Recv(h)
    PROVE  Talk' /\ Once'
  <1>1. /\ attachment \in Attachments /\ attachment.output \in Seq(Nat) /\ attachment.output # <<>>
        /\ attachment.id = hs[h].id /\ rcvd \in [Handle -> Seq(Nat)]
    BY DEF Recv, Attached, TypeOK, Attachments
  <1> DEFINE m == Head(attachment.output)
  <1>2. m \in Nat /\ m \in Members(attachment.output) /\ Tail(attachment.output) \in Seq(Nat)
        /\ Members(Tail(attachment.output)) \subseteq Members(attachment.output)
    BY <1>1, NumberTail, MembersTail
  <1>3. attachment' = [attachment EXCEPT !.output = Tail(attachment.output)]
        /\ rcvd' = [rcvd EXCEPT ![h] = Append(rcvd[h], m)]
    BY DEF Recv
  <1> HIDE DEF m
  <1>4. attachment'.id = attachment.id /\ attachment'.output = Tail(attachment.output)
    BY <1>1, <1>2, <1>3, AttachmentOutput
  <1>5. rcvd'[h] = Append(rcvd[h], m) /\ \A g \in Handle : g # h => rcvd'[g] = rcvd[g]
    BY <1>1, <1>3
  <1>6. Members(rcvd'[h]) = Members(rcvd[h]) \cup {m}
    BY <1>1, <1>2, <1>5, MembersLast
  <1>7. UNCHANGED <<active, outgoing, owner, runs, toGuest, toHost, hs>>
    BY DEF Recv, guestVars, wireVars, channelVars
  <1>8. \A k, id : Owned(k, id) => OwnedNext(k, id)
    BY <1>7 DEF Owned, OwnedNext
  <1>9. Owned(m, hs[h].id)
    BY <1>1, <1>2 DEF Talk
  <1>10. m \in DOMAIN owner /\ owner[m] = h
    <2>1. owner[m] \in Handle
      BY <1>9 DEF Owned, TypeOK
    <2> QED BY <1>9, <2>1 DEF Owned, HandleIds
  <1>11. Talk'
    <2>1. \A g \in Handle : \A k \in Members(rcvd'[g]) : k \in DOMAIN owner' /\ owner'[k] = g
      BY <1>5, <1>6, <1>7, <1>10 DEF Talk
    <2>2. \A k \in Members(attachment'.output) : OwnedNext(k, attachment'.id)
      BY <1>2, <1>4, <1>8 DEF Talk
    <2>3. /\ \A f \in Messages(outgoing') : OwnedNext(f.body, f.id)
          /\ \A f \in Messages(toGuest') : OwnedNext(f.body, f.id)
          /\ \A f \in Messages(toHost') : OwnedNext(f.body, f.id)
          /\ \A k \in active'.work : OwnedNext(k, active'.id)
          /\ \A k \in Members(active'.input) : OwnedNext(k, active'.id)
          /\ \A k \in Members(active'.output) : OwnedNext(k, active'.id)
      BY <1>7, <1>8 DEF Talk
    <2> QED BY <2>1, <2>2, <2>3 DEF Talk, Owned, OwnedNext
  <1>12. Once'
    BY <1>7 DEF Once, Begun
  <1> QED BY <1>11, <1>12

LEMMA TalkCaller ==
    ASSUME TypeOK, HandleIds, Talk, Once, NEW h \in Handle, CallerStep(h)
    PROVE  Talk' /\ Once'
  BY TalkCallerQuiet, TalkSend, TalkRecv

\* A frame that carries no message.
LEMMA TransmitKeeps ==
    ASSUME TypeOK, Once, NEW e \in Envelope, e.type # "Mcp", Transmit(<<e>>)
    PROVE  Messages(toGuest') \subseteq Messages(toGuest) /\ Rising(toGuest')
  <1>1. toGuest \in Seq(Envelope) /\ Rising(toGuest)
    BY DEF TypeOK, Once
  <1>2. toGuest' = toGuest \/ toGuest' = toGuest \o <<e>>
    BY DEF Transmit
  <1> QED BY <1>1, <1>2, FramesLast

LEMMA ReplyKeeps ==
    ASSUME TypeOK, Once, toHost # <<>>, NEW frames, Reply(frames),
           frames = <<>> \/ \E e \in Envelope : e.type # "Mcp" /\ frames = <<e>>
    PROVE  /\ Messages(toHost') \subseteq Messages(toHost)
           /\ Messages(toGuest') \subseteq Messages(toGuest) /\ Rising(toGuest')
  <1>1. toGuest \in Seq(Envelope) /\ toHost \in Seq(Envelope) /\ Rising(toGuest)
    BY DEF TypeOK, Once
  <1>2. toHost' = Tail(toHost)
    BY DEF Reply
  <1>3. toGuest' = toGuest \/ toGuest' = toGuest \o frames
    BY DEF Reply
  <1>4. Messages(toHost') \subseteq Messages(toHost)
    BY <1>1, <1>2, FramesTail
  <1>5. CASE frames = <<>>
    BY <1>1, <1>3, <1>4, <1>5, EnvelopeNone
  <1>6. CASE \E e \in Envelope : e.type # "Mcp" /\ frames = <<e>>
    <2>1. PICK e \in Envelope : e.type # "Mcp" /\ frames = <<e>>
      BY <1>6
    <2>2. toGuest' = toGuest \/ toGuest' = toGuest \o <<e>>
      BY <1>3, <2>1
    <2>3. e.type # "Mcp"
      BY <2>1
    <2> QED BY <1>1, <1>4, <2>2, <2>3, FramesLast
  <1> QED BY <1>5, <1>6

\* The loop sends the next message on, or drops it with the channel.
LEMMA TalkLoopData ==
    ASSUME TypeOK, Talk, Once, LoopData
    PROVE  Talk' /\ Once'
  <1> DEFINE e == Head(outgoing)
  <1>1. outgoing \in Seq(Envelope) /\ outgoing # <<>> /\ outgoing' = Tail(outgoing)
        /\ toGuest \in Seq(Envelope) /\ Transmit(<<e>>) /\ Rising(outgoing) /\ Rising(toGuest)
    BY DEF LoopData, TypeOK, Once
  <1>2. /\ e \in Envelope /\ e \in Frames(outgoing) /\ Messages(outgoing') \subseteq Messages(outgoing)
        /\ Rising(outgoing')
        /\ e.type = "Mcp" => e \in Messages(outgoing) /\ \A f \in Messages(outgoing') : e.body < f.body
    BY <1>1, EnvelopeTail, FramesTail
  <1> HIDE DEF e
  <1>3. UNCHANGED <<attachment, active, toHost, hs, owner, rcvd, runs>>
    BY DEF LoopData, guestVars, handleVars, ghostVars
  <1>4. toGuest' = toGuest \/ toGuest' = toGuest \o <<e>>
    BY <1>1 DEF Transmit
  <1>5. \A f \in Messages(toGuest') : f \in Messages(toGuest) \/ (f = e /\ e.type = "Mcp")
    <2>1. CASE toGuest' = toGuest
      BY <2>1
    <2>2. CASE toGuest' = toGuest \o <<e>> /\ e.type = "Mcp"
      BY <1>1, <1>2, <2>2, FramesLast
    <2>3. CASE toGuest' = toGuest \o <<e>> /\ e.type # "Mcp"
      BY <1>1, <1>2, <2>3, FramesLast
    <2> QED BY <1>4, <2>1, <2>2, <2>3
  <1>6. Rising(toGuest')
    <2>1. e.type = "Mcp" => \A f \in Messages(toGuest) : f.body < e.body
      BY <1>2 DEF Once
    <2> QED BY <1>1, <1>2, <1>4, <2>1, FramesLast
  <1>7. \A m, id : Owned(m, id) => OwnedNext(m, id)
    BY <1>3 DEF Owned, OwnedNext
  <1>8. Talk'
    <2>1. \A f \in Messages(toGuest') : OwnedNext(f.body, f.id)
      BY <1>2, <1>5, <1>7 DEF Talk
    <2>2. \A f \in Messages(outgoing') : OwnedNext(f.body, f.id)
      BY <1>2, <1>7 DEF Talk
    <2>3. /\ \A f \in Messages(toHost') : OwnedNext(f.body, f.id)
          /\ \A k \in active'.work : OwnedNext(k, active'.id)
          /\ \A k \in Members(active'.input) : OwnedNext(k, active'.id)
          /\ \A k \in Members(active'.output) : OwnedNext(k, active'.id)
          /\ \A k \in Members(attachment'.output) : OwnedNext(k, attachment'.id)
      BY <1>3, <1>7 DEF Talk
    <2>4. \A g \in Handle : \A k \in Members(rcvd'[g]) : k \in DOMAIN owner' /\ owner'[k] = g
      BY <1>3 DEF Talk
    <2> QED BY <2>1, <2>2, <2>3, <2>4 DEF Talk, Owned, OwnedNext
  <1>9. Once'
    <2>1. Begun' = Begun
      BY <1>3 DEF Begun
    <2>2. \A f \in Messages(toGuest') : f \in Messages(toGuest) \/ (f = e /\ e \in Messages(outgoing))
      BY <1>2, <1>5
    <2>3. /\ \A m \in Begun, f \in Messages(toGuest') : m < f.body
          /\ \A m \in Members(active.input), f \in Messages(toGuest') : m < f.body
      BY <2>2 DEF Once
    <2>4. \A d \in Messages(toGuest'), f \in Messages(outgoing') : d.body < f.body
      <3> TAKE d \in Messages(toGuest'), f \in Messages(outgoing')
      <3>1. CASE d \in Messages(toGuest)
        BY <3>1, <1>2 DEF Once
      <3>2. CASE d = e
        BY <3>2, <1>2, <1>5, <2>2 DEF Messages
      <3> QED BY <3>1, <3>2, <2>2
    <2> QED BY <1>2, <1>3, <1>6, <2>1, <2>3, <2>4 DEF Once
  <1> QED BY <1>8, <1>9

\* The processor gives the message to its attachment.
LEMMA TalkDelivered ==
    ASSUME TypeOK, Talk, Once, toHost # <<>>, NEW e, e = Head(toHost), e.type = "Mcp", Addressed(e),
           attachment' = [attachment EXCEPT !.output = Append(@, e.body)], Reply(<<>>),
           UNCHANGED <<outgoing, active, hs, owner, rcvd, runs>>
    PROVE  Talk' /\ Once'
  <1>1. toHost \in Seq(Envelope) /\ attachment \in Attachments /\ attachment.output \in Seq(Nat)
    BY DEF TypeOK, Attachments
  <1>2. e \in Envelope /\ e \in Messages(toHost) /\ e.body \in Nat
    BY <1>1, EnvelopeTail, FramesTail DEF Envelope
  <1>3. Append(attachment.output, e.body) \in Seq(Nat)
        /\ Members(Append(attachment.output, e.body)) = Members(attachment.output) \cup {e.body}
    BY <1>1, <1>2, MembersLast, NumberLast
  <1>4. attachment'.id = attachment.id /\ attachment'.output = Append(attachment.output, e.body)
    BY <1>1, <1>3, AttachmentOutput
  <1>5. /\ Messages(toHost') \subseteq Messages(toHost)
        /\ Messages(toGuest') \subseteq Messages(toGuest) /\ Rising(toGuest')
    BY ReplyKeeps
  <1>6. \A m, id : Owned(m, id) => OwnedNext(m, id)
    BY DEF Owned, OwnedNext
  <1>7. Owned(e.body, attachment.id)
    BY <1>2 DEF Talk, Addressed
  <1>8. Talk'
    <2>1. \A k \in Members(attachment'.output) : OwnedNext(k, attachment'.id)
      BY <1>3, <1>4, <1>6, <1>7 DEF Talk
    <2>2. /\ \A f \in Messages(outgoing') : OwnedNext(f.body, f.id)
          /\ \A f \in Messages(toGuest') : OwnedNext(f.body, f.id)
          /\ \A f \in Messages(toHost') : OwnedNext(f.body, f.id)
      BY <1>5, <1>6 DEF Talk
    <2>3. /\ \A k \in active'.work : OwnedNext(k, active'.id)
          /\ \A k \in Members(active'.input) : OwnedNext(k, active'.id)
          /\ \A k \in Members(active'.output) : OwnedNext(k, active'.id)
          /\ \A g \in Handle : \A k \in Members(rcvd'[g]) : k \in DOMAIN owner' /\ owner'[k] = g
      BY <1>6 DEF Talk
    <2> QED BY <2>1, <2>2, <2>3 DEF Talk, Owned, OwnedNext
  <1>9. Once'
    BY <1>5 DEF Once, Begun
  <1> QED BY <1>8, <1>9

\* Everything else that the processor does takes messages away.
LEMMA TalkProcess ==
    ASSUME TypeOK, Talk, Once, toHost # <<>>, Process(Head(toHost)),
           UNCHANGED <<active, hs, owner, rcvd, runs>>
    PROVE  Talk' /\ Once'
  <1> DEFINE e == Head(toHost)
  <1>0. e \in Envelope /\ e.id \in Nat /\ e.run \in Nat /\ attachment \in Attachments
    BY EnvelopeTail DEF TypeOK, Envelope, Attachments
  <1>1. Process(e)
    OBVIOUS
  <1> HIDE DEF e
  <1>2. ASSUME AttachmentKeeps, Messages(outgoing') \subseteq Messages(outgoing), Rising(outgoing'),
               NEW frames, Reply(frames),
               frames = <<>> \/ \E x \in Envelope : x.type # "Mcp" /\ frames = <<x>>
        PROVE  Talk' /\ Once'
    <2>1. QueuesKeep
      BY <1>2, ReplyKeeps DEF QueuesKeep
    <2>2. IdsStay /\ GuestKeeps
      BY DEF IdsStay, GuestKeeps
    <2> QED BY <1>2, <2>1, <2>2, TalkQuiet
  <1>3. attachment' = attachment \/ attachment' = NoAttachment => AttachmentKeeps
    BY NoAttachmentIs DEF AttachmentKeeps
  <1>4. outgoing' = outgoing \/ outgoing' = <<>>
            => Messages(outgoing') \subseteq Messages(outgoing) /\ Rising(outgoing')
    BY FramesNone DEF Once
  <1>5. CASE Start
    <2>1. "Hello" \in MessageType
      BY DEF MessageType
    <2>2. Env("Hello", 0, 0, 0, NoBody) \in Envelope /\ Env("Hello", 0, 0, 0, NoBody).type # "Mcp"
      BY <2>1 DEF Env, Envelope, NoBody
    <2>3. Reply(<<Env("Hello", 0, 0, 0, NoBody)>>) /\ outgoing' = <<>> /\ attachment' = NoAttachment
      BY <1>5 DEF Start
    <2> QED BY <1>2, <1>3, <1>4, <2>2, <2>3
  <1>6. CASE Reply(<<>>) /\ UNCHANGED stateVars
    BY <1>2, <1>3, <1>4, <1>6 DEF stateVars
  <1>7. CASE ProcessReady(e) \/ ProcessOther(e)
    BY <1>2, <1>3, <1>4, <1>7 DEF ProcessReady, ProcessOther
  <1>8. CASE ProcessOpened(e)
    <2>1. attachment'.id = attachment.id /\ attachment'.output = attachment.output
      BY <1>0, <1>8, AttachmentRun DEF ProcessOpened
    <2>2. Reply(<<>>) /\ outgoing' = outgoing
      BY <1>8 DEF ProcessOpened
    <2>3. AttachmentKeeps
      BY <2>1 DEF AttachmentKeeps
    <2> QED BY <1>2, <1>4, <2>2, <2>3
  <1>9. CASE ProcessClosed(e)
    BY <1>2, <1>3, <1>4, <1>9 DEF ProcessClosed, Closing
  <1>10. CASE ProcessMcp(e)
    <2>1. e.type = "Mcp" /\ UNCHANGED outgoing
      BY <1>10 DEF ProcessMcp
    <2>2. CASE /\ Addressed(e) /\ Reply(<<>>)
               /\ attachment' = [attachment EXCEPT !.output = Append(@, e.body)]
      BY <2>1, <2>2, TalkDelivered DEF e
    <2>3. CASE attachment' = Closing(e.id) /\ Reply(<<Env("Close", 0, e.id, 0, NoBody)>>)
      <3>1. "Close" \in MessageType
        BY DEF MessageType
      <3>2. Env("Close", 0, e.id, 0, NoBody) \in Envelope /\ Env("Close", 0, e.id, 0, NoBody).type # "Mcp"
        BY <1>0, <3>1 DEF Env, Envelope, NoBody
      <3>3. attachment' = attachment \/ attachment' = NoAttachment
        BY <2>3 DEF Closing
      <3> QED BY <1>2, <1>3, <1>4, <2>1, <2>3, <3>2, <3>3
    <2>4. CASE Reply(<<>>) /\ UNCHANGED attachment
      BY <1>2, <1>3, <1>4, <2>1, <2>4
    <2> QED BY <1>10, <2>2, <2>3, <2>4 DEF ProcessMcp
  <1> QED BY <1>1, <1>5, <1>6, <1>7, <1>8, <1>9, <1>10 DEF Process

LEMMA TalkLoop ==
    ASSUME TypeOK, HandleIds, Talk, Once, LoopStep \/ LoopEnds
    PROVE  Talk' /\ Once'
  <1>0. Rising(outgoing) /\ Rising(toGuest)
    BY DEF Once
  <1>1. ASSUME NEW e \in Envelope, e.type # "Mcp", Transmit(<<e>>),
               UNCHANGED <<outgoing, attachment, active, toHost, hs, owner, rcvd, runs>>
        PROVE  Talk' /\ Once'
    <2>1. QueuesKeep
      BY <1>0, <1>1, TransmitKeeps DEF QueuesKeep
    <2>2. IdsStay /\ GuestKeeps /\ AttachmentKeeps
      BY <1>1 DEF IdsStay, GuestKeeps, AttachmentKeeps
    <2> QED BY <1>1, <2>1, <2>2, TalkQuiet
  <1>2. CASE LoopRetire
    <2>1. retire \in Nat /\ "Close" \in MessageType
      BY DEF TypeOK, MessageType
    <2>2. Env("Close", 0, retire, 0, NoBody) \in Envelope /\ Env("Close", 0, retire, 0, NoBody).type # "Mcp"
      BY <2>1 DEF Env, Envelope, NoBody
    <2>3. /\ Transmit(<<Env("Close", 0, retire, 0, NoBody)>>)
          /\ UNCHANGED <<outgoing, attachment, active, toHost, hs, owner, rcvd, runs>>
      BY <1>2 DEF LoopRetire, stateVars, guestVars, handleVars, ghostVars
    <2> QED BY <1>1, <2>2, <2>3
  <1>3. CASE LoopCommand
    <2>1. inputQ \in Seq(Envelope) /\ inputQ # <<>> /\ Messages(inputQ) = {}
      BY <1>3 DEF LoopCommand, TypeOK, HandleIds
    <2>2. Head(inputQ) \in Envelope /\ Head(inputQ).type # "Mcp"
      BY <2>1, EnvelopeTail, FramesTail
    <2>3. /\ Transmit(<<Head(inputQ)>>)
          /\ UNCHANGED <<outgoing, attachment, active, toHost, hs, owner, rcvd, runs>>
      BY <1>3 DEF LoopCommand, stateVars, guestVars, handleVars, ghostVars
    <2> QED BY <1>1, <2>2, <2>3
  <1>4. CASE LoopData
    BY <1>4, TalkLoopData
  <1>5. CASE LoopRead
    BY <1>5, TalkProcess DEF LoopRead, guestVars
  <1>6. CASE CheckLiveness \/ LoopEnds
    <2>1. /\ outgoing' = <<>> /\ attachment' = NoAttachment
          /\ UNCHANGED <<active, toGuest, toHost, hs, owner, rcvd, runs>>
      BY <1>6 DEF CheckLiveness, LoopEnds, Invalidate, guestVars, wireVars, channelVars, handleVars, ghostVars
    <2>2. IdsStay /\ GuestKeeps /\ AttachmentKeeps
      BY <2>1, NoAttachmentIs DEF IdsStay, GuestKeeps, AttachmentKeeps
    <2>3. QueuesKeep
      BY <1>0, <2>1, FramesNone DEF QueuesKeep
    <2> QED BY <2>1, <2>2, <2>3, TalkQuiet
  <1>7. CASE LoopPasses
    <2>1. UNCHANGED <<outgoing, attachment, active, toGuest, toHost, hs, owner, rcvd, runs>>
      BY <1>7 DEF LoopPasses, bridgeVars, stateVars, guestVars, channelVars, handleVars
    <2>2. IdsStay /\ GuestKeeps /\ AttachmentKeeps
      BY <2>1 DEF IdsStay, GuestKeeps, AttachmentKeeps
    <2>3. QueuesKeep
      BY <1>0, <2>1 DEF QueuesKeep
    <2> QED BY <2>1, <2>2, <2>3, TalkQuiet
  <1> QED BY <1>2, <1>3, <1>4, <1>5, <1>6, <1>7 DEF LoopStep

-----------------------------------------------------------------------------
(* NoCrossTalk: the guest *)

\* A frame of the guest that carries no message.
LEMMA EmitKeeps ==
    ASSUME TypeOK, NEW frames, Emit(frames),
           frames = <<>> \/ \E e \in Envelope : e.type # "Mcp" /\ frames = <<e>>
    PROVE  Messages(toHost') \subseteq Messages(toHost)
  <1>1. toHost \in Seq(Envelope) /\ toHost' = toHost \o frames
    BY DEF TypeOK, Emit
  <1>2. CASE frames = <<>>
    BY <1>1, <1>2, EnvelopeNone
  <1>3. CASE \E e \in Envelope : e.type # "Mcp" /\ frames = <<e>>
    <2>1. PICK e \in Envelope : e.type # "Mcp" /\ frames = <<e>>
      BY <1>3
    <2>2. toHost' = toHost \o <<e>> /\ e.type # "Mcp"
      BY <1>1, <2>1
    <2> QED BY <1>1, <2>2, FramesLast
  <1> QED BY <1>2, <1>3

\* The guest takes a message for its child.
LEMMA TalkTaken ==
    ASSUME TypeOK, Talk, Once, toGuest # <<>>, NEW e, e = Head(toGuest), e.type = "Mcp", ToChild(e),
           active' = [active EXCEPT !.input = Append(@, e.body)], Emit(<<>>),
           toGuest' = Tail(toGuest), UNCHANGED <<outgoing, attachment, hs, owner, rcvd, runs>>
    PROVE  Talk' /\ Once'
  <1>1. /\ toGuest \in Seq(Envelope) /\ active \in Actives /\ active.input \in Seq(Nat)
        /\ Rising(toGuest) /\ Increasing(active.input)
    BY DEF TypeOK, Actives, Once
  <1>2. /\ e \in Envelope /\ e \in Messages(toGuest) /\ e.body \in Nat
        /\ Messages(toGuest') \subseteq Messages(toGuest) /\ Rising(toGuest')
        /\ \A f \in Messages(toGuest') : e.body < f.body
    BY <1>1, EnvelopeTail, FramesTail DEF Envelope
  <1>3. /\ Append(active.input, e.body) \in Seq(Nat)
        /\ Members(Append(active.input, e.body)) = Members(active.input) \cup {e.body}
        /\ Increasing(Append(active.input, e.body))
    <2>1. \A m \in Members(active.input) : m < e.body
      BY <1>2 DEF Once
    <2> QED BY <1>1, <1>2, <2>1, MembersLast, NumberLast
  <1>4. /\ active'.id = active.id /\ active'.work = active.work /\ active'.output = active.output
        /\ active'.input = Append(active.input, e.body)
    BY <1>1, <1>3, ActiveInput
  <1>5. Messages(toHost') \subseteq Messages(toHost)
    BY EmitKeeps
  <1>6. \A m, id : Owned(m, id) => OwnedNext(m, id)
    BY DEF Owned, OwnedNext
  <1>7. Owned(e.body, active.id)
    BY <1>2 DEF Talk, ToChild
  <1>8. Talk'
    <2>1. /\ \A f \in Messages(outgoing') : OwnedNext(f.body, f.id)
          /\ \A f \in Messages(toGuest') : OwnedNext(f.body, f.id)
          /\ \A f \in Messages(toHost') : OwnedNext(f.body, f.id)
      BY <1>2, <1>5, <1>6 DEF Talk
    <2>2. \A k \in Members(active'.input) : OwnedNext(k, active'.id)
      BY <1>3, <1>4, <1>6, <1>7 DEF Talk
    <2>3. /\ \A k \in active'.work : OwnedNext(k, active'.id)
          /\ \A k \in Members(active'.output) : OwnedNext(k, active'.id)
      BY <1>4, <1>6 DEF Talk
    <2>4. /\ \A k \in Members(attachment'.output) : OwnedNext(k, attachment'.id)
          /\ \A g \in Handle : \A k \in Members(rcvd'[g]) : k \in DOMAIN owner' /\ owner'[k] = g
      BY <1>6 DEF Talk
    <2> QED BY <2>1, <2>2, <2>3, <2>4 DEF Talk, Owned, OwnedNext
  <1>9. Once'
    <2>1. Begun' = Begun
      BY DEF Begun
    <2>2. Members(active'.input) = Members(active.input) \cup {e.body} /\ Increasing(active'.input)
      BY <1>3, <1>4
    <2>3. \A m \in Begun, k \in Members(active'.input) : m < k
      BY <1>2, <2>2 DEF Once
    <2>4. \A m \in Members(active'.input), f \in Messages(toGuest') : m < f.body
      BY <1>2, <2>2 DEF Once
    <2>5. \A m \in Members(active'.input), f \in Messages(outgoing') : m < f.body
      BY <1>2, <2>2 DEF Once
    <2> QED BY <1>2, <2>1, <2>2, <2>3, <2>4, <2>5 DEF Once
  <1> QED BY <1>8, <1>9

\* Every other message that the guest reads takes messages away, or none.
LEMMA TalkGuestReads ==
    ASSUME TypeOK, Talk, Once, GuestReads
    PROVE  Talk' /\ Once'
  <1> DEFINE e == Head(toGuest)
  <1>1. /\ toGuest \in Seq(Envelope) /\ toGuest # <<>> /\ toGuest' = Tail(toGuest) /\ GuestHandle(e)
        /\ UNCHANGED <<outgoing, attachment, hs, owner, rcvd, runs>>
    BY DEF GuestReads, GuestHandle, TypeOK, bridgeVars, stateVars, handleVars, ghostVars
  <1>2. e \in Envelope /\ e.ctl \in Nat /\ e.id \in Nat
    BY <1>1, EnvelopeTail DEF Envelope
  <1>3. Messages(toGuest') \subseteq Messages(toGuest) /\ Rising(toGuest')
    BY <1>1, FramesTail DEF Once
  <1> HIDE DEF e
  <1>4. Rising(outgoing) /\ runGen \in Nat
    BY DEF Once, TypeOK
  <1>5. ASSUME GuestKeeps, NEW frames, Emit(frames),
               frames = <<>> \/ \E x \in Envelope : x.type # "Mcp" /\ frames = <<x>>
        PROVE  Talk' /\ Once'
    <2>1. Messages(toHost') \subseteq Messages(toHost)
      BY <1>5, EmitKeeps
    <2>2. QueuesKeep /\ IdsStay /\ AttachmentKeeps
      BY <1>1, <1>3, <1>4, <2>1 DEF QueuesKeep, IdsStay, AttachmentKeeps
    <2> QED BY <1>1, <1>5, <2>2, TalkQuiet
  <1>6. ASSUME NEW type \in MessageType \ {"Mcp"}, NEW ctl \in Nat, NEW id \in Nat, NEW run \in Nat
        PROVE  \E x \in Envelope : x.type # "Mcp" /\ <<Env(type, ctl, id, run, NoBody)>> = <<x>>
    BY <1>6 DEF Env, Envelope, NoBody
  <1>7. "Ready" \in MessageType /\ "Error" \in MessageType /\ "Opened" \in MessageType /\ "Closed" \in MessageType
    BY DEF MessageType
  <1>8. active' = active \/ active' = NoActive => GuestKeeps
    BY NoActiveIs DEF GuestKeeps
  <1>9. CASE GuestHello(e)
    <2>1. Emit(<<Env("Ready", e.ctl, 0, 0, NoBody)>>) /\ active' = active
      BY <1>9 DEF GuestHello
    <2> QED BY <1>2, <1>5, <1>6, <1>7, <1>8, <2>1
  <1>10. CASE Emit(Refuse(e)) /\ active' = active
    BY <1>2, <1>5, <1>6, <1>7, <1>8, <1>10 DEF Refuse
  <1>11. CASE GuestOpen(e)
    <2>1. CASE /\ active' = [NoActive EXCEPT !.id = e.id, !.run = runGen', !.alive = TRUE]
               /\ runGen' = runGen + 1
               /\ Emit(<<Env("Opened", e.ctl, e.id, runGen', NoBody)>>)
      <3>1. runGen' \in Nat
        BY <1>4, <2>1
      <3>2. active'.work = {} /\ active'.input = <<>> /\ active'.output = <<>>
        BY <1>2, <2>1, <3>1, ActiveBegun
      <3>3. GuestKeeps
        BY <3>2 DEF GuestKeeps
      <3>4. \E x \in Envelope : x.type # "Mcp" /\ <<Env("Opened", e.ctl, e.id, runGen', NoBody)>> = <<x>>
        BY <1>2, <1>7, <3>1 DEF Env, Envelope, NoBody
      <3> QED BY <1>5, <2>1, <3>3, <3>4
    <2> QED BY <1>10, <1>11, <2>1 DEF GuestOpen
  <1>12. CASE GuestMcp(e)
    <2>1. CASE ToChild(e) /\ active' = [active EXCEPT !.input = Append(@, e.body)] /\ Emit(<<>>)
      <3>1. e.type = "Mcp"
        BY <1>12 DEF GuestMcp
      <3> QED BY <1>1, <2>1, <3>1, TalkTaken DEF e
    <2>2. CASE active' = NoActive /\ Emit(<<Env("Closed", 0, e.id, 0, NoBody)>>)
      BY <1>2, <1>5, <1>6, <1>7, <1>8, <2>2
    <2>3. CASE active' = active /\ Emit(<<>>)
      BY <1>5, <1>8, <2>3
    <2> QED BY <1>12, <2>1, <2>2, <2>3 DEF GuestMcp
  <1>13. CASE GuestClose(e)
    <2>1. CASE active' = NoActive /\ Emit(<<Env("Closed", e.ctl, e.id, 0, NoBody)>>)
      BY <1>2, <1>5, <1>6, <1>7, <1>8, <2>1
    <2>2. CASE active' = active /\ Emit(<<>>)
      BY <1>5, <1>8, <2>2
    <2> QED BY <1>13, <2>1, <2>2 DEF GuestClose
  <1>14. CASE GuestTransfer(e)
    <2>1. CASE Emit(<<>>) /\ active' = active
      BY <1>5, <1>8, <2>1
    <2> QED BY <1>10, <1>14, <2>1 DEF GuestTransfer
  <1>15. CASE GuestUnready(e)
    BY <1>10, <1>15 DEF GuestUnready
  <1> QED BY <1>1, <1>9, <1>11, <1>12, <1>13, <1>14, <1>15 DEF GuestHandle

\* The child begins to work on the first message that waits.
LEMMA TalkChildWorks ==
    ASSUME TypeOK, Talk, Once, ChildWorks
    PROVE  Talk' /\ Once'
  <1> DEFINE m == Head(active.input)
  <1>1. /\ active \in Actives /\ active.input \in Seq(Nat) /\ active.input # <<>> /\ Increasing(active.input)
        /\ active.work \in SUBSET Nat /\ runs \in [Mcp -> Nat]
    BY DEF TypeOK, Actives, Once, ChildWorks, ChildTakes
  <1>2. /\ m \in Nat /\ m \in Members(active.input) /\ Tail(active.input) \in Seq(Nat)
        /\ Members(Tail(active.input)) \subseteq Members(active.input)
        /\ Increasing(Tail(active.input)) /\ \A k \in Members(Tail(active.input)) : m < k
    BY <1>1, NumberTail, MembersTail
  <1>3. /\ active' = [active EXCEPT !.input = Tail(active.input), !.work = active.work \cup {m}]
        /\ runs' = [runs EXCEPT ![m] = runs[m] + 1]
        /\ UNCHANGED <<outgoing, attachment, toGuest, toHost, hs, owner, rcvd>>
    BY DEF ChildWorks, ChildTakes, bridgeVars, stateVars, wireVars, channelVars
  <1> HIDE DEF m
  <1>4. active.work \cup {m} \in SUBSET Nat
    BY <1>1, <1>2
  <1>5. /\ active'.id = active.id /\ active'.work = active.work \cup {m}
        /\ active'.input = Tail(active.input) /\ active'.output = active.output
    <2>1. active' = [active EXCEPT !.input = Tail(active.input), !.work = active.work \cup {m}]
      BY <1>3
    <2>2. active \in Actives /\ Tail(active.input) \in Seq(Nat)
      BY <1>1, <1>2
    <2> QED BY <1>4, <2>1, <2>2, ActiveTakes
  <1>6. \A k, id : Owned(k, id) => OwnedNext(k, id)
    BY <1>3 DEF Owned, OwnedNext
  <1>7. Talk'
    <2>1. /\ \A k \in active'.work : OwnedNext(k, active'.id)
          /\ \A k \in Members(active'.input) : OwnedNext(k, active'.id)
          /\ \A k \in Members(active'.output) : OwnedNext(k, active'.id)
      BY <1>2, <1>5, <1>6 DEF Talk
    <2>2. /\ \A f \in Messages(outgoing') : OwnedNext(f.body, f.id)
          /\ \A f \in Messages(toGuest') : OwnedNext(f.body, f.id)
          /\ \A f \in Messages(toHost') : OwnedNext(f.body, f.id)
          /\ \A k \in Members(attachment'.output) : OwnedNext(k, attachment'.id)
          /\ \A g \in Handle : \A k \in Members(rcvd'[g]) : k \in DOMAIN owner' /\ owner'[k] = g
      BY <1>3, <1>6 DEF Talk
    <2> QED BY <2>1, <2>2 DEF Talk, Owned, OwnedNext
  <1>8. m \in DOMAIN owner
    BY <1>2 DEF Talk, Owned
  <1>9. m \notin Begun
    BY <1>2 DEF Once
  <1>10. /\ \A k \in Mcp : k # m => runs'[k] = runs[k]
         /\ m \in Mcp => runs'[m] = 1
    BY <1>1, <1>3, <1>9 DEF Begun
  <1>11. Begun' \subseteq Begun \cup {m}
    BY <1>10 DEF Begun
  <1>12. \A k \in Mcp : runs'[k] <= 1
    BY <1>10 DEF Once
  <1>13. Once'
    <2>1. Begun' \subseteq DOMAIN owner'
      BY <1>3, <1>8, <1>11 DEF Once
    <2>2. \A b \in Begun', k \in Members(active'.input) : b < k
      BY <1>2, <1>5, <1>11 DEF Once
    <2>3. /\ \A b \in Begun', f \in Messages(toGuest') : b < f.body
          /\ \A b \in Begun', f \in Messages(outgoing') : b < f.body
      BY <1>2, <1>3, <1>11 DEF Once
    <2>4. /\ \A k \in Members(active'.input), f \in Messages(toGuest') : k < f.body
          /\ \A k \in Members(active'.input), f \in Messages(outgoing') : k < f.body
          /\ \A f \in Messages(toGuest'), g \in Messages(outgoing') : f.body < g.body
      BY <1>2, <1>3, <1>5 DEF Once
    <2>5. Rising(outgoing') /\ Rising(toGuest') /\ Increasing(active'.input)
      BY <1>2, <1>3, <1>5 DEF Once
    <2> QED BY <1>12, <2>1, <2>2, <2>3, <2>4, <2>5 DEF Once
  <1> QED BY <1>7, <1>13

\* The child answers what it works on, or it ends.
LEMMA TalkChildStep ==
    ASSUME TypeOK, Talk, Once, ChildStep
    PROVE  Talk' /\ Once'
  <1>1. /\ active \in Actives /\ active.output \in Seq(Nat) /\ active.work \in SUBSET Nat
        /\ UNCHANGED <<outgoing, attachment, toGuest, toHost, hs, owner, rcvd, runs>>
    BY DEF TypeOK, Actives, ChildStep, bridgeVars, stateVars, wireVars, channelVars, handleVars, ghostVars
  <1>2. \A k, id : Owned(k, id) => OwnedNext(k, id)
    BY <1>1 DEF Owned, OwnedNext
  <1>3. ASSUME active' = [active EXCEPT !.work = {}, !.input = <<>>, !.alive = FALSE]
        PROVE  Talk' /\ Once'
    <2>1. active'.id = active.id /\ active'.work = {} /\ active'.input = <<>> /\ active'.output = active.output
      BY <1>1, <1>3, ActiveEnds
    <2>2. GuestKeeps /\ IdsStay /\ AttachmentKeeps /\ QueuesKeep
      BY <1>1, <2>1 DEF GuestKeeps, IdsStay, AttachmentKeeps, QueuesKeep, Once
    <2> QED BY <1>1, <2>2, TalkQuiet
  <1>4. ASSUME NEW m \in Mcp, m \in active.work,
               active' = [active EXCEPT !.work = @ \ {m}, !.output = Append(@, m)]
        PROVE  Talk' /\ Once'
    <2>1. m \in Nat /\ active.work \ {m} \in SUBSET Nat
      BY <1>1, <1>4
    <2>2. /\ Append(active.output, m) \in Seq(Nat)
          /\ Members(Append(active.output, m)) = Members(active.output) \cup {m}
      BY <1>1, <2>1, NumberLast, MembersLast
    <2>3. active' = [active EXCEPT !.work = active.work \ {m}, !.output = Append(active.output, m)]
      BY <1>4
    <2>4. /\ active'.id = active.id /\ active'.input = active.input
          /\ active'.work = active.work \ {m} /\ active'.output = Append(active.output, m)
      BY <1>1, <2>1, <2>2, <2>3, ActiveAnswers
    <2>5. /\ \A k \in active'.work : OwnedNext(k, active'.id)
          /\ \A k \in Members(active'.input) : OwnedNext(k, active'.id)
          /\ \A k \in Members(active'.output) : OwnedNext(k, active'.id)
      BY <1>2, <1>4, <2>2, <2>4 DEF Talk
    <2>6. Talk'
      <3>1. /\ \A f \in Messages(outgoing') : OwnedNext(f.body, f.id)
            /\ \A f \in Messages(toGuest') : OwnedNext(f.body, f.id)
            /\ \A f \in Messages(toHost') : OwnedNext(f.body, f.id)
            /\ \A k \in Members(attachment'.output) : OwnedNext(k, attachment'.id)
            /\ \A g \in Handle : \A k \in Members(rcvd'[g]) : k \in DOMAIN owner' /\ owner'[k] = g
        BY <1>1, <1>2 DEF Talk
      <3> QED BY <2>5, <3>1 DEF Talk, Owned, OwnedNext
    <2>7. Once'
      BY <1>1, <2>4 DEF Once, Begun
    <2> QED BY <2>6, <2>7
  <1> QED BY <1>3, <1>4 DEF ChildStep, ChildAnswers, ChildEnds

\* The guest passes an answer on, or tells that the child has ended.
LEMMA TalkGuestWrites ==
    ASSUME TypeOK, Talk, Once, GuestWrites
    PROVE  Talk' /\ Once'
  <1>1. /\ active \in Actives /\ active.output \in Seq(Nat) /\ active.id \in Nat /\ active.run \in Nat
        /\ toHost \in Seq(Envelope)
        /\ UNCHANGED <<outgoing, attachment, toGuest, hs, owner, rcvd, runs>>
    BY DEF TypeOK, Actives, GuestWrites, bridgeVars, stateVars, handleVars, ghostVars
  <1>2. \A k, id : Owned(k, id) => OwnedNext(k, id)
    BY <1>1 DEF Owned, OwnedNext
  <1>3. CASE Emit(<<Env("Closed", 0, active.id, 0, NoBody)>>) /\ active' = NoActive
    <2>1. "Closed" \in MessageType
      BY DEF MessageType
    <2>2. \E x \in Envelope : x.type # "Mcp" /\ <<Env("Closed", 0, active.id, 0, NoBody)>> = <<x>>
      BY <1>1, <2>1 DEF Env, Envelope, NoBody
    <2>3. Messages(toHost') \subseteq Messages(toHost)
      BY <1>3, <2>2, EmitKeeps
    <2>4. GuestKeeps
      BY <1>3, NoActiveIs DEF GuestKeeps
    <2>5. IdsStay /\ AttachmentKeeps /\ QueuesKeep
      BY <1>1, <2>3 DEF IdsStay, AttachmentKeeps, QueuesKeep, Once
    <2> QED BY <1>1, <2>4, <2>5, TalkQuiet
  <1>4. CASE /\ active.output # <<>>
             /\ Emit(<<Env("Mcp", 0, active.id, active.run, Head(active.output))>>)
             /\ active' = [active EXCEPT !.output = Tail(@)]
    <2> DEFINE e == Env("Mcp", 0, active.id, active.run, Head(active.output))
    <2>1. /\ Head(active.output) \in Nat /\ Head(active.output) \in Members(active.output)
          /\ Tail(active.output) \in Seq(Nat) /\ Members(Tail(active.output)) \subseteq Members(active.output)
      BY <1>1, <1>4, NumberTail, MembersTail
    <2>2. "Mcp" \in MessageType
      BY DEF MessageType
    <2>3. e \in Envelope /\ e.type = "Mcp" /\ e.id = active.id /\ e.body = Head(active.output)
      BY <1>1, <2>1, <2>2 DEF Env, Envelope
    <2>4. toHost' = toHost \o <<e>>
      BY <1>4 DEF Emit
    <2> HIDE DEF e
    <2>5. Messages(toHost') = Messages(toHost) \cup {e}
      BY <1>1, <2>3, <2>4, FramesLast
    <2>6. active' = [active EXCEPT !.output = Tail(active.output)]
      BY <1>4
    <2>7. /\ active'.id = active.id /\ active'.input = active.input /\ active'.work = active.work
          /\ active'.output = Tail(active.output)
      BY <1>1, <2>1, <2>6, ActiveOutput
    <2>8. \A f \in Messages(toHost') : OwnedNext(f.body, f.id)
      BY <1>2, <2>1, <2>3, <2>5 DEF Talk
    <2>9. /\ \A k \in active'.work : OwnedNext(k, active'.id)
          /\ \A k \in Members(active'.input) : OwnedNext(k, active'.id)
          /\ \A k \in Members(active'.output) : OwnedNext(k, active'.id)
      BY <1>2, <2>1, <2>7 DEF Talk
    <2>10. Talk'
      <3>1. /\ \A f \in Messages(outgoing') : OwnedNext(f.body, f.id)
            /\ \A f \in Messages(toGuest') : OwnedNext(f.body, f.id)
            /\ \A k \in Members(attachment'.output) : OwnedNext(k, attachment'.id)
            /\ \A g \in Handle : \A k \in Members(rcvd'[g]) : k \in DOMAIN owner' /\ owner'[k] = g
        BY <1>1, <1>2 DEF Talk
      <3> QED BY <2>8, <2>9, <3>1 DEF Talk, Owned, OwnedNext
    <2>11. Once'
      BY <1>1, <2>7 DEF Once, Begun
    <2> QED BY <2>10, <2>11
  <1> QED BY <1>3, <1>4 DEF GuestWrites, GuestOutput

\* A bridge process starts or ends: what the channel and the child had is lost.
LEMMA TalkGuestProcess ==
    ASSUME TypeOK, Talk, Once, Launch \/ GuestGone
    PROVE  Talk' /\ Once'
  <1>1. /\ toGuest' = <<>> /\ active' = NoActive
        /\ UNCHANGED <<outgoing, attachment, hs, owner, rcvd, runs>>
    BY DEF Launch, GuestGone, GuestStart, GuestEnds, bridgeVars, stateVars, handleVars, ghostVars
  <1>2. Messages(toHost') \subseteq Messages(toHost)
    <2>1. CASE GuestGone
      BY <2>1 DEF GuestGone
    <2>2. CASE Launch
      <3>1. "Created" \in MessageType
        BY DEF MessageType
      <3>2. Env("Created", 0, 0, 0, NoBody) \in Envelope /\ Env("Created", 0, 0, 0, NoBody).type # "Mcp"
        BY <3>1 DEF Env, Envelope, NoBody
      <3>3. PICK e \in Envelope : e.type # "Mcp" /\ e = Env("Created", 0, 0, 0, NoBody)
        BY <3>2
      <3>4. toHost \in Seq(Envelope) /\ toHost' = Append(toHost, e)
        BY <2>2, <3>3 DEF Launch, TypeOK
      <3>5. toHost' = toHost \o <<e>> /\ e.type # "Mcp"
        BY <3>3, <3>4, EnvelopeLast
      <3> QED BY <3>4, <3>5, FramesLast
    <2> QED BY <2>1, <2>2
  <1>3. GuestKeeps
    BY <1>1, NoActiveIs DEF GuestKeeps
  <1>4. IdsStay /\ AttachmentKeeps /\ QueuesKeep
    BY <1>1, <1>2, FramesNone DEF IdsStay, AttachmentKeeps, QueuesKeep, Once
  <1> QED BY <1>1, <1>3, <1>4, TalkQuiet

LEMMA TalkStep ==
    ASSUME TypeOK, HandleIds, Talk, Once, [Next]_carrierVars
    PROVE  HandleIds' /\ Talk' /\ Once'
  <1>1. CASE UNCHANGED carrierVars
    <2>1. UNCHANGED <<outgoing, attachment, toGuest, toHost, active, hs, owner, rcvd, runs, next, inputQ>>
      BY <1>1 DEF carrierVars, bridgeVars, stateVars, guestVars, wireVars, channelVars, handleVars, ghostVars
    <2>2. HandleIds'
      BY <2>1 DEF HandleIds
    <2>3. IdsStay /\ GuestKeeps /\ AttachmentKeeps /\ QueuesKeep
      BY <2>1 DEF IdsStay, GuestKeeps, AttachmentKeeps, QueuesKeep, Once
    <2> QED BY <2>1, <2>2, <2>3, TalkQuiet
  <1>2. CASE \E h \in Handle : CallerStep(h)
    BY <1>2, IdsCaller, TalkCaller
  <1>3. CASE LoopStep \/ LoopEnds
    BY <1>3, IdsOthers, TalkLoop
  <1>4. CASE Launch \/ GuestGone \/ GuestStep
    BY <1>4, IdsOthers, TalkGuestProcess, TalkGuestReads, TalkChildWorks, TalkChildStep, TalkGuestWrites
       DEF GuestStep
  <1> QED BY <1>1, <1>2, <1>3, <1>4 DEF Next

\* A message reaches the runtime of the attachment that sent it and no other, its
\* answer reaches that attachment and no other, and the child works on it at most
\* once (the ids on every message of bridge.rs and runtime.rs), for every number of
\* callers and messages, whatever breaks.
THEOREM NoCrossTalkEver == Spec => []NoCrossTalk
  <1>1. Init => TypeOK /\ HandleIds /\ Talk /\ Once
    BY TypeInit, TalkInit
  <1>2. TypeOK /\ HandleIds /\ Talk /\ Once /\ [Next]_carrierVars
            => TypeOK' /\ HandleIds' /\ Talk' /\ Once'
    BY TypeStep, TalkStep
  <1>3. TypeOK /\ HandleIds /\ Talk /\ Once => NoCrossTalk
    BY TalkIsNoCrossTalk
  <1> QED BY <1>1, <1>2, <1>3, PTL DEF Spec

-----------------------------------------------------------------------------
(* What each step of a caller does, field by field *)

LEMMA CheckDoes ==
    ASSUME TypeOK, NEW h \in Handle, AttachCheck(h)
    PROVE  /\ hs[h].pc = "idle" /\ hs'[h].pc = "checked"
           /\ hs'[h].id = hs[h].id /\ hs'[h].ctl = hs[h].ctl /\ hs'[h].run = hs[h].run
           /\ \A g \in Handle : g # h => hs'[g] = hs[g]
           /\ UNCHANGED <<bridgeVars, guestVars, wireVars, owner, rcvd, runs, ghostVars>>
  <1>1. hs \in Handles /\ "checked" \in HandlePc
    BY DEF TypeOK, Handles, HandlePc
  <1>2. /\ hs[h].pc = "idle" /\ Goto(h, "checked")
        /\ UNCHANGED <<bridgeVars, guestVars, wireVars, owner, rcvd, runs, ghostVars>>
    BY DEF AttachCheck
  <1> QED BY <1>1, <1>2, GotoAt

LEMMA ClaimRefusedDoes ==
    ASSUME TypeOK, NEW h \in Handle, AttachClaim(h), attachment.id # 0
    PROVE  /\ hs[h].pc = "numbered" /\ hs'[h].pc = "gone"
           /\ hs'[h].id = hs[h].id /\ hs'[h].ctl = hs[h].ctl /\ hs'[h].run = hs[h].run
           /\ \A g \in Handle : g # h => hs'[g] = hs[g]
           /\ UNCHANGED <<bridgeVars, guestVars, wireVars, owner, rcvd, runs, ghostVars>>
  <1>1. hs \in Handles /\ "gone" \in HandlePc
    BY DEF TypeOK, Handles, HandlePc
  <1>2. /\ hs[h].pc = "numbered" /\ Goto(h, "gone")
        /\ UNCHANGED <<bridgeVars, guestVars, wireVars, owner, rcvd, runs, ghostVars>>
    BY DEF AttachClaim, stateVars, bridgeVars
  <1> QED BY <1>1, <1>2, GotoAt

LEMMA RequestDoes ==
    ASSUME TypeOK, NEW h \in Handle, AttachRequest(h), MayRequest
    PROVE  /\ hs[h].pc = "claimed" /\ hs'[h].pc = "sending" /\ ~dead
           /\ hs'[h].id = hs[h].id /\ hs'[h].ctl = next /\ hs'[h].run = hs[h].run
           /\ \A g \in Handle : g # h => hs'[g] = hs[g]
           /\ next \in Nat /\ next' = next + 1 /\ pending' = pending \cup {next}
           /\ UNCHANGED <<ready, dead, answers, attachment, outgoing, retire, inputQ,
                          guestVars, wireVars, owner, rcvd, runs, ghostVars>>
  <1>1. hs \in Handles /\ "sending" \in HandlePc /\ next \in Nat
    BY DEF TypeOK, Handles, HandlePc
  <1>2. hs' = [hs EXCEPT ![h].pc = "sending", ![h].ctl = next]
    BY DEF AttachRequest
  <1>3. /\ hs[h].pc = "claimed" /\ next' = next + 1 /\ pending' = pending \cup {next} /\ ~dead
        /\ UNCHANGED <<ready, dead, answers, attachment, outgoing, retire, inputQ,
                       guestVars, wireVars, owner, rcvd, runs, ghostVars>>
    BY DEF AttachRequest, MayRequest
  <1>4. /\ hs' \in Handles
        /\ hs'[h].pc = "sending" /\ hs'[h].id = hs[h].id /\ hs'[h].ctl = next /\ hs'[h].run = hs[h].run
        /\ \A g \in Handle : g # h => hs'[g] = hs[g]
    BY <1>1, <1>2, RequestAt
  <1> QED BY <1>1, <1>3, <1>4

\* Every step that frees the attachment of the caller.
LEMMA DetachDoes ==
    ASSUME TypeOK, NEW h \in Handle,
           (AttachRequest(h) /\ ~MayRequest) \/ AttachFails(h) \/ End(h) \/ DropHandle(h)
    PROVE  /\ hs[h].pc \in {"claimed", "sending", "waiting", "open", "ended"}
           /\ hs'[h].pc \in {"ending", "dropping"}
           /\ hs'[h].id = hs[h].id /\ hs'[h].ctl = hs[h].ctl /\ hs'[h].run = hs[h].run
           /\ \A g \in Handle : g # h => hs'[g] = hs[g]
           /\ attachment' = (IF attachment.id = hs[h].id THEN NoAttachment ELSE attachment)
           /\ next \in Nat /\ next' \in {next, next + 1}
           /\ hs[h].pc \in {"sending", "waiting"} => Forget(hs[h].ctl)
           /\ hs[h].pc \notin {"sending", "waiting"} => UNCHANGED <<pending, answers, lapsed>>
           /\ UNCHANGED <<ready, dead, outgoing, retire, inputQ, guestVars, wireVars, owner, rcvd,
                          runs, outranked>>
  <1>1. hs \in Handles /\ "ending" \in HandlePc /\ "dropping" \in HandlePc /\ next \in Nat
    BY DEF TypeOK, Handles, HandlePc
  <1>2. CloseOwn(hs[h].id)
    BY DEF AttachRequest, AttachFails, End, DropHandle
  <1>3. PICK pc \in {"ending", "dropping"} : Goto(h, pc)
    BY DEF AttachRequest, AttachFails, End, DropHandle
  <1>4. /\ hs'[h].pc \in {"ending", "dropping"}
        /\ hs'[h].id = hs[h].id /\ hs'[h].ctl = hs[h].ctl /\ hs'[h].run = hs[h].run
        /\ \A g \in Handle : g # h => hs'[g] = hs[g]
    BY <1>1, <1>3, GotoAt
  <1>5. attachment' = (IF attachment.id = hs[h].id THEN NoAttachment ELSE attachment)
    BY <1>2 DEF CloseOwn, Closing
  <1>6. /\ hs[h].pc \in {"claimed", "sending", "waiting", "open", "ended"}
        /\ next' \in {next, next + 1}
        /\ hs[h].pc \in {"sending", "waiting"} => Forget(hs[h].ctl)
        /\ hs[h].pc \notin {"sending", "waiting"} => UNCHANGED <<pending, answers, lapsed>>
    BY DEF AttachRequest, AttachFails, End, DropHandle, ghostVars
  <1>7. UNCHANGED <<ready, dead, outgoing, retire, inputQ, guestVars, wireVars, owner, rcvd, runs,
                    outranked>>
    BY DEF AttachRequest, AttachFails, End, DropHandle, ghostVars
  <1> QED BY <1>1, <1>4, <1>5, <1>6, <1>7

\* The second half of retire.
LEMMA RetiredDoes ==
    ASSUME TypeOK, NEW h \in Handle, Retired(h)
    PROVE  /\ \/ hs[h].pc = "ending" /\ hs'[h].pc = "ended"
              \/ hs[h].pc = "dropping" /\ hs'[h].pc = "gone"
           /\ hs'[h].id = hs[h].id /\ hs'[h].ctl = hs[h].ctl /\ hs'[h].run = hs[h].run
           /\ \A g \in Handle : g # h => hs'[g] = hs[g]
           /\ retire' = (IF hs[h].id >= retire THEN hs[h].id ELSE retire)
           /\ Frames(outgoing') \subseteq Frames(outgoing)
           /\ UNCHANGED <<ready, dead, pending, answers, attachment, next, inputQ, guestVars,
                          wireVars, owner, rcvd, runs, lapsed>>
  <1>1. hs \in Handles /\ "gone" \in HandlePc /\ "ended" \in HandlePc
        /\ outgoing \in Seq(Envelope) /\ hs[h].id \in Nat
    BY DEF TypeOK, Handles, HandlePc
  <1>2. Retire(hs[h].id)
    BY DEF Retired
  <1>3. PICK pc \in {"ended", "gone"} :
           /\ Goto(h, pc)
           /\ \/ hs[h].pc = "ending" /\ pc = "ended"
              \/ hs[h].pc = "dropping" /\ pc = "gone"
    BY DEF Retired
  <1>4. /\ hs'[h].pc = pc
        /\ hs'[h].id = hs[h].id /\ hs'[h].ctl = hs[h].ctl /\ hs'[h].run = hs[h].run
        /\ \A g \in Handle : g # h => hs'[g] = hs[g]
    BY <1>1, <1>3, GotoAt
  <1>5. retire' = (IF hs[h].id >= retire THEN hs[h].id ELSE retire)
    BY <1>2 DEF Retire, RetireSlot
  <1>6. Frames(outgoing') \subseteq Frames(outgoing)
    <2>1. outgoing' = DataWithout(outgoing, hs[h].id)
      BY <1>2 DEF Retire, OtherData
    <2> QED BY <1>1, <2>1, FramesWithout
  <1>7. UNCHANGED <<ready, dead, pending, answers, attachment, next, inputQ, guestVars,
                    wireVars, owner, rcvd, runs, lapsed>>
    BY DEF Retired
  <1> QED BY <1>3, <1>4, <1>5, <1>6, <1>7

LEMMA SendDoes ==
    ASSUME TypeOK, NEW h \in Handle, AttachSend(h)
    PROVE  /\ hs[h].pc = "sending" /\ hs'[h].pc = "waiting" /\ loopUp
           /\ hs'[h].id = hs[h].id /\ hs'[h].ctl = hs[h].ctl /\ hs'[h].run = hs[h].run
           /\ \A g \in Handle : g # h => hs'[g] = hs[g]
           /\ \E e \in Envelope : /\ e.type = "Open" /\ e.id = hs[h].id /\ e.ctl = hs[h].ctl
                                  /\ inputQ' = inputQ \o <<e>>
           /\ UNCHANGED <<stateVars, retire, next, guestVars, wireVars, owner, rcvd, runs, ghostVars>>
  <1>1. hs \in Handles /\ "waiting" \in HandlePc /\ hs[h].ctl \in Nat /\ hs[h].id \in Nat
        /\ inputQ \in Seq(Envelope)
    BY DEF TypeOK, Handles, HandlePc
  <1>2. /\ hs[h].pc = "sending" /\ loopUp /\ Goto(h, "waiting")
        /\ inputQ' = Append(inputQ, Env("Open", hs[h].ctl, hs[h].id, 0, NoBody))
        /\ UNCHANGED <<stateVars, retire, next, guestVars, wireVars, owner, rcvd, runs, ghostVars>>
    BY DEF AttachSend
  <1>3. "Open" \in MessageType
    BY DEF MessageType
  <1>4. \E e \in Envelope : /\ e.type = "Open" /\ e.id = hs[h].id /\ e.ctl = hs[h].ctl
                            /\ e = Env("Open", hs[h].ctl, hs[h].id, 0, NoBody)
    BY <1>1, <1>3 DEF Env, Envelope, NoBody
  <1>5. PICK e \in Envelope : /\ e.type = "Open" /\ e.id = hs[h].id /\ e.ctl = hs[h].ctl
                              /\ inputQ' = Append(inputQ, e)
    BY <1>2, <1>4
  <1>6. inputQ' = inputQ \o <<e>>
    BY <1>1, <1>5, EnvelopeLast
  <1>7. /\ hs'[h].pc = "waiting"
        /\ hs'[h].id = hs[h].id /\ hs'[h].ctl = hs[h].ctl /\ hs'[h].run = hs[h].run
        /\ \A g \in Handle : g # h => hs'[g] = hs[g]
    BY <1>1, <1>2, GotoAt
  <1> QED BY <1>2, <1>5, <1>6, <1>7

LEMMA OpenedDoes ==
    ASSUME TypeOK, NEW h \in Handle, AttachOpened(h)
    PROVE  /\ hs[h].pc = "waiting" /\ hs'[h].pc = "open" /\ attachment.id = hs[h].id
           /\ hs'[h].id = hs[h].id /\ hs'[h].ctl = hs[h].ctl
           /\ \A g \in Handle : g # h => hs'[g] = hs[g]
           /\ \E a \in answers : a[1] = hs[h].ctl /\ a[2] = "Opened" /\ hs'[h].run = a[3]
           /\ attachment'.id = attachment.id /\ attachment'.output = attachment.output
           /\ Forget(hs[h].ctl)
           /\ UNCHANGED <<ready, dead, outgoing, retire, next, inputQ, guestVars, wireVars,
                          owner, rcvd, runs, ghostVars>>
  <1>1. hs \in Handles /\ "open" \in HandlePc /\ attachment \in Attachments
    BY DEF TypeOK, Handles, HandlePc, Attachments
  <1>2. /\ hs[h].pc = "waiting" /\ attachment.id = hs[h].id /\ Forget(hs[h].ctl)
        /\ UNCHANGED <<ready, dead, outgoing, retire, next, inputQ, guestVars, wireVars,
                       owner, rcvd, runs, ghostVars>>
    BY DEF AttachOpened
  <1>3. PICK a \in Answered(hs[h].ctl) : a[2] = "Opened" /\ hs' = [hs EXCEPT ![h].pc = "open", ![h].run = a[3]]
                                         /\ attachment' = [attachment EXCEPT !.run = a[3]]
    BY DEF AttachOpened
  <1>4. a[3] \in Nat /\ a \in answers /\ a[1] = hs[h].ctl
    BY <1>3 DEF TypeOK, Answered
  <1>5. hs' = [hs EXCEPT ![h].pc = "open", ![h].run = a[3]]
    BY <1>3
  <1>6. /\ hs' \in Handles
        /\ hs'[h].pc = "open" /\ hs'[h].id = hs[h].id /\ hs'[h].ctl = hs[h].ctl /\ hs'[h].run = a[3]
        /\ \A g \in Handle : g # h => hs'[g] = hs[g]
    BY <1>1, <1>4, <1>5, OpenedAt
  <1>7. attachment'.id = attachment.id /\ attachment'.output = attachment.output
    BY <1>1, <1>3, <1>4, AttachmentRun
  <1> QED BY <1>2, <1>3, <1>4, <1>6, <1>7

\* A caller that uses its attachment.
LEMMA UseDoes ==
    ASSUME TypeOK, NEW h \in Handle, Send(h) \/ Recv(h)
    PROVE  /\ attachment'.id = attachment.id /\ hs' = hs
           /\ \A e \in Frames(outgoing') : e \in Frames(outgoing) \/ (e.type = "Mcp" /\ e.ctl = 0)
           /\ UNCHANGED <<ready, dead, pending, answers, retire, next, inputQ, guestVars, wireVars, ghostVars>>
  <1>1. attachment \in Attachments /\ attachment.output \in Seq(Nat) /\ outgoing \in Seq(Envelope)
        /\ hs[h].id \in Nat /\ hs[h].run \in Nat
    BY DEF TypeOK, Attachments
  <1>2. CASE Recv(h)
    <2>1. attachment' = [attachment EXCEPT !.output = Tail(attachment.output)] /\ attachment.output # <<>>
      BY <1>2 DEF Recv
    <2>2. attachment'.id = attachment.id
      BY <1>1, <2>1, NumberTail, AttachmentOutput
    <2> QED BY <1>2, <2>2 DEF Recv
  <1>3. CASE Send(h)
    <2>1. Len(owner') \in Nat
      <3>1. owner' = Append(owner, h) /\ owner \in Seq(Handle)
        BY <1>3 DEF Send, TypeOK
      <3> QED BY <3>1
    <2>2. "Mcp" \in MessageType
      BY DEF MessageType
    <2>3. \E e \in Envelope : e.type = "Mcp" /\ e.ctl = 0 /\ e = Env("Mcp", 0, hs[h].id, hs[h].run, Len(owner'))
      BY <1>1, <2>1, <2>2 DEF Env, Envelope
    <2>4. PICK e \in Envelope : e.type = "Mcp" /\ e.ctl = 0 /\ outgoing' = Append(outgoing, e)
      BY <1>3, <2>3 DEF Send
    <2>5. outgoing' = outgoing \o <<e>>
      BY <1>1, <2>4, EnvelopeLast
    <2>6. \A f \in Frames(outgoing') : f \in Frames(outgoing) \/ (f.type = "Mcp" /\ f.ctl = 0)
      BY <1>1, <2>4, <2>5, FramesLast
    <2> QED BY <1>3, <2>6 DEF Send
  <1> QED BY <1>2, <1>3

-----------------------------------------------------------------------------
(* What the loop and the guest do, in terms of the frames                      *)

\* A frame that is sent to the guest.
LEMMA TransmitFrames ==
    ASSUME TypeOK, NEW e \in Envelope, Transmit(<<e>>)
    PROVE  \A f \in Frames(toGuest') : f \in Frames(toGuest) \/ f = e
  <1>1. toGuest \in Seq(Envelope)
    BY DEF TypeOK
  <1>2. toGuest' = toGuest \/ toGuest' = toGuest \o <<e>>
    BY DEF Transmit
  <1>3. Frames(toGuest \o <<e>>) = Frames(toGuest) \cup {e}
    BY <1>1, FramesLast
  <1> QED BY <1>2, <1>3

\* A frame that is sent to the host, or none.
LEMMA EmitFrames ==
    ASSUME TypeOK, NEW frames, Emit(frames), frames = <<>> \/ \E e \in Envelope : frames = <<e>>
    PROVE  /\ frames = <<>> => toHost' = toHost
           /\ \A e \in Envelope : frames = <<e>> => Frames(toHost') = Frames(toHost) \cup {e}
  <1>1. toHost \in Seq(Envelope) /\ toHost' = toHost \o frames
    BY DEF TypeOK, Emit
  <1>2. frames = <<>> => toHost' = toHost
    BY <1>1, EnvelopeNone
  <1>3. ASSUME NEW e \in Envelope, frames = <<e>>
        PROVE  Frames(toHost') = Frames(toHost) \cup {e}
    <2>1. toHost' = toHost \o <<e>>
      BY <1>1, <1>3
    <2> QED BY <1>1, <2>1, FramesLast
  <1> QED BY <1>2, <1>3

LEMMA FrameIs ==
    ASSUME NEW q \in Seq(Envelope), NEW f \in Frames(q)
    PROVE  f \in Envelope /\ f.id \in Nat /\ f.ctl \in Nat /\ f.run \in Nat
  <1>1. PICK i \in DOMAIN q : f = q[i]
    BY DEF Frames
  <1>2. f \in Envelope
    BY <1>1
  <1> QED BY <1>2 DEF Envelope

\* The frames of a queue are its head and the rest.
LEMMA FramesHead ==
    ASSUME NEW q \in Seq(Envelope), q # <<>>, NEW f \in Frames(q)
    PROVE  f = Head(q) \/ f \in Frames(Tail(q))
  <1>1. PICK n \in Nat : Len(q) = n /\ DOMAIN q = 1..n /\ n > 0
    OBVIOUS
  <1>2. Head(q) = q[1] /\ DOMAIN Tail(q) = 1..(n - 1) /\ \A i \in 1..(n - 1) : Tail(q)[i] = q[i + 1]
    BY <1>1, EnvelopeTail
  <1>3. PICK i \in 1..n : f = q[i]
    BY <1>1 DEF Frames
  <1>4. CASE i # 1
    <2>1. i - 1 \in 1..(n - 1) /\ (i - 1) + 1 = i
      BY <1>1, <1>4
    <2>2. Tail(q)[i - 1] = f
      BY <1>2, <1>3, <2>1
    <2> QED BY <1>2, <2>1, <2>2 DEF Frames
  <1> QED BY <1>2, <1>3, <1>4

\* What one message from the guest changes at the host.
LEMMA ProcessDoes ==
    ASSUME TypeOK, toHost # <<>>, NEW e, e = Head(toHost), Process(e)
    PROVE  /\ e \in Envelope /\ e \in Frames(toHost) /\ dead' = dead
           /\ toHost' = Tail(toHost) /\ Frames(toHost') \subseteq Frames(toHost)
           /\ attachment'.id = attachment.id \/ attachment'.id = 0
           /\ Frames(outgoing') \subseteq Frames(outgoing)
           /\ pending' \subseteq pending
           /\ \A a \in answers' :
                 a \in answers \/ (a = <<e.ctl, e.type, e.run>> /\ e.ctl \in pending /\ ~dead)
           /\ \A f \in Frames(toGuest') : f \in Frames(toGuest) \/ (f.type \in {"Hello", "Close"} /\ f.ctl = 0)
           /\ e.type = "Created" => attachment'.id = 0
           /\ e.type = "Closed" /\ ~dead => attachment'.id = 0 \/ attachment'.id # e.id
  <1>0. /\ e \in Envelope /\ e \in Frames(toHost) /\ e.id \in Nat /\ attachment \in Attachments
        /\ toHost \in Seq(Envelope) /\ toGuest \in Seq(Envelope) /\ attachment.output \in Seq(Nat)
        /\ e.run \in Nat /\ e.body \in Nat
    BY EnvelopeTail, FramesTail DEF TypeOK, Envelope, Attachments
  <1>1. ASSUME NEW frames, Reply(frames),
               \/ frames = <<>>
               \/ \E x \in Envelope : x.type \in {"Hello", "Close"} /\ x.ctl = 0 /\ frames = <<x>>
        PROVE  /\ toHost' = Tail(toHost) /\ Frames(toHost') \subseteq Frames(toHost)
               /\ \A f \in Frames(toGuest') : f \in Frames(toGuest) \/ (f.type \in {"Hello", "Close"} /\ f.ctl = 0)
    <2>1. toHost' = Tail(toHost) /\ Frames(toHost') \subseteq Frames(toHost)
      BY <1>0, <1>1, FramesTail DEF Reply
    <2>2. toGuest' = toGuest \/ toGuest' = toGuest \o frames
      BY <1>1 DEF Reply
    <2>3. CASE frames = <<>>
      BY <1>0, <2>1, <2>2, <2>3, EnvelopeNone
    <2>4. CASE \E x \in Envelope : x.type \in {"Hello", "Close"} /\ x.ctl = 0 /\ frames = <<x>>
      <3>1. PICK x \in Envelope : x.type \in {"Hello", "Close"} /\ x.ctl = 0 /\ frames = <<x>>
        BY <2>4
      <3>2. toGuest' = toGuest \/ toGuest' = toGuest \o <<x>>
        BY <2>2, <3>1
      <3>4. Frames(toGuest \o <<x>>) = Frames(toGuest) \cup {x}
        BY <1>0, FramesLast
      <3>3. \A f \in Frames(toGuest') : f \in Frames(toGuest) \/ f = x
        BY <3>2, <3>4
      <3> QED BY <2>1, <3>1, <3>3
    <2> QED BY <1>1, <2>3, <2>4
  <1>2. Resolve(e) => /\ pending' \subseteq pending
                      /\ \A a \in answers' : a \in answers \/ (a = <<e.ctl, e.type, e.run>> /\ e.ctl \in pending)
    BY <1>0, ResolveAt
  <1>3. CASE e.type = "Created" /\ Start
    <2>1. "Hello" \in MessageType
      BY DEF MessageType
    <2>2. \E x \in Envelope : x.type \in {"Hello", "Close"} /\ x.ctl = 0 /\ <<Env("Hello", 0, 0, 0, NoBody)>> = <<x>>
      BY <2>1 DEF Env, Envelope, NoBody
    <2>3. /\ Reply(<<Env("Hello", 0, 0, 0, NoBody)>>) /\ pending' = {} /\ outgoing' = <<>>
          /\ attachment' = NoAttachment /\ UNCHANGED <<dead, answers>>
      BY <1>3 DEF Start
    <2>4. Frames(outgoing') = {}
      BY <2>3 DEF Frames
    <2> QED BY <1>0, <1>1, <1>3, <2>2, <2>3, <2>4, NoAttachmentIs
  <1>4. CASE e.type # "Created" /\ dead /\ Reply(<<>>) /\ UNCHANGED stateVars
    BY <1>0, <1>1, <1>4 DEF stateVars
  <1>5. CASE ~dead /\ (ProcessReady(e) \/ ProcessOther(e))
    <2>1. Reply(<<>>) /\ Resolve(e) /\ UNCHANGED <<dead, attachment, outgoing>>
          /\ e.type \in {"Ready", "Error", "Result"}
      BY <1>5 DEF ProcessReady, ProcessOther
    <2> QED BY <1>0, <1>1, <1>2, <1>5, <2>1
  <1>6. CASE ~dead /\ ProcessOpened(e)
    <2>1. Reply(<<>>) /\ Resolve(e) /\ UNCHANGED <<ready, dead, outgoing>> /\ e.type = "Opened"
      BY <1>6 DEF ProcessOpened
    <2>2. attachment'.id = attachment.id
      BY <1>0, <1>6, AttachmentRun DEF ProcessOpened
    <2> QED BY <1>0, <1>1, <1>2, <1>6, <2>1, <2>2
  <1>7. CASE ~dead /\ ProcessClosed(e)
    <2>1. Reply(<<>>) /\ UNCHANGED <<ready, dead, pending, answers, outgoing>>
          /\ attachment' = Closing(e.id) /\ e.type = "Closed"
      BY <1>7 DEF ProcessClosed
    <2>2. attachment'.id = attachment.id \/ attachment'.id = 0
      BY <2>1, NoAttachmentIs DEF Closing
    <2>3. attachment'.id = 0 \/ attachment'.id # e.id
      BY <2>1, NoAttachmentIs DEF Closing
    <2> QED BY <1>0, <1>1, <1>7, <2>1, <2>2, <2>3
  <1>8. CASE ~dead /\ ProcessMcp(e)
    <2>1. e.type = "Mcp" /\ UNCHANGED <<ready, dead, pending, answers, outgoing>>
      BY <1>8 DEF ProcessMcp
    <2>2. CASE attachment' = [attachment EXCEPT !.output = Append(@, e.body)] /\ Reply(<<>>)
      <3>1. Append(attachment.output, e.body) \in Seq(Nat)
        BY <1>0, NumberLast
      <3>2. attachment'.id = attachment.id
        BY <1>0, <2>2, <3>1, AttachmentOutput
      <3> QED BY <1>0, <1>1, <2>1, <2>2, <3>2
    <2>3. CASE attachment' = Closing(e.id) /\ Reply(<<Env("Close", 0, e.id, 0, NoBody)>>)
      <3>1. "Close" \in MessageType
        BY DEF MessageType
      <3>2. \E x \in Envelope : x.type \in {"Hello", "Close"} /\ x.ctl = 0 /\ <<Env("Close", 0, e.id, 0, NoBody)>> = <<x>>
        BY <1>0, <3>1 DEF Env, Envelope, NoBody
      <3>3. attachment'.id = attachment.id \/ attachment'.id = 0
        BY <2>3, NoAttachmentIs DEF Closing
      <3> QED BY <1>0, <1>1, <2>1, <2>3, <3>2, <3>3
    <2>4. CASE Reply(<<>>) /\ UNCHANGED attachment
      BY <1>0, <1>1, <2>1, <2>4
    <2> QED BY <1>8, <2>2, <2>3, <2>4 DEF ProcessMcp
  <1> QED BY <1>3, <1>4, <1>5, <1>6, <1>7, <1>8 DEF Process

\* The guest opens an attachment: nothing runs, and the number is a new one.
OpenedNow(f) ==
    /\ f.type = "Opened" /\ active.id = 0 /\ f.id > lastId
    /\ lastId' = f.id /\ active'.id = f.id /\ active'.run = f.run
    /\ \E e \in Frames(toGuest) : e.type = "Open" /\ e.id = f.id /\ e.ctl = f.ctl

\* What the steps of a running guest have in common.
GuestMoves ==
    /\ Frames(toGuest') \subseteq Frames(toGuest)
    /\ Frames(toHost) \subseteq Frames(toHost')
    /\ \A f \in Frames(toHost') :
          f \in Frames(toHost) \/ f.type \in {"Ready", "Error", "Closed", "Mcp"} \/ OpenedNow(f)
    /\ lastId' >= lastId
    /\ \/ active'.id = active.id /\ active'.run = active.run
       \/ active.id = 0
       \/ active'.id = 0 /\ \E f \in Frames(toHost') : f.type = "Closed" /\ f.id = active.id

LEMMA GuestMovesReads ==
    ASSUME TypeOK, GuestReads
    PROVE  GuestMoves
  <1> DEFINE e == Head(toGuest)
  <1>1. toGuest \in Seq(Envelope) /\ toGuest # <<>> /\ toGuest' = Tail(toGuest) /\ GuestHandle(e)
    BY DEF GuestReads, GuestHandle, TypeOK
  <1>2. /\ e \in Envelope /\ e.ctl \in Nat /\ e.id \in Nat /\ e \in Frames(toGuest)
        /\ Frames(toGuest') \subseteq Frames(toGuest)
    BY <1>1, EnvelopeTail, FramesTail DEF Envelope
  <1> HIDE DEF e
  <1>3. /\ lastId \in Nat /\ runGen \in Nat /\ active \in Actives
        /\ active.id \in Nat /\ active.input \in Seq(Nat)
    BY DEF TypeOK, Actives
  <1>4. "Ready" \in MessageType /\ "Error" \in MessageType /\ "Opened" \in MessageType /\ "Closed" \in MessageType
    BY DEF MessageType
  <1>5. ASSUME NEW type \in {"Ready", "Error"}, Emit(<<Env(type, e.ctl, 0, 0, NoBody)>>),
               active' = active, lastId' >= lastId
        PROVE  GuestMoves
    <2>1. Env(type, e.ctl, 0, 0, NoBody) \in Envelope /\ Env(type, e.ctl, 0, 0, NoBody).type = type
      BY <1>2, <1>4 DEF Env, Envelope, NoBody
    <2>2. PICK f \in Envelope : f.type = type /\ f = Env(type, e.ctl, 0, 0, NoBody)
      BY <2>1
    <2>3. Frames(toHost') = Frames(toHost) \cup {f}
      BY <1>5, <2>2, EmitFrames
    <2> QED BY <1>2, <1>5, <2>2, <2>3 DEF GuestMoves
  <1>6. ASSUME NEW ctl \in Nat, NEW id \in Nat, id = active.id, Emit(<<Env("Closed", ctl, id, 0, NoBody)>>),
               active' = NoActive, lastId' = lastId
        PROVE  GuestMoves
    <2>1. /\ Env("Closed", ctl, id, 0, NoBody) \in Envelope
          /\ Env("Closed", ctl, id, 0, NoBody).type = "Closed" /\ Env("Closed", ctl, id, 0, NoBody).id = id
      BY <1>4 DEF Env, Envelope, NoBody
    <2>2. PICK f \in Envelope : f.type = "Closed" /\ f.id = id /\ f = Env("Closed", ctl, id, 0, NoBody)
      BY <2>1
    <2>3. Frames(toHost') = Frames(toHost) \cup {f}
      BY <1>6, <2>2, EmitFrames
    <2>4. active'.id = 0
      BY <1>6, NoActiveIs
    <2>5. f \in Frames(toHost') /\ f.id = active.id
      BY <1>6, <2>2, <2>3
    <2> QED BY <1>2, <1>3, <1>6, <2>2, <2>3, <2>4, <2>5 DEF GuestMoves
  <1>7. ASSUME Emit(<<>>), active'.id = active.id, active'.run = active.run, lastId' = lastId
        PROVE  GuestMoves
    <2>1. toHost' = toHost
      BY <1>7, EmitFrames
    <2> QED BY <1>2, <1>3, <1>7, <2>1 DEF GuestMoves
  <1>8. CASE GuestHello(e)
    BY <1>3, <1>5, <1>8 DEF GuestHello
  <1>9. CASE GuestOpen(e)
    <2>1. CASE Emit(Refuse(e)) /\ active' = active
      <3>1. lastId' >= lastId
        BY <1>2, <1>3, <1>9 DEF GuestOpen
      <3> QED BY <1>5, <2>1, <3>1 DEF Refuse
    <2>2. CASE /\ active.id = 0 /\ e.id > lastId /\ lastId' = e.id /\ runGen' = runGen + 1
               /\ active' = [NoActive EXCEPT !.id = e.id, !.run = runGen', !.alive = TRUE]
               /\ Emit(<<Env("Opened", e.ctl, e.id, runGen', NoBody)>>)
      <3>1. runGen' \in Nat
        BY <1>3, <2>2
      <3>2. active'.id = e.id /\ active'.run = runGen'
        BY <1>2, <2>2, <3>1, ActiveBegun
      <3>3. \E f \in Envelope : /\ f.type = "Opened" /\ f.ctl = e.ctl /\ f.id = e.id /\ f.run = runGen'
                                /\ f = Env("Opened", e.ctl, e.id, runGen', NoBody)
        BY <1>2, <1>4, <3>1 DEF Env, Envelope, NoBody
      <3>4. PICK f \in Envelope : /\ f.type = "Opened" /\ f.ctl = e.ctl /\ f.id = e.id /\ f.run = runGen'
                                  /\ Emit(<<f>>)
        BY <2>2, <3>3
      <3>5. Frames(toHost') = Frames(toHost) \cup {f}
        BY <3>4, EmitFrames
      <3>6. e.type = "Open"
        BY <1>9 DEF GuestOpen
      <3>7. OpenedNow(f)
        BY <1>2, <2>2, <3>2, <3>4, <3>6 DEF OpenedNow
      <3> QED BY <1>2, <1>3, <2>2, <3>5, <3>7 DEF GuestMoves
    <2> QED BY <1>9, <2>1, <2>2 DEF GuestOpen
  <1>10. CASE GuestMcp(e)
    <2>1. lastId' = lastId
      BY <1>10 DEF GuestMcp
    <2>2. CASE active' = [active EXCEPT !.input = Append(@, e.body)] /\ Emit(<<>>)
      <3>1. Append(active.input, e.body) \in Seq(Nat)
        BY <1>2, <1>3, NumberLast DEF Envelope
      <3>2. active'.id = active.id /\ active'.run = active.run
        BY <1>3, <2>2, <3>1, ActiveInput
      <3> QED BY <1>7, <2>1, <2>2, <3>2
    <2>3. CASE ToChild(e) /\ active' = NoActive /\ Emit(<<Env("Closed", 0, e.id, 0, NoBody)>>)
      BY <1>2, <1>6, <2>1, <2>3 DEF ToChild
    <2>4. CASE Emit(<<>>) /\ UNCHANGED active
      BY <1>7, <2>1, <2>4
    <2> QED BY <1>10, <2>2, <2>3, <2>4 DEF GuestMcp
  <1>11. CASE GuestClose(e)
    <2>1. CASE active.id = e.id
      BY <1>2, <1>6, <1>11, <2>1 DEF GuestClose
    <2>2. CASE active.id # e.id
      BY <1>7, <1>11, <2>2 DEF GuestClose
    <2> QED BY <2>1, <2>2
  <1>12. CASE GuestTransfer(e)
    <2>1. active' = active /\ lastId' = lastId
      BY <1>12 DEF GuestTransfer
    <2>2. CASE Emit(<<>>)
      BY <1>7, <2>1, <2>2
    <2>3. CASE Emit(Refuse(e))
      BY <1>3, <1>5, <2>1, <2>3 DEF Refuse
    <2> QED BY <1>12, <2>2, <2>3 DEF GuestTransfer
  <1>13. CASE GuestUnready(e)
    BY <1>3, <1>5, <1>13 DEF GuestUnready, Refuse
  <1> QED BY <1>1, <1>8, <1>9, <1>10, <1>11, <1>12, <1>13 DEF GuestHandle

\* The child works, answers or ends: the loop has not noticed anything yet.
LEMMA ChildKeeps ==
    ASSUME TypeOK, ChildWorks \/ ChildStep
    PROVE  /\ active'.id = active.id /\ active'.run = active.run
           /\ UNCHANGED <<bridgeVars, up, toHost, toGuest, hs, helloed, lastId>>
  <1>1. /\ active \in Actives /\ active.input \in Seq(Nat) /\ active.output \in Seq(Nat)
        /\ active.work \in SUBSET Nat
    BY DEF TypeOK, Actives
  <1>2. UNCHANGED <<bridgeVars, up, toHost, toGuest, hs, helloed, lastId>>
    BY DEF ChildWorks, ChildTakes, ChildStep, ChildAnswers, ChildEnds, wireVars, channelVars, handleVars
  <1>3. CASE ChildWorks
    <2> DEFINE m == Head(active.input)
    <2>1. active.input # <<>>
      BY <1>3 DEF ChildWorks, ChildTakes
    <2>2. m \in Nat /\ Tail(active.input) \in Seq(Nat)
      BY <1>1, <2>1, NumberTail
    <2>3. active' = [active EXCEPT !.input = Tail(active.input), !.work = active.work \cup {m}]
      BY <1>3 DEF ChildWorks, ChildTakes
    <2> HIDE DEF m
    <2>4. active.work \cup {m} \in SUBSET Nat
      BY <1>1, <2>2
    <2>5. active'.id = active.id /\ active'.run = active.run
      BY <1>1, <2>2, <2>3, <2>4, ActiveTakes
    <2> QED BY <1>2, <2>5
  <1>4. CASE ChildStep
    <2>1. CASE active' = [active EXCEPT !.work = {}, !.input = <<>>, !.alive = FALSE]
      <3>1. active'.id = active.id /\ active'.run = active.run
        BY <1>1, <2>1, ActiveEnds
      <3> QED BY <1>2, <3>1
    <2>2. ASSUME NEW m \in active.work, active' = [active EXCEPT !.work = @ \ {m}, !.output = Append(@, m)]
          PROVE  active'.id = active.id /\ active'.run = active.run
      <3>1. active.work \ {m} \in SUBSET Nat /\ Append(active.output, m) \in Seq(Nat)
        <4>1. m \in Nat
          BY <1>1, <2>2
        <4> QED BY <1>1, <4>1, NumberLast
      <3>2. active' = [active EXCEPT !.work = active.work \ {m}, !.output = Append(active.output, m)]
        BY <2>2
      <3> QED BY <1>1, <3>1, <3>2, ActiveAnswers
    <2> QED BY <1>2, <1>4, <2>1, <2>2 DEF ChildStep, ChildAnswers, ChildEnds
  <1> QED BY <1>3, <1>4

\* What the guest sends while it writes: data of what it runs, or the news of its end.
LEMMA WritesKeep ==
    ASSUME TypeOK, GuestWrites
    PROVE  /\ active.id # 0
           /\ \E x \in Envelope : /\ x.ctl = 0 /\ x.type \in {"Mcp", "Closed"} /\ x.id = active.id
                                  /\ toHost' = toHost \o <<x>>
                                  /\ \/ active'.id = 0 /\ x.type = "Closed"
                                     \/ active'.id = active.id /\ active'.run = active.run /\ x.type = "Mcp"
           /\ UNCHANGED <<bridgeVars, up, toGuest, hs, helloed, lastId>>
  <1>1. /\ active \in Actives /\ active.id \in Nat /\ active.run \in Nat /\ active.output \in Seq(Nat)
    BY DEF TypeOK, Actives
  <1>2. "Mcp" \in MessageType /\ "Closed" \in MessageType
    BY DEF MessageType
  <1>3. UNCHANGED <<bridgeVars, up, toGuest, hs, helloed, lastId>> /\ active.id # 0
    BY DEF GuestWrites, GuestOutput, handleVars
  <1>4. CASE /\ active.output # <<>>
             /\ Emit(<<Env("Mcp", 0, active.id, active.run, Head(active.output))>>)
             /\ active' = [active EXCEPT !.output = Tail(@)]
    <2>1. Head(active.output) \in Nat /\ Tail(active.output) \in Seq(Nat)
      BY <1>1, <1>4, NumberTail
    <2>2. \E x \in Envelope : /\ x.ctl = 0 /\ x.type = "Mcp" /\ x.id = active.id
                              /\ x = Env("Mcp", 0, active.id, active.run, Head(active.output))
      BY <1>1, <1>2, <2>1 DEF Env, Envelope
    <2>3. PICK x \in Envelope : x.ctl = 0 /\ x.type = "Mcp" /\ x.id = active.id /\ Emit(<<x>>)
      BY <1>4, <2>2
    <2>4. active' = [active EXCEPT !.output = Tail(active.output)]
      BY <1>4
    <2>5. active'.id = active.id /\ active'.run = active.run
      BY <1>1, <2>1, <2>4, ActiveOutput
    <2> QED BY <1>3, <2>3, <2>5 DEF Emit
  <1>5. CASE Emit(<<Env("Closed", 0, active.id, 0, NoBody)>>) /\ active' = NoActive
    <2>1. \E x \in Envelope : /\ x.ctl = 0 /\ x.type = "Closed" /\ x.id = active.id
                              /\ x = Env("Closed", 0, active.id, 0, NoBody)
      BY <1>1, <1>2 DEF Env, Envelope, NoBody
    <2>2. PICK x \in Envelope : x.ctl = 0 /\ x.type = "Closed" /\ x.id = active.id /\ Emit(<<x>>)
      BY <1>5, <2>1
    <2>3. active'.id = 0
      BY <1>5, NoActiveIs
    <2> QED BY <1>3, <2>2, <2>3 DEF Emit
  <1> QED BY <1>4, <1>5 DEF GuestWrites, GuestOutput

LEMMA GuestMovesAlways ==
    ASSUME TypeOK, GuestStep
    PROVE  GuestMoves
  <1>1. toHost \in Seq(Envelope) /\ lastId \in Nat
    BY DEF TypeOK
  <1>2. CASE ChildWorks \/ ChildStep
    <2>1. active'.id = active.id /\ active'.run = active.run /\ UNCHANGED <<toHost, toGuest, lastId>>
      BY <1>2, ChildKeeps
    <2> QED BY <1>1, <2>1 DEF GuestMoves
  <1>3. CASE GuestWrites
    <2>1. toGuest' = toGuest /\ lastId' = lastId
      BY <1>3, WritesKeep
    <2>2. PICK x \in Envelope : /\ x.type \in {"Mcp", "Closed"} /\ x.id = active.id /\ toHost' = toHost \o <<x>>
                                /\ \/ active'.id = 0 /\ x.type = "Closed"
                                   \/ active'.id = active.id /\ active'.run = active.run
      BY <1>3, WritesKeep
    <2>3. Frames(toHost') = Frames(toHost) \cup {x}
      BY <1>1, <2>2, FramesLast
    <2>4. \/ active'.id = active.id /\ active'.run = active.run
          \/ active'.id = 0 /\ \E f \in Frames(toHost') : f.type = "Closed" /\ f.id = active.id
      BY <2>2, <2>3
    <2> QED BY <1>1, <2>1, <2>2, <2>3, <2>4 DEF GuestMoves
  <1>4. CASE GuestReads
    BY <1>4, GuestMovesReads
  <1> QED BY <1>2, <1>3, <1>4 DEF GuestStep

-----------------------------------------------------------------------------
(* OpenMeansRunning: what the numbers of requests say, and where news of a     *)
(* runtime can be                                                              *)

Early == {"idle", "checked", "numbered", "claimed", "sending"}

\* The numbers of requests are new, and one handle has each.
HandleCtls ==
    /\ \A h \in Handle :
          /\ hs[h].ctl < next
          /\ hs[h].pc \in {"idle", "checked", "numbered", "claimed"} => hs[h].ctl = 0
          /\ hs[h].pc \in {"sending", "waiting"} => hs[h].ctl # 0
    /\ \A g, h \in Handle : hs[g].ctl = hs[h].ctl /\ hs[g].ctl # 0 => g = h

\* The attachment and the request an envelope names are those of one caller, which
\* has sent its request.
Asked(e) ==
    /\ e.id # 0 /\ e.ctl # 0 /\ e.id < next /\ e.ctl < next
    /\ \A h \in Handle : hs[h].id = e.id \/ hs[h].ctl = e.ctl =>
          hs[h].id = e.id /\ hs[h].ctl = e.ctl /\ hs[h].pc \notin Early

\* The same of the state after a step.
AskedNext(e) ==
    /\ e.id # 0 /\ e.ctl # 0 /\ e.id < next' /\ e.ctl < next'
    /\ \A h \in Handle : hs'[h].id = e.id \/ hs'[h].ctl = e.ctl =>
          hs'[h].id = e.id /\ hs'[h].ctl = e.ctl /\ hs'[h].pc \notin Early

\* Requests and their answers belong to callers that wait for them.
Asking ==
    /\ \A e \in Frames(inputQ) : e.type = "Open" /\ Asked(e)
    /\ \A e \in Frames(toGuest) : e.type = "Open" => Asked(e)
    /\ \A e \in Frames(toHost) : e.type = "Opened" => Asked(e)
    /\ \A e \in Frames(outgoing) : e.type = "Mcp"
    /\ \A a \in answers : a[2] = "Opened" =>
          a[1] < next /\ \A h \in Handle : hs[h].ctl = a[1] => hs[h].pc = "waiting"
    /\ \A c \in pending :
          c < next /\ \A h \in Handle : hs[h].ctl = c => hs[h].pc \in {"sending", "waiting"}

\* The attachment is the one of a caller that has not ended; a dead bridge accepts
\* no request.
Holder ==
    attachment.id # 0 =>
        \E h \in Handle : /\ hs[h].id = attachment.id
                          /\ hs[h].pc \in {"claimed", "sending", "waiting", "open"}
                          /\ dead => hs[h].pc = "claimed"

\* Attachment `a' has its runtime `r' in the guest, or the news of its end is on its way.
RunsOrEnded(a, r) ==
    \/ active.id = a /\ active.run = r
    \/ \E f \in Frames(toHost) : f.type = "Closed" /\ f.id = a

RunsNext(a, r) ==
    \/ active'.id = a /\ active'.run = r
    \/ \E f \in Frames(toHost') : f.type = "Closed" /\ f.id = a

\* Whatever tells the host that the attachment has a runtime is true: the frame, the
\* answer it becomes, and the handle that took it.
Running ==
    Connected /\ attachment.id # 0 =>
       /\ \A f \in Frames(toHost) :
             f.type = "Opened" /\ f.id = attachment.id => RunsOrEnded(f.id, f.run)
       /\ \A h \in Handle : hs[h].id = attachment.id =>
             /\ hs[h].pc = "open" => RunsOrEnded(hs[h].id, hs[h].run)
             /\ hs[h].pc = "waiting" =>
                   \A a \in answers : a[1] = hs[h].ctl /\ a[2] = "Opened" => RunsOrEnded(hs[h].id, a[3])

\* What a caller's step does to its handle.
LEMMA FieldsCaller ==
    ASSUME TypeOK, NEW h \in Handle, CallerStep(h)
    PROVE  /\ \A g \in Handle : g # h => hs'[g] = hs[g]
           /\ next' \in {next, next + 1}
           /\ \/ hs'[h].id = hs[h].id
              \/ hs'[h].id = next /\ next' = next + 1 /\ hs[h].pc = "checked" /\ hs'[h].pc = "numbered"
           /\ \/ hs'[h].ctl = hs[h].ctl
              \/ hs'[h].ctl = next /\ next' = next + 1 /\ hs[h].pc = "claimed" /\ hs'[h].pc = "sending"
           /\ hs[h].pc \notin Early => hs'[h].pc \notin Early
           /\ hs'[h].pc \in {"idle", "checked", "numbered", "claimed"} =>
                 hs[h].pc \in {"idle", "checked", "numbered"}
           /\ hs'[h].pc \in {"sending", "waiting"} =>
                 hs[h].pc \in {"sending", "waiting"} \/ hs'[h].ctl = next
           /\ hs'[h].pc \in {"numbered", "claimed", "sending"} =>
                 hs[h].pc \in {"numbered", "claimed", "sending"} \/ hs'[h].id = next
           /\ UNCHANGED <<toGuest, toHost, active, up, helloed>>
  <1>1. CASE AttachCheck(h)
    BY <1>1, CheckDoes DEF bridgeVars, guestVars, wireVars, channelVars, Early
  <1>2. CASE AttachClaim(h) /\ attachment.id # 0
    BY <1>2, ClaimRefusedDoes DEF bridgeVars, guestVars, wireVars, channelVars, Early
  <1>3. CASE AttachClaim(h) /\ attachment.id = 0
    BY <1>3, ClaimDoes DEF guestVars, wireVars, channelVars, Early
  <1>4. CASE AttachRequest(h) /\ MayRequest
    BY <1>4, RequestDoes DEF guestVars, wireVars, channelVars, Early
  <1>5. CASE (AttachRequest(h) /\ ~MayRequest) \/ AttachFails(h) \/ End(h) \/ DropHandle(h)
    BY <1>5, DetachDoes DEF guestVars, wireVars, channelVars, Early
  <1>6. CASE AttachSend(h)
    BY <1>6, SendDoes DEF guestVars, wireVars, channelVars, Early
  <1>7. CASE AttachOpened(h)
    BY <1>7, OpenedDoes DEF guestVars, wireVars, channelVars, Early
  <1>8. CASE Send(h) \/ Recv(h)
    <2>1. hs[h].pc = "open"
      BY <1>8 DEF Send, Recv, Attached
    <2> QED BY <1>8, <2>1, UseDoes DEF guestVars, wireVars, channelVars, Early
  <1>9. CASE AttachNumber(h)
    BY <1>9, NumberDoes DEF guestVars, wireVars, channelVars, Early
  <1>10. CASE Retired(h)
    BY <1>10, RetiredDoes DEF guestVars, wireVars, channelVars, Early
  <1> QED BY <1>1, <1>2, <1>3, <1>4, <1>5, <1>6, <1>7, <1>8, <1>9, <1>10 DEF CallerStep

\* What a caller's step sends, and what it still waits for.
LEMMA FramesCaller ==
    ASSUME TypeOK, HandleIds, HandleCtls, Asking, NEW h \in Handle, CallerStep(h)
    PROVE  /\ \A e \in Frames(outgoing') : e \in Frames(outgoing) \/ (e.type = "Mcp" /\ e.ctl = 0)
           /\ \A e \in Frames(inputQ') :
                 \/ e \in Frames(inputQ)
                 \/ /\ e.type = "Open" /\ e.id = hs[h].id /\ e.ctl = hs[h].ctl
                    /\ hs[h].pc = "sending" /\ hs'[h].pc = "waiting"
                    /\ hs'[h].id = hs[h].id /\ hs'[h].ctl = hs[h].ctl
           /\ answers' \subseteq answers
           /\ \A c \in pending' :
                 \/ c \in pending
                 \/ c = next /\ next' = next + 1 /\ hs'[h].ctl = next /\ hs'[h].pc = "sending"
           /\ hs[h].pc \in {"sending", "waiting"} /\ hs'[h].pc \notin {"sending", "waiting"} =>
                 /\ hs[h].ctl \notin pending'
                 /\ \A a \in answers' : a[1] # hs[h].ctl
  <1>0. inputQ \in Seq(Envelope) /\ next \in Nat
    BY DEF TypeOK
  <1>1. CASE AttachCheck(h)
    BY <1>1, CheckDoes DEF bridgeVars, stateVars
  <1>2. CASE AttachClaim(h) /\ attachment.id # 0
    BY <1>2, ClaimRefusedDoes DEF bridgeVars, stateVars
  <1>3. CASE AttachClaim(h) /\ attachment.id = 0
    BY <1>3, ClaimDoes
  <1>4. CASE AttachRequest(h) /\ MayRequest
    BY <1>4, RequestDoes
  <1>5. CASE (AttachRequest(h) /\ ~MayRequest) \/ AttachFails(h) \/ End(h) \/ DropHandle(h)
    <2>1. /\ outgoing' = outgoing /\ inputQ' = inputQ
          /\ hs[h].pc \in {"sending", "waiting"} => Forget(hs[h].ctl)
          /\ hs[h].pc \notin {"sending", "waiting"} => UNCHANGED <<pending, answers>>
      BY <1>5, DetachDoes
    <2>2. ASSUME Forget(hs[h].ctl)
          PROVE  /\ pending' \subseteq pending /\ answers' \subseteq answers
                 /\ hs[h].ctl \notin pending' /\ \A a \in answers' : a[1] # hs[h].ctl
      BY <2>2 DEF Forget, Answered
    <2> QED BY <2>1, <2>2
  <1>6. CASE AttachSend(h)
    <2>1. /\ hs[h].pc = "sending" /\ hs'[h].pc = "waiting"
          /\ hs'[h].id = hs[h].id /\ hs'[h].ctl = hs[h].ctl
          /\ UNCHANGED <<outgoing, pending, answers>>
      BY <1>6, SendDoes DEF stateVars
    <2>2. PICK e \in Envelope : e.type = "Open" /\ e.id = hs[h].id /\ e.ctl = hs[h].ctl /\ inputQ' = inputQ \o <<e>>
      BY <1>6, SendDoes
    <2>3. Frames(inputQ') = Frames(inputQ) \cup {e}
      BY <1>0, <2>2, FramesLast
    <2> QED BY <2>1, <2>2, <2>3
  <1>7. CASE AttachOpened(h)
    <2>1. Forget(hs[h].ctl) /\ UNCHANGED <<outgoing, inputQ>>
      BY <1>7, OpenedDoes
    <2> QED BY <2>1 DEF Forget, Answered
  <1>8. CASE Send(h) \/ Recv(h)
    BY <1>8, UseDoes
  <1>9. CASE AttachNumber(h)
    BY <1>9, NumberDoes
  <1>10. CASE Retired(h)
    BY <1>10, RetiredDoes
  <1> QED BY <1>1, <1>2, <1>3, <1>4, <1>5, <1>6, <1>7, <1>8, <1>9, <1>10 DEF CallerStep

\* A request that was sent keeps its caller.
LEMMA AskedStays ==
    ASSUME TypeOK, HandleIds, HandleCtls, NEW h \in Handle, CallerStep(h), NEW e \in Envelope, Asked(e)
    PROVE  AskedNext(e)
  <1>1. next \in Nat /\ e.id \in Nat /\ e.ctl \in Nat
    BY DEF TypeOK, Envelope
  <1>2. e.id # 0 /\ e.ctl # 0 /\ e.id < next' /\ e.ctl < next'
    BY <1>1, FieldsCaller DEF Asked
  <1>3. ASSUME NEW g \in Handle, hs'[g].id = e.id \/ hs'[g].ctl = e.ctl
        PROVE  hs'[g].id = e.id /\ hs'[g].ctl = e.ctl /\ hs'[g].pc \notin Early
    <2>1. CASE g # h
      BY <1>3, <2>1, FieldsCaller DEF Asked
    <2>2. CASE g = h
      <3>1. hs[h].id = e.id \/ hs[h].ctl = e.ctl
        BY <1>1, <1>3, <2>2, FieldsCaller DEF Asked
      <3>2. hs[h].id = e.id /\ hs[h].ctl = e.ctl /\ hs[h].pc \notin Early
        BY <3>1 DEF Asked
      <3> QED BY <2>2, <3>2, FieldsCaller DEF Early
    <2> QED BY <2>1, <2>2
  <1> QED BY <1>2, <1>3 DEF AskedNext

LEMMA AskingCaller ==
    ASSUME TypeOK, HandleIds, HandleCtls, Asking, NEW h \in Handle, CallerStep(h)
    PROVE  HandleCtls' /\ Asking'
  <1>0. /\ next \in Nat /\ next' \in Nat /\ next' >= next
        /\ \A g \in Handle : hs[g].ctl \in Nat /\ hs[g].ctl < next
        /\ inputQ \in Seq(Envelope) /\ hs[h].id \in Nat /\ hs[h].id < next
    <2>1. /\ next \in Nat /\ \A g \in Handle : hs[g].ctl \in Nat /\ hs[g].ctl < next
          /\ inputQ \in Seq(Envelope) /\ hs[h].id \in Nat /\ hs[h].id < next
      BY DEF TypeOK, Handles, HandleCtls, HandleIds
    <2>2. next' \in {next, next + 1}
      BY FieldsCaller
    <2> QED BY <2>1, <2>2
  <1>1. HandleCtls'
    <2>1. \A g \in Handle : hs'[g].ctl < next'
      BY <1>0, FieldsCaller
    <2>2. \A g \in Handle : /\ hs'[g].pc \in {"idle", "checked", "numbered", "claimed"} => hs'[g].ctl = 0
                            /\ hs'[g].pc \in {"sending", "waiting"} => hs'[g].ctl # 0
      <3>1. \A g \in Handle : g # h => hs'[g] = hs[g]
        BY FieldsCaller
      <3>2. hs'[h].pc \in {"idle", "checked", "numbered", "claimed"} => hs'[h].ctl = 0
        BY FieldsCaller DEF HandleCtls
      <3>3. CASE hs'[h].pc \in {"sending", "waiting"} /\ hs'[h].ctl = next
        <4>1. next # 0
          BY <1>0
        <4> QED BY <3>1, <3>2, <3>3, <4>1 DEF HandleCtls
      <3>4. CASE hs'[h].pc \in {"sending", "waiting"} /\ hs'[h].ctl # next
        BY <3>1, <3>4, FieldsCaller DEF HandleCtls
      <3> QED BY <3>1, <3>2, <3>3, <3>4 DEF HandleCtls
    <2>3. \A g, k \in Handle : hs'[g].ctl = hs'[k].ctl /\ hs'[g].ctl # 0 => g = k
      <3>1. \A g \in Handle : g # h => hs'[g].ctl = hs[g].ctl
        BY FieldsCaller
      <3>2. hs'[h].ctl = hs[h].ctl \/ hs'[h].ctl = next
        BY FieldsCaller
      <3> QED BY <1>0, <3>1, <3>2 DEF HandleCtls
    <2> QED BY <2>1, <2>2, <2>3 DEF HandleCtls
  <1>2. ASSUME NEW e \in Frames(inputQ')
        PROVE  e.type = "Open" /\ AskedNext(e)
    <2>1. CASE e \in Frames(inputQ)
      <3>1. e \in Envelope /\ e.type = "Open" /\ Asked(e)
        BY <1>0, <2>1 DEF Frames, Asking
      <3> QED BY <3>1, AskedStays
    <2>2. CASE e \notin Frames(inputQ)
      <3>1. /\ e.type = "Open" /\ e.id = hs[h].id /\ e.ctl = hs[h].ctl
            /\ hs[h].pc = "sending" /\ hs'[h].pc = "waiting"
            /\ hs'[h].id = hs[h].id /\ hs'[h].ctl = hs[h].ctl
        BY <1>2, <2>2, FramesCaller
      <3>2. e.id # 0 /\ e.ctl # 0 /\ e.id < next' /\ e.ctl < next'
        BY <1>0, <3>1 DEF HandleIds, HandleCtls
      <3>3. \A g \in Handle : g # h => hs'[g].id # e.id /\ hs'[g].ctl # e.ctl
        BY <3>1, <3>2, FieldsCaller DEF HandleIds, HandleCtls
      <3> QED BY <3>1, <3>2, <3>3 DEF AskedNext, Early
    <2> QED BY <2>1, <2>2
  <1>3. ASSUME NEW e \in Frames(toGuest'), e.type = "Open"
        PROVE  AskedNext(e)
    <2>1. toGuest' = toGuest
      BY FieldsCaller
    <2>2. e \in Frames(toGuest)
      BY <2>1 DEF Frames
    <2>3. e \in Envelope
      BY <2>2 DEF Frames, TypeOK
    <2> QED BY <1>3, <2>2, <2>3, AskedStays DEF Asking
  <1>4. ASSUME NEW e \in Frames(toHost'), e.type = "Opened"
        PROVE  AskedNext(e)
    <2>1. toHost' = toHost
      BY FieldsCaller
    <2>2. e \in Frames(toHost)
      BY <2>1 DEF Frames
    <2>3. e \in Envelope
      BY <2>2 DEF Frames, TypeOK
    <2> QED BY <1>4, <2>2, <2>3, AskedStays DEF Asking
  <1>5. \A e \in Frames(outgoing') : e.type = "Mcp"
    BY FramesCaller DEF Asking
  <1>6. ASSUME NEW a \in answers', a[2] = "Opened"
        PROVE  a[1] < next' /\ \A g \in Handle : hs'[g].ctl = a[1] => hs'[g].pc = "waiting"
    <2>0. a \in answers
      BY <1>6, FramesCaller
    <2>1. /\ a \in answers /\ a[1] \in Nat /\ a[1] < next
          /\ \A g \in Handle : hs[g].ctl = a[1] => hs[g].pc = "waiting"
      BY <1>6, <2>0 DEF Asking, TypeOK
    <2>2. ASSUME hs'[h].ctl = a[1]
          PROVE  hs'[h].pc = "waiting"
      <3>1. hs[h].ctl = a[1] /\ hs[h].pc = "waiting" /\ hs'[h].ctl = hs[h].ctl
        BY <1>0, <2>1, <2>2, FieldsCaller
      <3>2. hs'[h].pc \in {"sending", "waiting"}
        BY <1>6, <3>1, FramesCaller
      <3> QED BY <3>1, <3>2, FieldsCaller DEF Early
    <2> QED BY <1>0, <2>1, <2>2, FieldsCaller
  <1>7. ASSUME NEW c \in pending'
        PROVE  c < next' /\ \A g \in Handle : hs'[g].ctl = c => hs'[g].pc \in {"sending", "waiting"}
    <2>1. CASE c \in pending
      <3>1. c \in Nat /\ c < next /\ \A g \in Handle : hs[g].ctl = c => hs[g].pc \in {"sending", "waiting"}
        BY <2>1 DEF Asking, TypeOK
      <3>2. ASSUME hs'[h].ctl = c
            PROVE  hs'[h].pc \in {"sending", "waiting"}
        <4>1. hs[h].ctl = c /\ hs[h].pc \in {"sending", "waiting"}
          BY <1>0, <3>1, <3>2, FieldsCaller
        <4> QED BY <1>7, <4>1, FramesCaller
      <3> QED BY <1>0, <3>1, <3>2, FieldsCaller
    <2>2. CASE c \notin pending
      <3>1. c = next /\ next' = next + 1 /\ hs'[h].ctl = next /\ hs'[h].pc = "sending"
        BY <1>7, <2>2, FramesCaller
      <3>2. \A g \in Handle : g # h => hs'[g].ctl < next
        BY <1>0, FieldsCaller
      <3> QED BY <1>0, <3>1, <3>2
    <2> QED BY <2>1, <2>2
  <1>8. Asking'
    BY <1>2, <1>3, <1>4, <1>5, <1>6, <1>7 DEF Asking, Asked, AskedNext
  <1> QED BY <1>1, <1>8

\* What a caller's step does to the attachment, and what its handle learns.
LEMMA AttachmentCaller ==
    ASSUME TypeOK, HandleIds, Holder, NEW h \in Handle, CallerStep(h)
    PROVE  /\ dead' = dead
           /\ \/ attachment'.id = 0
              \/ attachment'.id = hs[h].id /\ hs'[h].id = hs[h].id
                 /\ hs[h].pc = "numbered" /\ hs'[h].pc = "claimed"
              \/ /\ attachment'.id = attachment.id
                 /\ hs[h].id = attachment.id /\ attachment.id # 0 =>
                       /\ hs'[h].id = hs[h].id /\ hs'[h].pc \in {"claimed", "sending", "waiting", "open"}
                       /\ \/ hs'[h].pc = hs[h].pc
                          \/ hs[h].pc = "claimed" /\ ~dead
                          \/ hs[h].pc \in {"sending", "waiting"}
           /\ hs'[h].pc = "open" =>
                 \/ hs[h].pc = "open" /\ hs'[h].run = hs[h].run
                 \/ /\ hs[h].pc = "waiting"
                    /\ \E a \in answers : a[1] = hs[h].ctl /\ a[2] = "Opened" /\ hs'[h].run = a[3]
           /\ hs'[h].pc = "waiting" => hs[h].pc = "sending" /\ hs'[h].ctl = hs[h].ctl
           /\ \/ attachment'.id = attachment.id \/ attachment.id = 0
              \/ attachment.id = hs[h].id /\ hs'[h].pc \in {"ending", "dropping"}
           /\ hs'[h].pc \in {"claimed", "sending"} =>
                 \/ hs[h].pc \in {"claimed", "sending"}
                 \/ attachment'.id = hs[h].id /\ hs'[h].id = hs[h].id
  <1>0. ASSUME hs[h].id = attachment.id, attachment.id # 0
        PROVE  hs[h].pc \in {"claimed", "sending", "waiting", "open"}
    BY <1>0 DEF Holder, HandleIds
  <1>1. CASE AttachCheck(h)
    <2>1. hs[h].id = 0
      BY <1>1, CheckDoes DEF HandleIds
    <2> QED BY <1>1, <2>1, CheckDoes DEF bridgeVars, stateVars
  <1>2. CASE AttachClaim(h) /\ attachment.id # 0
    BY <1>0, <1>2, ClaimRefusedDoes DEF bridgeVars, stateVars
  <1>3. CASE AttachClaim(h) /\ attachment.id = 0
    BY <1>3, ClaimDoes
  <1>4. CASE AttachRequest(h) /\ MayRequest
    BY <1>4, RequestDoes
  <1>5. CASE (AttachRequest(h) /\ ~MayRequest) \/ AttachFails(h) \/ End(h) \/ DropHandle(h)
    <2>1. attachment'.id = 0 \/ (attachment'.id = attachment.id /\ hs[h].id # attachment.id)
      BY <1>5, DetachDoes, NoAttachmentIs
    <2> QED BY <1>5, <2>1, DetachDoes
  <1>6. CASE AttachSend(h)
    BY <1>6, SendDoes DEF stateVars
  <1>7. CASE AttachOpened(h)
    BY <1>7, OpenedDoes
  <1>8. CASE Send(h) \/ Recv(h)
    <2>1. hs[h].pc = "open"
      BY <1>8 DEF Send, Recv, Attached
    <2> QED BY <1>8, <2>1, UseDoes
  <1>9. CASE AttachNumber(h)
    <2>1. hs[h].id = 0
      BY <1>9, NumberDoes DEF HandleIds
    <2> QED BY <1>9, <2>1, NumberDoes
  <1>10. CASE Retired(h)
    BY <1>0, <1>10, RetiredDoes
  <1> QED BY <1>1, <1>2, <1>3, <1>4, <1>5, <1>6, <1>7, <1>8, <1>9, <1>10 DEF CallerStep

LEMMA HolderCaller ==
    ASSUME TypeOK, HandleIds, Holder, NEW h \in Handle, CallerStep(h)
    PROVE  Holder'
  <1> SUFFICES ASSUME attachment'.id # 0
               PROVE  \E g \in Handle : /\ hs'[g].id = attachment'.id
                                        /\ hs'[g].pc \in {"claimed", "sending", "waiting", "open"}
                                        /\ dead' => hs'[g].pc = "claimed"
    BY DEF Holder
  <1>1. CASE /\ attachment'.id = hs[h].id /\ hs'[h].id = hs[h].id
             /\ hs[h].pc = "numbered" /\ hs'[h].pc = "claimed"
    BY <1>1
  <1>2. CASE /\ attachment'.id = attachment.id
             /\ hs[h].id = attachment.id /\ attachment.id # 0 =>
                   /\ hs'[h].id = hs[h].id /\ hs'[h].pc \in {"claimed", "sending", "waiting", "open"}
                   /\ \/ hs'[h].pc = hs[h].pc
                      \/ hs[h].pc = "claimed" /\ ~dead
                      \/ hs[h].pc \in {"sending", "waiting"}
    <2>1. PICK k \in Handle : /\ hs[k].id = attachment.id
                              /\ hs[k].pc \in {"claimed", "sending", "waiting", "open"}
                              /\ dead => hs[k].pc = "claimed"
      BY <1>2 DEF Holder
    <2>2. CASE k # h
      <3>1. hs'[k] = hs[k] /\ dead' = dead
        BY <2>2, FieldsCaller, AttachmentCaller
      <3> QED BY <1>2, <2>1, <3>1
    <2>3. CASE k = h
      <3>1. dead' = dead
        BY AttachmentCaller
      <3> QED BY <1>2, <2>1, <2>3, <3>1
    <2> QED BY <2>2, <2>3
  <1> QED BY <1>1, <1>2, AttachmentCaller

LEMMA RunningCaller ==
    ASSUME TypeOK, HandleIds, HandleCtls, Asking, Holder, Running, NEW h \in Handle, CallerStep(h)
    PROVE  Running'
  <1>0. /\ UNCHANGED <<toGuest, toHost, active, up>> /\ next \in Nat
        /\ \A g \in Handle : g # h => hs'[g] = hs[g]
        /\ answers' \subseteq answers
    <2>1. next \in Nat
      BY DEF TypeOK
    <2> QED BY <2>1, FieldsCaller, FramesCaller
  <1>1. ASSUME NEW a, NEW r, RunsOrEnded(a, r)
        PROVE  RunsNext(a, r)
    BY <1>0, <1>1 DEF RunsOrEnded, RunsNext, Frames
  <1>2. Connected' = Connected /\ Frames(toHost') = Frames(toHost)
    BY <1>0 DEF Connected, Open, Frames
  <1> SUFFICES ASSUME Connected, attachment'.id # 0
               PROVE  /\ \A f \in Frames(toHost) :
                            f.type = "Opened" /\ f.id = attachment'.id => RunsNext(f.id, f.run)
                      /\ \A g \in Handle : hs'[g].id = attachment'.id =>
                            /\ hs'[g].pc = "open" => RunsNext(hs'[g].id, hs'[g].run)
                            /\ hs'[g].pc = "waiting" =>
                                  \A a \in answers' : a[1] = hs'[g].ctl /\ a[2] = "Opened"
                                                         => RunsNext(hs'[g].id, a[3])
    BY <1>2 DEF Running, RunsOrEnded, RunsNext
  <1>3. CASE /\ attachment'.id = hs[h].id /\ hs'[h].id = hs[h].id
             /\ hs[h].pc = "numbered" /\ hs'[h].pc = "claimed"
    <2>1. ASSUME NEW f \in Frames(toHost), f.type = "Opened"
          PROVE  f.id # hs[h].id
      BY <1>3, <2>1 DEF Asking, Asked, Early
    <2>2. \A g \in Handle : g # h => hs'[g].id # hs[h].id
      BY <1>0, <1>3 DEF HandleIds
    <2> QED BY <1>3, <2>1, <2>2
  <1>4. CASE attachment'.id = attachment.id
    <2>1. /\ \A f \in Frames(toHost) :
                f.type = "Opened" /\ f.id = attachment.id => RunsOrEnded(f.id, f.run)
          /\ \A g \in Handle : hs[g].id = attachment.id =>
                /\ hs[g].pc = "open" => RunsOrEnded(hs[g].id, hs[g].run)
                /\ hs[g].pc = "waiting" =>
                      \A a \in answers : a[1] = hs[g].ctl /\ a[2] = "Opened" => RunsOrEnded(hs[g].id, a[3])
      BY <1>4 DEF Running
    <2>2. ASSUME NEW g \in Handle, g # h, hs'[g].id = attachment'.id
          PROVE  /\ hs'[g].pc = "open" => RunsNext(hs'[g].id, hs'[g].run)
                 /\ hs'[g].pc = "waiting" =>
                       \A a \in answers' : a[1] = hs'[g].ctl /\ a[2] = "Opened" => RunsNext(hs'[g].id, a[3])
      <3>1. hs'[g] = hs[g] /\ hs[g].id = attachment.id
        BY <1>0, <1>4, <2>2
      <3> QED BY <1>0, <1>1, <2>1, <3>1
    <2>3. ASSUME hs'[h].id = attachment'.id
          PROVE  /\ hs'[h].pc = "open" => RunsNext(hs'[h].id, hs'[h].run)
                 /\ hs'[h].pc = "waiting" =>
                       \A a \in answers' : a[1] = hs'[h].ctl /\ a[2] = "Opened" => RunsNext(hs'[h].id, a[3])
      <3>1. attachment.id \in Nat /\ attachment.id < next
        BY <1>0, <1>4 DEF Holder, HandleIds, TypeOK
      <3>2. hs'[h].id = hs[h].id /\ hs[h].id = attachment.id
        BY <1>0, <1>4, <2>3, <3>1, FieldsCaller
      <3>3. hs'[h].pc = "open" => RunsOrEnded(hs[h].id, hs'[h].run)
        BY <2>1, <3>2, AttachmentCaller
      <3>4. ASSUME hs'[h].pc = "waiting", NEW a \in answers', a[1] = hs'[h].ctl, a[2] = "Opened"
            PROVE  FALSE
        <4>1. hs[h].pc = "sending" /\ a \in answers /\ a[1] = hs[h].ctl
          BY <1>0, <3>4, AttachmentCaller
        <4> QED BY <3>4, <4>1 DEF Asking
      <3> QED BY <1>1, <3>2, <3>3, <3>4
    <2> QED BY <1>1, <1>4, <2>1, <2>2, <2>3
  <1> QED BY <1>3, <1>4, AttachmentCaller

\* What the session loop changes.
LoopMoves ==
    /\ UNCHANGED <<hs, next, active, up>>
    /\ Frames(inputQ') \subseteq Frames(inputQ) /\ Frames(outgoing') \subseteq Frames(outgoing)
    /\ Frames(toHost') \subseteq Frames(toHost) /\ pending' \subseteq pending
    /\ \A f \in Frames(toGuest') :
          f \in Frames(toGuest) \cup Frames(inputQ) \cup Frames(outgoing)
          \/ (f.type \in {"Hello", "Close"} /\ f.ctl = 0)
    /\ \A a \in answers' :
          a \in answers \/ \E e \in Frames(toHost) : a = <<e.ctl, e.type, e.run>> /\ e.ctl \in pending
    /\ attachment'.id # 0 =>
          /\ attachment'.id = attachment.id /\ dead' = dead
          /\ Connected' => Connected
          /\ \A f \in Frames(toHost) : f.type = "Closed" /\ f.id = attachment.id /\ ~dead
                                          => f \in Frames(toHost')

LEMMA LoopMovesAlways ==
    ASSUME TypeOK, LoopStep \/ LoopEnds
    PROVE  LoopMoves
  <1>0. /\ inputQ \in Seq(Envelope) /\ outgoing \in Seq(Envelope) /\ toHost \in Seq(Envelope)
        /\ toGuest \in Seq(Envelope) /\ retire \in Nat
    BY DEF TypeOK
  <1>1. CASE LoopRetire
    <2>1. /\ Transmit(<<Env("Close", 0, retire, 0, NoBody)>>)
          /\ UNCHANGED <<hs, next, active, up, inputQ, outgoing, toHost, pending, answers, attachment, dead>>
      BY <1>1 DEF LoopRetire, stateVars, guestVars, handleVars
    <2>2. "Close" \in MessageType
      BY DEF MessageType
    <2>3. \E x \in Envelope : x.type = "Close" /\ x.ctl = 0 /\ x = Env("Close", 0, retire, 0, NoBody)
      BY <1>0, <2>2 DEF Env, Envelope, NoBody
    <2>4. PICK x \in Envelope : x.type = "Close" /\ x.ctl = 0 /\ Transmit(<<x>>)
      BY <2>1, <2>3
    <2>5. \A f \in Frames(toGuest') : f \in Frames(toGuest) \/ (f.type = "Close" /\ f.ctl = 0)
      BY <2>4, TransmitFrames
    <2> QED BY <2>1, <2>5 DEF LoopMoves, Connected, Open
  <1>2. CASE LoopCommand
    <2>1. /\ Transmit(<<Head(inputQ)>>) /\ inputQ # <<>> /\ inputQ' = Tail(inputQ)
          /\ UNCHANGED <<hs, next, active, up, outgoing, toHost, pending, answers, attachment, dead>>
      BY <1>2 DEF LoopCommand, stateVars, guestVars, handleVars
    <2>2. Head(inputQ) \in Frames(inputQ) /\ Head(inputQ) \in Envelope /\ Frames(inputQ') \subseteq Frames(inputQ)
      BY <1>0, <2>1, FramesTail, EnvelopeTail
    <2>3. \A f \in Frames(toGuest') : f \in Frames(toGuest) \/ f = Head(inputQ)
      BY <2>1, <2>2, TransmitFrames
    <2> QED BY <2>1, <2>2, <2>3 DEF LoopMoves, Connected, Open
  <1>3. CASE LoopData
    <2>1. /\ Transmit(<<Head(outgoing)>>) /\ outgoing # <<>> /\ outgoing' = Tail(outgoing)
          /\ UNCHANGED <<hs, next, active, up, inputQ, toHost, pending, answers, attachment, dead>>
      BY <1>3 DEF LoopData, guestVars, handleVars
    <2>2. /\ Head(outgoing) \in Frames(outgoing) /\ Head(outgoing) \in Envelope
          /\ Frames(outgoing') \subseteq Frames(outgoing)
      BY <1>0, <2>1, FramesTail, EnvelopeTail
    <2>3. \A f \in Frames(toGuest') : f \in Frames(toGuest) \/ f = Head(outgoing)
      BY <2>1, <2>2, TransmitFrames
    <2> QED BY <2>1, <2>2, <2>3 DEF LoopMoves, Connected, Open
  <1>4. CASE LoopRead
    <2>1. toHost # <<>> /\ Process(Head(toHost)) /\ UNCHANGED <<hs, next, active, up, inputQ>>
      BY <1>4 DEF LoopRead, guestVars
    <2>2. PICK e : e = Head(toHost)
      OBVIOUS
    <2>3. /\ e \in Envelope /\ e \in Frames(toHost) /\ dead' = dead
          /\ toHost' = Tail(toHost) /\ Frames(toHost') \subseteq Frames(toHost)
          /\ attachment'.id = attachment.id \/ attachment'.id = 0
          /\ Frames(outgoing') \subseteq Frames(outgoing)
          /\ pending' \subseteq pending
          /\ \A a \in answers' :
                a \in answers \/ (a = <<e.ctl, e.type, e.run>> /\ e.ctl \in pending /\ ~dead)
          /\ \A f \in Frames(toGuest') : f \in Frames(toGuest) \/ (f.type \in {"Hello", "Close"} /\ f.ctl = 0)
          /\ e.type = "Created" => attachment'.id = 0
          /\ e.type = "Closed" /\ ~dead => attachment'.id = 0 \/ attachment'.id # e.id
      BY <2>1, <2>2, ProcessDoes
    <2>4. \A f \in Frames(toHost) : f = e \/ f \in Frames(toHost')
      BY <1>0, <2>1, <2>2, <2>3, FramesHead
    <2>5. Connected' /\ e.type # "Created" => Connected
      BY <2>1, <2>4 DEF Connected, Open, Frames
    <2>6. ASSUME attachment'.id # 0
          PROVE  /\ attachment'.id = attachment.id
                 /\ Connected' => Connected
                 /\ \A f \in Frames(toHost) : f.type = "Closed" /\ f.id = attachment.id /\ ~dead
                                                 => f \in Frames(toHost')
      BY <2>3, <2>4, <2>5, <2>6
    <2> QED BY <2>1, <2>3, <2>6 DEF LoopMoves
  <1>5. CASE CheckLiveness \/ LoopEnds
    <2>1. Invalidate /\ UNCHANGED <<hs, next, active, up, toHost, toGuest>> /\ (inputQ' = inputQ \/ inputQ' = <<>>)
      BY <1>5 DEF CheckLiveness, LoopEnds, guestVars, wireVars, channelVars, handleVars
    <2>2. attachment'.id = 0 /\ pending' = {} /\ outgoing' = <<>> /\ answers' = answers
      BY <2>1, NoAttachmentIs DEF Invalidate
    <2>3. Frames(<<>>) = {}
      BY DEF Frames
    <2> QED BY <2>1, <2>2, <2>3 DEF LoopMoves
  <1>6. CASE LoopPasses
    <2>1. UNCHANGED <<hs, next, active, up, inputQ, outgoing, toHost, toGuest, pending, answers,
                      attachment, dead>>
      BY <1>6 DEF LoopPasses, bridgeVars, stateVars, guestVars, channelVars, handleVars
    <2>2. Frames(toGuest') = Frames(toGuest) /\ Frames(toHost') = Frames(toHost)
          /\ Frames(inputQ') = Frames(inputQ) /\ Frames(outgoing') = Frames(outgoing)
      BY <2>1 DEF Frames
    <2> QED BY <2>1, <2>2 DEF LoopMoves, Connected, Open
  <1> QED BY <1>1, <1>2, <1>3, <1>4, <1>5, <1>6 DEF LoopStep

LEMMA RunningLoop ==
    ASSUME TypeOK, HandleIds, HandleCtls, Asking, Holder, Running, LoopMoves
    PROVE  HandleCtls' /\ Asking' /\ Holder' /\ Running'
  <1>0. UNCHANGED <<hs, next, active, up>>
    BY DEF LoopMoves
  <1>1. HandleCtls'
    BY <1>0 DEF HandleCtls
  <1>2. ASSUME NEW e, Asked(e)
        PROVE  AskedNext(e)
    BY <1>0, <1>2 DEF Asked, AskedNext
  <1>3. Asking'
    <2>1. ASSUME NEW a \in answers', a[2] = "Opened"
          PROVE  a[1] < next /\ \A h \in Handle : hs[h].ctl = a[1] => hs[h].pc = "waiting"
      <3>1. CASE a \in answers
        BY <2>1, <3>1 DEF Asking
      <3>2. CASE a \notin answers
        <4>1. PICK e \in Frames(toHost) : a = <<e.ctl, e.type, e.run>> /\ e.ctl \in pending
          BY <2>1, <3>2 DEF LoopMoves
        <4>2. a[1] = e.ctl /\ e.type = "Opened"
          BY <2>1, <4>1
        <4>3. Asked(e) /\ \A h \in Handle : hs[h].ctl = e.ctl => hs[h].pc \in {"sending", "waiting"}
          BY <4>1, <4>2 DEF Asking
        <4> QED BY <4>2, <4>3 DEF Asked, Early
      <3> QED BY <3>1, <3>2
    <2>2. \A e \in Frames(inputQ') : e.type = "Open" /\ AskedNext(e)
      BY <1>2 DEF Asking, LoopMoves
    <2>3. \A e \in Frames(toGuest') : e.type = "Open" => AskedNext(e)
      BY <1>2 DEF Asking, LoopMoves
    <2>4. \A e \in Frames(toHost') : e.type = "Opened" => AskedNext(e)
      BY <1>2 DEF Asking, LoopMoves
    <2>5. \A e \in Frames(outgoing') : e.type = "Mcp"
      BY DEF Asking, LoopMoves
    <2>6. \A c \in pending' : c < next /\ \A h \in Handle : hs[h].ctl = c => hs[h].pc \in {"sending", "waiting"}
      BY DEF Asking, LoopMoves
    <2> QED BY <1>0, <2>1, <2>2, <2>3, <2>4, <2>5, <2>6 DEF Asking, Asked, AskedNext
  <1>4. Holder'
    BY <1>0 DEF Holder, LoopMoves
  <1>5. ASSUME Connected', attachment'.id # 0
        PROVE  /\ \A f \in Frames(toHost') :
                     f.type = "Opened" /\ f.id = attachment'.id => RunsNext(f.id, f.run)
               /\ \A h \in Handle : hs'[h].id = attachment'.id =>
                     /\ hs'[h].pc = "open" => RunsNext(hs'[h].id, hs'[h].run)
                     /\ hs'[h].pc = "waiting" =>
                           \A a \in answers' : a[1] = hs'[h].ctl /\ a[2] = "Opened" => RunsNext(hs'[h].id, a[3])
    <2>1. /\ Connected /\ attachment'.id = attachment.id /\ dead' = dead
          /\ \A f \in Frames(toHost) : f.type = "Closed" /\ f.id = attachment.id /\ ~dead
                                          => f \in Frames(toHost')
      BY <1>5 DEF LoopMoves
    <2>2. /\ \A f \in Frames(toHost) :
                f.type = "Opened" /\ f.id = attachment.id => RunsOrEnded(f.id, f.run)
          /\ \A h \in Handle : hs[h].id = attachment.id =>
                /\ hs[h].pc = "open" => RunsOrEnded(hs[h].id, hs[h].run)
                /\ hs[h].pc = "waiting" =>
                      \A a \in answers : a[1] = hs[h].ctl /\ a[2] = "Opened" => RunsOrEnded(hs[h].id, a[3])
      BY <1>5, <2>1 DEF Running
    <2>3. ASSUME ~dead, NEW r, RunsOrEnded(attachment.id, r)
          PROVE  RunsNext(attachment.id, r)
      BY <1>0, <2>1, <2>3 DEF RunsOrEnded, RunsNext
    <2>4. PICK k \in Handle : hs[k].id = attachment.id /\ (dead => hs[k].pc = "claimed")
      BY <1>5, <2>1 DEF Holder
    <2>5. \A f \in Frames(toHost) : f.type = "Opened" /\ f.id = attachment.id => hs[k].pc # "claimed"
      BY <2>4 DEF Asking, Asked, Early
    <2>6. \A h \in Handle : hs[h].id = attachment.id => h = k
      BY <1>5, <2>1, <2>4 DEF HandleIds
    <2>7. \A f \in Frames(toHost') : f.type = "Opened" /\ f.id = attachment.id => RunsNext(f.id, f.run)
      BY <2>2, <2>3, <2>4, <2>5 DEF LoopMoves
    <2>8. ASSUME NEW h \in Handle, hs[h].id = attachment.id
          PROVE  /\ hs[h].pc = "open" => RunsNext(hs[h].id, hs[h].run)
                 /\ hs[h].pc = "waiting" =>
                       \A a \in answers' : a[1] = hs[h].ctl /\ a[2] = "Opened" => RunsNext(hs[h].id, a[3])
      <3>1. dead => hs[h].pc = "claimed"
        BY <2>4, <2>6, <2>8
      <3>2. hs[h].pc = "open" => RunsNext(hs[h].id, hs[h].run)
        BY <2>2, <2>3, <2>8, <3>1
      <3>3. ASSUME hs[h].pc = "waiting", NEW a \in answers', a[1] = hs[h].ctl, a[2] = "Opened"
            PROVE  RunsNext(hs[h].id, a[3])
        <4>1. CASE a \in answers
          BY <2>2, <2>3, <2>8, <3>1, <3>3, <4>1
        <4>2. CASE a \notin answers
          <5>1. PICK e \in Frames(toHost) : a = <<e.ctl, e.type, e.run>>
            BY <3>3, <4>2 DEF LoopMoves
          <5>2. e.type = "Opened" /\ e.ctl = hs[h].ctl /\ a[3] = e.run
            BY <3>3, <5>1
          <5>3. e.id = hs[h].id
            BY <5>2 DEF Asking, Asked
          <5> QED BY <2>2, <2>3, <2>8, <3>1, <3>3, <5>2, <5>3
        <4> QED BY <4>1, <4>2
      <3> QED BY <3>2, <3>3
    <2> QED BY <1>0, <2>1, <2>7, <2>8
  <1>6. Running'
    BY <1>5 DEF Running, RunsOrEnded, RunsNext
  <1> QED BY <1>1, <1>3, <1>4, <1>6

LEMMA RunningGuest ==
    ASSUME TypeOK, HandleCtls, Asking, Holder, Running, GuestStep
    PROVE  HandleCtls' /\ Asking' /\ Holder' /\ Running'
  <1>0. /\ UNCHANGED <<hs, next, up, dead, pending, answers, attachment, inputQ, outgoing>>
        /\ GuestMoves
    <2>1. UNCHANGED <<hs, next, up, dead, pending, answers, attachment, inputQ, outgoing>>
      BY DEF GuestStep, GuestReads, GuestHandle, ChildWorks, ChildStep, GuestWrites, bridgeVars, stateVars,
             wireVars, channelVars, handleVars
    <2> QED BY <2>1, GuestMovesAlways
  <1>1. HandleCtls' /\ Holder'
    BY <1>0 DEF HandleCtls, Holder
  <1>2. Asking'
    <2>1. ASSUME NEW f \in Frames(toHost'), f.type = "Opened"
          PROVE  Asked(f)
      <3>1. CASE f \in Frames(toHost)
        BY <2>1, <3>1 DEF Asking
      <3>2. CASE OpenedNow(f)
        <4>1. PICK e \in Frames(toGuest) : e.type = "Open" /\ e.id = f.id /\ e.ctl = f.ctl
          BY <3>2 DEF OpenedNow
        <4> QED BY <4>1 DEF Asking, Asked
      <3> QED BY <1>0, <2>1, <3>1, <3>2 DEF GuestMoves
    <2>2. \A e \in Frames(toGuest') : e.type = "Open" => Asked(e)
      BY <1>0 DEF Asking, GuestMoves
    <2> QED BY <1>0, <2>1, <2>2 DEF Asking, Asked
  <1>3. Connected' => Connected
    BY <1>0 DEF GuestMoves, Connected, Open, Frames
  <1>4. ASSUME NEW a, a # 0, NEW r, RunsOrEnded(a, r)
        PROVE  RunsNext(a, r)
    <2>1. CASE \E f \in Frames(toHost) : f.type = "Closed" /\ f.id = a
      BY <1>0, <2>1 DEF GuestMoves, RunsNext
    <2>2. CASE active.id = a /\ active.run = r
      BY <1>0, <1>4, <2>2 DEF GuestMoves, RunsNext
    <2> QED BY <1>4, <2>1, <2>2 DEF RunsOrEnded
  <1>5. ASSUME Connected', attachment.id # 0
        PROVE  /\ \A f \in Frames(toHost') :
                     f.type = "Opened" /\ f.id = attachment.id => RunsNext(f.id, f.run)
               /\ \A h \in Handle : hs[h].id = attachment.id =>
                     /\ hs[h].pc = "open" => RunsNext(hs[h].id, hs[h].run)
                     /\ hs[h].pc = "waiting" =>
                           \A a \in answers : a[1] = hs[h].ctl /\ a[2] = "Opened" => RunsNext(hs[h].id, a[3])
    <2>1. /\ \A f \in Frames(toHost) :
                f.type = "Opened" /\ f.id = attachment.id => RunsOrEnded(f.id, f.run)
          /\ \A h \in Handle : hs[h].id = attachment.id =>
                /\ hs[h].pc = "open" => RunsOrEnded(hs[h].id, hs[h].run)
                /\ hs[h].pc = "waiting" =>
                      \A a \in answers : a[1] = hs[h].ctl /\ a[2] = "Opened" => RunsOrEnded(hs[h].id, a[3])
      BY <1>3, <1>5 DEF Running
    <2>2. ASSUME NEW f \in Frames(toHost'), f.type = "Opened", f.id = attachment.id
          PROVE  RunsNext(f.id, f.run)
      <3>1. CASE f \in Frames(toHost)
        BY <1>4, <1>5, <2>1, <2>2, <3>1
      <3>2. CASE OpenedNow(f)
        BY <3>2 DEF OpenedNow, RunsNext
      <3> QED BY <1>0, <2>2, <3>1, <3>2 DEF GuestMoves
    <2> QED BY <1>4, <1>5, <2>1, <2>2
  <1>6. Running'
    BY <1>0, <1>5 DEF Running, RunsOrEnded, RunsNext
  <1> QED BY <1>1, <1>2, <1>6

LEMMA RunningProcess ==
    ASSUME TypeOK, HandleCtls, Asking, Holder, Running, Launch \/ GuestGone
    PROVE  HandleCtls' /\ Asking' /\ Holder' /\ Running'
  <1>0. toHost \in Seq(Envelope)
    BY DEF TypeOK
  <1>1. /\ UNCHANGED <<hs, next, dead, pending, answers, attachment, inputQ, outgoing>> /\ toGuest' = <<>>
    BY DEF Launch, GuestGone, bridgeVars, stateVars, handleVars
  <1>2. ~Connected' /\ \A f \in Frames(toHost') : f \in Frames(toHost) \/ f.type = "Created"
    <2>1. CASE GuestGone
      BY <2>1 DEF GuestGone, GuestEnds, Connected, Open
    <2>2. CASE Launch
      <3>1. "Created" \in MessageType
        BY DEF MessageType
      <3>2. \E x \in Envelope : x.type = "Created" /\ x = Env("Created", 0, 0, 0, NoBody)
        BY <3>1 DEF Env, Envelope, NoBody
      <3>3. PICK x \in Envelope : x.type = "Created" /\ toHost' = Append(toHost, x)
        BY <2>2, <3>2 DEF Launch
      <3>4. toHost' = toHost \o <<x>>
        BY <1>0, <3>3, EnvelopeLast
      <3>5. Frames(toHost') = Frames(toHost) \cup {x}
        BY <1>0, <3>4, FramesLast
      <3>6. ~Connected'
        BY <3>3, <3>5 DEF Connected, Open, Frames
      <3> QED BY <3>3, <3>5, <3>6
    <2> QED BY <2>1, <2>2
  <1>3. HandleCtls' /\ Holder'
    BY <1>1 DEF HandleCtls, Holder
  <1>4. Frames(toGuest') = {}
    BY <1>1 DEF Frames
  <1>5. \A f \in Frames(toHost') : f.type = "Opened" => Asked(f)
    BY <1>2 DEF Asking
  <1>6. Asking'
    BY <1>1, <1>4, <1>5 DEF Asking, Asked
  <1>7. Running'
    BY <1>2 DEF Running
  <1> QED BY <1>3, <1>6, <1>7

LEMMA RunningInit ==
    ASSUME Init
    PROVE  HandleCtls /\ Asking /\ Holder /\ Running
  <1>1. /\ outgoing = <<>> /\ toGuest = <<>> /\ toHost = <<>> /\ inputQ = <<>>
        /\ attachment = NoAttachment /\ next = 1 /\ answers = {} /\ pending = {}
        /\ \A h \in Handle : hs[h].ctl = 0 /\ hs[h].pc = "idle"
    BY DEF Init, BridgeInit, GuestInit
  <1>2. Frames(<<>>) = {} /\ attachment.id = 0
    BY <1>1, NoAttachmentIs DEF Frames
  <1> QED BY <1>1, <1>2 DEF HandleCtls, Asking, Holder, Running

LEMMA RunningStep ==
    ASSUME TypeOK, HandleIds, HandleCtls, Asking, Holder, Running, [Next]_carrierVars
    PROVE  HandleCtls' /\ Asking' /\ Holder' /\ Running'
  <1>1. CASE UNCHANGED carrierVars
    <2>1. UNCHANGED <<hs, next, up, dead, pending, answers, attachment, inputQ, outgoing, toGuest, toHost, active>>
      BY <1>1 DEF carrierVars, bridgeVars, stateVars, guestVars, wireVars, channelVars, handleVars
    <2>2. HandleCtls' /\ Holder' /\ Asking'
      BY <2>1 DEF HandleCtls, Holder, Asking, Asked, Frames
    <2>3. Running'
      BY <2>1 DEF Running, RunsOrEnded, Connected, Open, Frames
    <2> QED BY <2>2, <2>3
  <1>2. CASE \E h \in Handle : CallerStep(h)
    BY <1>2, AskingCaller, HolderCaller, RunningCaller
  <1>3. CASE LoopStep \/ LoopEnds
    BY <1>3, LoopMovesAlways, RunningLoop
  <1>4. CASE Launch \/ GuestGone \/ GuestStep
    BY <1>4, RunningProcess, RunningGuest
  <1> QED BY <1>1, <1>2, <1>3, <1>4 DEF Next

\* A handle that is attached has its runtime in the guest, unless the news that it
\* closed is on its way or another bridge process runs by now (attach of bridge.rs,
\* Open and Closed of runtime.rs), for every number of callers, whatever breaks.
THEOREM OpenMeansRunningEver == Spec => []OpenMeansRunning
  <1> DEFINE IInv == /\ TypeOK /\ HandleIds /\ Talk /\ Once
                     /\ HandleCtls /\ Asking /\ Holder /\ Running
  <1>1. Init => IInv
    BY TypeInit, TalkInit, RunningInit
  <1>2. IInv /\ [Next]_carrierVars => IInv'
    BY TypeStep, TalkStep, RunningStep
  <1>3. IInv => OpenMeansRunning
    <2> SUFFICES ASSUME IInv, NEW h \in Handle, Attached(h), Connected,
                        \A i \in DOMAIN toHost : toHost[i].type # "Closed" \/ toHost[i].id # hs[h].id
                 PROVE  active.id = hs[h].id /\ active.run = hs[h].run
      BY DEF OpenMeansRunning
    <2>1. hs[h].pc = "open" /\ attachment.id = hs[h].id /\ attachment.id # 0
      BY DEF Attached, HandleIds
    <2>2. RunsOrEnded(hs[h].id, hs[h].run)
      BY <2>1 DEF Running
    <2>3. ~ \E f \in Frames(toHost) : f.type = "Closed" /\ f.id = hs[h].id
      BY DEF Frames
    <2> QED BY <2>2, <2>3 DEF RunsOrEnded
  <1> QED BY <1>1, <1>2, <1>3, PTL DEF Spec

-----------------------------------------------------------------------------
(* RuntimeDies and BusyIsPassing: the way of a request and of a retirement     *)

\* The queue has one of `kind' at most.
Single(q, kind) == \A i, k \in DOMAIN q : q[i] \in kind /\ q[k] \in kind => i = k

LEMMA SingleTail ==
    ASSUME NEW q \in Seq(Envelope), q # <<>>, NEW kind, Single(q, kind)
    PROVE  /\ Single(Tail(q), kind)
           /\ Head(q) \in kind => \A f \in Frames(Tail(q)) : f \notin kind
  <1>1. PICK n \in Nat : Len(q) = n /\ DOMAIN q = 1..n /\ n > 0
    OBVIOUS
  <1>2. Head(q) = q[1] /\ DOMAIN Tail(q) = 1..(n - 1) /\ \A i \in 1..(n - 1) : Tail(q)[i] = q[i + 1]
    BY <1>1, EnvelopeTail
  <1>3. ASSUME NEW i \in 1..(n - 1), NEW k \in 1..(n - 1), Tail(q)[i] \in kind, Tail(q)[k] \in kind
        PROVE  i = k
    <2>1. i + 1 \in 1..n /\ k + 1 \in 1..n
      BY <1>1
    <2>2. q[i + 1] \in kind /\ q[k + 1] \in kind
      BY <1>2, <1>3
    <2>3. i + 1 = k + 1
      BY <1>1, <2>1, <2>2 DEF Single
    <2> QED BY <2>3
  <1>4. ASSUME q[1] \in kind, NEW i \in 1..(n - 1), Tail(q)[i] \in kind
        PROVE  FALSE
    <2>1. 1 \in 1..n /\ i + 1 \in 1..n /\ i + 1 # 1
      BY <1>1
    <2> QED BY <1>1, <1>2, <1>4, <2>1 DEF Single
  <1> QED BY <1>2, <1>3, <1>4 DEF Single, Frames

LEMMA SingleLast ==
    ASSUME NEW q \in Seq(Envelope), NEW e \in Envelope, NEW kind, Single(q, kind),
           e \in kind => \A f \in Frames(q) : f \notin kind
    PROVE  Single(q \o <<e>>, kind)
  <1> DEFINE t == q \o <<e>>
  <1>1. PICK n \in Nat : Len(q) = n /\ DOMAIN q = 1..n
    OBVIOUS
  <1>2. DOMAIN t = 1..(n + 1) /\ t[n + 1] = e /\ \A i \in 1..n : t[i] = q[i]
    BY <1>1, EnvelopeLast
  <1> HIDE DEF t
  <1>3. \A i \in 1..(n + 1) : i = n + 1 \/ (i \in 1..n /\ t[i] = q[i])
    BY <1>1, <1>2
  <1>4. e \in kind => \A i \in 1..n : q[i] \notin kind
    BY <1>1 DEF Frames
  <1>5. \A i, k \in 1..n : q[i] \in kind /\ q[k] \in kind => i = k
    BY <1>1 DEF Single
  <1>6. \A i, k \in 1..(n + 1) : t[i] \in kind /\ t[k] \in kind => i = k
    BY <1>2, <1>3, <1>4, <1>5
  <1> QED BY <1>2, <1>6 DEF Single, t

Opens == {e \in Envelope : e.type = "Open"}

\* The requests the guest has not read, and the callers whose attachment it has not
\* heard of: `Unknown' has its number, `Unheard' the attachment.
Requests == Frames(inputQ) \cup (Frames(toGuest) \cap Opens)
Unheard(h) == hs[h].pc \in {"claimed", "sending"} \/ \E e \in Requests : e.id = hs[h].id
Unknown(h) == hs[h].pc = "numbered" \/ Unheard(h)

\* Everything is numbered from one counter.
Counted ==
    /\ active.id < next
    /\ \A f \in Frames(toHost) : f.ctl < next /\ f.id < next
    /\ \A a \in answers : a[1] < next

\* Only a request has a number of its own; nothing runs behind a channel that is not
\* open, or before the Hello; what runs has not been reported as closed.
Labelled ==
    /\ \A f \in Frames(toGuest) : f.type # "Open" => f.ctl = 0
    /\ \A f \in Frames(outgoing) : f.ctl = 0
    /\ ~Connected => active.id = 0 /\ toGuest = <<>>
    /\ active.id # 0 => /\ helloed
                        /\ \A f \in Frames(toHost) : f.type = "Closed" => f.id # active.id

\* One request is on its way at most, and its caller waits.
Alone ==
    /\ Single(inputQ, Opens) /\ Single(toGuest, Opens)
    /\ inputQ # <<>> => \A f \in Frames(toGuest) : f \notin Opens
Sent ==
    \A e \in Requests :
        \E h \in Handle : hs[h].pc = "waiting" /\ hs[h].id = e.id /\ hs[h].ctl = e.ctl

\* The attachment is that of the caller the guest has not heard of.
Held == \A h \in Handle : Unheard(h) => attachment.id = hs[h].id

\* Nothing has been said of an attachment, or of its request, before the guest reads it.
Fresh ==
    \A h \in Handle : Unknown(h) =>
        /\ active.id # hs[h].id
        /\ \A f \in Frames(toHost) : f.id # hs[h].id /\ (hs[h].ctl # 0 => f.ctl # hs[h].ctl)
        /\ hs[h].ctl # 0 => \A a \in answers : a[1] # hs[h].ctl

\* The runtime in the guest has the attachment, or its Close is on the way.
Leaves ==
    active.id # 0 =>
        \/ attachment.id = active.id
        \/ \E f \in Frames(toGuest) : f.type = "Close" /\ f.id = active.id
        \/ retire = active.id
        \/ \E h \in Handle : hs[h].id = active.id /\ hs[h].pc \in {"ending", "dropping"}

Way == Counted /\ Labelled /\ Alone /\ Sent /\ Held /\ Fresh /\ Leaves

\* What the proofs of NoCrossTalk and OpenMeansRunning show.
Known == TypeOK /\ HandleIds /\ HandleCtls /\ Asking /\ Holder

WayInv == ~lapsed /\ ~outranked /\ ~dead => Way

\* The ranges of what the proofs calculate with.
LEMMA WayTypes ==
    ASSUME Known
    PROVE  /\ next \in Nat /\ retire \in Nat /\ active.id \in Nat /\ attachment.id \in Nat
           /\ \A g \in Handle : hs[g].id \in Nat /\ hs[g].ctl \in Nat /\ hs[g].id < next /\ hs[g].ctl < next
           /\ inputQ \in Seq(Envelope) /\ toGuest \in Seq(Envelope) /\ toHost \in Seq(Envelope)
           /\ \A a \in answers : a[1] \in Nat
           /\ \A f \in Frames(toGuest) \cup Frames(toHost) \cup Frames(inputQ) :
                 f \in Envelope /\ f.id \in Nat /\ f.ctl \in Nat
  <1>1. /\ next \in Nat /\ retire \in Nat /\ active.id \in Nat /\ attachment.id \in Nat
        /\ \A g \in Handle : hs[g].id \in Nat /\ hs[g].ctl \in Nat
        /\ inputQ \in Seq(Envelope) /\ toGuest \in Seq(Envelope) /\ toHost \in Seq(Envelope)
        /\ \A a \in answers : a[1] \in Nat
    BY DEF Known, TypeOK
  <1>2. \A g \in Handle : hs[g].id < next /\ hs[g].ctl < next
    BY DEF Known, HandleIds, HandleCtls
  <1>3. \A f \in Frames(toGuest) \cup Frames(toHost) \cup Frames(inputQ) :
           f \in Envelope /\ f.id \in Nat /\ f.ctl \in Nat
    BY <1>1, FrameIs
  <1> QED BY <1>1, <1>2, <1>3

\* A request on its way is that of the caller that has the attachment.
LEMMA RequestIs ==
    ASSUME Known, Sent, Held, NEW e \in Requests
    PROVE  /\ e \in Opens /\ Asked(e) /\ e.id # 0 /\ e.ctl # 0 /\ e.id = attachment.id
           /\ \E h \in Handle : hs[h].pc = "waiting" /\ hs[h].id = e.id /\ hs[h].ctl = e.ctl
  <1>1. e \in Opens /\ Asked(e)
    BY WayTypes DEF Requests, Opens, Known, Asking
  <1>2. PICK h \in Handle : hs[h].pc = "waiting" /\ hs[h].id = e.id /\ hs[h].ctl = e.ctl
    BY DEF Sent
  <1>3. attachment.id = e.id
    BY <1>2 DEF Held, Unheard
  <1> QED BY <1>1, <1>2, <1>3 DEF Asked

\* Whoever is unheard has the attachment, so there is one at most.
LEMMA UnheardIs ==
    ASSUME Known, Sent, Held, NEW h \in Handle, Unheard(h)
    PROVE  /\ attachment.id = hs[h].id /\ hs[h].id # 0
           /\ hs[h].pc \in {"claimed", "sending", "waiting"}
           /\ \A g \in Handle : Unheard(g) \/ hs[g].id = hs[h].id => g = h
  <1>1. attachment.id = hs[h].id
    BY DEF Held
  <1>2. hs[h].pc \in {"claimed", "sending", "waiting"} /\ hs[h].id # 0
    <2>1. CASE hs[h].pc \in {"claimed", "sending"}
      BY <2>1 DEF Known, HandleIds
    <2>2. CASE \E e \in Requests : e.id = hs[h].id
      <3>1. PICK e \in Requests : e.id = hs[h].id
        BY <2>2
      <3>2. PICK g \in Handle : hs[g].pc = "waiting" /\ hs[g].id = e.id /\ e.id # 0
        BY <3>1, RequestIs
      <3>3. g = h
        BY <3>1, <3>2 DEF Known, HandleIds
      <3> QED BY <3>2, <3>3
    <2> QED BY <2>1, <2>2 DEF Unheard
  <1>3. \A g \in Handle : Unheard(g) => hs[g].id = hs[h].id
    BY <1>1 DEF Held
  <1> QED BY <1>1, <1>2, <1>3 DEF Known, HandleIds

\* A caller whose request has not been read does nothing but give up.
LEMMA WaitsUnheard ==
    ASSUME Known, Way, NEW h \in Handle, CallerStep(h), hs[h].pc = "waiting", ~lapsed'
    PROVE  ~Unheard(h)
  <1> SUFFICES ASSUME Unheard(h) PROVE FALSE
    OBVIOUS
  <1>1. AttachOpened(h) \/ AttachFails(h)
    BY DEF CallerStep, AttachCheck, AttachNumber, AttachClaim, AttachRequest, AttachSend, Send, Recv,
           Attached, End, DropHandle, Retired
  <1>2. \E a \in answers : a[1] = hs[h].ctl
    BY <1>1 DEF AttachOpened, AttachFails, Answered
  <1>3. hs[h].ctl # 0
    BY DEF Known, HandleCtls
  <1> QED BY <1>2, <1>3 DEF Way, Fresh, Unknown

\* The requests of a caller.
LEMMA WayAsks ==
    ASSUME Known, Way, NEW h \in Handle, CallerStep(h), ~lapsed'
    PROVE  /\ \A e \in Requests' :
                 \/ e \in Requests
                 \/ /\ e.id = hs[h].id /\ e.ctl = hs[h].ctl /\ hs[h].pc = "sending"
                    /\ hs'[h].pc = "waiting" /\ hs'[h].id = hs[h].id /\ hs'[h].ctl = hs[h].ctl
           /\ Alone' /\ Sent'
  <1>0. /\ TypeOK /\ HandleIds /\ HandleCtls /\ Asking /\ Holder /\ Alone /\ Sent /\ Held
    BY DEF Known, Way
  <1>1. toGuest' = toGuest /\ Frames(toGuest') = Frames(toGuest)
    BY <1>0, FieldsCaller DEF Frames
  <1>2. \A g \in Handle : g # h => hs'[g] = hs[g]
    BY <1>0, FieldsCaller
  <1>3. \A e \in Requests' :
           \/ e \in Requests
           \/ /\ e.id = hs[h].id /\ e.ctl = hs[h].ctl /\ hs[h].pc = "sending"
              /\ hs'[h].pc = "waiting" /\ hs'[h].id = hs[h].id /\ hs'[h].ctl = hs[h].ctl
    BY <1>0, <1>1, FramesCaller DEF Requests
  <1>4. Alone'
    <2>1. CASE AttachSend(h)
      <3>1. hs[h].pc = "sending" /\ Unheard(h)
        BY <1>0, <2>1, SendDoes DEF Unheard
      <3>2. Requests = {}
        <4> SUFFICES ASSUME NEW e \in Requests PROVE FALSE
          OBVIOUS
        <4>1. PICK g \in Handle : hs[g].pc = "waiting" /\ hs[g].id = e.id
          BY <1>0, RequestIs
        <4>2. Unheard(g)
          BY <4>1 DEF Unheard
        <4> QED BY <1>0, <3>1, <4>1, <4>2, UnheardIs
      <3>3. PICK e \in Envelope : inputQ' = inputQ \o <<e>>
        BY <1>0, <2>1, SendDoes
      <3>4. /\ \A f \in Frames(inputQ) : f \notin Opens
            /\ \A f \in Frames(toGuest) : f \notin Opens
        BY <3>2 DEF Requests
      <3>5. Single(inputQ', Opens)
        BY <1>0, <3>3, <3>4, WayTypes, SingleLast DEF Alone
      <3> QED BY <1>0, <1>1, <3>4, <3>5 DEF Alone
    <2>2. CASE ~AttachSend(h)
      <3>1. inputQ' = inputQ
        BY <2>2 DEF CallerStep, AttachCheck, AttachNumber, AttachClaim, AttachRequest, AttachOpened,
                    AttachFails, Send, Recv, End, DropHandle, Retired, bridgeVars
      <3> QED BY <1>0, <1>1, <3>1 DEF Alone
    <2> QED BY <2>1, <2>2
  <1>5. Sent'
    <2> SUFFICES ASSUME NEW e \in Requests'
                 PROVE  \E g \in Handle : hs'[g].pc = "waiting" /\ hs'[g].id = e.id /\ hs'[g].ctl = e.ctl
      BY DEF Sent
    <2>1. CASE e \in Requests
      <3>1. PICK g \in Handle : hs[g].pc = "waiting" /\ hs[g].id = e.id /\ hs[g].ctl = e.ctl
        BY <2>1, <1>0 DEF Sent
      <3>2. Unheard(g)
        BY <2>1, <3>1 DEF Unheard
      <3>3. g # h
        BY <3>1, <3>2, WaitsUnheard
      <3> QED BY <1>2, <3>1, <3>3
    <2>2. CASE e \notin Requests
      BY <1>3, <2>2
    <2> QED BY <2>1, <2>2
  <1> QED BY <1>3, <1>4, <1>5

LEMMA OthersUnheard ==
    ASSUME Known, Way, NEW h \in Handle, CallerStep(h), ~lapsed', NEW g \in Handle, g # h, Unheard(g)'
    PROVE  Unheard(g)
  <1>1. hs'[g] = hs[g] /\ (hs[g].id = hs[h].id => hs[g].id = 0)
    BY FieldsCaller DEF Known, HandleIds
  <1>2. CASE \E e \in Requests' : e.id = hs'[g].id
    <2>1. PICK e \in Requests' : e.id = hs[g].id
      BY <1>1, <1>2
    <2>2. CASE e \in Requests
      BY <2>1, <2>2 DEF Unheard
    <2>3. CASE e.id = hs[h].id /\ hs[h].pc = "sending"
      BY <1>1, <2>1, <2>3 DEF Known, HandleIds
    <2> QED BY <2>2, <2>3, WayAsks
  <1>3. CASE hs'[g].pc \in {"claimed", "sending"}
    BY <1>1, <1>3 DEF Unheard
  <1> QED BY <1>2, <1>3 DEF Unheard

\* The caller of the step was unheard before, or it has just claimed the attachment.
LEMMA OwnUnheard ==
    ASSUME Known, Way, NEW h \in Handle, CallerStep(h), ~lapsed', Unheard(h)'
    PROVE  Unheard(h) \/ hs'[h].pc \in {"claimed", "sending"}
  <1> SUFFICES ASSUME NEW e \in Requests', e.id = hs'[h].id, hs'[h].pc \notin {"claimed", "sending"}
               PROVE  Unheard(h)
    BY DEF Unheard
  <1>1. CASE e \in Requests
    <2>1. e.id < next /\ e.id \in Nat /\ next \in Nat
      BY <1>1, RequestIs, WayTypes DEF Asked, Requests, Way
    <2>2. hs'[h].id = hs[h].id
      BY <2>1, FieldsCaller DEF Known
    <2> QED BY <1>1, <2>2 DEF Unheard
  <1>2. CASE hs[h].pc = "sending"
    BY <1>2 DEF Unheard
  <1> QED BY <1>1, <1>2, WayAsks

LEMMA WayHeld ==
    ASSUME Known, Way, NEW h \in Handle, CallerStep(h), ~lapsed'
    PROVE  Held'
  <1>0. /\ TypeOK /\ HandleIds /\ HandleCtls /\ Asking /\ Holder /\ Sent /\ Held
    BY DEF Known, Way
  <1> SUFFICES ASSUME NEW g \in Handle, Unheard(g)'
               PROVE  attachment'.id = hs'[g].id
    BY DEF Held
  <1>1. CASE g # h
    <2>1. hs'[g] = hs[g]
      BY <1>0, <1>1, FieldsCaller
    <2>2. Unheard(g)
      BY <1>1, OthersUnheard
    <2>3. attachment.id = hs[g].id /\ hs[g].id # 0 /\ hs[h].id # hs[g].id
      BY <1>0, <1>1, <2>2, UnheardIs
    <2>4. attachment'.id = attachment.id
      BY <1>0, <2>3, AttachmentCaller
    <2> QED BY <2>1, <2>3, <2>4
  <1>2. CASE g = h
    <2>1. ASSUME Unheard(h), hs[h].pc # "waiting"
          PROVE  attachment'.id = hs'[h].id
      <3>1. hs[h].pc \in {"claimed", "sending"} /\ attachment.id = hs[h].id /\ hs[h].id # 0
        BY <1>0, <2>1, UnheardIs
      <3>2. hs'[h].id = hs[h].id /\ hs'[h].pc \notin {"ending", "dropping"}
        <4>1. hs'[h].id = hs[h].id
          BY <1>0, <3>1, FieldsCaller
        <4>2. hs'[h].pc \in {"claimed", "sending", "waiting"}
          <5>1. CASE \E e \in Requests' : e.id = hs'[h].id
            <6>1. PICK e \in Requests' : e.id = hs[h].id
              BY <4>1, <5>1
            <6>2. CASE e \in Requests
              <7>1. Asked(e)
                BY <1>0, <6>2, RequestIs
              <7> QED BY <3>1, <6>1, <7>1 DEF Asked, Early
            <6>3. CASE hs'[h].pc = "waiting"
              BY <6>3
            <6> QED BY <6>2, <6>3, WayAsks
          <5> QED BY <1>2, <5>1 DEF Unheard
        <4> QED BY <4>1, <4>2
      <3>3. attachment'.id = attachment.id
        BY <1>0, <3>1, <3>2, AttachmentCaller
      <3> QED BY <3>1, <3>2, <3>3
    <2>2. CASE Unheard(h) /\ hs[h].pc = "waiting"
      BY <2>2, WaitsUnheard
    <2>3. CASE ~Unheard(h)
      <3>1. hs'[h].pc \in {"claimed", "sending"}
        BY <1>2, <2>3, OwnUnheard
      <3>2. hs[h].pc \notin {"claimed", "sending"}
        BY <2>3 DEF Unheard
      <3> QED BY <1>0, <1>2, <3>1, <3>2, AttachmentCaller
    <2> QED BY <1>2, <2>1, <2>2, <2>3
  <1> QED BY <1>1, <1>2

LEMMA WayFresh ==
    ASSUME Known, Way, NEW h \in Handle, CallerStep(h), ~lapsed'
    PROVE  Fresh'
  <1>0. /\ TypeOK /\ HandleIds /\ HandleCtls /\ Asking /\ Holder /\ Counted /\ Fresh
    BY DEF Known, Way
  <1>1. /\ active' = active /\ Frames(toHost') = Frames(toHost) /\ answers' \subseteq answers
        /\ \A g \in Handle : g # h => hs'[g] = hs[g]
    BY <1>0, FieldsCaller, FramesCaller DEF Frames
  <1> SUFFICES ASSUME NEW g \in Handle, Unknown(g)'
               PROVE  /\ active.id # hs'[g].id
                      /\ \A f \in Frames(toHost) :
                            f.id # hs'[g].id /\ (hs'[g].ctl # 0 => f.ctl # hs'[g].ctl)
                      /\ hs'[g].ctl # 0 => \A a \in answers : a[1] # hs'[g].ctl
    BY <1>1 DEF Fresh
  <1>2. CASE g # h
    <2>1. Unknown(g)
      BY <1>1, <1>2, OthersUnheard DEF Unknown
    <2> QED BY <1>0, <1>1, <1>2, <2>1 DEF Fresh
  <1>3. CASE g = h
    <2>1. \/ Unknown(h)
          \/ hs'[h].id = next
      <3>1. CASE hs'[h].pc \in {"numbered", "claimed", "sending"}
        <4>1. hs[h].pc \in {"numbered", "claimed", "sending"} \/ hs'[h].id = next
          BY <1>0, <3>1, FieldsCaller
        <4> QED BY <4>1 DEF Unknown, Unheard
      <3>2. CASE hs'[h].pc \notin {"numbered", "claimed", "sending"}
        <4>1. Unheard(h)'
          BY <1>3, <3>2 DEF Unknown
        <4> QED BY <3>2, <4>1, OwnUnheard DEF Unknown
      <3> QED BY <3>1, <3>2
    <2>2. /\ next \in Nat /\ active.id \in Nat /\ active.id < next
          /\ hs[h].id \in Nat /\ hs[h].id < next
          /\ \A f \in Frames(toHost) : f.ctl \in Nat /\ f.id \in Nat /\ f.ctl < next /\ f.id < next
          /\ \A a \in answers : a[1] \in Nat /\ a[1] < next
      BY <1>0, WayTypes DEF Counted
    <2>3. CASE hs'[h].id = next
      <3>1. hs[h].pc = "checked" /\ hs'[h].pc = "numbered"
        BY <1>0, <2>2, <2>3, FieldsCaller
      <3>2. hs'[h].ctl = 0
        BY <1>0, <3>1, FieldsCaller DEF HandleCtls
      <3> QED BY <1>3, <2>2, <2>3, <3>2
    <2>4. CASE Unknown(h) /\ hs'[h].id # next
      <3>1. hs'[h].id = hs[h].id
        BY <1>0, <2>4, FieldsCaller
      <3>2. CASE hs'[h].ctl = hs[h].ctl
        BY <1>0, <1>3, <2>4, <3>1, <3>2 DEF Fresh
      <3>3. CASE hs'[h].ctl = next
        <4>1. /\ active.id # hs[h].id
              /\ \A f \in Frames(toHost) : f.id # hs[h].id
          BY <1>0, <2>4 DEF Fresh
        <4>2. /\ \A f \in Frames(toHost) : f.ctl # next
              /\ \A a \in answers : a[1] # next
          BY <2>2
        <4> QED BY <1>3, <3>1, <3>3, <4>1, <4>2
      <3> QED BY <1>0, <3>2, <3>3, FieldsCaller
    <2> QED BY <2>1, <2>3, <2>4
  <1> QED BY <1>2, <1>3

\* The Close of the runtime stays on its way, or the step outranks it.
LEMMA WayLeaves ==
    ASSUME Known, Way, NEW h \in Handle, CallerStep(h), ~outranked'
    PROVE  Leaves'
  <1>0. /\ TypeOK /\ HandleIds /\ HandleCtls /\ Asking /\ Holder /\ Leaves
    BY DEF Known, Way
  <1>1. /\ active' = active /\ toGuest' = toGuest /\ Frames(toGuest') = Frames(toGuest)
        /\ \A g \in Handle : g # h => hs'[g] = hs[g]
    BY <1>0, FieldsCaller DEF Frames
  <1> SUFFICES ASSUME active.id # 0
               PROVE  \/ attachment'.id = active.id
                      \/ \E f \in Frames(toGuest) : f.type = "Close" /\ f.id = active.id
                      \/ retire' = active.id
                      \/ \E g \in Handle : hs'[g].id = active.id /\ hs'[g].pc \in {"ending", "dropping"}
    BY <1>1 DEF Leaves
  <1>2. CASE \E f \in Frames(toGuest) : f.type = "Close" /\ f.id = active.id
    BY <1>2
  <1>3. CASE attachment.id = active.id
    <2>1. CASE attachment'.id = attachment.id
      BY <1>3, <2>1
    <2>2. CASE attachment.id = hs[h].id /\ hs'[h].pc \in {"ending", "dropping"}
      <3>1. hs'[h].id = hs[h].id
        <4>1. hs[h].pc # "checked"
          BY <1>0, <1>3, <2>2 DEF HandleIds
        <4> QED BY <1>0, <4>1, FieldsCaller
      <3> QED BY <1>3, <2>2, <3>1
    <2> QED BY <1>0, <1>3, <2>1, <2>2, AttachmentCaller
  <1>4. ASSUME Retired(h), retire = active.id \/ hs[h].id = active.id
        PROVE  retire' = active.id
    <2>1. /\ retire' = (IF hs[h].id >= retire THEN hs[h].id ELSE retire)
          /\ retire \in Nat /\ hs[h].id \in Nat
      BY <1>0, <1>4, RetiredDoes, WayTypes
    <2>2. ~(hs[h].id # retire /\ GivesWay(hs[h].id) = active.id)
      BY <1>4 DEF Retired
    <2>3. CASE hs[h].id >= retire
      BY <1>4, <2>1, <2>2, <2>3 DEF GivesWay
    <2>4. CASE ~(hs[h].id >= retire)
      BY <1>4, <2>1, <2>2, <2>4 DEF GivesWay
    <2> QED BY <2>3, <2>4
  <1>5. CASE retire = active.id
    <2>1. CASE Retired(h)
      BY <1>4, <1>5, <2>1
    <2>2. CASE ~Retired(h)
      <3>1. retire' = retire
        BY <2>2 DEF CallerStep, AttachCheck, AttachNumber, AttachClaim, AttachRequest, AttachSend,
                    AttachOpened, AttachFails, Send, Recv, End, DropHandle, bridgeVars
      <3> QED BY <1>5, <3>1
    <2> QED BY <2>1, <2>2
  <1>6. CASE \E g \in Handle : hs[g].id = active.id /\ hs[g].pc \in {"ending", "dropping"}
    <2>1. PICK g \in Handle : hs[g].id = active.id /\ hs[g].pc \in {"ending", "dropping"}
      BY <1>6
    <2>2. CASE g # h
      BY <1>1, <2>1, <2>2
    <2>3. CASE g = h
      <3>1. Retired(h)
        BY <2>1, <2>3 DEF CallerStep, AttachCheck, AttachNumber, AttachClaim, AttachRequest, AttachSend,
                    AttachOpened, AttachFails, Send, Recv, Attached, End, DropHandle
      <3> QED BY <1>4, <2>1, <2>3, <3>1
    <2> QED BY <2>2, <2>3
  <1> QED BY <1>0, <1>2, <1>3, <1>5, <1>6 DEF Leaves

LEMMA WayCaller ==
    ASSUME Known, Way, NEW h \in Handle, CallerStep(h), ~lapsed', ~outranked'
    PROVE  Way'
  <1>0. /\ TypeOK /\ HandleIds /\ HandleCtls /\ Asking /\ Holder /\ Counted /\ Labelled
    BY DEF Known, Way
  <1>1. /\ UNCHANGED <<toGuest, toHost, active, up, helloed>>
        /\ Frames(toGuest') = Frames(toGuest) /\ Frames(toHost') = Frames(toHost)
        /\ next' \in {next, next + 1} /\ answers' \subseteq answers
        /\ \A e \in Frames(outgoing') : e \in Frames(outgoing) \/ (e.type = "Mcp" /\ e.ctl = 0)
    BY <1>0, FieldsCaller, FramesCaller DEF Frames
  <1>2. Counted'
    <2>1. \A n \in Nat : n < next => n < next'
      BY <1>1, WayTypes
    <2>2. /\ active.id \in Nat /\ \A f \in Frames(toHost) : f.ctl \in Nat /\ f.id \in Nat
          /\ \A a \in answers : a[1] \in Nat
      BY WayTypes
    <2> QED BY <1>0, <1>1, <2>1, <2>2 DEF Counted
  <1>3. Labelled'
    BY <1>0, <1>1 DEF Labelled, Connected, Open
  <1> QED BY <1>2, <1>3, WayAsks, WayHeld, WayFresh, WayLeaves DEF Way

\* The loop sends on what is there, and the processor resolves, frees or clears.
LEMMA WayAfterLoop ==
    ASSUME Known, Way, LoopMoves, Alone', Leaves', helloed' = helloed,
           ~Connected' => ~Connected /\ toGuest' = toGuest,
           attachment'.id = attachment.id \/ \A h \in Handle : ~Unheard(h)
    PROVE  Way'
  <1>0. /\ TypeOK /\ HandleIds /\ HandleCtls /\ Asking /\ Holder
        /\ Counted /\ Labelled /\ Sent /\ Held /\ Fresh
    BY DEF Known, Way
  <1>1. /\ UNCHANGED <<hs, next, active, up>> /\ Frames(inputQ') \subseteq Frames(inputQ)
        /\ Frames(outgoing') \subseteq Frames(outgoing) /\ Frames(toHost') \subseteq Frames(toHost)
        /\ \A f \in Frames(toGuest') :
              f \in Frames(toGuest) \cup Frames(inputQ) \cup Frames(outgoing)
              \/ (f.type \in {"Hello", "Close"} /\ f.ctl = 0)
        /\ \A a \in answers' :
              a \in answers \/ \E e \in Frames(toHost) : a = <<e.ctl, e.type, e.run>> /\ e.ctl \in pending
    BY DEF LoopMoves
  <1>2. Requests' \subseteq Requests
    <2> SUFFICES ASSUME NEW e \in Frames(toGuest'), e \in Opens
                 PROVE  e \in Requests
      BY <1>1 DEF Requests
    <2>1. e \notin Frames(outgoing) /\ e.type \notin {"Hello", "Close"}
      BY <1>0 DEF Asking, Opens
    <2> QED BY <1>1, <2>1 DEF Requests
  <1>3. \A h \in Handle : (Unheard(h)' => Unheard(h)) /\ (Unknown(h)' => Unknown(h))
    BY <1>1, <1>2 DEF Unheard, Unknown
  <1>4. \A a \in answers' : a \in answers \/ \E e \in Frames(toHost) : a[1] = e.ctl
    <2> SUFFICES ASSUME NEW a \in answers', NEW e \in Frames(toHost), a = <<e.ctl, e.type, e.run>>
                 PROVE  a[1] = e.ctl
      BY <1>1
    <2> QED OBVIOUS
  <1>5. Counted'
    BY <1>0, <1>1, <1>4 DEF Counted
  <1>6. Labelled'
    <2>1. \A f \in Frames(toGuest') : f.type # "Open" => f.ctl = 0
      BY <1>0, <1>1 DEF Labelled, Asking
    <2> QED BY <1>0, <1>1, <2>1 DEF Labelled
  <1>7. Sent'
    BY <1>0, <1>1, <1>2 DEF Sent
  <1>8. Held'
    BY <1>0, <1>1, <1>3 DEF Held
  <1>9. Fresh'
    <2> SUFFICES ASSUME NEW h \in Handle, Unknown(h)
                 PROVE  /\ active.id # hs[h].id
                        /\ \A f \in Frames(toHost') : f.id # hs[h].id /\ (hs[h].ctl # 0 => f.ctl # hs[h].ctl)
                        /\ hs[h].ctl # 0 => \A a \in answers' : a[1] # hs[h].ctl
      BY <1>1, <1>3 DEF Fresh
    <2>1. /\ active.id # hs[h].id
          /\ \A f \in Frames(toHost) : f.id # hs[h].id /\ (hs[h].ctl # 0 => f.ctl # hs[h].ctl)
          /\ hs[h].ctl # 0 => \A a \in answers : a[1] # hs[h].ctl
      BY <1>0 DEF Fresh
    <2> QED BY <1>1, <1>4, <2>1
  <1> QED BY <1>5, <1>6, <1>7, <1>8, <1>9 DEF Way

\* Why the processor frees an attachment, and what it sends.
LEMMA ProcessFrees ==
    ASSUME TypeOK, toHost # <<>>, NEW e, e = Head(toHost), Process(e), up' = up
    PROVE  /\ \/ toGuest' = toGuest
              \/ /\ Connected'
                 /\ \E x \in Envelope : x.type \in {"Hello", "Close"} /\ toGuest' = toGuest \o <<x>>
           /\ \/ attachment'.id = attachment.id
              \/ e.type = "Created"
              \/ e.type = "Closed" /\ e.id = attachment.id
              \/ /\ e.type = "Mcp" /\ e.id = attachment.id
                 /\ ~Connected' \/ \E f \in Frames(toGuest') : f.type = "Close" /\ f.id = e.id
  <1>0. /\ e \in Envelope /\ e.id \in Nat /\ attachment \in Attachments
        /\ toHost \in Seq(Envelope) /\ toGuest \in Seq(Envelope) /\ attachment.output \in Seq(Nat)
        /\ e.run \in Nat /\ e.body \in Nat
    BY EnvelopeTail DEF TypeOK, Envelope, Attachments
  <1>1. Reply(<<>>) => toGuest' = toGuest
    BY <1>0, EnvelopeNone DEF Reply
  <1>2. ASSUME NEW x \in Envelope, x.type \in {"Hello", "Close"}, Reply(<<x>>)
        PROVE  \/ toGuest' = toGuest /\ ~Connected'
               \/ /\ Connected' /\ toGuest' = toGuest \o <<x>>
                  /\ \E f \in Frames(toGuest') : f.type = x.type /\ f.id = x.id
    <2>1. \/ toGuest' = toGuest /\ ~Connected'
          \/ Connected' /\ toGuest' = toGuest \o <<x>>
      BY <1>2 DEF Reply, Connected, Open
    <2>2. toGuest' = toGuest \o <<x>> => x \in Frames(toGuest')
      BY <1>0, FramesLast
    <2> QED BY <2>1, <2>2
  <1>3. CASE e.type = "Created" /\ Start
    <2>1. "Hello" \in MessageType
      BY DEF MessageType
    <2>2. PICK x \in Envelope : x.type = "Hello" /\ x = Env("Hello", 0, 0, 0, NoBody)
      BY <2>1 DEF Env, Envelope, NoBody
    <2>3. Reply(<<x>>)
      BY <1>3, <2>2 DEF Start
    <2> QED BY <1>2, <1>3, <2>2, <2>3
  <1>4. CASE e.type # "Created" /\ dead /\ Reply(<<>>) /\ UNCHANGED stateVars
    BY <1>1, <1>4 DEF stateVars
  <1>5. CASE ~dead /\ (ProcessReady(e) \/ ProcessOther(e))
    BY <1>1, <1>5 DEF ProcessReady, ProcessOther
  <1>6. CASE ~dead /\ ProcessOpened(e)
    <2>1. attachment'.id = attachment.id
      BY <1>0, <1>6, AttachmentRun DEF ProcessOpened
    <2>2. Reply(<<>>)
      BY <1>6 DEF ProcessOpened
    <2> QED BY <1>1, <2>1, <2>2
  <1>7. CASE ~dead /\ ProcessClosed(e)
    BY <1>1, <1>7 DEF ProcessClosed, Closing
  <1>8. CASE ~dead /\ ProcessMcp(e)
    <2>1. e.type = "Mcp"
      BY <1>8 DEF ProcessMcp
    <2>2. CASE attachment' = [attachment EXCEPT !.output = Append(@, e.body)] /\ Reply(<<>>)
      <3>1. Append(attachment.output, e.body) \in Seq(Nat)
        BY <1>0, NumberLast
      <3>2. attachment'.id = attachment.id
        BY <1>0, <2>2, <3>1, AttachmentOutput
      <3> QED BY <1>1, <2>2, <3>2
    <2>3. CASE /\ Addressed(e) /\ attachment' = Closing(e.id)
               /\ Reply(<<Env("Close", 0, e.id, 0, NoBody)>>)
      <3>1. "Close" \in MessageType
        BY DEF MessageType
      <3>2. PICK x \in Envelope : x.type = "Close" /\ x.id = e.id /\ x = Env("Close", 0, e.id, 0, NoBody)
        BY <1>0, <3>1 DEF Env, Envelope, NoBody
      <3>3. Reply(<<x>>) /\ e.id = attachment.id
        BY <2>3, <3>2 DEF Addressed
      <3> QED BY <1>2, <2>1, <3>2, <3>3
    <2>4. CASE Reply(<<>>) /\ UNCHANGED attachment
      BY <1>1, <2>4
    <2> QED BY <1>8, <2>2, <2>3, <2>4 DEF ProcessMcp
  <1> QED BY <1>3, <1>4, <1>5, <1>6, <1>7, <1>8 DEF Process

LEMMA WayRead ==
    ASSUME Known, Way, LoopRead, ~lapsed'
    PROVE  Way'
  <1>0. /\ TypeOK /\ HandleIds /\ HandleCtls /\ Asking /\ Holder
        /\ Alone /\ Labelled /\ Sent /\ Held /\ Fresh /\ Leaves
    BY DEF Known, Way
  <1>1. LoopMoves
    BY <1>0, LoopMovesAlways DEF LoopStep
  <1>2. PICK e : e = Head(toHost)
    OBVIOUS
  <1>3. /\ toHost # <<>> /\ Process(e)
        /\ UNCHANGED <<hs, next, active, up, inputQ, retire, helloed>>
        /\ e.type = "Created" => \A h \in Handle : hs[h].pc \notin {"claimed", "sending", "waiting"}
    BY <1>2 DEF LoopRead, guestVars
  <1>4. /\ e \in Envelope /\ e \in Frames(toHost) /\ Frames(toHost') \subseteq Frames(toHost)
    BY <1>0, <1>2, <1>3, ProcessDoes
  <1>5. /\ \/ toGuest' = toGuest
           \/ Connected' /\ \E x \in Envelope : x.type \in {"Hello", "Close"} /\ toGuest' = toGuest \o <<x>>
        /\ \/ attachment'.id = attachment.id
           \/ e.type = "Created"
           \/ e.type = "Closed" /\ e.id = attachment.id
           \/ /\ e.type = "Mcp" /\ e.id = attachment.id
              /\ ~Connected' \/ \E f \in Frames(toGuest') : f.type = "Close" /\ f.id = e.id
    BY <1>0, <1>2, <1>3, ProcessFrees
  <1>6. ~Connected' => ~Connected /\ toGuest' = toGuest
    BY <1>3, <1>4, <1>5 DEF Connected, Open, Frames
  <1>7. Frames(toGuest) \subseteq Frames(toGuest') /\ Alone'
    <2>1. CASE toGuest' = toGuest
      BY <1>0, <1>3, <2>1 DEF Frames, Alone
    <2>2. CASE \E x \in Envelope : x.type \in {"Hello", "Close"} /\ toGuest' = toGuest \o <<x>>
      <3>1. PICK x \in Envelope : x.type \in {"Hello", "Close"} /\ toGuest' = toGuest \o <<x>>
        BY <2>2
      <3>2. x \notin Opens /\ toGuest \in Seq(Envelope)
        BY <3>1, WayTypes DEF Opens
      <3>3. Frames(toGuest') = Frames(toGuest) \cup {x}
        BY <3>1, <3>2, FramesLast
      <3>4. Single(toGuest', Opens)
        BY <1>0, <3>1, <3>2, SingleLast DEF Alone
      <3> QED BY <1>0, <1>3, <3>2, <3>3, <3>4 DEF Alone
    <2> QED BY <1>5, <2>1, <2>2
  <1>8. attachment'.id = attachment.id \/ \A h \in Handle : ~Unheard(h)
    <2> SUFFICES ASSUME NEW h \in Handle, Unheard(h)
                 PROVE  attachment'.id = attachment.id
      OBVIOUS
    <2>1. attachment.id = hs[h].id /\ hs[h].pc \in {"claimed", "sending", "waiting"}
      BY <1>0, UnheardIs
    <2>2. e.type # "Created"
      BY <1>3, <2>1
    <2>3. e.id # attachment.id
      BY <1>0, <1>4, <2>1 DEF Fresh, Unknown
    <2> QED BY <1>5, <2>2, <2>3
  <1>9. Leaves'
    <2> SUFFICES ASSUME active.id # 0, attachment.id = active.id, attachment'.id # attachment.id
                 PROVE  \E f \in Frames(toGuest') : f.type = "Close" /\ f.id = active.id
      BY <1>0, <1>3, <1>7 DEF Leaves
    <2>1. Connected /\ Connected' /\ \A f \in Frames(toHost) : f.type = "Closed" => f.id # active.id
      BY <1>0, <1>6 DEF Labelled
    <2>2. e.type # "Created" /\ ~(e.type = "Closed" /\ e.id = attachment.id)
      BY <1>4, <2>1 DEF Connected, Open, Frames
    <2> QED BY <1>5, <2>1, <2>2
  <1> QED BY <1>1, <1>3, <1>6, <1>7, <1>8, <1>9, WayAfterLoop

LEMMA WayLoop ==
    ASSUME Known, Way, LoopStep \/ LoopEnds, ~lapsed', ~dead'
    PROVE  Way'
  <1>0. /\ TypeOK /\ HandleIds /\ HandleCtls /\ Asking /\ Holder
        /\ Alone /\ Labelled /\ Leaves
    BY DEF Known, Way
  <1>1. LoopMoves /\ UNCHANGED <<hs, active, up>>
    BY <1>0, LoopMovesAlways DEF LoopMoves
  <1>2. toGuest \in Seq(Envelope) /\ inputQ \in Seq(Envelope) /\ outgoing \in Seq(Envelope) /\ retire \in Nat
    BY <1>0 DEF TypeOK
  \* What is sent goes behind what is there, or nowhere.
  <1>3. ASSUME NEW x \in Envelope, Transmit(<<x>>), toHost' = toHost
        PROVE  /\ Frames(toGuest) \subseteq Frames(toGuest')
               /\ Frames(toGuest') \subseteq Frames(toGuest) \cup {x}
               /\ Connected => x \in Frames(toGuest')
               /\ ~Connected' => ~Connected /\ toGuest' = toGuest
               /\ (x \in Opens => \A f \in Frames(toGuest) : f \notin Opens) => Single(toGuest', Opens)
    <2>1. Connected' = Connected
      BY <1>1, <1>3 DEF Connected, Open
    <2>2. CASE Connected
      <3>1. toGuest' = toGuest \o <<x>>
        BY <1>3, <2>2 DEF Transmit
      <3>2. Frames(toGuest') = Frames(toGuest) \cup {x}
        BY <1>2, <3>1, FramesLast
      <3>3. (x \in Opens => \A f \in Frames(toGuest) : f \notin Opens) => Single(toGuest', Opens)
        BY <1>0, <1>2, <3>1, SingleLast DEF Alone
      <3> QED BY <2>1, <2>2, <3>2, <3>3
    <2>3. CASE ~Connected
      <3>1. toGuest' = toGuest
        BY <1>3, <2>3 DEF Transmit
      <3> QED BY <1>0, <2>1, <2>3, <3>1 DEF Alone, Frames
    <2> QED BY <2>2, <2>3
  <1>4. CASE LoopPasses
    <2>1. UNCHANGED <<hs, active, up, inputQ, toHost, toGuest, attachment, retire, helloed>>
      BY <1>4 DEF LoopPasses, bridgeVars, stateVars, guestVars, channelVars, handleVars
    <2>2. Alone' /\ Leaves'
      BY <1>0, <2>1 DEF Alone, Leaves, Frames
    <2>3. ~Connected' => ~Connected /\ toGuest' = toGuest
      BY <2>1 DEF Connected, Open
    <2> QED BY <1>1, <2>1, <2>2, <2>3, WayAfterLoop
  <1>5. CASE LoopRetire
    <2>1. /\ Transmit(<<Env("Close", 0, retire, 0, NoBody)>>)
          /\ UNCHANGED <<inputQ, toHost, attachment, helloed>>
      BY <1>5 DEF LoopRetire, stateVars, guestVars
    <2>2. "Close" \in MessageType
      BY DEF MessageType
    <2>3. PICK x \in Envelope : x.type = "Close" /\ x.id = retire /\ x = Env("Close", 0, retire, 0, NoBody)
      BY <1>2, <2>2 DEF Env, Envelope, NoBody
    <2>4. x \notin Opens /\ Transmit(<<x>>)
      BY <2>1, <2>3 DEF Opens
    <2>5. /\ Frames(toGuest) \subseteq Frames(toGuest')
          /\ Frames(toGuest') \subseteq Frames(toGuest) \cup {x}
          /\ Connected => x \in Frames(toGuest')
          /\ ~Connected' => ~Connected /\ toGuest' = toGuest
          /\ Single(toGuest', Opens)
      BY <1>3, <2>1, <2>4
    <2>6. Alone'
      BY <1>0, <2>1, <2>4, <2>5 DEF Alone
    <2>7. Leaves'
      <3>1. active.id # 0 => Connected
        BY <1>0 DEF Labelled
      <3> QED BY <1>0, <1>1, <2>1, <2>3, <2>5, <3>1 DEF Leaves
    <2> QED BY <1>1, <2>1, <2>5, <2>6, <2>7, WayAfterLoop
  <1>6. CASE LoopCommand
    <2>1. /\ inputQ # <<>> /\ Transmit(<<Head(inputQ)>>) /\ inputQ' = Tail(inputQ)
          /\ UNCHANGED <<toHost, attachment, retire, helloed>>
      BY <1>6 DEF LoopCommand, stateVars, guestVars
    <2>2. PICK x \in Envelope : x = Head(inputQ) /\ x \in Frames(inputQ)
      BY <1>2, <2>1, EnvelopeTail, FramesTail
    <2>3. /\ x \in Opens /\ Transmit(<<x>>)
          /\ \A f \in Frames(toGuest) : f \notin Opens
      BY <1>0, <2>1, <2>2 DEF Opens, Asking, Alone
    <2>4. /\ Frames(toGuest) \subseteq Frames(toGuest')
          /\ ~Connected' => ~Connected /\ toGuest' = toGuest
          /\ Single(toGuest', Opens)
      BY <1>3, <2>1, <2>3
    <2>5. /\ Single(inputQ', Opens) /\ Frames(inputQ') \subseteq Frames(inputQ)
          /\ \A f \in Frames(inputQ') : f \notin Opens
      BY <1>0, <1>2, <2>1, <2>2, <2>3, SingleTail, FramesTail DEF Alone
    <2>6. inputQ' = <<>>
      <3> SUFFICES ASSUME inputQ' # <<>> PROVE FALSE
        OBVIOUS
      <3>1. inputQ' \in Seq(Envelope)
        BY <1>2, <2>1, EnvelopeTail
      <3>2. Head(inputQ') \in Frames(inputQ') /\ Head(inputQ') \in Envelope
        BY <3>1, EnvelopeTail, FramesTail
      <3> QED BY <1>0, <2>5, <3>2 DEF Asking, Opens
    <2>7. Alone'
      BY <2>4, <2>5, <2>6 DEF Alone
    <2>8. Leaves'
      BY <1>0, <1>1, <2>1, <2>4 DEF Leaves
    <2> QED BY <1>1, <2>1, <2>4, <2>7, <2>8, WayAfterLoop
  <1>7. CASE LoopData
    <2>1. /\ outgoing # <<>> /\ Transmit(<<Head(outgoing)>>)
          /\ UNCHANGED <<inputQ, toHost, attachment, retire, helloed>>
      BY <1>7 DEF LoopData, guestVars
    <2>2. PICK x \in Envelope : x = Head(outgoing) /\ x \in Frames(outgoing)
      BY <1>2, <2>1, EnvelopeTail, FramesTail
    <2>3. x \notin Opens /\ Transmit(<<x>>)
      BY <1>0, <2>1, <2>2 DEF Opens, Asking
    <2>4. /\ Frames(toGuest) \subseteq Frames(toGuest')
          /\ Frames(toGuest') \subseteq Frames(toGuest) \cup {x}
          /\ ~Connected' => ~Connected /\ toGuest' = toGuest
          /\ Single(toGuest', Opens)
      BY <1>3, <2>1, <2>3
    <2>5. Alone' /\ Leaves'
      BY <1>0, <1>1, <2>1, <2>3, <2>4 DEF Alone, Leaves
    <2> QED BY <1>1, <2>1, <2>4, <2>5, WayAfterLoop
  <1>8. CASE LoopRead
    BY <1>8, WayRead
  <1>9. CASE CheckLiveness \/ LoopEnds
    BY <1>9 DEF CheckLiveness, LoopEnds, Invalidate
  <1> QED BY <1>4, <1>5, <1>6, <1>7, <1>8, <1>9 DEF LoopStep

\* A guest that runs says one thing at most.
LEMMA WaySaid ==
    ASSUME Known, Way, Connected, NEW x \in Envelope, x.type # "Created",
           UNCHANGED <<hs, next, attachment, answers, retire, inputQ, outgoing, up>>,
           Frames(toHost') \subseteq Frames(toHost) \cup {x},
           Frames(toGuest') \subseteq Frames(toGuest), Single(toGuest', Opens),
           helloed => helloed',
           active'.id = active.id \/ active'.id = 0 \/ (active'.id < next /\ helloed'),
           x.ctl < next, x.id < next,
           active'.id # 0 => /\ x.type = "Closed" => x.id # active'.id
                             /\ \A f \in Frames(toHost) : f.type = "Closed" => f.id # active'.id,
           \A h \in Handle : Unknown(h)' =>
               active'.id # hs[h].id /\ x.id # hs[h].id /\ (hs[h].ctl # 0 => x.ctl # hs[h].ctl),
           Leaves'
    PROVE  Way'
  <1>0. /\ TypeOK /\ HandleIds /\ HandleCtls /\ Asking /\ Holder
        /\ Counted /\ Labelled /\ Alone /\ Sent /\ Held /\ Fresh
    BY DEF Known, Way
  <1>1. Requests' \subseteq Requests
    BY DEF Requests
  <1>2. \A h \in Handle : (Unheard(h)' => Unheard(h)) /\ (Unknown(h)' => Unknown(h))
    BY <1>1 DEF Unheard, Unknown
  <1>3. Connected'
    BY DEF Connected, Open, Frames
  <1>4. Counted'
    <2>1. active'.id < next
      <3>1. active.id < next /\ next \in Nat /\ active.id \in Nat
        BY <1>0, WayTypes DEF Counted
      <3> QED BY <3>1
    <2> QED BY <1>0, <2>1 DEF Counted
  <1>5. Labelled'
    <2>1. active'.id # 0 => helloed' /\ \A f \in Frames(toHost') : f.type = "Closed" => f.id # active'.id
      BY <1>0 DEF Labelled
    <2> QED BY <1>0, <1>3, <2>1 DEF Labelled
  <1>6. Alone'
    BY <1>0 DEF Alone
  <1>7. Sent'
    BY <1>0, <1>1 DEF Sent
  <1>8. Held'
    BY <1>0, <1>2 DEF Held
  <1>9. Fresh'
    <2> SUFFICES ASSUME NEW h \in Handle, Unknown(h)'
                 PROVE  /\ active'.id # hs[h].id
                        /\ \A f \in Frames(toHost') : f.id # hs[h].id /\ (hs[h].ctl # 0 => f.ctl # hs[h].ctl)
                        /\ hs[h].ctl # 0 => \A a \in answers : a[1] # hs[h].ctl
      BY DEF Fresh
    <2>1. /\ active.id # hs[h].id
          /\ \A f \in Frames(toHost) : f.id # hs[h].id /\ (hs[h].ctl # 0 => f.ctl # hs[h].ctl)
          /\ hs[h].ctl # 0 => \A a \in answers : a[1] # hs[h].ctl
      BY <1>0, <1>2 DEF Fresh
    <2>2. /\ active'.id # hs[h].id /\ x.id # hs[h].id
          /\ hs[h].ctl # 0 => x.ctl # hs[h].ctl
      OBVIOUS
    <2> QED BY <2>1, <2>2
  <1> QED BY <1>4, <1>5, <1>6, <1>7, <1>8, <1>9 DEF Way

\* What one message from the host makes the guest say: nothing or a refusal, the end of
\* what runs, or that a request was opened.
LEMMA ReadsSay ==
    ASSUME TypeOK, GuestReads, NEW e, e = Head(toGuest)
    PROVE  /\ e \in Envelope /\ e \in Frames(toGuest) /\ toGuest # <<>> /\ toGuest' = Tail(toGuest)
           /\ Frames(toGuest') \subseteq Frames(toGuest)
           /\ helloed => helloed'
           /\ e.type = "Close" /\ helloed /\ e.id = active.id => active'.id = 0
           /\ UNCHANGED <<bridgeVars, hs, up>>
           /\ \E x \in Envelope :
                 /\ Frames(toHost') \subseteq Frames(toHost) \cup {x}
                 /\ x.ctl = 0 \/ x.ctl = e.ctl
                 /\ \/ x.type \in {"Ready", "Error"} /\ x.id = 0 /\ active'.id = active.id
                    \/ x.type = "Closed" /\ x.id = active.id /\ active'.id = 0
                    \/ /\ x.type = "Opened" /\ e.type = "Open" /\ helloed' /\ active.id = 0
                       /\ x.id = e.id /\ active'.id = e.id
  <1> DEFINE Said(x) ==
                 /\ Frames(toHost') \subseteq Frames(toHost) \cup {x}
                 /\ x.ctl = 0 \/ x.ctl = e.ctl
                 /\ \/ x.type \in {"Ready", "Error"} /\ x.id = 0 /\ active'.id = active.id
                    \/ x.type = "Closed" /\ x.id = active.id /\ active'.id = 0
                    \/ /\ x.type = "Opened" /\ e.type = "Open" /\ helloed' /\ active.id = 0
                       /\ x.id = e.id /\ active'.id = e.id
  <1> DEFINE Ends == e.type = "Close" /\ helloed /\ e.id = active.id => active'.id = 0
  <1>0. /\ toGuest \in Seq(Envelope) /\ toGuest # <<>> /\ toGuest' = Tail(toGuest) /\ GuestHandle(e)
        /\ UNCHANGED <<bridgeVars, hs, up>>
    BY DEF TypeOK, GuestReads, GuestHandle, handleVars
  <1>1. /\ e \in Envelope /\ e \in Frames(toGuest) /\ e.ctl \in Nat /\ e.id \in Nat /\ e.body \in Nat
        /\ Frames(toGuest') \subseteq Frames(toGuest)
        /\ active \in Actives /\ active.id \in Nat /\ active.input \in Seq(Nat) /\ runGen \in Nat
    BY <1>0, EnvelopeTail, FramesTail DEF Envelope, TypeOK, Actives
  <1>2. "Ready" \in MessageType /\ "Error" \in MessageType /\ "Opened" \in MessageType /\ "Closed" \in MessageType
    BY DEF MessageType
  <1>3. NoBody \in Nat /\ active.id \in Nat
    BY <1>1 DEF NoBody
  <1>4. ASSUME NEW type \in {"Ready", "Error"}, Emit(<<Env(type, e.ctl, 0, 0, NoBody)>>), active'.id = active.id
        PROVE  \E x \in Envelope : Said(x)
    <2>1. PICK x \in Envelope : x.type = type /\ x.id = 0 /\ x.ctl = e.ctl /\ x = Env(type, e.ctl, 0, 0, NoBody)
      BY <1>1, <1>2, <1>3 DEF Env, Envelope
    <2>2. Frames(toHost') = Frames(toHost) \cup {x}
      BY <1>4, <2>1, EmitFrames
    <2> QED BY <1>4, <2>1, <2>2
  <1>5. ASSUME Emit(<<>>), active'.id = active.id
        PROVE  \E x \in Envelope : Said(x)
    <2>1. PICK x \in Envelope : x.type = "Error" /\ x.id = 0 /\ x.ctl = 0 /\ x = Env("Error", 0, 0, 0, NoBody)
      BY <1>2, <1>3 DEF Env, Envelope
    <2>2. toHost' = toHost
      BY <1>5, EmitFrames
    <2> QED BY <1>5, <2>1, <2>2
  <1>6. ASSUME NEW ctl \in {0, e.ctl}, Emit(<<Env("Closed", ctl, e.id, 0, NoBody)>>), e.id = active.id,
               active' = NoActive
        PROVE  \E x \in Envelope : Said(x)
    <2>0. ctl \in Nat /\ e.id \in Nat
      BY <1>1
    <2>1. PICK x \in Envelope : x.type = "Closed" /\ x.id = e.id /\ x.ctl = ctl /\ x = Env("Closed", ctl, e.id, 0, NoBody)
      BY <2>0, <1>2, <1>3 DEF Env, Envelope
    <2>2. Frames(toHost') = Frames(toHost) \cup {x} /\ active'.id = 0
      BY <1>6, <2>1, EmitFrames, NoActiveIs
    <2> QED BY <1>6, <2>1, <2>2
  <1> SUFFICES /\ \E x \in Envelope : Said(x)
               /\ Ends
               /\ helloed => helloed'
    BY <1>0, <1>1
  <1> HIDE DEF Said
  <1>7. CASE GuestHello(e)
    BY <1>4, <1>7 DEF GuestHello
  <1>8. CASE GuestOpen(e)
    <2>1. CASE Emit(Refuse(e)) /\ active' = active
      BY <1>4, <1>8, <2>1 DEF GuestOpen, Refuse
    <2>2. CASE /\ active.id = 0 /\ runGen' = runGen + 1
               /\ active' = [NoActive EXCEPT !.id = e.id, !.run = runGen', !.alive = TRUE]
               /\ Emit(<<Env("Opened", e.ctl, e.id, runGen', NoBody)>>)
      <3>1. runGen' \in Nat
        BY <1>1, <2>2
      <3>2. active'.id = e.id
        BY <1>1, <2>2, <3>1, ActiveBegun
      <3>3. PICK x \in Envelope : /\ x.type = "Opened" /\ x.id = e.id /\ x.ctl = e.ctl
                                  /\ x = Env("Opened", e.ctl, e.id, runGen', NoBody)
        BY <1>1, <1>2, <1>3, <3>1 DEF Env, Envelope
      <3>4. Frames(toHost') = Frames(toHost) \cup {x}
        BY <2>2, <3>3, EmitFrames
      <3>5. e.type = "Open" /\ helloed /\ helloed' = helloed
        BY <1>8 DEF GuestOpen
      <3>6. Said(x)
        BY <2>2, <3>2, <3>3, <3>4, <3>5 DEF Said
      <3> QED BY <3>5, <3>6
    <2> QED BY <1>8, <2>1, <2>2 DEF GuestOpen
  <1>9. CASE GuestMcp(e)
    <2>0. e.type = "Mcp" /\ helloed' = helloed
      BY <1>9 DEF GuestMcp
    <2>1. CASE active' = [active EXCEPT !.input = Append(@, e.body)] /\ Emit(<<>>)
      <3>1. Append(active.input, e.body) \in Seq(Nat)
        BY <1>1, NumberLast
      <3>2. active'.id = active.id
        BY <1>1, <2>1, <3>1, ActiveInput
      <3> QED BY <1>5, <2>0, <2>1, <3>2
    <2>2. CASE ToChild(e) /\ active' = NoActive /\ Emit(<<Env("Closed", 0, e.id, 0, NoBody)>>)
      BY <1>6, <2>0, <2>2 DEF ToChild
    <2>3. CASE Emit(<<>>) /\ UNCHANGED active
      BY <1>5, <2>0, <2>3
    <2> QED BY <1>9, <2>1, <2>2, <2>3 DEF GuestMcp
  <1>10. CASE GuestClose(e)
    <2>1. CASE active.id = e.id
      BY <1>6, <1>10, <2>1, NoActiveIs DEF GuestClose
    <2>2. CASE active.id # e.id
      BY <1>5, <1>10, <2>2 DEF GuestClose
    <2> QED BY <2>1, <2>2
  <1>11. CASE GuestTransfer(e)
    BY <1>4, <1>5, <1>11 DEF GuestTransfer, Refuse
  <1>12. CASE GuestUnready(e)
    BY <1>4, <1>12 DEF GuestUnready, Refuse
  <1> QED BY <1>0, <1>7, <1>8, <1>9, <1>10, <1>11, <1>12 DEF GuestHandle

LEMMA WayReads ==
    ASSUME Known, Way, GuestReads
    PROVE  Way'
  <1>0. /\ TypeOK /\ HandleIds /\ HandleCtls /\ Asking /\ Holder
        /\ Counted /\ Labelled /\ Alone /\ Sent /\ Held /\ Fresh /\ Leaves
    BY DEF Known, Way
  <1>1. PICK e : e = Head(toGuest)
    OBVIOUS
  <1>2. /\ e \in Envelope /\ e \in Frames(toGuest) /\ toGuest # <<>> /\ toGuest' = Tail(toGuest)
        /\ Frames(toGuest') \subseteq Frames(toGuest)
        /\ helloed => helloed'
        /\ e.type = "Close" /\ helloed /\ e.id = active.id => active'.id = 0
        /\ UNCHANGED <<bridgeVars, hs, up>>
    BY <1>0, <1>1, ReadsSay
  <1>3. PICK x \in Envelope :
                 /\ Frames(toHost') \subseteq Frames(toHost) \cup {x}
                 /\ x.ctl = 0 \/ x.ctl = e.ctl
                 /\ \/ x.type \in {"Ready", "Error"} /\ x.id = 0 /\ active'.id = active.id
                    \/ x.type = "Closed" /\ x.id = active.id /\ active'.id = 0
                    \/ /\ x.type = "Opened" /\ e.type = "Open" /\ helloed' /\ active.id = 0
                       /\ x.id = e.id /\ active'.id = e.id
    BY <1>0, <1>1, ReadsSay
  <1>4. UNCHANGED <<hs, next, attachment, answers, retire, inputQ, outgoing, up>>
    BY <1>2 DEF bridgeVars, stateVars
  <1>5. Connected /\ toGuest \in Seq(Envelope)
    BY <1>0, <1>2, WayTypes DEF Labelled
  <1>6. /\ Single(toGuest', Opens)
        /\ e.type = "Open" => Requests' = {}
    <2>1. /\ Single(toGuest', Opens)
          /\ e \in Opens => \A f \in Frames(toGuest') : f \notin Opens
      BY <1>0, <1>1, <1>2, <1>5, SingleTail DEF Alone
    <2>2. e.type = "Open" => e \in Opens /\ inputQ' = <<>>
      BY <1>0, <1>2, <1>4 DEF Alone, Opens
    <2>3. Frames(<<>>) = {}
      BY DEF Frames
    <2> QED BY <2>1, <2>2, <2>3 DEF Requests
  \* A request that is read is its caller's, who is not unknown any more.
  <1>7. ASSUME e.type = "Open", NEW h \in Handle, Unknown(h)'
        PROVE  e.id # hs[h].id /\ e.ctl # hs[h].ctl
    <2>1. hs[h].pc \in {"numbered", "claimed", "sending"}
      BY <1>4, <1>6, <1>7 DEF Unknown, Unheard
    <2>2. Asked(e)
      BY <1>0, <1>2, <1>7 DEF Asking
    <2> QED BY <2>1, <2>2 DEF Asked, Early
  <1>8. e.type # "Open" => x.ctl = 0
    BY <1>0, <1>2, <1>3 DEF Labelled
  <1>9. \A h \in Handle : Unknown(h)' => Unknown(h) /\ hs[h].id # 0
    <2>1. Requests' \subseteq Requests
      <3>1. inputQ' = inputQ
        BY <1>4
      <3>2. Frames(inputQ') = Frames(inputQ)
        BY <3>1
      <3>3. Frames(toGuest') \subseteq Frames(toGuest)
        BY <1>2
      <3> QED BY <3>2, <3>3 DEF Requests
    <2>2. \A h \in Handle : Unknown(h)' => Unknown(h)
      BY <1>4, <2>1 DEF Unknown, Unheard
    <2>3. \A h \in Handle : Unknown(h) => hs[h].id # 0
      BY <1>0, UnheardIs DEF Unknown, HandleIds
    <2> QED BY <2>2, <2>3
  <1>10. ASSUME NEW h \in Handle, Unknown(h)'
         PROVE  active'.id # hs[h].id /\ x.id # hs[h].id /\ (hs[h].ctl # 0 => x.ctl # hs[h].ctl)
    <2>1. active.id # hs[h].id /\ hs[h].id # 0
      BY <1>0, <1>9, <1>10 DEF Fresh
    <2>2. CASE e.type = "Open"
      BY <1>3, <1>7, <1>10, <2>1, <2>2
    <2>3. CASE e.type # "Open"
      BY <1>3, <1>8, <2>1, <2>3
    <2> QED BY <2>2, <2>3
  <1>11. x.ctl < next /\ x.id < next /\ (e.type = "Open" => e.id < next)
    <2>1. e.type = "Open" => e.id < next /\ e.ctl < next
      BY <1>0, <1>2 DEF Asking, Asked
    <2>2. 0 < next /\ active.id < next
      BY <1>0, WayTypes DEF Counted
    <2> QED BY <1>3, <1>8, <2>1, <2>2
  <1>12. e.type = "Open" => e.id = attachment.id /\ \A f \in Frames(toHost) : f.id # e.id
    <2> SUFFICES ASSUME e.type = "Open" PROVE e.id = attachment.id /\ \A f \in Frames(toHost) : f.id # e.id
      OBVIOUS
    <2>1. e \in Requests
      BY <1>2 DEF Requests, Opens
    <2>2. PICK h \in Handle : hs[h].id = e.id /\ e.id = attachment.id
      BY <1>0, <2>1, RequestIs
    <2>3. Unknown(h)
      BY <2>1, <2>2 DEF Unknown, Unheard
    <2> QED BY <1>0, <2>2, <2>3 DEF Fresh
  <1>13. active'.id # 0 => /\ x.type = "Closed" => x.id # active'.id
                           /\ \A f \in Frames(toHost) : f.type = "Closed" => f.id # active'.id
    BY <1>0, <1>3, <1>12 DEF Labelled
  <1>14. Leaves'
    <2>1. CASE active'.id = active.id /\ active.id # 0
      <3>1. CASE \E f \in Frames(toGuest) : f.type = "Close" /\ f.id = active.id
        <4>1. PICK f \in Frames(toGuest) : f.type = "Close" /\ f.id = active.id
          BY <3>1
        <4>2. f # e
          BY <1>0, <1>2, <2>1, <4>1 DEF Labelled
        <4>3. f \in Frames(toGuest')
          BY <1>1, <1>2, <1>5, <4>2, FramesHead
        <4> QED BY <2>1, <4>1, <4>3 DEF Leaves
      <3>2. CASE ~ \E f \in Frames(toGuest) : f.type = "Close" /\ f.id = active.id
        BY <1>0, <1>4, <2>1, <3>2 DEF Leaves
      <3> QED BY <3>1, <3>2
    <2>2. CASE active'.id = 0
      BY <2>2 DEF Leaves
    <2>3. CASE e.type = "Open" /\ active'.id = e.id
      BY <1>4, <1>12, <2>3 DEF Leaves
    <2> QED BY <1>3, <2>1, <2>2, <2>3
  <1>15. /\ x.type # "Created"
         /\ active'.id = active.id \/ active'.id = 0 \/ (active'.id < next /\ helloed')
    BY <1>3, <1>11
  <1>16. /\ Frames(toHost') \subseteq Frames(toHost) \cup {x}
         /\ Frames(toGuest') \subseteq Frames(toGuest) /\ Single(toGuest', Opens)
         /\ helloed => helloed'
    <2>1. Frames(toHost') \subseteq Frames(toHost) \cup {x}
      BY <1>3
    <2>2. Frames(toGuest') \subseteq Frames(toGuest) /\ (helloed => helloed')
      BY <1>2
    <2>3. Single(toGuest', Opens)
      BY <1>6
    <2> QED BY <2>1, <2>2, <2>3
  <1>17. x.ctl < next /\ x.id < next
    BY <1>11
  <1>18. \A h \in Handle : Unknown(h)' =>
             active'.id # hs[h].id /\ x.id # hs[h].id /\ (hs[h].ctl # 0 => x.ctl # hs[h].ctl)
    BY <1>10
  <1>19. Connected
    BY <1>5
  <1> QED BY <1>4, <1>13, <1>14, <1>15, <1>16, <1>17, <1>18, <1>19, WaySaid

LEMMA WayGuest ==
    ASSUME Known, Way, ChildWorks \/ ChildStep \/ GuestWrites
    PROVE  Way'
  <1>0. /\ TypeOK /\ HandleIds /\ Counted /\ Labelled /\ Alone /\ Sent /\ Held /\ Fresh /\ Leaves
    BY DEF Known, Way
  <1>1. CASE ChildWorks \/ ChildStep
    <2>1. /\ active'.id = active.id
          /\ UNCHANGED <<hs, next, attachment, answers, retire, inputQ, outgoing, up, toHost, toGuest, helloed>>
      BY <1>0, <1>1, ChildKeeps DEF bridgeVars, stateVars
    <2>2. Requests' = Requests /\ Frames(toGuest') = Frames(toGuest) /\ Frames(toHost') = Frames(toHost)
          /\ Connected' = Connected
      BY <2>1 DEF Requests, Frames, Connected, Open
    <2>3. \A h \in Handle : (Unheard(h)' <=> Unheard(h)) /\ (Unknown(h)' <=> Unknown(h))
      BY <2>1, <2>2 DEF Unheard, Unknown
    <2>4. Counted' /\ Labelled' /\ Alone' /\ Sent'
      BY <1>0, <2>1, <2>2 DEF Counted, Labelled, Alone, Sent
    <2>5. Held' /\ Fresh' /\ Leaves'
      BY <1>0, <2>1, <2>2, <2>3 DEF Held, Fresh, Leaves
    <2> QED BY <2>4, <2>5 DEF Way
  <1>2. CASE GuestWrites
    <2>1. /\ UNCHANGED <<hs, next, attachment, answers, retire, inputQ, outgoing, up, toGuest, helloed>>
          /\ active.id # 0
      BY <1>0, <1>2, WritesKeep DEF bridgeVars, stateVars
    <2>2. PICK x \in Envelope : /\ x.ctl = 0 /\ x.type \in {"Mcp", "Closed"} /\ x.id = active.id
                                /\ toHost' = toHost \o <<x>>
                                /\ \/ active'.id = 0 /\ x.type = "Closed"
                                   \/ active'.id = active.id /\ active'.run = active.run /\ x.type = "Mcp"
      BY <1>0, <1>2, WritesKeep
    <2>3. Frames(toHost') = Frames(toHost) \cup {x}
      BY <2>2, WayTypes, FramesLast
    <2>4. Connected /\ Frames(toGuest') = Frames(toGuest) /\ Requests' = Requests
      BY <1>0, <2>1 DEF Labelled, Frames, Requests
    <2>5. \A h \in Handle : Unknown(h)' => Unknown(h) /\ hs[h].id # 0
      <3>1. \A h \in Handle : Unknown(h)' => Unknown(h)
        BY <2>1, <2>4 DEF Unknown, Unheard
      <3>2. \A h \in Handle : Unknown(h) => hs[h].id # 0
        BY <1>0, UnheardIs DEF Unknown, HandleIds
      <3> QED BY <3>1, <3>2
    <2>6. \A h \in Handle : Unknown(h)' =>
             active'.id # hs[h].id /\ x.id # hs[h].id /\ (hs[h].ctl # 0 => x.ctl # hs[h].ctl)
      BY <1>0, <2>2, <2>5 DEF Fresh
    <2>7. x.ctl < next /\ x.id < next
      <3>1. 0 < next /\ active.id < next
        BY <1>0, <2>1, WayTypes DEF Counted
      <3> QED BY <2>2, <3>1
    <2>8. Leaves'
      BY <1>0, <2>1, <2>2, <2>4 DEF Leaves
    <2>9. active'.id # 0 => /\ x.type = "Closed" => x.id # active'.id
                            /\ \A f \in Frames(toHost) : f.type = "Closed" => f.id # active'.id
      BY <1>0, <2>2 DEF Labelled
    <2>10. /\ x.type # "Created" /\ Single(toGuest', Opens)
           /\ active'.id = active.id \/ active'.id = 0 \/ (active'.id < next /\ helloed')
      BY <1>0, <2>1, <2>2 DEF Alone
    <2> QED BY <2>1, <2>3, <2>4, <2>6, <2>7, <2>8, <2>9, <2>10, WaySaid
  <1> QED BY <1>1, <1>2

\* Another bridge process: nothing runs, and nothing is in the channel to it.
LEMMA WayProcesses ==
    ASSUME Known, Way, Launch \/ GuestGone
    PROVE  Way'
  <1>0. /\ TypeOK /\ HandleIds /\ HandleCtls /\ Asking /\ Holder
        /\ Counted /\ Labelled /\ Alone /\ Sent /\ Held /\ Fresh
    BY DEF Known, Way
  <1>1. /\ UNCHANGED <<hs, next, attachment, answers, retire, inputQ, outgoing>> /\ toGuest' = <<>>
        /\ active'.id = 0
    BY NoActiveIs DEF Launch, GuestGone, GuestStart, GuestEnds, bridgeVars, stateVars, handleVars
  <1>2. \A f \in Frames(toHost') : f \in Frames(toHost) \/ (f.type = "Created" /\ f.id = 0 /\ f.ctl = 0)
    <2>1. CASE GuestGone
      BY <2>1 DEF GuestGone, Frames
    <2>2. CASE Launch
      <3>1. "Created" \in MessageType
        BY DEF MessageType
      <3>2. PICK x \in Envelope : x.type = "Created" /\ x.id = 0 /\ x.ctl = 0 /\ x = Env("Created", 0, 0, 0, NoBody)
        BY <3>1 DEF Env, Envelope, NoBody
      <3>3. toHost' = toHost \o <<x>>
        BY <2>2, <3>2, WayTypes, EnvelopeLast DEF Launch
      <3>4. Frames(toHost') = Frames(toHost) \cup {x}
        BY <3>3, WayTypes, FramesLast
      <3> QED BY <3>2, <3>4
    <2> QED BY <2>1, <2>2
  <1>3. Frames(toGuest') = {} /\ Requests' \subseteq Requests /\ Single(toGuest', Opens)
    BY <1>1 DEF Frames, Requests, Single
  <1>4. \A h \in Handle : (Unheard(h)' => Unheard(h)) /\ (Unknown(h)' => Unknown(h))
    BY <1>1, <1>3 DEF Unheard, Unknown
  <1>5. 0 < next
    BY <1>0, WayTypes DEF Counted
  <1>6. Counted' /\ Labelled' /\ Alone' /\ Leaves'
    BY <1>0, <1>1, <1>2, <1>3, <1>5 DEF Counted, Labelled, Alone, Leaves
  <1>7. Sent' /\ Held'
    BY <1>0, <1>1, <1>3, <1>4 DEF Sent, Held
  <1>8. Fresh'
    <2> SUFFICES ASSUME NEW h \in Handle, Unknown(h)
                 PROVE  /\ 0 # hs[h].id
                        /\ \A f \in Frames(toHost') : f.id # hs[h].id /\ (hs[h].ctl # 0 => f.ctl # hs[h].ctl)
                        /\ hs[h].ctl # 0 => \A a \in answers : a[1] # hs[h].ctl
      BY <1>1, <1>4 DEF Fresh
    <2>1. hs[h].id # 0
      BY <1>0, UnheardIs DEF Unknown, HandleIds
    <2> QED BY <1>0, <1>2, <2>1 DEF Fresh
  <1> QED BY <1>6, <1>7, <1>8 DEF Way

LEMMA WayInit ==
    ASSUME Init
    PROVE  Way
  <1>1. /\ outgoing = <<>> /\ toGuest = <<>> /\ toHost = <<>> /\ inputQ = <<>>
        /\ attachment.id = 0 /\ next = 1 /\ answers = {}
        /\ active.id = 0
        /\ \A h \in Handle : hs[h].id = 0 /\ hs[h].ctl = 0 /\ hs[h].pc = "idle"
    BY NoAttachmentIs, NoActiveIs DEF Init, BridgeInit, GuestInit
  <1>2. Frames(<<>>) = {} /\ Requests = {} /\ Single(<<>>, Opens)
    BY <1>1 DEF Frames, Requests, Single
  <1>3. \A h \in Handle : ~Unknown(h) /\ ~Unheard(h)
    BY <1>1, <1>2 DEF Unknown, Unheard
  <1> QED BY <1>1, <1>2, <1>3 DEF Way, Counted, Labelled, Alone, Sent, Held, Fresh, Leaves

\* What is lost stays lost.
LEMMA WayLost ==
    ASSUME Known, Next, ~lapsed', ~outranked', ~dead'
    PROVE  ~lapsed /\ ~outranked /\ ~dead
  <1>1. CASE \E h \in Handle : CallerStep(h)
    <2>1. PICK h \in Handle : CallerStep(h)
      BY <1>1
    <2>2. dead' = dead
      BY <2>1 DEF CallerStep, AttachCheck, AttachNumber, AttachClaim, AttachRequest, AttachSend, AttachOpened,
                  AttachFails, Send, Recv, End, DropHandle, Retired, bridgeVars, stateVars
    <2>3. ~lapsed
      <3>1. CASE AttachFails(h)
        BY <3>1 DEF AttachFails
      <3>2. CASE ~AttachFails(h)
        BY <2>1, <3>2 DEF CallerStep, AttachCheck, AttachNumber, AttachClaim, AttachRequest, AttachSend,
                          AttachOpened, Send, Recv, End, DropHandle, Retired, ghostVars
      <3> QED BY <3>1, <3>2
    <2>4. ~outranked
      BY <2>1 DEF CallerStep, AttachCheck, AttachNumber, AttachClaim, AttachRequest, AttachSend, AttachOpened,
                  AttachFails, Send, Recv, End, DropHandle, Retired, ghostVars
    <2> QED BY <2>2, <2>3, <2>4
  <1>2. CASE LoopRead
    <2>1. dead' = dead
      BY <1>2, ProcessDoes DEF LoopRead, Known
    <2> QED BY <1>2, <2>1 DEF LoopRead, Known, TypeOK
  <1>3. CASE LoopPasses \/ LoopRetire \/ LoopCommand \/ LoopData \/ CheckLiveness \/ LoopEnds
    BY <1>3 DEF LoopPasses, LoopRetire, LoopCommand, LoopData, CheckLiveness, LoopEnds, Invalidate,
                bridgeVars, stateVars, handleVars, ghostVars
  <1>4. CASE Launch \/ GuestGone \/ GuestStep
    BY <1>4 DEF Launch, GuestGone, GuestStep, GuestReads, ChildWorks, ChildStep, GuestWrites,
                bridgeVars, stateVars, handleVars, ghostVars
  <1> QED BY <1>1, <1>2, <1>3, <1>4 DEF Next, LoopStep

LEMMA WayStep ==
    ASSUME Known, WayInv, [Next]_carrierVars
    PROVE  WayInv'
  <1> SUFFICES ASSUME ~lapsed', ~outranked', ~dead' PROVE Way'
    BY DEF WayInv
  <1>1. CASE UNCHANGED carrierVars
    <2>1. /\ UNCHANGED <<hs, next, attachment, answers, retire, inputQ, outgoing, toGuest, toHost>>
          /\ UNCHANGED <<active, up, helloed, lapsed, outranked, dead>>
      BY <1>1 DEF carrierVars, bridgeVars, stateVars, guestVars, wireVars, channelVars, handleVars, ghostVars
    <2>2. /\ Requests' = Requests /\ Frames(toGuest') = Frames(toGuest) /\ Frames(toHost') = Frames(toHost)
          /\ Connected' = Connected /\ Frames(outgoing') = Frames(outgoing)
      BY <2>1 DEF Requests, Frames, Connected, Open
    <2>3. \A h \in Handle : (Unheard(h)' <=> Unheard(h)) /\ (Unknown(h)' <=> Unknown(h))
      BY <2>1, <2>2 DEF Unheard, Unknown
    <2>4. Way
      BY <2>1 DEF WayInv
    <2>5. Counted' /\ Labelled' /\ Alone' /\ Sent'
      BY <2>1, <2>2, <2>4 DEF Way, Counted, Labelled, Alone, Sent
    <2>6. Held' /\ Fresh' /\ Leaves'
      BY <2>1, <2>2, <2>3, <2>4 DEF Way, Held, Fresh, Leaves
    <2> QED BY <2>5, <2>6 DEF Way
  <1>2. CASE Next
    <2>1. Way
      BY <1>2, WayLost DEF WayInv
    <2>2. CASE \E h \in Handle : CallerStep(h)
      BY <2>1, <2>2, WayCaller
    <2>3. CASE LoopStep \/ LoopEnds
      BY <2>1, <2>3, WayLoop
    <2>4. CASE Launch \/ GuestGone \/ GuestStep
      BY <2>1, <2>4, WayProcesses, WayReads, WayGuest DEF GuestStep
    <2> QED BY <1>2, <2>2, <2>3, <2>4 DEF Next
  <1> QED BY <1>1, <1>2

\* All that is known of a retirement's way.
Retirement == Talk /\ Once /\ Running /\ Known /\ WayInv

LEMMA RetirementAlways == Spec => []Retirement
  <1>1. Init => Retirement
    BY TypeInit, TalkInit, RunningInit, WayInit DEF Retirement, Known, WayInv
  <1>2. Retirement /\ [Next]_carrierVars => Retirement'
    <2> SUFFICES ASSUME Retirement, [Next]_carrierVars PROVE Retirement'
      OBVIOUS
    <2>1. /\ TypeOK /\ HandleIds /\ Talk /\ Once /\ HandleCtls /\ Asking /\ Holder /\ Running
          /\ Known /\ WayInv
      BY DEF Retirement, Known
    <2>2. TypeOK' /\ HandleIds' /\ Talk' /\ Once'
      BY <2>1, TypeStep, TalkStep
    <2>3. HandleCtls' /\ Asking' /\ Holder' /\ Running'
      BY <2>1, RunningStep
    <2>4. WayInv'
      BY <2>1, WayStep
    <2> QED BY <2>2, <2>3, <2>4 DEF Retirement, Known
  <1> QED BY <1>1, <1>2, PTL DEF Spec

\* A runtime whose handle has ended or was dropped dies: once all frames have arrived
\* the guest runs nothing that no handle owns (Drop of CuaAttachment and the two
\* critical sections of retire in bridge.rs, the slot of session_loop.rs, Close of
\* runtime.rs), for every number of callers, whatever breaks, while no attach was given
\* up early and no Close gave way in the slot to that of a later attachment.
THEOREM RuntimeDiesEver == Spec => []RuntimeDies
  <1>1. Retirement => RuntimeDies
    <2> SUFFICES ASSUME Retirement, ~lapsed, ~outranked, ~dead, Quiet, active.id # 0
                 PROVE  \E h \in Handle : hs[h].id = active.id /\ hs[h].pc \notin {"ended", "gone"}
      BY DEF RuntimeDies, RuntimeOwned
    <2>1. Leaves /\ Holder
      BY DEF Retirement, Known, WayInv, Way
    <2>2. Frames(toGuest) = {} /\ retire = 0
      BY DEF Quiet, Frames
    <2>3. CASE attachment.id = active.id
      BY <2>1, <2>3 DEF Holder
    <2>4. CASE \E h \in Handle : hs[h].id = active.id /\ hs[h].pc \in {"ending", "dropping"}
      BY <2>4
    <2> QED BY <2>1, <2>2, <2>3, <2>4 DEF Leaves
  <1> QED BY <1>1, RetirementAlways, PTL

\* When the guest reads the request of an attach and refuses it because another runtime
\* is there, the Close of that runtime is on its way (the claim of attach and the two
\* critical sections of retire in bridge.rs, the order in which the loop of
\* session_loop.rs polls, Open of runtime.rs), for every number of callers, whatever
\* breaks, with the exceptions of RuntimeDies.
THEOREM BusyIsPassingEver == Spec => []BusyIsPassing
  <1>1. Retirement => BusyIsPassing
    <2> SUFFICES ASSUME Retirement, ~lapsed, ~outranked, ~dead, toGuest # <<>>,
                        Head(toGuest).type = "Open", active.id # 0
                 PROVE  BeingClosed(active.id)
      BY DEF BusyIsPassing
    <2>1. /\ Known /\ Sent /\ Held /\ Fresh /\ Leaves
      BY DEF Retirement, WayInv, Way
    <2>2. PICK e : e = Head(toGuest) /\ e \in Requests
      <3>1. toGuest \in Seq(Envelope)
        BY <2>1, WayTypes
      <3>2. Head(toGuest) \in Frames(toGuest) /\ Head(toGuest) \in Opens
        BY <3>1, EnvelopeTail, FramesTail DEF Opens
      <3> QED BY <3>2 DEF Requests
    <2>3. PICK h \in Handle : hs[h].id = e.id /\ e.id = attachment.id
      BY <2>1, <2>2, RequestIs
    <2>4. attachment.id # active.id
      BY <2>1, <2>2, <2>3 DEF Fresh, Unknown, Unheard
    <2> QED BY <2>1, <2>4 DEF Leaves, BeingClosed, Frames
  <1> QED BY <1>1, RetirementAlways, PTL
-----------------------------------------------------------------------------
(* NeverBusy: whose request is on the way to the guest's transfer slot         *)

ThreadPc == {"none", "begin", "sending", "waiting", "tail"}

JobTypes ==
    /\ worker \in {"idle", "running", "ended"}
    /\ waiting \in Seq(Job)
    /\ thread \in [Job -> [pc : ThreadPc, ctl : Nat]]
    /\ forsaken \in BOOLEAN

\* One job has a thread, and it is the one the worker waits for, if it waits.
OneJob ==
    /\ \A i, j \in Job : thread[i] # NoThread /\ thread[j] # NoThread => i = j
    /\ worker = "idle" => \A j \in Job : thread[j] = NoThread
    /\ worker = "running" => running \in Job /\ \A j \in Job : thread[j] # NoThread => running = j

\* An answer to request c is on its way or waits for its reader.
Back(c) == (\E e \in Frames(toHost) : e.ctl = c) \/ (\E a \in answers : a[1] = c)

Seen(c) ==
    \/ \E e \in Frames(inputQ) \cup Frames(toGuest) : e.ctl = c
    \/ Back(c)
    \/ transfer.ctl = c

\* A job's request has a number of its own, which is seen nowhere before it is sent.
JobNumber(j) ==
    /\ thread[j].ctl < next
    /\ thread[j].pc \in {"none", "begin"} => thread[j].ctl = 0
    /\ thread[j].pc \in {"sending", "waiting"} => thread[j].ctl # 0
    /\ thread[j].ctl # 0 =>
          /\ \A h \in Handle : hs[h].ctl # thread[j].ctl
          /\ \A e \in Frames(inputQ) \cup Frames(toGuest) : e.type # "Transfer" => e.ctl # thread[j].ctl
    /\ thread[j].pc = "sending" => ~Seen(thread[j].ctl)

JobNumbers ==
    /\ next > 0
    /\ \A e \in Frames(inputQ) \cup Frames(toGuest) \cup Frames(toHost) : e.ctl < next
    /\ \A a \in answers : a[1] < next
    /\ transfer.ctl < next
    /\ \A h \in Handle : hs[h].ctl < next
    /\ \A e \in Frames(outgoing) : e.type = "Mcp" /\ e.ctl = 0
    /\ \A j \in Job : JobNumber(j)

\* A job waits for the answer to request c, which is not under way.
WaitsFor(c) == \E j \in Job : thread[j].pc = "waiting" /\ thread[j].ctl = c /\ ~Back(c)

\* A queue has one request for a transfer at most.
OneTransfer(q) == \A i, k \in DOMAIN q : q[i].type = "Transfer" /\ q[k].type = "Transfer" => i = k
NoTransfers(q) == \A e \in Frames(q) : e.type # "Transfer"

\* Unless a job left its request behind, the request is in one place: in the loop's
\* channel, on its way, or in the slot.
OnePlace ==
    /\ OneTransfer(inputQ) /\ OneTransfer(toGuest)
    /\ \A e \in Frames(inputQ) : e.type = "Transfer" =>
          WaitsFor(e.ctl) /\ transfer.ctl = 0 /\ NoTransfers(toGuest)
    /\ \A e \in Frames(toGuest) : e.type = "Transfer" => WaitsFor(e.ctl) /\ transfer.ctl = 0
    /\ transfer.ctl # 0 => WaitsFor(transfer.ctl)
SlotInv == ~forsaken => OnePlace

JobInv == JobTypes /\ OneJob /\ JobNumbers /\ SlotInv

LEMMA OneNone == OneTransfer(<<>>) /\ NoTransfers(<<>>) /\ Frames(<<>>) = {}
  BY DEF OneTransfer, NoTransfers, Frames

TransferFrames == {e \in Envelope : e.type = "Transfer"}

LEMMA OneIsSingle ==
    ASSUME NEW q \in Seq(Envelope)
    PROVE  /\ OneTransfer(q) <=> Single(q, TransferFrames)
           /\ NoTransfers(q) <=> \A f \in Frames(q) : f \notin TransferFrames
  <1>1. \A i \in DOMAIN q : q[i] \in Envelope
    OBVIOUS
  <1>2. \A i \in DOMAIN q : q[i] \in TransferFrames <=> q[i].type = "Transfer"
    BY <1>1 DEF TransferFrames
  <1> QED BY <1>2 DEF OneTransfer, Single, NoTransfers, Frames

LEMMA OneTail ==
    ASSUME NEW q \in Seq(Envelope), q # <<>>, OneTransfer(q)
    PROVE  OneTransfer(Tail(q)) /\ (Head(q).type = "Transfer" => NoTransfers(Tail(q)))
  <1>1. Tail(q) \in Seq(Envelope) /\ Head(q) \in Envelope
    BY EnvelopeTail
  <1>2. Single(Tail(q), TransferFrames)
        /\ (Head(q) \in TransferFrames => \A f \in Frames(Tail(q)) : f \notin TransferFrames)
    BY OneIsSingle, SingleTail
  <1>3. Head(q).type = "Transfer" => Head(q) \in TransferFrames
    BY <1>1 DEF TransferFrames
  <1> QED BY <1>1, <1>2, <1>3, OneIsSingle

LEMMA OneLast ==
    ASSUME NEW q \in Seq(Envelope), NEW e \in Envelope, OneTransfer(q),
           e.type = "Transfer" => NoTransfers(q)
    PROVE  OneTransfer(q \o <<e>>)
  <1>1. Single(q, TransferFrames) /\ (e \in TransferFrames => \A f \in Frames(q) : f \notin TransferFrames)
    BY OneIsSingle DEF TransferFrames
  <1>2. q \o <<e>> \in Seq(Envelope)
    BY EnvelopeLast
  <1>3. Single(q \o <<e>>, TransferFrames)
    BY <1>1, SingleLast
  <1> QED BY <1>2, <1>3, OneIsSingle

-----------------------------------------------------------------------------
(* What the steps of the carrier do to requests, by their control ids          *)

\* Where control ids go: into the channel from a caller, from there to the guest, into
\* its slot or back, and to whoever waits.
CtlMoves ==
    /\ next' \in Nat /\ next' >= next
    /\ \A h \in Handle : hs'[h].ctl = hs[h].ctl \/ (hs'[h].ctl = next /\ next < next')
    /\ \A e \in Frames(inputQ') :
          e \in Frames(inputQ) \/ (e.type # "Transfer" /\ \E h \in Handle : e.ctl = hs[h].ctl)
    /\ \A e \in Frames(outgoing') : e \in Frames(outgoing) \/ (e.type = "Mcp" /\ e.ctl = 0)
    /\ \A e \in Frames(toGuest') :
          \/ e \in Frames(toGuest) \cup Frames(inputQ)
          \/ e.type # "Transfer" /\ e.ctl = 0
    /\ \A e \in Frames(toHost') :
          \/ e \in Frames(toHost) \/ e.ctl = 0 \/ e.ctl = transfer.ctl
          \/ \E f \in Frames(toGuest) : f.ctl = e.ctl
    /\ \A a \in answers' : a \in answers \/ \E e \in Frames(toHost) : e.ctl = a[1]
    /\ \/ transfer'.ctl = 0 \/ transfer'.ctl = transfer.ctl
       \/ \E f \in Frames(toGuest) : f.ctl = transfer'.ctl

LEMMA NumbersKeep ==
    ASSUME TypeOK, JobTypes, JobNumbers, CtlMoves, thread' = thread
    PROVE  JobNumbers'
  <1>0. /\ next \in Nat /\ next > 0 /\ next' \in Nat /\ next' >= next /\ transfer.ctl \in Nat
        /\ \A h \in Handle : hs[h].ctl \in Nat /\ hs[h].ctl < next
        /\ \A e \in Frames(inputQ) \cup Frames(toGuest) \cup Frames(toHost) : e.ctl \in Nat /\ e.ctl < next
        /\ \A a \in answers : a[1] \in Nat /\ a[1] < next
        /\ \A j \in Job : thread[j].ctl \in Nat
    <2>1. next \in Nat /\ next' \in Nat /\ next' >= next /\ transfer.ctl \in Nat /\ transfer.ctl < next
      BY DEF TypeOK, CtlMoves, JobNumbers
    <2>2. inputQ \in Seq(Envelope) /\ toGuest \in Seq(Envelope) /\ toHost \in Seq(Envelope)
      BY DEF TypeOK
    <2>3. \A e \in Frames(inputQ) \cup Frames(toGuest) \cup Frames(toHost) : e.ctl \in Nat /\ e.ctl < next
      BY <2>2, FrameIs DEF JobNumbers
    <2>4. \A a \in answers : a[1] \in Nat /\ a[1] < next
      BY DEF TypeOK, JobNumbers
    <2>5. \A h \in Handle : hs[h].ctl \in Nat /\ hs[h].ctl < next
      BY DEF TypeOK, JobNumbers
    <2>6. \A j \in Job : thread[j].ctl \in Nat
      BY DEF JobTypes
    <2> QED BY <2>1, <2>3, <2>4, <2>5, <2>6
  <1>1. \A h \in Handle : hs'[h].ctl < next'
    BY <1>0 DEF CtlMoves
  <1>2. \A e \in Frames(outgoing') : e.type = "Mcp" /\ e.ctl = 0
    BY DEF CtlMoves, JobNumbers
  <1>3. \A e \in Frames(inputQ') \cup Frames(toGuest') \cup Frames(toHost') : e.ctl < next'
    <2>1. \A e \in Frames(inputQ') : e.ctl < next'
      <3> TAKE e \in Frames(inputQ')
      <3>1. e \in Frames(inputQ) \/ \E h \in Handle : e.ctl = hs[h].ctl
        BY DEF CtlMoves
      <3> QED BY <1>0, <3>1
    <2>2. \A e \in Frames(toGuest') : e.ctl < next'
      <3> TAKE e \in Frames(toGuest')
      <3>1. e \in Frames(toGuest) \cup Frames(inputQ) \/ e.ctl = 0
        BY DEF CtlMoves
      <3> QED BY <1>0, <3>1
    <2>3. \A e \in Frames(toHost') : e.ctl < next'
      <3> TAKE e \in Frames(toHost')
      <3>1. \/ e \in Frames(toHost) \/ e.ctl = 0 \/ e.ctl = transfer.ctl
            \/ \E f \in Frames(toGuest) : f.ctl = e.ctl
        BY DEF CtlMoves
      <3>2. transfer.ctl < next
        BY DEF JobNumbers
      <3> QED BY <1>0, <3>1, <3>2
    <2> QED BY <2>1, <2>2, <2>3
  <1>4. \A a \in answers' : a[1] < next'
    <2> TAKE a \in answers'
    <2>1. a \in answers \/ \E e \in Frames(toHost) : e.ctl = a[1]
      BY DEF CtlMoves
    <2> QED BY <1>0, <2>1
  <1>5. transfer'.ctl < next'
    <2>1. transfer.ctl < next
      BY DEF JobNumbers
    <2>2. \/ transfer'.ctl = 0 \/ transfer'.ctl = transfer.ctl
          \/ \E f \in Frames(toGuest) : f.ctl = transfer'.ctl
      BY DEF CtlMoves
    <2> QED BY <1>0, <2>1, <2>2
  <1>6. ASSUME NEW j \in Job PROVE JobNumber(j)'
    <2>9. PICK c : c = thread[j].ctl
      OBVIOUS
    <2>0. /\ c \in Nat /\ c < next
          /\ thread[j].pc \in {"none", "begin"} => c = 0
          /\ thread[j].pc \in {"sending", "waiting"} => c # 0
          /\ c # 0 => /\ \A h \in Handle : hs[h].ctl # c
                      /\ \A e \in Frames(inputQ) \cup Frames(toGuest) : e.type # "Transfer" => e.ctl # c
          /\ thread[j].pc = "sending" => ~Seen(c)
      BY <1>0, <2>9 DEF JobNumbers, JobNumber
    <2>1. thread'[j] = thread[j]
      OBVIOUS
    <2>2. c < next'
      BY <1>0, <2>0
    <2>3. c # 0 => \A h \in Handle : hs'[h].ctl # c
      BY <1>0, <2>0 DEF CtlMoves
    <2>4. ASSUME c # 0, NEW e \in Frames(inputQ') \cup Frames(toGuest'), e.type # "Transfer"
          PROVE  e.ctl # c
      <3>1. e \in Frames(inputQ) \cup Frames(toGuest) \/ e.ctl = 0 \/ \E h \in Handle : e.ctl = hs[h].ctl
        BY DEF CtlMoves
      <3> QED BY <2>0, <2>4, <3>1
    <2>5. ASSUME thread[j].pc = "sending" PROVE ~Seen(c)'
      <3>0. /\ c # 0 /\ transfer.ctl # c
            /\ \A e \in Frames(inputQ) \cup Frames(toGuest) \cup Frames(toHost) : e.ctl # c
            /\ \A a \in answers : a[1] # c
            /\ \A h \in Handle : hs[h].ctl # c
        BY <2>0, <2>5 DEF Seen, Back
      <3>1. \A e \in Frames(inputQ') : e.ctl # c
        BY <3>0 DEF CtlMoves
      <3>2. \A e \in Frames(toGuest') : e.ctl # c
        BY <3>0 DEF CtlMoves
      <3>3. \A e \in Frames(toHost') : e.ctl # c
        BY <3>0 DEF CtlMoves
      <3>4. \A a \in answers' : a[1] # c
        BY <3>0 DEF CtlMoves
      <3>5. transfer'.ctl # c
        BY <3>0 DEF CtlMoves
      <3> QED BY <3>1, <3>2, <3>3, <3>4, <3>5 DEF Seen, Back
    <2> QED BY <2>0, <2>1, <2>2, <2>3, <2>4, <2>5, <2>9 DEF JobNumber
  <1> QED BY <1>0, <1>1, <1>2, <1>3, <1>4, <1>5, <1>6 DEF JobNumbers

-----------------------------------------------------------------------------
(* Steps that send and take no request for a transfer                          *)

Calm ==
    /\ OneTransfer(inputQ) => OneTransfer(inputQ')
    /\ OneTransfer(toGuest) => OneTransfer(toGuest')
    /\ \A e \in Frames(inputQ') : e.type = "Transfer" => e \in Frames(inputQ)
    /\ \A e \in Frames(toGuest') : e.type = "Transfer" => e \in Frames(toGuest)
    /\ transfer'.ctl = 0 \/ transfer'.ctl = transfer.ctl
    /\ \A e \in Frames(toHost') :
          \/ e \in Frames(toHost) \/ e.ctl = 0
          \/ \E f \in Frames(toGuest) : f.type # "Transfer" /\ f.ctl = e.ctl
    /\ \A a \in answers' : a \in answers \/ \E e \in Frames(toHost) : e.ctl = a[1]

\* A job that waits for its answer goes on waiting for it.
LEMMA WaitsOn ==
    ASSUME JobNumbers, NEW c, WaitsFor(c), thread' = thread,
           \A e \in Frames(toHost') :
              \/ e \in Frames(toHost) \/ e.ctl = 0
              \/ \E f \in Frames(toGuest) : f.type # "Transfer" /\ f.ctl = e.ctl,
           \A a \in answers' : a \in answers \/ \E e \in Frames(toHost) : e.ctl = a[1]
    PROVE  WaitsFor(c)'
  <1>1. PICK j \in Job : thread[j].pc = "waiting" /\ thread[j].ctl = c /\ ~Back(c)
    BY DEF WaitsFor
  <1>2. /\ c # 0
        /\ \A e \in Frames(toGuest) : e.type # "Transfer" => e.ctl # c
        /\ \A e \in Frames(toHost) : e.ctl # c
        /\ \A a \in answers : a[1] # c
    BY <1>1 DEF JobNumbers, JobNumber, Back
  <1>3. \A e \in Frames(toHost') : e.ctl # c
    BY <1>2
  <1>4. \A a \in answers' : a[1] # c
    BY <1>2
  <1>5. ~Back(c)'
    BY <1>3, <1>4 DEF Back
  <1>6. thread'[j].pc = "waiting" /\ thread'[j].ctl = c
    BY <1>1
  <1> QED BY <1>5, <1>6 DEF WaitsFor

LEMMA CalmKeeps ==
    ASSUME JobNumbers, SlotInv, Calm, thread' = thread, forsaken' = forsaken
    PROVE  SlotInv'
  <1> SUFFICES ASSUME ~forsaken PROVE OnePlace'
    BY DEF SlotInv
  <1>1. /\ OneTransfer(inputQ) /\ OneTransfer(toGuest)
        /\ \A e \in Frames(inputQ) : e.type = "Transfer" =>
              WaitsFor(e.ctl) /\ transfer.ctl = 0 /\ NoTransfers(toGuest)
        /\ \A e \in Frames(toGuest) : e.type = "Transfer" => WaitsFor(e.ctl) /\ transfer.ctl = 0
        /\ transfer.ctl # 0 => WaitsFor(transfer.ctl)
    BY DEF SlotInv, OnePlace
  <1>2. ASSUME NEW c, WaitsFor(c) PROVE WaitsFor(c)'
    BY <1>2, WaitsOn DEF Calm
  <1>3. OneTransfer(inputQ') /\ OneTransfer(toGuest')
    BY <1>1 DEF Calm
  <1>4. transfer'.ctl # 0 => transfer'.ctl = transfer.ctl /\ transfer.ctl # 0
    BY DEF Calm
  <1>5. transfer.ctl = 0 => transfer'.ctl = 0
    BY DEF Calm
  <1>6. NoTransfers(toGuest) => NoTransfers(toGuest')
    BY DEF Calm, NoTransfers
  <1>7. ASSUME NEW e \in Frames(inputQ'), e.type = "Transfer"
        PROVE  WaitsFor(e.ctl)' /\ transfer'.ctl = 0 /\ NoTransfers(toGuest')
    <2>1. e \in Frames(inputQ)
      BY <1>7 DEF Calm
    <2>2. WaitsFor(e.ctl) /\ transfer.ctl = 0 /\ NoTransfers(toGuest)
      BY <1>1, <1>7, <2>1
    <2> QED BY <1>2, <1>5, <1>6, <2>2
  <1>8. ASSUME NEW e \in Frames(toGuest'), e.type = "Transfer"
        PROVE  WaitsFor(e.ctl)' /\ transfer'.ctl = 0
    <2>1. e \in Frames(toGuest)
      BY <1>8 DEF Calm
    <2>2. WaitsFor(e.ctl) /\ transfer.ctl = 0
      BY <1>1, <1>8, <2>1
    <2> QED BY <1>2, <1>5, <2>2
  <1>9. ASSUME transfer'.ctl # 0 PROVE WaitsFor(transfer.ctl)' 
    BY <1>1, <1>2, <1>4, <1>9
  <1> QED BY <1>3, <1>4, <1>7, <1>8, <1>9 DEF OnePlace

\* A caller of an attachment sends no request for a transfer.
LEMMA CalmCaller ==
    ASSUME TypeOK, NEW h \in Handle, CallerStep(h)
    PROVE  Calm /\ CtlMoves
  <1>0. /\ inputQ \in Seq(Envelope) /\ outgoing \in Seq(Envelope) /\ next \in Nat
        /\ hs \in Handles
    BY DEF TypeOK, Handles
  <1>1. /\ \A g \in Handle : g # h => hs'[g] = hs[g]
        /\ next' \in {next, next + 1}
        /\ hs'[h].ctl = hs[h].ctl \/ (hs'[h].ctl = next /\ next' = next + 1)
    BY FieldsCaller
  <1>2. \A g \in Handle : hs'[g].ctl = hs[g].ctl \/ (hs'[g].ctl = next /\ next < next')
    BY <1>0, <1>1
  <1>3. next' \in Nat /\ next' >= next
    BY <1>0, <1>1
  <1>4. UNCHANGED <<toGuest, toHost, transfer>>
    <2>1. UNCHANGED <<toGuest, toHost>>
      BY FieldsCaller
    <2>2. UNCHANGED transfer
      BY DEF CallerStep, AttachCheck, AttachNumber, AttachClaim, AttachRequest, AttachSend,
             AttachOpened, AttachFails, Send, Recv, End, DropHandle, Retired, guestVars
    <2> QED BY <2>1, <2>2
  <1>5. ASSUME \A e \in Frames(inputQ') :
                  e \in Frames(inputQ) \/ (e.type # "Transfer" /\ e.ctl = hs[h].ctl),
               OneTransfer(inputQ) => OneTransfer(inputQ'),
               \A e \in Frames(outgoing') : e \in Frames(outgoing) \/ (e.type = "Mcp" /\ e.ctl = 0),
               answers' \subseteq answers
        PROVE  Calm /\ CtlMoves
    <2>1. Calm
      BY <1>4, <1>5 DEF Calm
    <2>2. \A e \in Frames(inputQ') :
             e \in Frames(inputQ) \/ (e.type # "Transfer" /\ \E g \in Handle : e.ctl = hs[g].ctl)
      BY <1>5
    <2>3. CtlMoves
      BY <1>2, <1>3, <1>4, <1>5, <2>2 DEF CtlMoves
    <2> QED BY <2>1, <2>3
  <1>6. ASSUME NEW c \in Nat, Forget(c) PROVE answers' \subseteq answers
    BY <1>6 DEF Forget
  <1>7. CASE AttachCheck(h)
    <2>1. UNCHANGED <<inputQ, outgoing, answers>>
      BY <1>7 DEF AttachCheck, bridgeVars, stateVars
    <2> QED BY <1>5, <2>1
  <1>8. CASE AttachNumber(h) \/ AttachClaim(h)
    <2>1. UNCHANGED <<inputQ, outgoing, answers>>
      BY <1>8 DEF AttachNumber, AttachClaim, stateVars
    <2> QED BY <1>5, <2>1
  <1>9. CASE AttachRequest(h) /\ MayRequest
    <2>1. UNCHANGED <<inputQ, outgoing, answers>>
      BY <1>9, RequestDoes
    <2> QED BY <1>5, <2>1
  <1>10. CASE (AttachRequest(h) /\ ~MayRequest) \/ AttachFails(h) \/ End(h) \/ DropHandle(h)
    <2>1. /\ UNCHANGED <<outgoing, inputQ>>
          /\ hs[h].pc \in {"sending", "waiting"} => Forget(hs[h].ctl)
          /\ hs[h].pc \notin {"sending", "waiting"} => UNCHANGED <<pending, answers>>
      BY <1>10, DetachDoes
    <2>2. answers' \subseteq answers
      BY <2>1 DEF Forget
    <2> QED BY <1>5, <2>1, <2>2
  <1>11. CASE AttachSend(h)
    <2>1. UNCHANGED <<outgoing, answers>>
      BY <1>11, SendDoes DEF stateVars
    <2>2. PICK e \in Envelope : e.type = "Open" /\ e.ctl = hs[h].ctl /\ inputQ' = inputQ \o <<e>>
      BY <1>11, SendDoes
    <2>3. Frames(inputQ') = Frames(inputQ) \cup {e}
      BY <1>0, <2>2, FramesLast
    <2>4. OneTransfer(inputQ) => OneTransfer(inputQ')
      BY <1>0, <2>2, OneLast
    <2> QED BY <1>5, <2>1, <2>2, <2>3, <2>4
  <1>12. CASE AttachOpened(h)
    <2>1. Forget(hs[h].ctl) /\ UNCHANGED <<outgoing, inputQ>>
      BY <1>12, OpenedDoes
    <2>2. answers' \subseteq answers
      BY <2>1 DEF Forget
    <2> QED BY <1>5, <2>1, <2>2
  <1>13. CASE Send(h) \/ Recv(h)
    <2>1. /\ \A e \in Frames(outgoing') : e \in Frames(outgoing) \/ (e.type = "Mcp" /\ e.ctl = 0)
          /\ UNCHANGED <<answers, inputQ>>
      BY <1>13, UseDoes
    <2> QED BY <1>5, <2>1
  <1>14. CASE Retired(h)
    <2>1. Frames(outgoing') \subseteq Frames(outgoing) /\ UNCHANGED <<answers, inputQ>>
      BY <1>14, RetiredDoes
    <2> QED BY <1>5, <2>1
  <1> QED BY <1>7, <1>8, <1>9, <1>10, <1>11, <1>12, <1>13, <1>14 DEF CallerStep

\* What the processor answers to a message, and who gets that message.
LEMMA ProcessSends ==
    ASSUME TypeOK, toHost # <<>>, Process(Head(toHost))
    PROVE  \/ toGuest' = toGuest
           \/ \E x \in Envelope : x.type \in {"Hello", "Close"} /\ x.ctl = 0 /\ toGuest' = toGuest \o <<x>>
  <1>0. /\ toGuest \in Seq(Envelope) /\ Head(toHost) \in Envelope /\ Head(toHost).id \in Nat
    BY EnvelopeTail DEF TypeOK, Envelope
  <1>1. PICK e : e = Head(toHost)
    OBVIOUS
  <1>2. "Hello" \in MessageType /\ "Close" \in MessageType
    BY DEF MessageType
  <1>3. Reply(<<>>) => toGuest' = toGuest
    BY <1>0, EnvelopeNone DEF Reply
  <1>4. ASSUME NEW type \in {"Hello", "Close"}, NEW id \in Nat, Reply(<<Env(type, 0, id, 0, NoBody)>>)
        PROVE  \/ toGuest' = toGuest
               \/ \E x \in Envelope : /\ x.type \in {"Hello", "Close"} /\ x.ctl = 0
                                      /\ toGuest' = toGuest \o <<x>>
    <2>1. \E x \in Envelope : x.type = type /\ x.ctl = 0 /\ x = Env(type, 0, id, 0, NoBody)
      BY <1>2 DEF Env, Envelope, NoBody
    <2>2. PICK x \in Envelope : x.type = type /\ x.ctl = 0 /\ x = Env(type, 0, id, 0, NoBody)
      BY <2>1
    <2>3. toGuest' = toGuest \/ toGuest' = toGuest \o <<x>>
      BY <1>4, <2>2 DEF Reply
    <2> QED BY <2>2, <2>3
  <1>5. CASE Start
    BY <1>4, <1>5 DEF Start
  <1>6. CASE ProcessMcp(e)
    <2>1. Reply(<<>>) \/ Reply(<<Env("Close", 0, e.id, 0, NoBody)>>)
      BY <1>6 DEF ProcessMcp
    <2> QED BY <1>0, <1>1, <1>3, <1>4, <2>1
  <1>7. CASE Reply(<<>>)
    BY <1>3, <1>7
  <1> QED BY <1>1, <1>5, <1>6, <1>7 DEF Process, ProcessReady, ProcessOpened, ProcessClosed, ProcessOther

\* The session loop sends a request for a transfer only when it takes a command.
LEMMA CalmLoop ==
    ASSUME TypeOK, JobNumbers, LoopPasses \/ LoopRetire \/ LoopData \/ LoopRead \/ CheckLiveness \/ LoopEnds
    PROVE  Calm /\ CtlMoves
  <1>0. /\ inputQ \in Seq(Envelope) /\ outgoing \in Seq(Envelope) /\ toHost \in Seq(Envelope)
        /\ toGuest \in Seq(Envelope) /\ retire \in Nat /\ next \in Nat
    BY DEF TypeOK
  <1>1. LoopMoves
    BY LoopMovesAlways DEF LoopStep
  <1>2. transfer' = transfer /\ (inputQ' = inputQ \/ inputQ' = <<>>)
    <2>1. CASE LoopPasses \/ LoopRetire \/ LoopData
      BY <2>1 DEF LoopPasses, LoopRetire, LoopData, guestVars, bridgeVars
    <2>2. CASE LoopRead \/ CheckLiveness \/ LoopEnds
      BY <2>2 DEF LoopRead, CheckLiveness, LoopEnds, guestVars
    <2> QED BY <2>1, <2>2
  <1>3. \/ toGuest' = toGuest
        \/ \E x \in Envelope : x.type # "Transfer" /\ x.ctl = 0 /\ toGuest' = toGuest \o <<x>>
    <2>1. CASE LoopRetire
      <3>1. "Close" \in MessageType
        BY DEF MessageType
      <3>2. \E x \in Envelope : x.type = "Close" /\ x.ctl = 0 /\ x = Env("Close", 0, retire, 0, NoBody)
        BY <1>0, <3>1 DEF Env, Envelope, NoBody
      <3>3. PICK x \in Envelope : x.type = "Close" /\ x.ctl = 0 /\ Transmit(<<x>>)
        BY <2>1, <3>2 DEF LoopRetire
      <3>4. toGuest' = toGuest \/ toGuest' = toGuest \o <<x>>
        BY <3>3 DEF Transmit
      <3> QED BY <3>3, <3>4
    <2>2. CASE LoopData
      <3>1. outgoing # <<>> /\ Transmit(<<Head(outgoing)>>)
        BY <2>2 DEF LoopData
      <3>2. Head(outgoing) \in Frames(outgoing) /\ Head(outgoing) \in Envelope
        BY <1>0, <3>1, FramesTail, EnvelopeTail
      <3>3. Head(outgoing).type = "Mcp" /\ Head(outgoing).ctl = 0
        BY <3>2 DEF JobNumbers
      <3>4. toGuest' = toGuest \/ toGuest' = toGuest \o <<Head(outgoing)>>
        BY <3>1 DEF Transmit
      <3> QED BY <3>2, <3>3, <3>4
    <2>3. CASE LoopRead
      <3>1. toHost # <<>> /\ Process(Head(toHost))
        BY <2>3 DEF LoopRead
      <3> QED BY <3>1, ProcessSends
    <2>4. CASE LoopPasses \/ CheckLiveness \/ LoopEnds
      BY <2>4 DEF LoopPasses, CheckLiveness, LoopEnds, wireVars, channelVars
    <2> QED BY <2>1, <2>2, <2>3, <2>4
  <1>4. /\ \A f \in Frames(toGuest') : f \in Frames(toGuest) \/ (f.type # "Transfer" /\ f.ctl = 0)
        /\ OneTransfer(toGuest) => OneTransfer(toGuest')
    <2>1. CASE toGuest' = toGuest
      BY <2>1
    <2>2. CASE \E x \in Envelope : x.type # "Transfer" /\ x.ctl = 0 /\ toGuest' = toGuest \o <<x>>
      <3>1. PICK x \in Envelope : x.type # "Transfer" /\ x.ctl = 0 /\ toGuest' = toGuest \o <<x>>
        BY <2>2
      <3>2. Frames(toGuest') = Frames(toGuest) \cup {x}
        BY <1>0, <3>1, FramesLast
      <3>3. OneTransfer(toGuest) => OneTransfer(toGuest')
        BY <1>0, <3>1, OneLast
      <3> QED BY <3>1, <3>2, <3>3
    <2> QED BY <1>3, <2>1, <2>2
  <1>5. /\ \A e \in Frames(inputQ') : e \in Frames(inputQ)
        /\ OneTransfer(inputQ) => OneTransfer(inputQ')
    BY <1>2, OneNone
  <1>6. /\ hs' = hs /\ next' = next
        /\ \A e \in Frames(outgoing') : e \in Frames(outgoing)
        /\ \A e \in Frames(toHost') : e \in Frames(toHost)
    BY <1>1 DEF LoopMoves
  <1>7. \A a \in answers' : a \in answers \/ \E e \in Frames(toHost) : e.ctl = a[1]
    <2> TAKE a \in answers'
    <2>1. a \in answers \/ \E e \in Frames(toHost) : a = <<e.ctl, e.type, e.run>>
      BY <1>1 DEF LoopMoves
    <2> QED BY <2>1
  <1>8. Calm
    BY <1>2, <1>4, <1>5, <1>6, <1>7 DEF Calm
  <1>9. CtlMoves
    BY <1>0, <1>2, <1>4, <1>5, <1>6, <1>7 DEF CtlMoves
  <1> QED BY <1>8, <1>9

\* The loop takes a command: a request for a transfer goes on its way, or is lost.
LEMMA CommandKeeps ==
    ASSUME TypeOK, JobNumbers, SlotInv, LoopCommand, thread' = thread, forsaken' = forsaken
    PROVE  SlotInv' /\ CtlMoves
  <1>10. PICK e : e = Head(inputQ)
    OBVIOUS
  <1>0. /\ inputQ \in Seq(Envelope) /\ toGuest \in Seq(Envelope) /\ next \in Nat
        /\ inputQ # <<>> /\ inputQ' = Tail(inputQ) /\ Transmit(<<e>>)
        /\ UNCHANGED <<transfer, toHost, answers, hs, next, outgoing>>
    BY <1>10 DEF TypeOK, LoopCommand, stateVars, guestVars, handleVars
  <1>1. e \in Frames(inputQ) /\ e \in Envelope /\ Frames(inputQ') \subseteq Frames(inputQ)
    BY <1>0, <1>10, FramesTail, EnvelopeTail
  <1>2. toGuest' = toGuest \/ toGuest' = toGuest \o <<e>>
    BY <1>0 DEF Transmit
  <1>3. Frames(toGuest \o <<e>>) = Frames(toGuest) \cup {e}
    BY <1>0, <1>1, FramesLast
  <1>4. \A f \in Frames(toGuest') : f \in Frames(toGuest) \/ f = e
    BY <1>2, <1>3
  <1>5. OneTransfer(inputQ) => /\ OneTransfer(inputQ')
                               /\ e.type = "Transfer" => NoTransfers(inputQ')
    BY <1>0, <1>10, OneTail
  <1>6. OneTransfer(toGuest) /\ (e.type = "Transfer" => NoTransfers(toGuest)) => OneTransfer(toGuest')
    BY <1>0, <1>1, <1>2, OneLast
  <1>7. CtlMoves
    BY <1>0, <1>1, <1>4 DEF CtlMoves
  <1>8. CASE e.type # "Transfer"
    <2>1. Calm
      BY <1>0, <1>1, <1>4, <1>5, <1>6, <1>8 DEF Calm
    <2> QED BY <1>7, <2>1, CalmKeeps
  <1>9. CASE e.type = "Transfer"
    <2> SUFFICES ASSUME ~forsaken PROVE OnePlace'
      BY <1>7 DEF SlotInv
    <2>1. /\ OneTransfer(inputQ) /\ OneTransfer(toGuest)
          /\ WaitsFor(e.ctl) /\ transfer.ctl = 0 /\ NoTransfers(toGuest)
      BY <1>1, <1>9 DEF SlotInv, OnePlace
    <2>2. WaitsFor(e.ctl)'
      BY <1>0, <2>1, WaitsOn
    <2>3. OneTransfer(inputQ') /\ OneTransfer(toGuest') /\ NoTransfers(inputQ')
      BY <1>5, <1>6, <1>9, <2>1
    <2>4. \A f \in Frames(toGuest') : f.type = "Transfer" => f = e
      BY <1>4, <2>1 DEF NoTransfers
    <2>5. transfer'.ctl = 0
      BY <1>0, <2>1
    <2>6. \A f \in Frames(inputQ') : f.type # "Transfer"
      BY <2>3 DEF NoTransfers
    <2>7. ASSUME NEW f \in Frames(toGuest'), f.type = "Transfer"
          PROVE  WaitsFor(f.ctl)' /\ transfer'.ctl = 0
      BY <2>2, <2>4, <2>5, <2>7
    <2> QED BY <2>3, <2>5, <2>6, <2>7 DEF OnePlace
  <1> QED BY <1>8, <1>9

\* A frame to the host has the control id it is given.
LEMMA EmitCtl ==
    ASSUME TypeOK, NEW type \in MessageType, NEW ctl \in Nat, NEW id \in Nat, NEW run \in Nat,
           NEW body \in Nat, Emit(<<Env(type, ctl, id, run, body)>>)
    PROVE  \A f \in Frames(toHost') : f \in Frames(toHost) \/ f.ctl = ctl
  <1>1. PICK x \in Envelope : x.ctl = ctl /\ x = Env(type, ctl, id, run, body)
    BY DEF Env, Envelope
  <1>2. Frames(toHost') = Frames(toHost) \cup {x}
    BY <1>1, EmitFrames
  <1> QED BY <1>1, <1>2

\* What one message from the host changes at the guest.
LEMMA ReadsDoes ==
    ASSUME TypeOK, GuestReads, NEW e, e = Head(toGuest)
    PROVE  /\ toGuest # <<>> /\ toGuest' = Tail(toGuest) /\ e \in Envelope /\ e \in Frames(toGuest)
           /\ Frames(toGuest') \subseteq Frames(toGuest)
           /\ UNCHANGED <<inputQ, outgoing, answers, hs, next>>
           /\ \A f \in Frames(toHost') : f \in Frames(toHost) \/ f.ctl = 0 \/ f.ctl = e.ctl
           /\ \/ transfer'.ctl = transfer.ctl
              \/ /\ e.type = "Transfer" /\ transfer.ctl = 0 /\ transfer'.ctl = e.ctl
                 /\ toHost' = toHost
  <1>0. /\ toGuest \in Seq(Envelope) /\ toGuest # <<>> /\ toGuest' = Tail(toGuest) /\ GuestHandle(e)
        /\ UNCHANGED <<inputQ, outgoing, answers, hs, next>>
    BY DEF TypeOK, GuestReads, GuestHandle, bridgeVars, stateVars, handleVars
  <1>1. /\ e \in Envelope /\ e \in Frames(toGuest) /\ e.ctl \in Nat /\ e.id \in Nat
        /\ Frames(toGuest') \subseteq Frames(toGuest)
    BY <1>0, EnvelopeTail, FramesTail DEF Envelope
  <1>2. runGen' \in Nat
    BY TypeGuestReads DEF TypeOK
  <1>3. "Ready" \in MessageType /\ "Error" \in MessageType /\ "Opened" \in MessageType /\ "Closed" \in MessageType
    BY DEF MessageType
  <1>4. Emit(<<>>) => toHost' = toHost
    BY EmitFrames
  <1>5. ASSUME NEW type \in MessageType, NEW ctl \in {0, e.ctl}, NEW id \in Nat, NEW run \in Nat,
               Emit(<<Env(type, ctl, id, run, NoBody)>>)
        PROVE  \A f \in Frames(toHost') : f \in Frames(toHost) \/ f.ctl = 0 \/ f.ctl = e.ctl
    <2>1. ctl \in Nat /\ NoBody \in Nat
      BY <1>1 DEF NoBody
    <2>2. \A f \in Frames(toHost') : f \in Frames(toHost) \/ f.ctl = ctl
      BY <1>5, <2>1, EmitCtl
    <2> QED BY <2>2
  <1>6. Emit(Refuse(e)) => \A f \in Frames(toHost') : f \in Frames(toHost) \/ f.ctl = 0 \/ f.ctl = e.ctl
    BY <1>3, <1>5 DEF Refuse
  <1> DEFINE Told == \A f \in Frames(toHost') : f \in Frames(toHost) \/ f.ctl = 0 \/ f.ctl = e.ctl
  <1> DEFINE Slot == \/ transfer'.ctl = transfer.ctl
                     \/ /\ e.type = "Transfer" /\ transfer.ctl = 0 /\ transfer'.ctl = e.ctl
                        /\ toHost' = toHost
  <1> SUFFICES Told /\ Slot
    BY <1>0, <1>1
  <1>7. CASE GuestHello(e)
    BY <1>3, <1>5, <1>7 DEF GuestHello
  <1>8. CASE GuestOpen(e)
    <2>1. Slot
      BY <1>8 DEF GuestOpen
    <2>2. Emit(Refuse(e)) \/ Emit(<<Env("Opened", e.ctl, e.id, runGen', NoBody)>>)
      BY <1>8 DEF GuestOpen
    <2>3. Emit(<<Env("Opened", e.ctl, e.id, runGen', NoBody)>>) => Told
      BY <1>1, <1>2, <1>3, <1>5
    <2> QED BY <1>6, <2>1, <2>2, <2>3
  <1>9. CASE GuestMcp(e)
    <2>1. Slot
      BY <1>9 DEF GuestMcp
    <2>2. Emit(<<>>) \/ Emit(<<Env("Closed", 0, e.id, 0, NoBody)>>)
      BY <1>9 DEF GuestMcp
    <2>3. Emit(<<Env("Closed", 0, e.id, 0, NoBody)>>) => Told
      BY <1>1, <1>3, <1>5
    <2> QED BY <1>4, <2>1, <2>2, <2>3
  <1>10. CASE GuestClose(e)
    <2>1. Slot
      BY <1>10 DEF GuestClose
    <2>2. Emit(<<>>) \/ Emit(<<Env("Closed", e.ctl, e.id, 0, NoBody)>>)
      BY <1>10 DEF GuestClose
    <2>3. Emit(<<Env("Closed", e.ctl, e.id, 0, NoBody)>>) => Told
      BY <1>1, <1>3, <1>5
    <2> QED BY <1>4, <2>1, <2>2, <2>3
  <1>11. CASE GuestTransfer(e)
    <2>1. CASE transfer.ctl = 0
      <3>1. e.type = "Transfer" /\ transfer' = [ctl |-> e.ctl, done |-> FALSE] /\ Emit(<<>>)
        BY <1>11, <2>1 DEF GuestTransfer
      <3> QED BY <1>4, <2>1, <3>1
    <2>2. CASE transfer.ctl # 0
      BY <1>6, <1>11, <2>2 DEF GuestTransfer
    <2> QED BY <2>1, <2>2
  <1>12. CASE GuestUnready(e)
    BY <1>6, <1>12 DEF GuestUnready
  <1> QED BY <1>0, <1>7, <1>8, <1>9, <1>10, <1>11, <1>12 DEF GuestHandle

\* The guest reads a message: a request for a transfer finds the slot free, or is
\* refused before the Hello.
LEMMA ReadsKeep ==
    ASSUME TypeOK, JobNumbers, SlotInv, GuestReads, thread' = thread, forsaken' = forsaken
    PROVE  SlotInv' /\ CtlMoves
  <1>1. PICK e : e = Head(toGuest)
    OBVIOUS
  <1>2. /\ toGuest # <<>> /\ toGuest' = Tail(toGuest) /\ e \in Envelope /\ e \in Frames(toGuest)
        /\ Frames(toGuest') \subseteq Frames(toGuest)
        /\ UNCHANGED <<inputQ, outgoing, answers, hs, next>>
        /\ \A f \in Frames(toHost') : f \in Frames(toHost) \/ f.ctl = 0 \/ f.ctl = e.ctl
        /\ \/ transfer'.ctl = transfer.ctl
           \/ /\ e.type = "Transfer" /\ transfer.ctl = 0 /\ transfer'.ctl = e.ctl
              /\ toHost' = toHost
    BY <1>1, ReadsDoes
  <1>3. toGuest \in Seq(Envelope) /\ next \in Nat
    BY DEF TypeOK
  <1>4. OneTransfer(toGuest) => /\ OneTransfer(toGuest')
                                /\ e.type = "Transfer" => NoTransfers(toGuest')
    BY <1>1, <1>2, <1>3, OneTail
  <1>5. CtlMoves
    BY <1>2, <1>3 DEF CtlMoves
  <1>6. CASE e.type # "Transfer"
    <2>1. Calm
      BY <1>2, <1>4, <1>6 DEF Calm
    <2> QED BY <1>5, <2>1, CalmKeeps
  <1>7. CASE e.type = "Transfer"
    <2> SUFFICES ASSUME ~forsaken PROVE OnePlace'
      BY <1>5 DEF SlotInv
    <2>1. /\ OneTransfer(inputQ) /\ OneTransfer(toGuest) /\ WaitsFor(e.ctl) /\ transfer.ctl = 0
          /\ \A f \in Frames(inputQ) : f.type # "Transfer"
      BY <1>2, <1>7 DEF SlotInv, OnePlace, NoTransfers
    <2>2. /\ OneTransfer(inputQ') /\ OneTransfer(toGuest')
          /\ \A f \in Frames(inputQ') : f.type # "Transfer"
          /\ \A f \in Frames(toGuest') : f.type # "Transfer"
      BY <1>2, <1>4, <1>7, <2>1 DEF NoTransfers
    <2>3. CASE transfer'.ctl = 0
      BY <2>2, <2>3 DEF OnePlace
    <2>4. CASE transfer'.ctl = e.ctl /\ toHost' = toHost
      <3>1. WaitsFor(e.ctl)'
        BY <1>2, <2>1, <2>4, WaitsOn
      <3> QED BY <2>2, <2>4, <3>1 DEF OnePlace
    <2> QED BY <1>2, <2>1, <2>3, <2>4
  <1> QED BY <1>6, <1>7

LEMMA CalmGuest ==
    ASSUME TypeOK, ChildWorks \/ ChildStep \/ GuestWrites \/ Launch \/ GuestGone
    PROVE  Calm /\ CtlMoves
  <1>0. /\ toHost \in Seq(Envelope) /\ toGuest \in Seq(Envelope) /\ next \in Nat /\ active.id \in Nat
        /\ active.run \in Nat /\ active.output \in Seq(Nat)
    BY DEF TypeOK
  <1>1. UNCHANGED <<inputQ, outgoing, answers, hs, next>>
    BY DEF ChildWorks, ChildStep, GuestWrites, Launch, GuestGone, bridgeVars, stateVars, handleVars
  <1>2. toGuest' = toGuest \/ toGuest' = <<>>
    BY DEF ChildWorks, ChildStep, GuestWrites, Launch, GuestGone, wireVars, channelVars
  <1>3. transfer'.ctl = transfer.ctl \/ transfer'.ctl = 0
    <2>1. ChildWorks \/ ChildStep \/ GuestWrites => transfer' = transfer
      BY DEF ChildWorks, ChildStep, GuestWrites, ChildTakes, ChildAnswers, ChildEnds, GuestOutput
    <2>2. Launch \/ GuestGone => transfer' = NoTransfer
      BY DEF Launch, GuestGone, GuestStart, GuestEnds
    <2> QED BY <2>1, <2>2 DEF NoTransfer
  <1>4. "Mcp" \in MessageType /\ "Closed" \in MessageType /\ "Created" \in MessageType /\ NoBody \in Nat
    BY DEF MessageType, NoBody
  <1>5. \A f \in Frames(toHost') : f \in Frames(toHost) \/ f.ctl = 0
    <2>1. CASE ChildWorks \/ ChildStep \/ GuestGone
      BY <2>1 DEF ChildWorks, ChildStep, GuestGone, wireVars, channelVars
    <2>2. CASE Launch
      <3>1. PICK x \in Envelope : x.ctl = 0 /\ x = Env("Created", 0, 0, 0, NoBody)
        BY <1>4 DEF Env, Envelope
      <3>2. toHost' = toHost \o <<x>>
        BY <1>0, <2>2, <3>1, EnvelopeLast DEF Launch
      <3>3. Frames(toHost') = Frames(toHost) \cup {x}
        BY <1>0, <3>2, FramesLast
      <3> QED BY <3>1, <3>3
    <2>3. CASE GuestWrites
      <3>1. CASE /\ active.output # <<>>
                 /\ Emit(<<Env("Mcp", 0, active.id, active.run, Head(active.output))>>)
        <4>1. Head(active.output) \in Nat
          BY <1>0, <3>1, NumberTail
        <4> QED BY <1>0, <1>4, <3>1, <4>1, EmitCtl
      <3>2. CASE Emit(<<Env("Closed", 0, active.id, 0, NoBody)>>)
        BY <1>0, <1>4, <3>2, EmitCtl
      <3> QED BY <2>3, <3>1, <3>2 DEF GuestWrites, GuestOutput
    <2> QED BY <2>1, <2>2, <2>3
  <1>6. /\ \A f \in Frames(toGuest') : f \in Frames(toGuest)
        /\ OneTransfer(toGuest) => OneTransfer(toGuest')
    BY <1>2, OneNone
  <1>7. Calm
    BY <1>1, <1>3, <1>5, <1>6 DEF Calm
  <1>8. CtlMoves
    BY <1>0, <1>1, <1>3, <1>5, <1>6 DEF CtlMoves
  <1> QED BY <1>7, <1>8

\* The steps of the carrier, of which no job is part.
LEMMA CarrierKeeps ==
    ASSUME TypeOK, JobInv, Next, UNCHANGED jobVars
    PROVE  JobInv'
  <1>1. UNCHANGED <<worker, waiting, running, thread, forsaken>>
    BY DEF jobVars
  <1>2. JobTypes' /\ OneJob'
    BY <1>1 DEF JobInv, JobTypes, OneJob
  <1>3. JobNumbers /\ SlotInv /\ JobTypes
    BY DEF JobInv
  <1>4. SlotInv' /\ CtlMoves
    <2>1. CASE \E h \in Handle : CallerStep(h)
      BY <1>1, <1>3, <2>1, CalmCaller, CalmKeeps
    <2>2. CASE LoopPasses \/ LoopRetire \/ LoopData \/ LoopRead \/ CheckLiveness \/ LoopEnds
      BY <1>1, <1>3, <2>2, CalmLoop, CalmKeeps
    <2>3. CASE LoopCommand
      BY <1>1, <1>3, <2>3, CommandKeeps
    <2>4. CASE GuestReads
      BY <1>1, <1>3, <2>4, ReadsKeep
    <2>5. CASE ChildWorks \/ ChildStep \/ GuestWrites \/ Launch \/ GuestGone
      BY <1>1, <1>3, <2>5, CalmGuest, CalmKeeps
    <2> QED BY <2>1, <2>2, <2>3, <2>4, <2>5 DEF Next, LoopStep, GuestStep
  <1>5. JobNumbers'
    BY <1>1, <1>3, <1>4, NumbersKeep
  <1> QED BY <1>2, <1>4, <1>5 DEF JobInv

-----------------------------------------------------------------------------
(* The guest's copy                                                            *)

LEMMA CopiesKeep ==
    ASSUME TypeOK, JobInv, GuestCopies
    PROVE  TypeOK' /\ JobInv'
  <1>1. /\ transfer \in [ctl : Nat, done : BOOLEAN] /\ transfer' = [transfer EXCEPT !.done = TRUE]
        /\ UNCHANGED <<helloed, active, lastId, runGen, bridgeVars, wireVars, handleVars, jobVars>>
    BY DEF TypeOK, GuestCopies, TransferDone
  <1>2. transfer' \in [ctl : Nat, done : BOOLEAN] /\ transfer'.ctl = transfer.ctl
    BY <1>1
  <1>3. TypeOK'
    BY <1>1, <1>2 DEF TypeOK, bridgeVars, stateVars, wireVars, channelVars, handleVars, ghostVars
  <1>4. UNCHANGED <<inputQ, outgoing, answers, hs, next, toGuest, toHost>>
        /\ UNCHANGED <<worker, waiting, running, thread, forsaken>>
    BY <1>1 DEF bridgeVars, stateVars, wireVars, channelVars, handleVars, jobVars
  <1>5. next \in Nat
    BY DEF TypeOK
  <1>6. Calm /\ CtlMoves
    BY <1>2, <1>4, <1>5 DEF Calm, CtlMoves
  <1>7. JobNumbers' /\ SlotInv'
    BY <1>4, <1>6, CalmKeeps, NumbersKeep DEF JobInv
  <1>8. JobTypes' /\ OneJob'
    BY <1>4 DEF JobInv, JobTypes, OneJob
  <1> QED BY <1>3, <1>7, <1>8 DEF JobInv

\* The answer of the finished copy: no other request is on its way.
LEMMA AnswersKeep ==
    ASSUME TypeOK, JobInv, GuestAnswers
    PROVE  TypeOK' /\ JobInv'
  <1>0. transfer \in [ctl : Nat, done : BOOLEAN] /\ transfer.ctl \in Nat /\ next \in Nat
    BY DEF TypeOK
  <1>1. /\ transfer' = NoTransfer /\ transfer.done
        /\ Emit(<<Env("Result", transfer.ctl, 0, 0, NoBody)>>)
        /\ UNCHANGED <<helloed, active, lastId, runGen, bridgeVars, up, toGuest, loopUp, poll, launches,
                       handleVars, jobVars>>
    BY DEF GuestAnswers, TransferReply
  <1>2. "Result" \in MessageType /\ NoBody \in Nat
    BY DEF MessageType, NoBody
  <1>3. PICK x \in Envelope : x = Env("Result", transfer.ctl, 0, 0, NoBody)
    BY <1>0, <1>2 DEF Env, Envelope
  <1>4. toHost' \in Seq(Envelope)
    BY <1>1, <1>3, TypeEmit
  <1>5. transfer' \in [ctl : Nat, done : BOOLEAN] /\ transfer'.ctl = 0
    BY <1>1 DEF NoTransfer
  <1>6. TypeOK'
    BY <1>1, <1>4, <1>5 DEF TypeOK, bridgeVars, stateVars, handleVars, ghostVars
  <1>7. UNCHANGED <<inputQ, outgoing, answers, hs, next, toGuest>>
        /\ UNCHANGED <<worker, waiting, running, thread, forsaken>>
    BY <1>1 DEF bridgeVars, stateVars, handleVars, jobVars
  <1>8. \A f \in Frames(toHost') : f \in Frames(toHost) \/ f.ctl = transfer.ctl
    BY <1>0, <1>1, <1>2, EmitCtl
  <1>9. CtlMoves
    BY <1>0, <1>5, <1>7, <1>8 DEF CtlMoves
  <1>10. JobNumbers'
    BY <1>7, <1>9, NumbersKeep DEF JobInv
  <1>11. JobTypes' /\ OneJob'
    BY <1>7 DEF JobInv, JobTypes, OneJob
  <1>12. SlotInv'
    <2> SUFFICES ASSUME ~forsaken PROVE OnePlace'
      BY <1>7 DEF SlotInv
    <2>1. OnePlace
      BY DEF JobInv, SlotInv
    <2>2. CASE transfer.ctl # 0
      <3>1. /\ \A e \in Frames(inputQ) : e.type # "Transfer"
            /\ \A e \in Frames(toGuest) : e.type # "Transfer"
            /\ OneTransfer(inputQ) /\ OneTransfer(toGuest)
        BY <2>1, <2>2 DEF OnePlace
      <3> QED BY <1>5, <1>7, <3>1 DEF OnePlace
    <2>3. CASE transfer.ctl = 0
      <3>1. Calm
        BY <1>5, <1>7, <1>8, <2>3 DEF Calm
      <3>2. SlotInv'
        BY <1>7, <3>1, CalmKeeps DEF JobInv
      <3> QED BY <1>7, <3>2 DEF SlotInv
    <2> QED BY <2>2, <2>3
  <1> QED BY <1>6, <1>10, <1>11, <1>12 DEF JobInv

-----------------------------------------------------------------------------
(* The jobs and the worker                                                     *)

Threads == [Job -> [pc : ThreadPc, ctl : Nat]]

LEMMA ThreadGoesAt ==
    ASSUME thread \in Threads, NEW j \in Job, NEW pc \in ThreadPc, ThreadGoes(j, pc)
    PROVE  /\ thread' \in Threads /\ thread'[j].pc = pc /\ thread'[j].ctl = thread[j].ctl
           /\ \A i \in Job : i # j => thread'[i] = thread[i]
  BY DEF Threads, ThreadGoes

LEMMA ThreadLeavesAt ==
    ASSUME thread \in Threads, NEW j \in Job, ThreadLeaves(j)
    PROVE  /\ thread' \in Threads /\ thread'[j] = NoThread
           /\ \A i \in Job : i # j => thread'[i] = thread[i]
  BY DEF Threads, ThreadPc, ThreadLeaves, NoThread

LEMMA NoThreadIs == NoThread.pc = "none" /\ NoThread.ctl = 0
  BY DEF NoThread

\* One job has a thread while the worker waits: a step of that job, or of no job.
LEMMA OneJobKeeps ==
    ASSUME OneJob, NEW j \in Job, thread[j] # NoThread, UNCHANGED <<worker, running>>,
           \A i \in Job : i # j => thread'[i] = thread[i]
    PROVE  OneJob'
  <1>1. \A i \in Job : i # j => thread'[i] = NoThread
    BY DEF OneJob
  <1>2. worker # "idle"
    BY DEF OneJob
  <1>3. worker = "running" => running = j
    BY DEF OneJob
  <1> QED BY <1>1, <1>2, <1>3 DEF OneJob

\* Without a job that waits for its answer nothing of a transfer is under way.
LEMMA NothingAsked ==
    ASSUME SlotInv, ~forsaken, \A j \in Job : thread[j].pc = "waiting" => Back(thread[j].ctl)
    PROVE  /\ OneTransfer(inputQ) /\ OneTransfer(toGuest)
           /\ \A e \in Frames(inputQ) : e.type # "Transfer"
           /\ \A e \in Frames(toGuest) : e.type # "Transfer"
           /\ transfer.ctl = 0
  <1>1. \A c : ~WaitsFor(c)
    BY DEF WaitsFor
  <1> QED BY <1>1 DEF SlotInv, OnePlace

\* What a job that leaves, or finishes, leaves to the other jobs.
LEMMA NumbersLeave ==
    ASSUME TypeOK, JobTypes, JobNumbers, NEW j \in Job,
           \A i \in Job : i # j => thread'[i] = thread[i],
           \/ thread'[j] = NoThread
           \/ thread'[j].ctl = thread[j].ctl /\ thread[j].ctl # 0 /\ thread'[j].pc \in {"waiting", "tail"},
           UNCHANGED <<next, hs, inputQ, toGuest, toHost, transfer, outgoing>>, answers' \subseteq answers
    PROVE  JobNumbers'
  <1>1. ASSUME NEW i \in Job PROVE JobNumber(i)'
    <2>1. JobNumber(i)
      BY DEF JobNumbers
    <2>2. CASE i # j
      <3>1. thread'[i] = thread[i]
        BY <2>2
      <3>2. PICK c : c = thread[i].ctl
        OBVIOUS
      <3>3. ~Seen(c) => ~Seen(c)'
        BY DEF Seen, Back
      <3> QED BY <2>1, <3>1, <3>2, <3>3 DEF JobNumber
    <2>3. CASE i = j /\ thread'[j] = NoThread
      <3>1. thread'[i].pc = "none" /\ thread'[i].ctl = 0
        BY <2>3, NoThreadIs
      <3>2. next' > 0
        BY DEF JobNumbers
      <3> QED BY <3>1, <3>2 DEF JobNumber
    <2>4. CASE /\ i = j /\ thread'[j].ctl = thread[j].ctl /\ thread[j].ctl # 0
               /\ thread'[j].pc \in {"waiting", "tail"}
      BY <2>1, <2>4 DEF JobNumber
    <2> QED BY <2>2, <2>3, <2>4
  <1> QED BY <1>1 DEF JobNumbers

\* A job changes the requests of the bridge and nothing else of the carrier.
LEMMA TypeJob ==
    ASSUME TypeOK, pending' \in SUBSET Nat, answers' \subseteq answers, next' \in Nat,
           inputQ' \in Seq(Envelope),
           UNCHANGED <<ready, dead, attachment, outgoing, retire, guestVars, wireVars, handleVars>>
    PROVE  TypeOK'
  <1>1. answers' \in SUBSET (Nat \X MessageType \X Nat)
    BY DEF TypeOK
  <1> QED BY <1>1 DEF TypeOK, guestVars, wireVars, channelVars, handleVars, ghostVars

\* The steps that are no part of a job's thread.
LEMMA QuietKeeps ==
    ASSUME TypeOK, JobInv, UNCHANGED <<carrierVars, thread, forsaken>>,
           waiting' \in Seq(Job), worker' \in {"idle", "running", "ended"}, OneJob'
    PROVE  TypeOK' /\ JobInv'
  <1>1. UNCHANGED <<ready, dead, pending, answers, attachment, outgoing, retire, next, inputQ, up, toGuest,
                    toHost, helloed, active, lastId, runGen, transfer, loopUp, poll, launches, hs, owner,
                    rcvd, runs, lapsed, outranked>>
    BY DEF carrierVars, bridgeVars, stateVars, guestVars, wireVars, channelVars, handleVars, ghostVars
  <1>2. TypeOK'
    BY <1>1 DEF TypeOK
  <1>3. JobTypes'
    BY DEF JobInv, JobTypes
  <1>4. next \in Nat
    BY DEF TypeOK
  <1>5. Calm /\ CtlMoves
    BY <1>1, <1>4 DEF Calm, CtlMoves
  <1>6. JobNumbers' /\ SlotInv'
    BY <1>5, CalmKeeps, NumbersKeep DEF JobInv
  <1> QED BY <1>2, <1>3, <1>6 DEF JobInv

\* A thread leaves its job, or goes on alone after the answer.
LEMMA LeavesKeep ==
    ASSUME TypeOK, JobInv, NEW j \in Job, thread[j].pc # "none",
           ThreadLeaves(j) \/ (ThreadGoes(j, "tail") /\ thread[j].pc = "waiting"),
           UNCHANGED <<next, hs, inputQ, toGuest, toHost, transfer, outgoing, worker, running, waiting>>,
           answers' \subseteq answers,
           \/ forsaken'
           \/ forsaken' = forsaken /\ (thread[j].pc # "waiting" \/ Back(thread[j].ctl)),
           forsaken' \in BOOLEAN
    PROVE  JobInv'
  <1>0. thread \in Threads /\ JobTypes /\ OneJob /\ JobNumbers /\ SlotInv
    BY DEF JobInv, JobTypes, Threads
  <1>1. "tail" \in ThreadPc
    BY DEF ThreadPc
  <1>2. /\ thread' \in Threads /\ \A i \in Job : i # j => thread'[i] = thread[i]
        /\ \/ thread'[j] = NoThread
           \/ thread'[j].pc = "tail" /\ thread'[j].ctl = thread[j].ctl /\ thread[j].pc = "waiting"
    BY <1>0, <1>1, ThreadLeavesAt, ThreadGoesAt
  <1>3. thread[j] # NoThread /\ (thread[j].pc = "waiting" => thread[j].ctl # 0)
    BY <1>0, NoThreadIs DEF JobNumbers, JobNumber
  <1>4. OneJob'
    BY <1>0, <1>2, <1>3, OneJobKeeps
  <1>5. JobNumbers'
    BY <1>0, <1>2, <1>3, NumbersLeave
  <1>6. JobTypes'
    BY <1>0, <1>2 DEF JobTypes, Threads
  <1>7. SlotInv'
    <2> SUFFICES ASSUME ~forsaken' PROVE OnePlace'
      BY DEF SlotInv
    <2>1. ~forsaken /\ (thread[j].pc # "waiting" \/ Back(thread[j].ctl))
      OBVIOUS
    <2>2. \A i \in Job : thread[i].pc = "waiting" => i = j
      BY <1>0, <1>3, NoThreadIs DEF OneJob
    <2>3. /\ OneTransfer(inputQ) /\ OneTransfer(toGuest)
          /\ \A e \in Frames(inputQ) : e.type # "Transfer"
          /\ \A e \in Frames(toGuest) : e.type # "Transfer"
          /\ transfer.ctl = 0
      BY <1>0, <2>1, <2>2, NothingAsked
    <2> QED BY <2>3 DEF OnePlace
  <1> QED BY <1>4, <1>5, <1>6, <1>7 DEF JobInv

\* The local part of a job ends and its request gets a number that nobody has seen.
LEMMA BeginsKeeps ==
    ASSUME TypeOK, JobInv, NEW j \in Job, thread[j].pc = "begin",
           next' = next + 1, thread' = [thread EXCEPT ![j] = [pc |-> "sending", ctl |-> next]],
           UNCHANGED <<hs, inputQ, toGuest, toHost, transfer, outgoing, answers, worker, running, waiting, forsaken>>
    PROVE  JobInv'
  <1>0. thread \in Threads /\ JobTypes /\ OneJob /\ JobNumbers /\ SlotInv /\ next \in Nat
    BY DEF JobInv, JobTypes, Threads, TypeOK
  <1>1. [pc |-> "sending", ctl |-> next] \in [pc : ThreadPc, ctl : Nat]
    BY <1>0 DEF ThreadPc
  <1>2. /\ thread' \in Threads /\ \A i \in Job : i # j => thread'[i] = thread[i]
        /\ thread'[j].pc = "sending" /\ thread'[j].ctl = next
    BY <1>0, <1>1 DEF Threads
  <1>3. thread[j] # NoThread
    BY NoThreadIs
  <1>4. OneJob'
    BY <1>0, <1>2, <1>3, OneJobKeeps
  <1>5. JobTypes'
    BY <1>0, <1>2 DEF JobTypes, Threads
  <1>6. \A i \in Job : i # j => thread'[i] = NoThread /\ thread[i] = NoThread
    BY <1>0, <1>2, <1>3 DEF OneJob
  <1>7. /\ next > 0 /\ transfer.ctl \in Nat /\ transfer.ctl < next
        /\ \A h \in Handle : hs[h].ctl \in Nat /\ hs[h].ctl < next
        /\ \A e \in Frames(inputQ) \cup Frames(toGuest) \cup Frames(toHost) : e.ctl \in Nat /\ e.ctl < next
        /\ \A a \in answers : a[1] \in Nat /\ a[1] < next
    <2>1. inputQ \in Seq(Envelope) /\ toGuest \in Seq(Envelope) /\ toHost \in Seq(Envelope)
      BY DEF TypeOK
    <2>2. \A e \in Frames(inputQ) \cup Frames(toGuest) \cup Frames(toHost) : e.ctl \in Nat /\ e.ctl < next
      BY <1>0, <2>1, FrameIs DEF JobNumbers
    <2>3. \A a \in answers : a[1] \in Nat /\ a[1] < next
      BY <1>0 DEF TypeOK, JobNumbers
    <2>4. \A h \in Handle : hs[h].ctl \in Nat /\ hs[h].ctl < next
      BY <1>0 DEF TypeOK, JobNumbers
    <2>5. next > 0 /\ transfer.ctl \in Nat /\ transfer.ctl < next
      BY <1>0 DEF TypeOK, JobNumbers
    <2> QED BY <2>2, <2>3, <2>4, <2>5
  <1>8. ASSUME NEW i \in Job PROVE JobNumber(i)'
    <2>1. CASE i # j
      <3>1. thread'[i].pc = "none" /\ thread'[i].ctl = 0
        BY <1>6, <2>1, NoThreadIs
      <3> QED BY <1>0, <3>1 DEF JobNumber
    <2>2. CASE i = j
      <3>1. PICK c : c = next
        OBVIOUS
      <3>2. ~Seen(c)'
        BY <1>0, <1>7, <3>1 DEF Seen, Back
      <3>3. c < next' /\ c # 0 /\ \A h \in Handle : hs'[h].ctl # c
        BY <1>0, <1>7, <3>1
      <3>4. \A e \in Frames(inputQ') \cup Frames(toGuest') : e.ctl # c
        BY <1>0, <1>7, <3>1
      <3> QED BY <1>2, <2>2, <3>1, <3>2, <3>3, <3>4 DEF JobNumber
    <2> QED BY <2>1, <2>2
  <1>9. JobNumbers'
    <2>1. /\ next' > 0 /\ transfer'.ctl < next'
          /\ \A h \in Handle : hs'[h].ctl < next'
          /\ \A e \in Frames(inputQ') \cup Frames(toGuest') \cup Frames(toHost') : e.ctl < next'
          /\ \A a \in answers' : a[1] < next'
      BY <1>0, <1>7
    <2>2. \A e \in Frames(outgoing') : e.type = "Mcp" /\ e.ctl = 0
      BY <1>0 DEF JobNumbers
    <2> QED BY <1>8, <2>1, <2>2 DEF JobNumbers
  <1>10. SlotInv'
    <2> SUFFICES ASSUME ~forsaken PROVE OnePlace'
      BY DEF SlotInv
    <2>1. \A i \in Job : thread[i].pc # "waiting"
      BY <1>6, NoThreadIs
    <2>2. /\ OneTransfer(inputQ) /\ OneTransfer(toGuest)
          /\ \A e \in Frames(inputQ) : e.type # "Transfer"
          /\ \A e \in Frames(toGuest) : e.type # "Transfer"
          /\ transfer.ctl = 0
      BY <1>0, <2>1, NothingAsked
    <2> QED BY <2>2 DEF OnePlace
  <1> QED BY <1>4, <1>5, <1>9, <1>10 DEF JobInv

\* The thread sends its request, the only one under way.
LEMMA SendsKeeps ==
    ASSUME TypeOK, JobInv, NEW j \in Job, ThreadSends(j)
    PROVE  TypeOK' /\ JobInv'
  <1>0. thread \in Threads /\ JobTypes /\ OneJob /\ JobNumbers /\ SlotInv /\ next \in Nat
        /\ inputQ \in Seq(Envelope)
    BY DEF JobInv, JobTypes, Threads, TypeOK
  <1>1. /\ thread[j].pc = "sending" /\ ThreadGoes(j, "waiting")
        /\ inputQ' = Append(inputQ, Env("Transfer", thread[j].ctl, 0, 0, NoBody))
        /\ UNCHANGED <<stateVars, retire, next, reply, forsaken, keptByThread>>
    BY DEF ThreadSends
  <1>2. /\ UNCHANGED <<ready, dead, pending, answers, attachment, outgoing, retire, next, guestVars, wireVars,
                       handleVars>>
        /\ UNCHANGED <<hs, toGuest, toHost, transfer, worker, running, waiting, forsaken>>
    BY <1>1 DEF stateVars, keptByThread, guestVars, wireVars, channelVars, handleVars
  <1>3. PICK c : c = thread[j].ctl
    OBVIOUS
  <1>4. /\ c \in Nat /\ c # 0 /\ c < next /\ ~Seen(c)
        /\ \A h \in Handle : hs[h].ctl # c
        /\ \A e \in Frames(inputQ) \cup Frames(toGuest) : e.type # "Transfer" => e.ctl # c
    BY <1>0, <1>1, <1>3 DEF Threads, JobNumbers, JobNumber
  <1>5. "Transfer" \in MessageType /\ "waiting" \in ThreadPc
    BY DEF MessageType, ThreadPc
  <1>6. PICK x \in Envelope : x.type = "Transfer" /\ x.ctl = c /\ x = Env("Transfer", thread[j].ctl, 0, 0, NoBody)
    BY <1>3, <1>4, <1>5 DEF Env, Envelope, NoBody
  <1>7. inputQ' = inputQ \o <<x>> /\ inputQ' \in Seq(Envelope)
    BY <1>0, <1>1, <1>6, EnvelopeLast
  <1>8. Frames(inputQ') = Frames(inputQ) \cup {x}
    BY <1>0, <1>7, FramesLast
  <1>9. /\ thread' \in Threads /\ \A i \in Job : i # j => thread'[i] = thread[i]
        /\ thread'[j].pc = "waiting" /\ thread'[j].ctl = c
    BY <1>0, <1>1, <1>3, <1>5, ThreadGoesAt
  <1>10. thread[j] # NoThread
    BY <1>1, NoThreadIs
  <1>11. TypeOK'
    <2>1. pending' \in SUBSET Nat /\ answers' \subseteq answers /\ next' \in Nat
      BY <1>0, <1>2 DEF TypeOK
    <2> QED BY <1>2, <1>7, <2>1, TypeJob
  <1>12. OneJob' /\ JobTypes'
    <2>1. OneJob'
      BY <1>0, <1>2, <1>9, <1>10, OneJobKeeps
    <2> QED BY <1>0, <1>2, <1>9, <2>1 DEF JobTypes, Threads
  <1>13. \A i \in Job : i # j => thread'[i] = NoThread /\ thread[i] = NoThread
    BY <1>0, <1>9, <1>10 DEF OneJob
  <1>14. ASSUME NEW i \in Job PROVE JobNumber(i)'
    <2>1. CASE i # j
      <3>1. thread'[i].pc = "none" /\ thread'[i].ctl = 0 /\ next' > 0
        BY <1>0, <1>2, <1>13, <2>1, NoThreadIs DEF JobNumbers
      <3> QED BY <3>1 DEF JobNumber
    <2>2. CASE i = j
      <3>1. \A e \in Frames(inputQ') \cup Frames(toGuest') : e.type # "Transfer" => e.ctl # c
        BY <1>2, <1>4, <1>6, <1>8
      <3>2. c < next' /\ \A h \in Handle : hs'[h].ctl # c
        BY <1>2, <1>4
      <3> QED BY <1>4, <1>9, <2>2, <3>1, <3>2 DEF JobNumber
    <2> QED BY <2>1, <2>2
  <1>15. JobNumbers'
    <2>1. \A e \in Frames(inputQ') \cup Frames(toGuest') \cup Frames(toHost') : e.ctl < next'
      BY <1>0, <1>2, <1>4, <1>6, <1>8 DEF JobNumbers
    <2> QED BY <1>0, <1>2, <1>14, <2>1 DEF JobNumbers
  <1>16. SlotInv'
    <2> SUFFICES ASSUME ~forsaken PROVE OnePlace'
      BY <1>2 DEF SlotInv
    <2>1. \A i \in Job : thread[i].pc # "waiting"
      BY <1>1, <1>13, NoThreadIs
    <2>2. /\ OneTransfer(inputQ) /\ OneTransfer(toGuest)
          /\ \A e \in Frames(inputQ) : e.type # "Transfer"
          /\ \A e \in Frames(toGuest) : e.type # "Transfer"
          /\ transfer.ctl = 0
      BY <1>0, <2>1, NothingAsked
    <2>3. OneTransfer(inputQ') /\ NoTransfers(toGuest')
      BY <1>0, <1>2, <1>7, <2>2, OneLast DEF NoTransfers
    <2>4. ~Back(c)'
      BY <1>2, <1>4 DEF Seen, Back
    <2>5. WaitsFor(c)'
      BY <1>9, <2>4 DEF WaitsFor
    <2>6. \A e \in Frames(inputQ') : e.type = "Transfer" => e = x
      BY <1>8, <2>2
    <2>7. ASSUME NEW e \in Frames(inputQ'), e.type = "Transfer"
          PROVE  WaitsFor(e.ctl)' /\ transfer'.ctl = 0 /\ NoTransfers(toGuest')
      <3>1. e.ctl = c
        BY <1>6, <2>6, <2>7
      <3> QED BY <1>2, <2>2, <2>3, <2>5, <3>1
    <2> QED BY <1>2, <2>2, <2>3, <2>7 DEF OnePlace
  <1> QED BY <1>11, <1>12, <1>15, <1>16 DEF JobInv

\* The worker starts the next job when no thread is left.
LEMMA TakesKeeps ==
    ASSUME TypeOK, JobInv, WorkerTakes
    PROVE  TypeOK' /\ JobInv'
  <1>0. thread \in Threads /\ JobTypes /\ OneJob /\ JobNumbers /\ SlotInv /\ waiting \in Seq(Job)
    BY DEF JobInv, JobTypes, Threads
  <1>1. PICK j : j = Head(waiting)
    OBVIOUS
  <1>2. waiting # <<>> /\ waiting' = Tail(waiting) /\ worker = "idle" /\ UNCHANGED <<carrierVars, forsaken>>
    BY DEF WorkerTakes
  <1>3. j \in Job /\ waiting' \in Seq(Job)
    BY <1>0, <1>1, <1>2
  <1>4. \A i \in Job : thread[i] = NoThread
    BY <1>0, <1>2 DEF OneJob
  <1>5. CASE UNCHANGED <<worker, running, thread>>
    <2>1. OneJob'
      BY <1>0, <1>5 DEF OneJob
    <2>2. worker' \in {"idle", "running", "ended"}
      BY <1>2, <1>5
    <2> QED BY <1>2, <1>3, <1>5, <2>1, <2>2, QuietKeeps
  <1>6. CASE worker' = "running" /\ running' = j /\ ThreadGoes(j, "begin")
    <2>1. "begin" \in ThreadPc
      BY DEF ThreadPc
    <2>2. /\ thread' \in Threads /\ \A i \in Job : i # j => thread'[i] = thread[i]
          /\ thread'[j].pc = "begin" /\ thread'[j].ctl = 0
      BY <1>0, <1>3, <1>4, <1>6, <2>1, ThreadGoesAt, NoThreadIs
    <2>3. UNCHANGED <<ready, dead, pending, answers, attachment, outgoing, retire, next, inputQ, up, toGuest,
                      toHost, helloed, active, lastId, runGen, transfer, loopUp, poll, launches, hs, owner,
                      rcvd, runs, lapsed, outranked, forsaken>>
      BY <1>2 DEF carrierVars, bridgeVars, stateVars, guestVars, wireVars, channelVars, handleVars, ghostVars
    <2>4. TypeOK'
      BY <2>3 DEF TypeOK
    <2>5. JobTypes'
      BY <1>0, <1>3, <1>6, <2>2, <2>3 DEF JobTypes, Threads
    <2>6. OneJob'
      BY <1>3, <1>4, <1>6, <2>2 DEF OneJob
    <2>7. ASSUME NEW i \in Job PROVE JobNumber(i)'
      <3>1. thread'[i].ctl = 0 /\ thread'[i].pc \in {"none", "begin"}
        BY <1>4, <2>2, NoThreadIs
      <3>2. next' > 0
        BY <1>0, <2>3 DEF JobNumbers
      <3> QED BY <3>1, <3>2 DEF JobNumber
    <2>8. JobNumbers'
      BY <1>0, <2>3, <2>7 DEF JobNumbers
    <2>9. SlotInv'
      <3> SUFFICES ASSUME ~forsaken PROVE OnePlace'
        BY <2>3 DEF SlotInv
      <3>1. \A i \in Job : thread[i].pc # "waiting"
        BY <1>4, NoThreadIs
      <3>2. /\ OneTransfer(inputQ) /\ OneTransfer(toGuest)
            /\ \A e \in Frames(inputQ) : e.type # "Transfer"
            /\ \A e \in Frames(toGuest) : e.type # "Transfer"
            /\ transfer.ctl = 0
        BY <1>0, <3>1, NothingAsked
      <3> QED BY <2>3, <3>2 DEF OnePlace
    <2> QED BY <2>4, <2>5, <2>6, <2>8, <2>9 DEF JobInv
  <1> QED BY <1>1, <1>5, <1>6 DEF WorkerTakes, ThreadGoes

\* What a thread's step leaves alone, and what a dropped request takes away.
LEMMA ThreadKept ==
    ASSUME TypeOK, UNCHANGED keptByThread
    PROVE  /\ UNCHANGED <<guestVars, wireVars, handleVars>>
           /\ UNCHANGED <<hs, toGuest, toHost, transfer, queue, waiting, worker, running, call>>
  BY DEF keptByThread, guestVars, wireVars, channelVars, handleVars

LEMMA JobStepKeeps ==
    ASSUME TypeOK, JobInv, NEW j \in Job, JobStep(j)
    PROVE  TypeOK' /\ JobInv'
  <1>0. /\ thread \in Threads /\ JobTypes /\ OneJob /\ JobNumbers /\ next \in Nat
        /\ inputQ \in Seq(Envelope) /\ pending \in SUBSET Nat
        /\ thread[j].ctl \in Nat /\ forsaken \in BOOLEAN /\ waiting \in Seq(Job)
        /\ worker \in {"idle", "running", "ended"}
    BY DEF JobInv, JobTypes, Threads, TypeOK
  <1>1. CASE Call(j) \/ Enqueue(j) \/ Answer(j) \/ Abandon(j)
    <2>1. /\ UNCHANGED <<carrierVars, thread, forsaken, worker, running>>
          /\ waiting' = waiting \/ waiting' = Append(waiting, j)
      BY <1>1 DEF Call, Enqueue, Answer, Abandon
    <2>2. waiting' \in Seq(Job) /\ worker' \in {"idle", "running", "ended"}
      BY <1>0, <2>1
    <2>3. OneJob'
      BY <1>0, <2>1 DEF OneJob
    <2> QED BY <2>1, <2>2, <2>3, QuietKeeps
  <1>2. CASE ThreadBegins(j)
    <2>1. /\ thread[j].pc = "begin"
          /\ UNCHANGED <<ready, dead, answers, attachment, outgoing, retire, inputQ, forsaken, keptByThread>>
      BY <1>2 DEF ThreadBegins
    <2>2. CASE next' = next + 1 /\ pending' = pending \cup {next}
               /\ thread' = [thread EXCEPT ![j] = [pc |-> "sending", ctl |-> next]]
      <3>1. pending' \in SUBSET Nat /\ answers' \subseteq answers /\ next' \in Nat /\ inputQ' \in Seq(Envelope)
        BY <1>0, <2>1, <2>2
      <3>2. TypeOK'
        BY <2>1, <3>1, ThreadKept, TypeJob
      <3>3. JobInv'
        BY <2>1, <2>2, ThreadKept, BeginsKeeps
      <3> QED BY <3>2, <3>3
    <2>3. CASE ThreadLeaves(j) /\ UNCHANGED <<next, pending>>
      <3>1. pending' \in SUBSET Nat /\ answers' \subseteq answers /\ next' \in Nat /\ inputQ' \in Seq(Envelope)
        BY <1>0, <2>1, <2>3
      <3>2. TypeOK'
        BY <2>1, <3>1, ThreadKept, TypeJob
      <3>3. thread[j].pc # "none" /\ thread[j].pc # "waiting"
        BY <2>1
      <3>4. JobInv'
        BY <1>0, <2>1, <2>3, <3>1, <3>3, ThreadKept, LeavesKeep
      <3> QED BY <3>2, <3>4
    <2> QED BY <1>2, <2>2, <2>3 DEF ThreadBegins
  <1>3. CASE ThreadSends(j)
    BY <1>3, SendsKeeps
  <1>4. CASE ThreadAnswered(j)
    <2>1. /\ thread[j].pc = "waiting" /\ Forget(thread[j].ctl)
          /\ UNCHANGED <<ready, dead, attachment, outgoing, retire, next, inputQ, forsaken, keptByThread>>
      BY <1>4 DEF ThreadAnswered
    <2>2. Answered(thread[j].ctl) # {} /\ (ThreadLeaves(j) \/ ThreadGoes(j, "tail"))
      BY <1>4 DEF ThreadAnswered
    <2>3. Back(thread[j].ctl)
      BY <2>2 DEF Answered, Back
    <2>4. pending' \in SUBSET Nat /\ answers' \subseteq answers /\ next' \in Nat /\ inputQ' \in Seq(Envelope)
      BY <1>0, <2>1, ForgetAt
    <2>5. TypeOK'
      BY <2>1, <2>4, ThreadKept, TypeJob
    <2>6. thread[j].pc # "none"
      BY <2>1
    <2>7. JobInv'
      BY <1>0, <2>1, <2>2, <2>3, <2>4, <2>6, ThreadKept, LeavesKeep
    <2> QED BY <2>5, <2>7
  <1>5. CASE ThreadFails(j)
    <2>1. /\ thread[j].pc # "none" /\ Forget(thread[j].ctl) /\ ThreadLeaves(j) /\ forsaken' = TRUE
          /\ UNCHANGED <<ready, dead, attachment, outgoing, retire, next, inputQ, keptByThread>>
      BY <1>5 DEF ThreadFails
    <2>2. pending' \in SUBSET Nat /\ answers' \subseteq answers /\ next' \in Nat /\ inputQ' \in Seq(Envelope)
      BY <1>0, <2>1, ForgetAt
    <2>3. TypeOK'
      BY <2>1, <2>2, ThreadKept, TypeJob
    <2>4. JobInv'
      BY <1>0, <2>1, <2>2, ThreadKept, LeavesKeep
    <2> QED BY <2>3, <2>4
  <1>6. CASE ThreadStops(j)
    <2>1. /\ thread[j].pc # "none" /\ ThreadLeaves(j)
          /\ UNCHANGED <<ready, dead, attachment, outgoing, retire, next, inputQ, keptByThread>>
      BY <1>6 DEF ThreadStops
    <2>2. \/ thread[j].pc # "waiting" /\ UNCHANGED <<pending, answers, forsaken>>
          \/ Forget(thread[j].ctl) /\ forsaken' = TRUE
      BY <1>6 DEF ThreadStops
    <2>3. pending' \in SUBSET Nat /\ answers' \subseteq answers /\ next' \in Nat /\ inputQ' \in Seq(Envelope)
      BY <1>0, <2>1, <2>2, ForgetAt
    <2>4. TypeOK'
      BY <2>1, <2>3, ThreadKept, TypeJob
    <2>5. JobInv'
      BY <1>0, <2>1, <2>2, <2>3, ThreadKept, LeavesKeep
    <2> QED BY <2>4, <2>5
  <1>7. CASE ThreadFinishes(j)
    <2>1. /\ thread[j].pc = "tail" /\ ThreadLeaves(j) /\ UNCHANGED <<bridgeVars, forsaken, keptByThread>>
      BY <1>7 DEF ThreadFinishes
    <2>2. UNCHANGED <<ready, dead, pending, answers, attachment, outgoing, retire, next, inputQ>>
      BY <2>1 DEF bridgeVars, stateVars
    <2>3. pending' \in SUBSET Nat /\ answers' \subseteq answers /\ next' \in Nat /\ inputQ' \in Seq(Envelope)
      BY <1>0, <2>2
    <2>4. TypeOK'
      BY <2>1, <2>2, <2>3, ThreadKept, TypeJob
    <2>5. thread[j].pc # "none" /\ thread[j].pc # "waiting"
      BY <2>1
    <2>6. JobInv'
      BY <1>0, <2>1, <2>2, <2>3, <2>5, ThreadKept, LeavesKeep
    <2> QED BY <2>4, <2>6
  <1> QED BY <1>1, <1>2, <1>3, <1>4, <1>5, <1>6, <1>7 DEF JobStep

LEMMA TransfersStep ==
    ASSUME TypeOK, JobInv, [TransfersNext]_transferVars
    PROVE  TypeOK' /\ JobInv'
  <1>0. JobTypes /\ OneJob
    BY DEF JobInv
  <1>1. CASE UNCHANGED transferVars
    <2>1. /\ UNCHANGED <<carrierVars, thread, forsaken, worker, running, waiting>>
      BY <1>1 DEF transferVars, jobVars
    <2>2. waiting' \in Seq(Job) /\ worker' \in {"idle", "running", "ended"} /\ OneJob'
      BY <1>0, <2>1 DEF JobTypes, OneJob
    <2> QED BY <2>1, <2>2, QuietKeeps
  <1>2. CASE Next /\ UNCHANGED jobVars
    BY <1>2, TypeStep, CarrierKeeps
  <1>3. CASE WorkerNext
    <2>1. /\ worker = "running" /\ thread[running] = NoThread /\ worker' = "idle"
          /\ UNCHANGED <<carrierVars, thread, forsaken, waiting>>
      BY <1>3 DEF WorkerNext
    <2>2. \A j \in Job : thread[j] = NoThread
      BY <1>0, <2>1 DEF OneJob
    <2>3. OneJob'
      BY <2>1, <2>2 DEF OneJob
    <2>4. waiting' \in Seq(Job)
      BY <1>0, <2>1 DEF JobTypes
    <2> QED BY <2>1, <2>3, <2>4, QuietKeeps
  <1>4. CASE WorkerEnds
    <2>1. worker' = "ended" /\ waiting' = <<>> /\ UNCHANGED <<carrierVars, thread, forsaken>>
      BY <1>4 DEF WorkerEnds
    <2>2. OneJob'
      BY <1>0, <2>1 DEF OneJob
    <2>3. waiting' \in Seq(Job)
      BY <2>1
    <2> QED BY <2>1, <2>2, <2>3, QuietKeeps
  <1>5. CASE Cancel \/ DropQueue
    <2>1. UNCHANGED <<carrierVars, thread, forsaken, worker, running, waiting>>
      BY <1>5 DEF Cancel, DropQueue
    <2>2. waiting' \in Seq(Job) /\ worker' \in {"idle", "running", "ended"} /\ OneJob'
      BY <1>0, <2>1 DEF JobTypes, OneJob
    <2> QED BY <2>1, <2>2, QuietKeeps
  <1> QED BY <1>1, <1>2, <1>3, <1>4, <1>5, JobStepKeeps, TakesKeeps, CopiesKeep, AnswersKeep
          DEF TransfersNext

LEMMA JobsInit == TransfersInit => TypeOK /\ JobInv
  <1> SUFFICES ASSUME TransfersInit PROVE TypeOK /\ JobInv
    OBVIOUS
  <1>1. Init /\ BridgeInit /\ GuestInit
    BY DEF TransfersInit, Init
  <1>2. TypeOK
    BY <1>1, TypeInit
  <1>3. /\ inputQ = <<>> /\ outgoing = <<>> /\ toGuest = <<>> /\ toHost = <<>> /\ answers = {} /\ next = 1
        /\ transfer.ctl = 0
    BY <1>1 DEF BridgeInit, GuestInit, NoTransfer
  <1>4. \A h \in Handle : hs[h].ctl = 0
    BY <1>1 DEF Init
  <1>5. /\ worker = "idle" /\ waiting = <<>> /\ forsaken = FALSE
        /\ thread \in Threads /\ \A j \in Job : thread[j] = NoThread
    BY DEF TransfersInit, NoThread, Threads, ThreadPc
  <1>6. JobTypes /\ OneJob
    <2>1. waiting \in Seq(Job)
      BY <1>5
    <2>2. worker \in {"idle", "running", "ended"} /\ worker # "running" /\ forsaken \in BOOLEAN
      BY <1>5
    <2>3. JobTypes
      BY <1>5, <2>1, <2>2 DEF JobTypes, Threads
    <2>4. OneJob
      BY <1>5, <2>2 DEF OneJob
    <2> QED BY <2>3, <2>4
  <1>7. \A j \in Job : JobNumber(j)
    BY <1>3, <1>5, NoThreadIs DEF JobNumber
  <1>8. JobNumbers
    BY <1>3, <1>4, <1>7, OneNone DEF JobNumbers
  <1>9. SlotInv
    BY <1>3, OneNone DEF SlotInv, OnePlace
  <1> QED BY <1>2, <1>6, <1>8, <1>9 DEF JobInv

\* The worker (run, transfer.rs) has one job at a time whatever callers and closers
\* do, and the guest's slot for a transfer (runtime.rs) is free whenever a request
\* reaches it, unless an earlier job left its request behind.
THEOREM NeverBusyEver == TransfersSpec => []NeverBusy
  <1>1. TypeOK /\ JobInv /\ [TransfersNext]_transferVars => TypeOK' /\ JobInv'
    BY TransfersStep
  <1>2. ASSUME TypeOK, JobInv PROVE NeverBusy
    <2>1. \A i, j \in Job : thread[i] # NoThread /\ thread[j] # NoThread => i = j
      BY <1>2 DEF JobInv, OneJob
    <2>2. ASSUME ~forsaken, toGuest # <<>>, Head(toGuest).type = "Transfer"
          PROVE  transfer.ctl = 0
      <3>1. toGuest \in Seq(Envelope)
        BY <1>2 DEF TypeOK
      <3>2. Head(toGuest) \in Frames(toGuest)
        BY <2>2, <3>1, EnvelopeTail, FramesTail
      <3> QED BY <1>2, <2>2, <3>2 DEF JobInv, SlotInv, OnePlace
    <2> QED BY <2>1, <2>2 DEF NeverBusy
  <1>3. TypeOK /\ JobInv => NeverBusy
    BY <1>2
  <1> QED BY JobsInit, <1>1, <1>3, PTL DEF TransfersSpec

-----------------------------------------------------------------------------
(* RedirectedDrive: where a path of the guest leads                           *)

\* What the walk of Canonicalize says of its steps.
Walks(w, path) ==
    w = [i \in 0..Len(path) |->
            IF i = 0 THEN <<>>
            ELSE IF w[i - 1] \notin Directory THEN NoPath
            ELSE IF path[i] # ToParent THEN Append(w[i - 1], path[i])
            ELSE IF w[i - 1] = <<>> THEN <<>> ELSE Front(w[i - 1])]

\* Paths of equal length with equal components are equal.
LEMMA SamePath ==
    ASSUME NEW S, NEW s \in Seq(S), NEW t \in Seq(S), Len(s) = Len(t), \A i \in 1..Len(s) : s[i] = t[i]
    PROVE  s = t
  <1>1. s = [i \in 1..Len(s) |-> s[i]] /\ t = [i \in 1..Len(t) |-> t[i]]
    OBVIOUS
  <1> QED BY <1>1

LEMMA Append0 == ASSUME NEW x PROVE Append(<<>>, x) = <<x>>
  <1>1. <<>> \in Seq({x}) /\ x \in {x}
    OBVIOUS
  <1>2. Append(<<>>, x) \in Seq({x}) /\ <<x>> \in Seq({x})
    BY <1>1
  <1>3. Len(Append(<<>>, x)) = 1 /\ Len(<<x>>) = 1 /\ Append(<<>>, x)[1] = x /\ <<x>>[1] = x
    BY <1>1
  <1> QED BY <1>2, <1>3, SamePath

LEMMA Append1 == ASSUME NEW x, NEW y PROVE Append(<<x>>, y) = <<x, y>>
  <1>1. <<x>> \in Seq({x, y}) /\ <<x, y>> \in Seq({x, y}) /\ y \in {x, y}
    OBVIOUS
  <1>2. Append(<<x>>, y) \in Seq({x, y})
    BY <1>1
  <1>3. Len(Append(<<x>>, y)) = 2 /\ Len(<<x, y>>) = 2
    BY <1>1
  <1>4. Append(<<x>>, y)[1] = x /\ Append(<<x>>, y)[2] = y /\ <<x, y>>[1] = x /\ <<x, y>>[2] = y
    BY <1>1
  <1>5. \A i \in 1..2 : Append(<<x>>, y)[i] = <<x, y>>[i]
    BY <1>4
  <1> DEFINE s == Append(<<x>>, y)
             t == <<x, y>>
  <1> HIDE DEF s, t
  <1>6. s \in Seq({x, y}) /\ t \in Seq({x, y}) /\ Len(s) = 2 /\ Len(t) = 2
    BY <1>1, <1>2, <1>3 DEF s, t
  <1>7. \A i \in 1..2 : s[i] = t[i]
    BY <1>5 DEF s, t
  <1>8. s = t
    BY <1>6, <1>7, SamePath
  <1> QED BY <1>8 DEF s, t

\* What a component is added to is its front.
LEMMA FrontOfJoin == ASSUME NEW S, NEW p \in Seq(S), NEW x \in S PROVE Front(p \o <<x>>) = p
  <1> DEFINE s == p \o <<x>>
  <1>1. <<x>> \in Seq(S) /\ Len(<<x>>) = 1
    OBVIOUS
  <1>2. s \in Seq(S) /\ Len(s) = Len(p) + 1
    BY <1>1
  <1>3. \A i \in 1..Len(p) : s[i] = p[i]
    BY <1>1
  <1> HIDE DEF s
  <1>4. SubSeq(s, 1, Len(p)) \in Seq(S) /\ Len(SubSeq(s, 1, Len(p))) = Len(p)
    BY <1>2
  <1>5. \A i \in 1..Len(p) : SubSeq(s, 1, Len(p))[i] = p[i]
    BY <1>2, <1>3
  <1>6. SubSeq(s, 1, Len(p)) = p
    BY <1>4, <1>5, SamePath
  <1>7. Len(s) - 1 = Len(p)
    BY <1>2
  <1> QED BY <1>6, <1>7 DEF Front, s

LEMMA RootIsCanonical == Canonicalize(ShareRoot) = ShareRoot
  <1> DEFINE P == ShareRoot
             G == [i \in 0..2 |-> IF i = 0 THEN <<>> ELSE IF i = 1 THEN <<"host">> ELSE ShareRoot]
             W == CHOOSE w : Walks(w, P)
  <1>1. Len(P) = 2 /\ P[1] = "host" /\ P[2] = "share" /\ P[1] # ToParent /\ P[2] # ToParent
    <2>1. "host" # ToParent /\ "share" # ToParent
      BY Zenon DEF ToParent
    <2> QED BY <2>1 DEF ShareRoot
  <1>2. <<>> \in Directory /\ <<"host">> \in Directory /\ P \in Directory
    BY DEF Directory
  <1>3. Append(<<>>, "host") = <<"host">> /\ Append(<<"host">>, "share") = P
    BY Append0, Append1 DEF ShareRoot
  <1>4. Walks(G, P)
    <2> DEFINE Q(i) == IF i = 0 THEN <<>>
                       ELSE IF G[i - 1] \notin Directory THEN NoPath
                       ELSE IF P[i] # ToParent THEN Append(G[i - 1], P[i])
                       ELSE IF G[i - 1] = <<>> THEN <<>> ELSE Front(G[i - 1])
    <2>1. G[0] = <<>> /\ G[1] = <<"host">> /\ G[2] = P
      OBVIOUS
    <2> HIDE DEF P
    <2>2. Q(0) = <<>> /\ Q(1) = <<"host">> /\ Q(2) = P
      <3> HIDE DEF G
      <3>1. 1 - 1 = 0 /\ 2 - 1 = 1 /\ 1 # 0 /\ 2 # 0
        OBVIOUS
      <3>2. Q(0) = <<>>
        OBVIOUS
      <3>3. Q(1) = <<"host">>
        BY <1>1, <1>2, <1>3, <2>1, <3>1, Zenon
      <3>4. Q(2) = P
        BY <1>1, <1>2, <1>3, <2>1, <3>1, Zenon
      <3> QED BY <3>2, <3>3, <3>4, Zenon
    <2>3. G = [i \in 0..2 |-> Q(i)]
      <3> HIDE DEF Q
      <3>1. \A i \in 0..2 : G[i] = Q(i)
        <4> HIDE DEF G
        <4> QED BY <2>1, <2>2
      <3> QED BY <3>1 DEF G
    <2> QED BY <2>3, <1>1 DEF Walks
  <1>5. Walks(W, P)
    <2> HIDE DEF G, P
    <2> QED BY <1>4
  <1>6. W[0] = <<>> /\ W[1] = <<"host">> /\ W[2] = P
    <2> HIDE DEF W, P, G
    <2>4. 1 - 1 = 0 /\ 2 - 1 = 1 /\ 1 # 0 /\ 2 # 0 /\ 0 \in 0..2 /\ 1 \in 0..2 /\ 2 \in 0..2
      OBVIOUS
    <2>5. \A i \in 0..2 : W[i] = (IF i = 0 THEN <<>>
                                  ELSE IF W[i - 1] \notin Directory THEN NoPath
                                  ELSE IF P[i] # ToParent THEN Append(W[i - 1], P[i])
                                  ELSE IF W[i - 1] = <<>> THEN <<>> ELSE Front(W[i - 1]))
      BY <1>1, <1>5, Zenon DEF Walks
    <2>1. W[0] = <<>>
      BY <2>5, <2>4, Zenon
    <2>2. W[1] = <<"host">>
      BY <1>1, <1>2, <1>3, <2>1, <2>4, <2>5, Zenon
    <2>3. W[2] = P
      BY <1>1, <1>2, <1>3, <2>2, <2>4, <2>5, Zenon
    <2> QED BY <2>1, <2>2, <2>3
  <1>7. Canonicalize(P) = IF W[Len(P)] \in Directory THEN W[Len(P)] ELSE NoPath
    BY DEF Canonicalize, Walks
  <1> QED BY <1>1, <1>2, <1>6, <1>7

\* The share is a prefix of what lies in it.
LEMMA Inside ==
    ASSUME NEW parent \in Directory \cup {NoPath}, IsPrefix(ShareRoot, parent), NEW x
    PROVE  IsPrefix(ShareRoot, Append(parent, x)) /\ Append(parent, x) # NoPath
  <1>1. parent \in {ShareRoot, StagingDir}
    BY DEF IsPrefix, Directory, ShareRoot, StagingDir, BundleDir, NoPath
  <1>2. CASE parent = ShareRoot
    BY <1>2 DEF IsPrefix, ShareRoot, NoPath
  <1>3. CASE parent = StagingDir
    BY <1>3 DEF IsPrefix, ShareRoot, StagingDir, NoPath
  <1> QED BY <1>1, <1>2, <1>3

LEMMA BundleInside == ASSUME NEW x PROVE IsPrefix(BundleDir, Append(BundleDir, x))
  BY DEF IsPrefix, BundleDir

\* What a path resolves to lies in the share.
LEMMA Resolved ==
    ASSUME NEW wire, resolve_under_root(wire) # NoPath
    PROVE  IsPrefix(ShareRoot, resolve_under_root(wire))
  <1> DEFINE parent == Canonicalize(Front(ShareRoot \o wire))
  <1>1. parent \in Directory \cup {NoPath}
    BY DEF Canonicalize
  <1>2. IsPrefix(ShareRoot, parent) /\ resolve_under_root(wire) = Append(parent, Last(wire))
    BY DEF resolve_under_root
  <1> HIDE DEF parent
  <1> QED BY <1>1, <1>2, Inside

\* A transfer's name resolves to its file.
LEMMA ShareResolves ==
    ASSUME NEW n \in ShareName
    PROVE  resolve_under_root(<<n>>) = Shared(n) /\ Shared(n) # NoPath /\ <<n>> # <<"bundle">>
  <1>1. n # "bundle" /\ n # ToParent /\ n \notin RootMark
    BY NameAssumption
  <1>2. Front(ShareRoot \o <<n>>) = ShareRoot
    <2>1. ShareRoot \in Seq({"host", "share", n})
      BY DEF ShareRoot
    <2> QED BY <2>1, FrontOfJoin
  <1>3. Last(<<n>>) = n /\ ~looks_rooted(<<n>>)
    BY <1>1 DEF Last, looks_rooted
  <1>4. IsPrefix(ShareRoot, ShareRoot)
    BY DEF IsPrefix, ShareRoot
  <1>5. resolve_under_root(<<n>>) = Append(ShareRoot, n)
    BY <1>1, <1>2, <1>3, <1>4, RootIsCanonical DEF resolve_under_root
  <1>6. Append(ShareRoot, n) # NoPath
    BY DEF ShareRoot, NoPath
  <1>7. <<n>> # <<"bundle">>
    BY <1>1
  <1> QED BY <1>5, <1>6, <1>7 DEF Shared

\* The names of the files are told apart.
LEMMA NamesDiffer ==
    /\ \A m, n \in ShareName : Shared(m) = Shared(n) => m = n
    /\ \A n \in ShareName, k \in Nat : Shared(n) # Staged(k)
    /\ \A j, k \in 1..MaxFileId : Staged(j) = Staged(k) => j = k
    /\ \A n \in ShareName : \A f : Shared(n) # Append(BundleDir, f)
  <1>1. \A m, n : Shared(m) = Shared(n) => m = n
    BY DEF Shared, ShareRoot
  <1>2. \A n, k : Shared(n) # Staged(k)
    BY DEF Shared, Staged, ShareRoot, StagingDir
  <1>3. \A j, k : Staged(j) = Staged(k) => StagingName[j] = StagingName[k]
    BY DEF Staged, ShareRoot, StagingDir
  <1>4. \A n, f : Shared(n) # Append(BundleDir, f)
    BY DEF Shared, BundleDir, ShareRoot
  <1> QED BY <1>1, <1>2, <1>3, <1>4, NameAssumption

-----------------------------------------------------------------------------
(* RedirectedDrive: the invariant                                             *)

\* Records with these fields.
IsEntry(e) == e = [kind |-> e.kind, path |-> e.path, staging |-> e.staging, expected |-> e.expected]
IsCopy(c) ==
    c = [share |-> c.share, op |-> c.op, id |-> c.id, todo |-> c.todo, sum |-> c.sum, failed |-> c.failed]
Copies == copying.id # 0

\* The copy at the guest is of a transfer that has asked for it.
DriveTypes ==
    /\ nextFileId \in 1..(MaxFileId + 1) /\ nextStagingId \in 1..nextFileId
    /\ DOMAIN openFiles \subseteq 1..(nextFileId - 1)
    /\ fetch \in [ShareName -> [op : {"none", "Upload", "Download"}, pc : {"idle", "asked", "ok", "failed", "stopped"}]]
    /\ asked \subseteq ShareName
    /\ DOMAIN result = ShareName /\ \A n \in ShareName : result[n].ok \in BOOLEAN /\ result[n].known \in BOOLEAN
    /\ DOMAIN guestFile = ShareName
    /\ linked \in BOOLEAN
    /\ IsCopy(copying) /\ copying.id \in 0..(nextFileId - 1) /\ copying.failed \in BOOLEAN
    /\ copying.id = 0 <=> copying = NoCopy
    /\ Copies => copying.share \in ShareName /\ copying.op = fetch[copying.share].op

\* No file of a transfer and no staged one.
Apart(p) == (\A n \in ShareName : p # Shared(n)) /\ (\A k \in 1..MaxFileId : p # Staged(k))

\* Where a handle leads; only the copy's own handle leads to a transfer's file.
Grant(id) ==
    LET e == openFiles[id] IN
    /\ IsEntry(e) /\ e.kind \in {"Root", "BundleRoot", "File", "WriteFile"}
    /\ e.kind \in {"File", "WriteFile"} =>
          IsPrefix(ShareRoot, e.path) \/ (IsPrefix(BundleDir, e.path) /\ e.kind = "File")
    /\ e.kind = "WriteFile" =>
          /\ \E k \in 1..(nextStagingId - 1) : e.staging = Staged(k)
          /\ id # copying.id => Apart(e.path)
Grants ==
    /\ \A id \in DOMAIN openFiles : Grant(id)
    /\ \A i, j \in DOMAIN openFiles :
          openFiles[i].kind = "WriteFile" /\ openFiles[j].kind = "WriteFile" /\ openFiles[i].staging = openFiles[j].staging
             => i = j

\* What has been written of a file while the chunks of todo are still to come.
Written(c, todo) ==
    /\ c \in Seq(Nat) /\ Len(c) <= FileChunks
    /\ todo \subseteq 1..FileChunks
    /\ \A k \in (1..FileChunks) \ todo : k <= Len(c) /\ c[k] = k

\* The copy's own handle.
OwnHandle ==
    Copies /\ linked =>
    /\ copying.id \in DOMAIN openFiles
    /\ LET e == openFiles[copying.id] IN
          /\ e.path = Shared(copying.share)
          /\ copying.op = "Upload" => e.kind = "File"
          /\ copying.op = "Download" =>
                /\ e.kind = "WriteFile" /\ e.expected \subseteq {FileChunks}
                /\ e.staging \in DOMAIN disk /\ Written(disk[e.staging], copying.todo)

Copied(n) == Copies /\ copying.share = n
Placed(n) == Shared(n) \in DOMAIN disk

\* A transfer asks once and is answered once.
Course(n) ==
    /\ fetch[n].pc = "idle" => n \notin asked /\ ~result[n].known /\ ~Copied(n) /\ ~Placed(n)
    /\ fetch[n].pc # "idle" => fetch[n].op \in {"Upload", "Download"}
    /\ fetch[n].pc \in {"ok", "failed"} => result[n].known
    /\ n \in asked \/ Copied(n) => ~result[n].known
    /\ n \in asked => ~Copied(n)
    /\ result[n].ok => result[n].known

\* Its file, by what it was answered.
Content(n) ==
    /\ fetch[n].pc = "ok" => result[n].ok /\ result[n].sum = Whole
    /\ fetch[n].op = "Upload" =>
          /\ result[n].ok => guestFile[n] = result[n].sum
          /\ Placed(n) <=> fetch[n].pc = "asked"
          /\ Placed(n) => disk[Shared(n)] = Whole
    /\ fetch[n].op = "Download" =>
          /\ result[n].ok => result[n].sum = Whole
          /\ fetch[n].pc = "asked" /\ result[n].ok => Placed(n)
          /\ Placed(n) =>
                /\ fetch[n].pc \in {"asked", "stopped"} /\ result[n].known
                /\ result[n].ok => disk[Shared(n)] = Whole

DriveInv ==
    /\ DriveTypes
    /\ Grants
    /\ OwnHandle
    /\ \A n \in ShareName : Course(n) /\ Content(n)

-----------------------------------------------------------------------------
(* RedirectedDrive: one request at a time                                     *)

Untouched(p) == (p \in DOMAIN disk' <=> p \in DOMAIN disk) /\ (p \in DOMAIN disk => disk'[p] = disk[p])

Contained(e) ==
    e.kind \in {"File", "WriteFile"} =>
       IsPrefix(ShareRoot, e.path) \/ (IsPrefix(BundleDir, e.path) /\ e.kind = "File")

\* What is granted lies in the share or in the bundle; a write is staged.
LEMMA GrantIsContained ==
    ASSUME NEW wire, NEW d, Granted(wire, d).kind # "none"
    PROVE  LET e == Granted(wire, d) IN
           /\ IsEntry(e) /\ e.kind \in {"Root", "BundleRoot", "File", "WriteFile"} /\ e.expected = {} /\ Contained(e)
           /\ e.kind = "WriteFile" =>
                 wire # <<>> /\ e.path = resolve_under_root(wire) /\ e.staging = Staged(nextStagingId)
  <1> DEFINE e == Granted(wire, d)
             file == IF wire = <<>> THEN NoPath ELSE resolve_under_root(wire)
             InBundle == Len(wire) > 1 /\ wire[1] = "bundle"
  <1> SUFFICES /\ IsEntry(e) /\ e.kind \in {"Root", "BundleRoot", "File", "WriteFile"} /\ e.expected = {} /\ Contained(e)
               /\ e.kind = "WriteFile" =>
                     wire # <<>> /\ e.path = resolve_under_root(wire) /\ e.staging = Staged(nextStagingId)
    BY Zenon
  <1>1. CASE wire = <<>>
    <2>1. e = Entry("Root", <<>>)
      <3>1. <<>> # <<"bundle">> /\ ~(Len(<<>>) > 1)
        OBVIOUS
      <3> QED BY <1>1, <3>1, Zenon DEF Granted
    <2> HIDE DEF e
    <2> QED BY <2>1 DEF Entry, IsEntry, Contained
  <1>2. CASE wire = <<"bundle">>
    <2>1. e = Entry("BundleRoot", BundleDir)
      <3>1. <<"bundle">> # <<>>
        OBVIOUS
      <3>2. ~(Len(<<"bundle">>) > 1)
        OBVIOUS
      <3> QED BY <1>2, <3>1, <3>2, Zenon DEF Granted
    <2> HIDE DEF e
    <2> QED BY <2>1 DEF Entry, IsEntry, Contained
  <1>3. CASE wire # <<>> /\ wire # <<"bundle">> /\ InBundle
    <2>1. e = Entry("File", Append(BundleDir, wire[2])) \/ e = NoEntry
      BY <1>3, Zenon DEF Granted
    <2>2. NoEntry.kind = "none"
      BY DEF NoEntry, Entry
    <2>3. e = Entry("File", Append(BundleDir, wire[2]))
      BY <2>1, <2>2, Zenon
    <2>4. IsPrefix(BundleDir, Append(BundleDir, wire[2]))
      BY BundleInside
    <2> HIDE DEF e
    <2> DEFINE p == Append(BundleDir, wire[2])
    <2> HIDE DEF p
    <2>5. e = Entry("File", p) /\ IsPrefix(BundleDir, p)
      BY <2>3, <2>4 DEF p
    <2> QED BY <2>5 DEF Entry, IsEntry, Contained
  <1>4. CASE wire # <<>> /\ wire # <<"bundle">> /\ ~InBundle
    <2>1. e = IF file = NoPath THEN NoEntry
              ELSE IF is_write_disposition(d) THEN [Entry("WriteFile", file) EXCEPT !.staging = Staged(nextStagingId)]
              ELSE Entry("File", file)
      BY <1>4, Zenon DEF Granted
    <2>2. NoEntry.kind = "none"
      BY DEF NoEntry, Entry
    <2>3. file = resolve_under_root(wire)
      BY <1>4
    <2> HIDE DEF file
    <2>4. file # NoPath
      BY <2>1, <2>2, Zenon
    <2>5. IsPrefix(ShareRoot, file)
      BY <2>3, <2>4, Resolved
    <2>6. \/ e = [Entry("WriteFile", file) EXCEPT !.staging = Staged(nextStagingId)]
          \/ e = Entry("File", file)
      BY <2>1, <2>4, Zenon
    <2> HIDE DEF e
    <2>7. CASE e = Entry("File", file)
      BY <2>5, <2>7 DEF Entry, IsEntry, Contained
    <2>8. CASE e = [Entry("WriteFile", file) EXCEPT !.staging = Staged(nextStagingId)]
      <3>1. e = [kind |-> "WriteFile", path |-> file, staging |-> Staged(nextStagingId), expected |-> {}]
        BY <2>8 DEF Entry
      <3> QED BY <1>4, <2>3, <2>5, <3>1 DEF IsEntry, Contained
    <2> QED BY <2>6, <2>7, <2>8
  <1> QED BY <1>1, <1>2, <1>3, <1>4

\* A transfer's name is granted as its file.
LEMMA ShareIsGranted ==
    ASSUME NEW n \in ShareName, NEW d
    PROVE  LET e == Granted(<<n>>, d) IN
           /\ e.path = Shared(n) /\ e.expected = {}
           /\ ~is_write_disposition(d) => e.kind = "File"
           /\ is_write_disposition(d) => e.kind = "WriteFile"
  <1> DEFINE e == Granted(<<n>>, d)
  <1>1. resolve_under_root(<<n>>) = Shared(n) /\ Shared(n) # NoPath /\ <<n>> # <<"bundle">>
    BY ShareResolves
  <1>2. <<n>> # <<>> /\ ~(Len(<<n>>) > 1)
    OBVIOUS
  <1>3. e = IF is_write_disposition(d) THEN [Entry("WriteFile", Shared(n)) EXCEPT !.staging = Staged(nextStagingId)]
            ELSE Entry("File", Shared(n))
    BY <1>1, <1>2, Zenon DEF Granted
  <1> HIDE DEF e
  <1>4. CASE is_write_disposition(d)
    <2>1. e = [Entry("WriteFile", Shared(n)) EXCEPT !.staging = Staged(nextStagingId)]
      BY <1>3, <1>4
    <2>2. e = [kind |-> "WriteFile", path |-> Shared(n), staging |-> Staged(nextStagingId), expected |-> {}]
      BY <2>1 DEF Entry
    <2> QED BY <1>4, <2>2 DEF e
  <1>5. CASE ~is_write_disposition(d)
    <2>1. e = [kind |-> "File", path |-> Shared(n), staging |-> NoPath, expected |-> {}]
      BY <1>3, <1>5 DEF Entry
    <2> QED BY <1>5, <2>1 DEF e
  <1> QED BY <1>4, <1>5

\* What a granted open changes.
LEMMA Creates ==
    ASSUME nextStagingId \in Nat, NEW wire, NEW d, CreateFile(wire, d)
    PROVE  /\ Granted(wire, d).kind # "none" /\ nextFileId <= MaxFileId /\ nextFileId' = nextFileId + 1
           /\ DOMAIN openFiles' = DOMAIN openFiles \cup {nextFileId}
           /\ openFiles'[nextFileId] = Granted(wire, d)
           /\ \A i \in DOMAIN openFiles : i # nextFileId => openFiles'[i] = openFiles[i]
           /\ nextStagingId' = nextStagingId + (IF Granted(wire, d).kind = "WriteFile" THEN 1 ELSE 0)
           /\ Granted(wire, d).kind = "WriteFile" =>
                 Granted(wire, d).staging \in DOMAIN disk' /\ disk'[Granted(wire, d).staging] = <<>>
           /\ \A p : Granted(wire, d).kind # "WriteFile" \/ p # Granted(wire, d).staging => Untouched(p)
  <1> DEFINE e == Granted(wire, d)
  <1> HIDE DEF e
  <1>1. /\ nextFileId <= MaxFileId /\ e.kind # "none" /\ nextFileId' = nextFileId + 1
        /\ openFiles' = [i \in DOMAIN openFiles \cup {nextFileId} |-> IF i = nextFileId THEN e ELSE openFiles[i]]
        /\ IF e.kind = "WriteFile"
           THEN /\ nextStagingId' = nextStagingId + 1
                /\ disk' = [p \in DOMAIN disk \cup {e.staging} |-> IF p = e.staging THEN <<>> ELSE disk[p]]
           ELSE UNCHANGED <<nextStagingId, disk>>
    BY Zenon DEF CreateFile, e
  <1>2. CASE e.kind = "WriteFile"
    <2>1. nextStagingId' = nextStagingId + (IF e.kind = "WriteFile" THEN 1 ELSE 0)
      BY <1>1, <1>2
    <2>2. e.staging \in DOMAIN disk' /\ disk'[e.staging] = <<>> /\ \A p : p # e.staging => Untouched(p)
      BY <1>1, <1>2 DEF Untouched
    <2> QED BY <1>1, <1>2, <2>1, <2>2 DEF e
  <1>3. CASE e.kind # "WriteFile"
    <2>1. nextStagingId' = nextStagingId + (IF e.kind = "WriteFile" THEN 1 ELSE 0)
      BY <1>1, <1>3
    <2>2. \A p : Untouched(p)
      BY <1>1, <1>3 DEF Untouched
    <2> QED BY <1>1, <1>3, <2>1, <2>2 DEF e
  <1> QED BY <1>2, <1>3

\* What the close of a written file changes.
LEMMA Finalizes ==
    ASSUME NEW e, finalize_write(e)
    PROVE  /\ \A p : p # e.staging /\ p # e.path => Untouched(p)
           /\ disk' = disk \/ (e.path \in DOMAIN disk' /\ disk'[e.path] = disk[e.staging])
           /\ e.staging \in DOMAIN disk /\ e.expected \subseteq {Len(disk[e.staging])} =>
                 e.path \in DOMAIN disk' /\ disk'[e.path] = disk[e.staging]
  BY DEF finalize_write, Untouched

-----------------------------------------------------------------------------
(* RedirectedDrive: its handles                                               *)

LEMMA FewerIds == \A a, b \in Nat : a <= b => 1..(a - 1) \subseteq 1..(b - 1)
  OBVIOUS

\* An open adds a handle of its own staged file.
LEMMA OpenKeepsHandles ==
    ASSUME DriveTypes, Grants, NEW wire, NEW d, CreateFile(wire, d),
           \/ copying'.id = copying.id
           \/ copying.id = 0 /\ copying'.id = nextFileId,
           Granted(wire, d).kind = "WriteFile" /\ copying'.id # nextFileId => Apart(Granted(wire, d).path)
    PROVE  Grants'
  <1> DEFINE e == Granted(wire, d)
  <1>1. /\ nextFileId \in Nat /\ nextStagingId \in 1..nextFileId /\ MaxFileId \in Nat /\ nextStagingId \in Nat
        /\ DOMAIN openFiles \subseteq 1..(nextFileId - 1) /\ copying.id \in 0..(nextFileId - 1)
    BY DriveAssumption DEF DriveTypes
  <1>2. /\ e.kind # "none" /\ nextFileId <= MaxFileId
        /\ DOMAIN openFiles' = DOMAIN openFiles \cup {nextFileId} /\ openFiles'[nextFileId] = e
        /\ \A i \in DOMAIN openFiles : i # nextFileId => openFiles'[i] = openFiles[i]
        /\ nextStagingId' = nextStagingId + (IF e.kind = "WriteFile" THEN 1 ELSE 0)
    <2>1. nextStagingId \in Nat
      BY <1>1
    <2> QED BY <2>1, Creates
  <1>3. /\ IsEntry(e) /\ e.kind \in {"Root", "BundleRoot", "File", "WriteFile"} /\ Contained(e)
        /\ e.kind = "WriteFile" => e.staging = Staged(nextStagingId)
    BY <1>2, GrantIsContained
  <1>4. e.kind = "WriteFile" /\ copying'.id # nextFileId => Apart(e.path)
    OBVIOUS
  <1> HIDE DEF e
  <1>5. nextStagingId' \in Nat /\ nextStagingId' >= nextStagingId /\ (e.kind = "WriteFile" => nextStagingId' = nextStagingId + 1)
    BY <1>1, <1>2
  <1> PICK new : new = nextFileId
    OBVIOUS
  <1>6. ASSUME NEW id \in DOMAIN openFiles PROVE Grant(id)' /\ id # new
    <2>1. id # new /\ openFiles'[id] = openFiles[id]
      BY <1>1, <1>2
    <2>2. Grant(id)
      BY DEF Grants
    <2>3. id # copying'.id => id # copying.id
      BY <1>1
    <2>4. 1..(nextStagingId - 1) \subseteq 1..(nextStagingId' - 1)
      <3> PICK a \in Nat, b \in Nat : a = nextStagingId /\ b = nextStagingId' /\ a <= b
        BY <1>1, <1>5
      <3> QED BY FewerIds
    <2> QED BY <2>1, <2>2, <2>3, <2>4 DEF Grant
  <1>7. Grant(new)'
    <2>1. e.kind = "WriteFile" => nextStagingId \in 1..(nextStagingId' - 1)
      BY <1>1, <1>5
    <2>2. openFiles'[new] = e
      BY <1>2
    <2>3. e.kind = "WriteFile" => \E k \in 1..(nextStagingId' - 1) : e.staging = Staged(k)
      BY <1>3, <2>1
    <2>4. e.kind = "WriteFile" /\ new # copying'.id => Apart(e.path)
      BY <1>4
    <2> QED BY <1>3, <2>2, <2>3, <2>4 DEF Grant, Contained
  <1>8. ASSUME e.kind = "WriteFile", NEW i \in DOMAIN openFiles, openFiles[i].kind = "WriteFile"
        PROVE  openFiles[i].staging # e.staging
    <2>1. PICK k \in 1..(nextStagingId - 1) : openFiles[i].staging = Staged(k)
      BY <1>8 DEF Grants, Grant
    <2>2. k \in 1..MaxFileId /\ nextStagingId \in 1..MaxFileId /\ k # nextStagingId
      BY <1>1, <1>2
    <2> QED BY <1>3, <1>8, <2>1, <2>2, NamesDiffer
  <1>9. ASSUME NEW i \in DOMAIN openFiles', NEW j \in DOMAIN openFiles', openFiles'[i].kind = "WriteFile",
               openFiles'[j].kind = "WriteFile", openFiles'[i].staging = openFiles'[j].staging
        PROVE  i = j
    <2>1. CASE i = new /\ j # new
      BY <1>2, <1>8, <1>9, <2>1
    <2>2. CASE j = new /\ i # new
      BY <1>2, <1>8, <1>9, <2>2
    <2>3. CASE i # new /\ j # new
      BY <1>2, <1>9, <2>3 DEF Grants
    <2> QED BY <2>1, <2>2, <2>3
  <1>10. \A id \in DOMAIN openFiles' : Grant(id)'
    <2> TAKE id \in DOMAIN openFiles'
    <2> QED BY <1>2, <1>6, <1>7
  <1> QED BY <1>9, <1>10 DEF Grants

\* Grants that are kept, with what is their own.
LEMMA FewerHandles ==
    ASSUME Grants, DOMAIN openFiles' \subseteq DOMAIN openFiles,
           \A i \in DOMAIN openFiles' :
              /\ openFiles'[i].kind = openFiles[i].kind /\ openFiles'[i].path = openFiles[i].path
              /\ openFiles'[i].staging = openFiles[i].staging /\ IsEntry(openFiles'[i])
              /\ i # copying'.id => i # copying.id,
           nextStagingId' = nextStagingId
    PROVE  Grants'
  <1>1. ASSUME NEW i \in DOMAIN openFiles' PROVE Grant(i)'
    <2>1. Grant(i)
      BY DEF Grants
    <2> QED BY <2>1 DEF Grant
  <1>2. ASSUME NEW i \in DOMAIN openFiles', NEW j \in DOMAIN openFiles', openFiles'[i].kind = "WriteFile",
               openFiles'[j].kind = "WriteFile", openFiles'[i].staging = openFiles'[j].staging
        PROVE  i = j
    BY <1>2 DEF Grants
  <1> QED BY <1>1, <1>2 DEF Grants

LEMMA SameHandles ==
    ASSUME Grants, openFiles' = openFiles, copying'.id = copying.id, nextStagingId' = nextStagingId
    PROVE  Grants'
  <1>1. \A i \in DOMAIN openFiles : IsEntry(openFiles[i])
    BY DEF Grants, Grant
  <1> QED BY <1>1, FewerHandles

LEMMA CloseKeepsHandles ==
    ASSUME Grants, NEW id, CloseFile(id), copying'.id = copying.id \/ id = copying.id
    PROVE  Grants'
  <1>1. openFiles' = [i \in DOMAIN openFiles \ {id} |-> openFiles[i]] /\ nextStagingId' = nextStagingId
    BY DEF CloseFile, Without
  <1>2. \A i \in DOMAIN openFiles : IsEntry(openFiles[i])
    BY DEF Grants, Grant
  <1> QED BY <1>1, <1>2, FewerHandles

\* A close moves the handle's own staged file only.
LEMMA CloseMoves ==
    ASSUME NEW id, CloseFile(id)
    PROVE  \A p : openFiles[id].kind # "WriteFile" \/ (p # openFiles[id].staging /\ p # openFiles[id].path) => Untouched(p)
  <1>1. CASE openFiles[id].kind = "WriteFile"
    BY <1>1, Finalizes DEF CloseFile
  <1>2. CASE openFiles[id].kind # "WriteFile"
    BY <1>2 DEF CloseFile, Untouched
  <1> QED BY <1>1, <1>2

\* The staged file of the copy's own handle is no transfer's file.
LEMMA OwnStaged ==
    ASSUME DriveTypes, Grants, OwnHandle, Copies, linked, copying.op = "Download"
    PROVE  /\ \E k \in 1..MaxFileId : openFiles[copying.id].staging = Staged(k)
           /\ \A n \in ShareName : openFiles[copying.id].staging # Shared(n)
  <1>1. openFiles[copying.id].kind = "WriteFile" /\ copying.id \in DOMAIN openFiles
    BY DEF OwnHandle
  <1>2. PICK k \in 1..(nextStagingId - 1) : openFiles[copying.id].staging = Staged(k)
    BY <1>1 DEF Grants, Grant
  <1>3. k \in 1..MaxFileId
    BY <1>2, DriveAssumption DEF DriveTypes
  <1> QED BY <1>2, <1>3, NamesDiffer

\* The copy goes on with its own handle.
LEMMA OwnStays ==
    ASSUME OwnHandle, copying' = copying, linked' = linked,
           Copies /\ linked =>
              copying.id \in DOMAIN openFiles' /\ openFiles'[copying.id] = openFiles[copying.id],
           Copies /\ linked /\ copying.op = "Download" => Untouched(openFiles[copying.id].staging)
    PROVE  OwnHandle'
  BY DEF OwnHandle, Copies, Untouched

LEMMA TransferStays ==
    ASSUME NEW n, Course(n), Content(n), fetch'[n] = fetch[n], n \in asked' <=> n \in asked, result'[n] = result[n],
           Copied(n)' => Copied(n), guestFile'[n] = guestFile[n], Untouched(Shared(n))
    PROVE  Course(n)' /\ Content(n)'
  <1>1. Placed(n)' <=> Placed(n)
    BY DEF Placed, Untouched
  <1>2. Placed(n) => disk'[Shared(n)] = disk[Shared(n)]
    BY DEF Placed, Untouched
  <1>3. Course(n)'
    BY <1>1 DEF Course
  <1>4. Content(n)'
    BY <1>1, <1>2 DEF Content
  <1> QED BY <1>3, <1>4

-----------------------------------------------------------------------------
(* RedirectedDrive: one lemma for each action                                 *)

\* The host begins, ends or stops a transfer: the drive's handles stay.
LEMMA HostBeginsKeeps ==
    ASSUME DriveInv, NEW n \in ShareName, NEW op \in {"Upload", "Download"}, HostBegins(n, op)
    PROVE  DriveInv'
  <1>1. DriveTypes /\ Grants /\ OwnHandle /\ Course(n) /\ Content(n)
    BY DEF DriveInv
  <1>2. /\ fetch[n].pc = "idle" /\ fetch' = [fetch EXCEPT ![n] = [op |-> op, pc |-> "asked"]] /\ asked' = asked \cup {n}
        /\ UNCHANGED <<openFiles, listings, nextFileId, nextStagingId, stages, result, copying, guestFile, linked>>
    BY DEF HostBegins
  <1>3. /\ \A p : p # Shared(n) => Untouched(p)
        /\ op = "Upload" => Shared(n) \in DOMAIN disk' /\ disk'[Shared(n)] = Whole
        /\ op = "Download" => disk' = disk
    BY DEF HostBegins, Untouched
  <1>4. ~Copied(n) /\ ~Placed(n) /\ ~result[n].known /\ ~result[n].ok
    BY <1>1, <1>2 DEF Course
  <1>5. fetch'[n] = [op |-> op, pc |-> "asked"] /\ \A m \in ShareName : m # n => fetch'[m] = fetch[m]
    BY <1>1, <1>2 DEF DriveTypes
  <1>6. DriveTypes'
    <2>1. fetch' \in [ShareName -> [op : {"none", "Upload", "Download"}, pc : {"idle", "asked", "ok", "failed", "stopped"}]]
      BY <1>1, <1>2 DEF DriveTypes
    <2>2. Copies => copying.share # n
      BY <1>4 DEF Copied
    <2> QED BY <1>1, <1>2, <1>5, <2>1, <2>2 DEF DriveTypes, Copies, IsCopy
  <1>7. Grants'
    BY <1>1, <1>2, SameHandles
  <1>8. OwnHandle'
    <2>1. Copies /\ linked /\ copying.op = "Download" => Untouched(openFiles[copying.id].staging)
      BY <1>1, <1>3, OwnStaged
    <2>2. Copies /\ linked => copying.id \in DOMAIN openFiles
      BY <1>1 DEF OwnHandle
    <2> QED BY <1>1, <1>2, <2>1, <2>2, OwnStays
  <1>9. ASSUME NEW m \in ShareName, m # n PROVE Course(m)' /\ Content(m)'
    <2>1. Course(m) /\ Content(m)
      BY DEF DriveInv
    <2>2. Untouched(Shared(m))
      BY <1>3, <1>9, NamesDiffer
    <2>3. Copied(m)' => Copied(m)
      BY <1>2 DEF Copied, Copies
    <2>4. m \in asked' <=> m \in asked
      BY <1>2, <1>9
    <2> QED BY <1>2, <1>5, <1>9, <2>1, <2>2, <2>3, <2>4, TransferStays
  <1>10. ~Copied(n)' /\ (op = "Download" => ~Placed(n)') /\ (op = "Upload" => Placed(n)')
    BY <1>2, <1>3, <1>4 DEF Copied, Copies, Placed
  <1>11. Course(n)'
    BY <1>2, <1>4, <1>5, <1>10 DEF Course
  <1>12. Content(n)'
    BY <1>2, <1>3, <1>4, <1>5, <1>10 DEF Content
  <1> QED BY <1>6, <1>7, <1>8, <1>9, <1>11, <1>12 DEF DriveInv

LEMMA HostLeavesKeeps ==
    ASSUME DriveInv, NEW n \in ShareName, HostEnds(n) \/ HostStops(n)
    PROVE  DriveInv'
  <1>1. DriveTypes /\ Grants /\ OwnHandle /\ Course(n) /\ Content(n)
    BY DEF DriveInv
  <1>2. PICK pc \in {"ok", "failed", "stopped"} :
           /\ fetch[n].pc = "asked" /\ fetch' = [fetch EXCEPT ![n].pc = pc]
           /\ pc \in {"ok", "failed"} => result[n].known
           /\ pc = "ok" => result[n].ok /\ Placed(n) /\ disk[Shared(n)] = result[n].sum
    <2>1. CASE HostEnds(n)
      <3>1. CASE result[n].ok /\ Shared(n) \in DOMAIN disk /\ disk[Shared(n)] = result[n].sum
        BY <2>1, <3>1 DEF HostEnds, HostGoes, Placed
      <3>2. CASE ~(result[n].ok /\ Shared(n) \in DOMAIN disk /\ disk[Shared(n)] = result[n].sum)
        BY <2>1, <3>2 DEF HostEnds, HostGoes
      <3> QED BY <3>1, <3>2
    <2>2. CASE HostStops(n)
      BY <2>2 DEF HostStops, HostGoes
    <2> QED BY <2>1, <2>2
  <1>3. /\ UNCHANGED <<openFiles, listings, nextFileId, nextStagingId, stages, asked, result, copying, guestFile, linked>>
        /\ disk' = [p \in DOMAIN disk \ {Shared(n)} |-> disk[p]]
    BY DEF HostEnds, HostStops, Unstage, Without
  <1>4. (\A p : p # Shared(n) => Untouched(p)) /\ Shared(n) \notin DOMAIN disk'
    BY <1>3 DEF Untouched
  <1>5. fetch'[n].pc = pc /\ fetch'[n].op = fetch[n].op /\ \A m \in ShareName : m # n => fetch'[m] = fetch[m]
    BY <1>1, <1>2 DEF DriveTypes
  <1>6. DriveTypes'
    <2>1. fetch' \in [ShareName -> [op : {"none", "Upload", "Download"}, pc : {"idle", "asked", "ok", "failed", "stopped"}]]
      BY <1>1, <1>2 DEF DriveTypes
    <2>2. Copies => copying.op = fetch'[copying.share].op
      BY <1>1, <1>5 DEF DriveTypes
    <2> QED BY <1>1, <1>3, <2>1, <2>2 DEF DriveTypes, Copies, IsCopy
  <1>7. Grants'
    BY <1>1, <1>3, SameHandles
  <1>8. OwnHandle'
    <2>1. Copies /\ linked /\ copying.op = "Download" => Untouched(openFiles[copying.id].staging)
      BY <1>1, <1>4, OwnStaged
    <2>2. Copies /\ linked => copying.id \in DOMAIN openFiles
      BY <1>1 DEF OwnHandle
    <2> QED BY <1>1, <1>3, <2>1, <2>2, OwnStays
  <1>9. ASSUME NEW m \in ShareName, m # n PROVE Course(m)' /\ Content(m)'
    <2>1. Course(m) /\ Content(m)
      BY DEF DriveInv
    <2>2. Untouched(Shared(m))
      BY <1>4, <1>9, NamesDiffer
    <2>3. Copied(m)' => Copied(m)
      BY <1>3 DEF Copied, Copies
    <2>4. m \in asked' <=> m \in asked
      BY <1>3
    <2> QED BY <1>3, <1>5, <1>9, <2>1, <2>2, <2>3, <2>4, TransferStays
  <1>10. ~Placed(n)' /\ (Copied(n)' => Copied(n))
    BY <1>3, <1>4 DEF Placed, Copied, Copies
  <1>11. Course(n)'
    BY <1>1, <1>2, <1>3, <1>5, <1>10 DEF Course
  <1>12. Content(n)'
    <2>1. pc = "ok" => result[n].sum = Whole
      BY <1>1, <1>2 DEF Course, Content
    <2> QED BY <1>1, <1>2, <1>3, <1>5, <1>10, <2>1 DEF Content
  <1> QED BY <1>6, <1>7, <1>8, <1>9, <1>11, <1>12 DEF DriveInv

\* A step that leaves transfers alone.
LEMMA Apartly ==
    ASSUME DriveInv, DriveTypes', Grants', OwnHandle',
           fetch' = fetch, asked' = asked, result' = result, guestFile' = guestFile,
           Copies' => Copies /\ copying'.share = copying.share,
           \A n \in ShareName : Untouched(Shared(n))
    PROVE  DriveInv'
  <1>1. ASSUME NEW n \in ShareName PROVE Course(n)' /\ Content(n)'
    <2>1. Course(n) /\ Content(n) /\ Untouched(Shared(n))
      BY DEF DriveInv
    <2>2. Copied(n)' => Copied(n)
      BY DEF Copied
    <2>3. fetch'[n] = fetch[n] /\ (n \in asked' <=> n \in asked) /\ result'[n] = result[n] /\ guestFile'[n] = guestFile[n]
      OBVIOUS
    <2> QED BY <2>1, <2>2, <2>3, TransferStays
  <1> QED BY <1>1 DEF DriveInv

LEMMA CopyBusyKeeps == ASSUME DriveInv, NEW n \in ShareName, CopyBusy(n) PROVE DriveInv'
  <1>1. DriveTypes /\ Grants /\ OwnHandle /\ Course(n) /\ Content(n)
    BY DEF DriveInv
  <1>2. /\ n \in asked /\ asked' = asked \ {n} /\ result' = [result EXCEPT ![n] = [ok |-> FALSE, known |-> TRUE, sum |-> <<>>]]
        /\ UNCHANGED <<openFiles, listings, nextFileId, nextStagingId, disk, stages, fetch, copying, guestFile, linked>>
    BY DEF CopyBusy, CopyResult, ioVars
  <1>3. result'[n] = [ok |-> FALSE, known |-> TRUE, sum |-> <<>>] /\ \A m \in ShareName : m # n => result'[m] = result[m]
    BY <1>1, <1>2 DEF DriveTypes
  <1>4. DriveTypes'
    <2>1. DOMAIN result' = ShareName /\ \A m \in ShareName : result'[m].ok \in BOOLEAN /\ result'[m].known \in BOOLEAN
      BY <1>1, <1>2, <1>3 DEF DriveTypes
    <2>2. asked' \subseteq ShareName
      BY <1>1, <1>2 DEF DriveTypes
    <2> QED BY <1>1, <1>2, <2>1, <2>2 DEF DriveTypes, Copies, IsCopy
  <1>5. Grants'
    BY <1>1, <1>2, SameHandles
  <1>6. OwnHandle'
    BY <1>1, <1>2 DEF OwnHandle, Copies
  <1>7. \A p : Untouched(p)
    BY <1>2 DEF Untouched
  <1>8. ASSUME NEW m \in ShareName, m # n PROVE Course(m)' /\ Content(m)'
    <2>1. Course(m) /\ Content(m)
      BY DEF DriveInv
    <2>2. Copied(m)' => Copied(m)
      BY <1>2 DEF Copied, Copies
    <2>3. m \in asked' <=> m \in asked
      BY <1>2, <1>8
    <2> QED BY <1>2, <1>3, <1>7, <1>8, <2>1, <2>2, <2>3, TransferStays
  <1>9. ~result[n].known /\ ~Copied(n)' /\ fetch[n].pc \notin {"idle", "ok", "failed"} /\ (Placed(n)' <=> Placed(n))
    BY <1>1, <1>2 DEF Course, Copied, Copies, Placed
  <1>10. Course(n)'
    BY <1>1, <1>2, <1>3, <1>9 DEF Course
  <1>11. Content(n)'
    BY <1>1, <1>2, <1>3, <1>9 DEF Content
  <1> QED BY <1>4, <1>5, <1>6, <1>8, <1>10, <1>11 DEF DriveInv

LEMMA CopyOpensKeeps == ASSUME DriveInv, NEW n \in ShareName, CopyOpens(n) PROVE DriveInv'
  <1> DEFINE d == IF fetch[n].op = "Download" THEN "FILE_CREATE" ELSE "FILE_OPEN"
             e == Granted(<<n>>, d)
  <1>1. DriveTypes /\ Grants /\ OwnHandle /\ Course(n) /\ Content(n)
    BY DEF DriveInv
  <1>2. /\ linked /\ n \in asked /\ copying = NoCopy /\ asked' = asked \ {n} /\ CreateFile(<<n>>, d)
        /\ UNCHANGED <<fetch, result, guestFile, linked>>
    BY DEF CopyOpens
  <1>3. /\ IsCopy(copying)' /\ copying'.share = n /\ copying'.op = fetch[n].op /\ copying'.id = nextFileId
        /\ copying'.failed = FALSE /\ (fetch[n].op = "Download" => copying'.todo = 1..FileChunks)
    BY DEF CopyOpens, IsCopy
  <1>4. /\ nextFileId \in Nat /\ nextStagingId \in Nat /\ nextStagingId \in 1..nextFileId /\ MaxFileId \in Nat
        /\ copying.id = 0 /\ nextFileId # 0
    BY <1>1, <1>2, DriveAssumption DEF DriveTypes
  <1>5. fetch[n].op \in {"Upload", "Download"} /\ ~result[n].known /\ fetch[n].pc \notin {"idle", "ok", "failed"}
    BY <1>1, <1>2 DEF Course
  <1>6. /\ e.path = Shared(n) /\ e.expected = {}
        /\ fetch[n].op = "Upload" => e.kind = "File"
        /\ fetch[n].op = "Download" => e.kind = "WriteFile"
    <2>1. ~is_write_disposition("FILE_OPEN") /\ is_write_disposition("FILE_CREATE")
      BY DEF is_write_disposition
    <2>2. fetch[n].op = "Upload" => d = "FILE_OPEN"
      OBVIOUS
    <2>3. fetch[n].op = "Download" => d = "FILE_CREATE"
      OBVIOUS
    <2> HIDE DEF d
    <2> QED BY <2>1, <2>2, <2>3, ShareIsGranted
  <1> HIDE DEF d
  <1>7. /\ e.kind # "none" /\ nextFileId <= MaxFileId /\ nextFileId' = nextFileId + 1
        /\ DOMAIN openFiles' = DOMAIN openFiles \cup {nextFileId} /\ openFiles'[nextFileId] = e
        /\ nextStagingId' = nextStagingId + (IF e.kind = "WriteFile" THEN 1 ELSE 0)
        /\ e.kind = "WriteFile" => e.staging \in DOMAIN disk' /\ disk'[e.staging] = <<>>
        /\ \A p : e.kind # "WriteFile" \/ p # e.staging => Untouched(p)
    BY <1>2, <1>4, Creates
  <1>8. e.kind = "WriteFile" => e.staging = Staged(nextStagingId)
    BY <1>7, GrantIsContained
  <1>9. Grants'
    BY <1>1, <1>2, <1>3, <1>4, OpenKeepsHandles
  <1> HIDE DEF e
  <1>10. \A m \in ShareName : Untouched(Shared(m))
    BY <1>4, <1>7, <1>8, NamesDiffer
  <1>11. DriveTypes'
    <2>1. nextFileId' \in 1..(MaxFileId + 1) /\ nextStagingId' \in 1..nextFileId'
      BY <1>4, <1>7
    <2>2. DOMAIN openFiles' \subseteq 1..(nextFileId' - 1)
      BY <1>1, <1>4, <1>7 DEF DriveTypes
    <2>3. copying'.id \in 0..(nextFileId' - 1) /\ copying'.id # 0
      BY <1>3, <1>4, <1>7
    <2>4. copying' # NoCopy
      BY <2>3 DEF NoCopy
    <2>5. asked' \subseteq ShareName
      BY <1>1, <1>2 DEF DriveTypes
    <2> QED BY <1>1, <1>2, <1>3, <2>1, <2>2, <2>3, <2>4, <2>5 DEF DriveTypes, Copies
  <1>12. OwnHandle'
    <2>1. CASE fetch[n].op = "Upload"
      BY <1>2, <1>3, <1>6, <1>7, <2>1 DEF OwnHandle
    <2>2. CASE fetch[n].op = "Download"
      <3>1. Written(<<>>, 1..FileChunks)
        BY DriveAssumption DEF Written
      <3>2. copying'.id \in DOMAIN openFiles' /\ openFiles'[copying'.id] = e
        BY <1>3, <1>7
      <3>3. e.kind = "WriteFile" /\ e.expected \subseteq {FileChunks} /\ e.staging \in DOMAIN disk' /\ disk'[e.staging] = <<>>
        BY <1>6, <1>7, <2>2
      <3> QED BY <1>2, <1>3, <1>6, <2>2, <3>1, <3>2, <3>3 DEF OwnHandle
    <2> QED BY <1>5, <2>1, <2>2
  <1>13. ASSUME NEW m \in ShareName, m # n PROVE Course(m)' /\ Content(m)'
    <2>1. Course(m) /\ Content(m)
      BY DEF DriveInv
    <2>2. ~Copied(m)'
      BY <1>3, <1>13 DEF Copied
    <2>3. m \in asked' <=> m \in asked
      BY <1>2, <1>13
    <2>4. fetch'[m] = fetch[m] /\ result'[m] = result[m] /\ guestFile'[m] = guestFile[m] /\ Untouched(Shared(m))
      BY <1>2, <1>10
    <2> QED BY <2>1, <2>2, <2>3, <2>4, TransferStays
  <1>14. (Placed(n)' <=> Placed(n)) /\ (Placed(n) => disk'[Shared(n)] = disk[Shared(n)])
    BY <1>10 DEF Placed, Untouched
  <1>15. Course(n)'
    BY <1>1, <1>2, <1>5, <1>14 DEF Course
  <1>16. Content(n)'
    BY <1>1, <1>2, <1>14 DEF Content
  <1> QED BY <1>9, <1>11, <1>12, <1>13, <1>15, <1>16 DEF DriveInv

\* A chunk that is written is there, and no chunk is lost by it.
LEMMA ChunkIsWritten ==
    ASSUME NEW c, NEW todo, Written(c, todo), NEW k \in todo
    PROVE  Written([i \in 1..(IF k > Len(c) THEN k ELSE Len(c)) |->
                       IF i = k THEN Whole[k] ELSE IF i <= Len(c) THEN c[i] ELSE 0], todo \ {k})
  <1> DEFINE m == IF k > Len(c) THEN k ELSE Len(c)
             new == [i \in 1..m |-> IF i = k THEN Whole[k] ELSE IF i <= Len(c) THEN c[i] ELSE 0]
  <1>1. c \in Seq(Nat) /\ Len(c) \in Nat /\ Len(c) <= FileChunks /\ FileChunks \in Nat /\ k \in 1..FileChunks
    BY DriveAssumption DEF Written
  <1>2. Whole[k] = k
    BY <1>1 DEF Whole
  <1>3. m \in Nat /\ m <= FileChunks /\ k <= m /\ Len(c) <= m
    BY <1>1
  <1> HIDE DEF m
  <1>4. \A i \in 1..m : new[i] \in Nat
    BY <1>1, <1>2, <1>3
  <1>5. new \in Seq(Nat) /\ Len(new) = m
    BY <1>3, <1>4
  <1>6. ASSUME NEW j \in (1..FileChunks) \ (todo \ {k}) PROVE j <= m /\ new[j] = j
    <2>1. CASE j = k
      BY <1>1, <1>2, <1>3, <2>1
    <2>2. CASE j # k
      <3>1. j <= Len(c) /\ c[j] = j
        BY <1>6, <2>2 DEF Written
      <3> QED BY <1>1, <1>3, <2>2, <3>1
    <2> QED BY <2>1, <2>2
  <1>7. todo \ {k} \subseteq 1..FileChunks
    BY DEF Written
  <1> HIDE DEF new
  <1>8. Written(new, todo \ {k})
    BY <1>3, <1>5, <1>6, <1>7 DEF Written
  <1> QED BY <1>8 DEF new, m

\* What is written in full is the whole file.
LEMMA AllIsWritten == ASSUME NEW c, Written(c, {}) PROVE c = Whole /\ Len(c) = FileChunks
  <1>1. c \in Seq(Nat) /\ Len(c) \in Nat /\ FileChunks \in Nat \ {0} /\ Len(c) <= FileChunks
    BY DriveAssumption DEF Written
  <1>2. \A k \in 1..FileChunks : k <= Len(c) /\ c[k] = k
    BY DEF Written
  <1>3. Len(c) = FileChunks
    <2>1. FileChunks \in 1..FileChunks
      BY <1>1
    <2>2. FileChunks <= Len(c)
      BY <1>2, <2>1
    <2> QED BY <1>1, <2>2
  <1>4. c = [i \in 1..Len(c) |-> c[i]]
    BY <1>1
  <1> QED BY <1>2, <1>3, <1>4 DEF Whole

LEMMA CopyWritesKeeps == ASSUME DriveInv, CopyWrites PROVE DriveInv'
  <1> DEFINE path == openFiles[copying.id].staging
  <1>1. DriveTypes /\ Grants /\ OwnHandle
    BY DEF DriveInv
  <1>2. /\ linked /\ copying # NoCopy /\ copying.op = "Download" /\ Copies
        /\ UNCHANGED <<fetch, asked, result, guestFile, linked>>
    BY <1>1 DEF CopyWrites, DriveTypes, Copies
  <1>3. PICK k \in copying.todo :
           WriteFile(copying.id, k, Whole[k]) /\ copying' = [copying EXCEPT !.todo = @ \ {k}]
    BY DEF CopyWrites
  <1>4. /\ disk' = write_bytes_at(path, k, Whole[k])
        /\ UNCHANGED <<openFiles, listings, nextFileId, nextStagingId, stages>>
    BY <1>3 DEF WriteFile
  <1>5. /\ copying.id \in DOMAIN openFiles /\ openFiles[copying.id].kind = "WriteFile"
        /\ openFiles[copying.id].path = Shared(copying.share) /\ openFiles[copying.id].expected \subseteq {FileChunks}
        /\ path \in DOMAIN disk /\ Written(disk[path], copying.todo)
    BY <1>1, <1>2 DEF OwnHandle
  <1>6. \A n \in ShareName : path # Shared(n)
    BY <1>1, <1>2, OwnStaged
  <1> HIDE DEF path
  <1>7. /\ \A p : p # path => Untouched(p)
        /\ path \in DOMAIN disk'
        /\ disk'[path] = [i \in 1..(IF k > Len(disk[path]) THEN k ELSE Len(disk[path])) |->
                             IF i = k THEN Whole[k] ELSE IF i <= Len(disk[path]) THEN disk[path][i] ELSE 0]
    BY <1>4, <1>5 DEF write_bytes_at, Untouched
  <1>8. Written(disk'[path], copying.todo \ {k})
    BY <1>5, <1>7, ChunkIsWritten
  <1>9. /\ IsCopy(copying)' /\ copying'.share = copying.share /\ copying'.op = copying.op /\ copying'.id = copying.id
        /\ copying'.failed = copying.failed /\ copying'.todo = copying.todo \ {k}
    BY <1>1, <1>3 DEF DriveTypes, IsCopy
  <1>10. DriveTypes'
    <2>1. copying'.id # 0 /\ copying' # NoCopy
      BY <1>2, <1>9 DEF Copies, NoCopy
    <2> QED BY <1>1, <1>2, <1>4, <1>9, <2>1 DEF DriveTypes, Copies
  <1>11. Grants'
    BY <1>1, <1>4, <1>9, SameHandles
  <1>12. OwnHandle'
    <2>1. openFiles'[copying'.id].staging = path
      BY <1>4, <1>9 DEF path
    <2> QED BY <1>2, <1>4, <1>5, <1>7, <1>8, <1>9, <2>1 DEF OwnHandle
  <1>13. Copies' => Copies /\ copying'.share = copying.share
    BY <1>9 DEF Copies
  <1> QED BY <1>2, <1>6, <1>7, <1>10, <1>11, <1>12, <1>13, Apartly

LEMMA CopyAnnouncesKeeps == ASSUME DriveInv, CopyAnnounces PROVE DriveInv'
  <1>1. DriveTypes /\ Grants /\ OwnHandle
    BY DEF DriveInv
  <1>2. /\ linked /\ copying # NoCopy /\ copying.op = "Download" /\ Copies
        /\ openFiles' = [openFiles EXCEPT ![copying.id].expected = {FileChunks}]
        /\ UNCHANGED <<listings, nextFileId, nextStagingId, disk, stages, fetch, asked, result, copying, guestFile, linked>>
    BY <1>1 DEF CopyAnnounces, SetEndOfFile, DriveTypes, Copies, copyVars
  <1>3. copying.id \in DOMAIN openFiles /\ IsEntry(openFiles[copying.id])
    BY <1>1, <1>2 DEF OwnHandle, Grants, Grant
  <1>4. /\ DOMAIN openFiles' = DOMAIN openFiles
        /\ \A i \in DOMAIN openFiles : i # copying.id => openFiles'[i] = openFiles[i]
        /\ openFiles'[copying.id] = [openFiles[copying.id] EXCEPT !.expected = {FileChunks}]
    BY <1>2, <1>3
  <1>5. LET e == openFiles[copying.id] IN
           openFiles'[copying.id] = [kind |-> e.kind, path |-> e.path, staging |-> e.staging, expected |-> {FileChunks}]
    BY <1>3, <1>4 DEF IsEntry
  <1>6. LET e == openFiles[copying.id]
            f == openFiles'[copying.id]
        IN  IsEntry(f) /\ f.kind = e.kind /\ f.path = e.path /\ f.staging = e.staging /\ f.expected = {FileChunks}
    BY <1>5 DEF IsEntry
  <1>7. Grants'
    <2>1. \A i \in DOMAIN openFiles' :
             /\ openFiles'[i].kind = openFiles[i].kind /\ openFiles'[i].path = openFiles[i].path
             /\ openFiles'[i].staging = openFiles[i].staging /\ IsEntry(openFiles'[i])
      BY <1>1, <1>4, <1>6 DEF Grants, Grant
    <2> QED BY <1>1, <1>2, <1>4, <2>1, FewerHandles
  <1>8. OwnHandle'
    BY <1>1, <1>2, <1>4, <1>6 DEF OwnHandle, Copies
  <1>9. DriveTypes'
    BY <1>1, <1>2, <1>4 DEF DriveTypes, Copies, IsCopy
  <1>10. \A n \in ShareName : Untouched(Shared(n))
    BY <1>2 DEF Untouched
  <1>11. Copies' => Copies /\ copying'.share = copying.share
    BY <1>2 DEF Copies
  <1> QED BY <1>2, <1>7, <1>8, <1>9, <1>10, <1>11, Apartly

\* A step that only moves the copy on, or fails it.
LEMMA CopyGoesKeeps ==
    ASSUME DriveInv, CopyReadsChunk \/ CopyFails
    PROVE  DriveInv'
  <1>1. DriveTypes /\ Grants /\ OwnHandle
    BY DEF DriveInv
  <1>2. /\ Copies
        /\ UNCHANGED <<openFiles, listings, nextFileId, nextStagingId, disk, stages, fetch, asked, result, guestFile, linked>>
    BY <1>1 DEF CopyReadsChunk, CopyFails, DriveTypes, Copies, ioVars
  <1>3. /\ IsCopy(copying)' /\ copying'.share = copying.share /\ copying'.op = copying.op /\ copying'.id = copying.id
        /\ copying'.failed \in BOOLEAN
        /\ copying.op # "Upload" => copying'.todo = copying.todo
    <2>1. IsCopy(copying) /\ copying.failed \in BOOLEAN
      BY <1>1 DEF DriveTypes
    <2>2. CASE CopyFails
      BY <2>1, <2>2 DEF CopyFails, IsCopy
    <2>3. CASE CopyReadsChunk
      <3>1. PICK k, x : \/ copying' = [copying EXCEPT !.todo = @ \ {k}, !.sum = x]
                        \/ copying' = [copying EXCEPT !.failed = TRUE]
        BY <2>3 DEF CopyReadsChunk
      <3>2. copying.op = "Upload"
        BY <2>3 DEF CopyReadsChunk
      <3>3. CASE copying' = [copying EXCEPT !.todo = @ \ {k}, !.sum = x]
        BY <2>1, <3>2, <3>3 DEF IsCopy
      <3>4. CASE copying' = [copying EXCEPT !.failed = TRUE]
        BY <2>1, <3>2, <3>4 DEF IsCopy
      <3> QED BY <3>1, <3>3, <3>4
    <2> QED BY <2>2, <2>3
  <1>4. DriveTypes'
    <2>1. copying'.id # 0 /\ copying' # NoCopy
      BY <1>2, <1>3 DEF Copies, NoCopy
    <2> QED BY <1>1, <1>2, <1>3, <2>1 DEF DriveTypes, Copies
  <1>5. Grants'
    BY <1>1, <1>2, <1>3, SameHandles
  <1>6. OwnHandle'
    BY <1>1, <1>2, <1>3 DEF OwnHandle, Copies
  <1>7. \A n \in ShareName : Untouched(Shared(n))
    BY <1>2 DEF Untouched
  <1>8. Copies' => Copies /\ copying'.share = copying.share
    BY <1>2, <1>3
  <1> QED BY <1>2, <1>4, <1>5, <1>6, <1>7, <1>8, Apartly

LEMMA CopyClosesKeeps == ASSUME DriveInv, CopyCloses PROVE DriveInv'
  <1>1. DriveTypes /\ Grants /\ OwnHandle /\ Copies /\ linked
    BY DEF DriveInv, CopyCloses, DriveTypes, Copies
  <1> PICK n \in ShareName : n = copying.share
    BY <1>1 DEF DriveTypes
  <1> PICK id : id = copying.id
    OBVIOUS
  <1> DEFINE e == openFiles[id]
             sum == IF copying.op = "Download" THEN Whole ELSE copying.sum
  <1>2. Course(n) /\ Content(n) /\ Copied(n)
    BY <1>1 DEF DriveInv, Copied
  <1>3. /\ copying.todo = {} \/ copying.failed
        /\ CloseFile(id) /\ copying' = NoCopy
        /\ result' = [result EXCEPT ![n] = [ok |-> ~copying.failed, known |-> TRUE, sum |-> sum]]
        /\ guestFile' = IF copying.op = "Upload" /\ ~copying.failed
                        THEN [guestFile EXCEPT ![n] = copying.sum] ELSE guestFile
        /\ UNCHANGED <<fetch, asked, linked>>
    BY DEF CopyCloses, CopyResult
  <1>4. copying.op = fetch[n].op /\ fetch[n].op \in {"Upload", "Download"} /\ copying.failed \in BOOLEAN
    BY <1>1, <1>2 DEF DriveTypes, Course
  <1>5. /\ ~result[n].known /\ n \notin asked /\ fetch[n].pc \in {"asked", "stopped"}
    <2>1. fetch[n].pc \in {"idle", "asked", "ok", "failed", "stopped"}
      BY <1>1 DEF DriveTypes
    <2> QED BY <1>2, <2>1 DEF Course
  <1>6. /\ id \in DOMAIN openFiles /\ e.path = Shared(n)
        /\ copying.op = "Upload" => e.kind = "File"
        /\ copying.op = "Download" =>
              /\ e.kind = "WriteFile" /\ e.expected \subseteq {FileChunks}
              /\ e.staging \in DOMAIN disk /\ Written(disk[e.staging], copying.todo)
    BY <1>1 DEF OwnHandle
  <1>7. copying.op = "Download" => \A m \in ShareName : e.staging # Shared(m)
    BY <1>1, OwnStaged
  <1>8. \A p : e.kind # "WriteFile" \/ (p # e.staging /\ p # e.path) => Untouched(p)
    BY <1>3, CloseMoves
  <1> HIDE DEF sum, e
  <1>9. result'[n] = [ok |-> ~copying.failed, known |-> TRUE, sum |-> sum] /\ \A m \in ShareName : m # n => result'[m] = result[m]
    BY <1>1, <1>3 DEF DriveTypes
  <1>10. /\ DOMAIN guestFile' = ShareName /\ \A m \in ShareName : m # n => guestFile'[m] = guestFile[m]
         /\ copying.op = "Upload" /\ ~copying.failed => guestFile'[n] = sum
    BY <1>1, <1>3, <1>4 DEF DriveTypes, sum
  <1>11. ~Copies' /\ copying'.id = 0
    BY <1>3 DEF Copies, NoCopy
  <1>12. Grants'
    BY <1>1, <1>3, CloseKeepsHandles
  <1>13. DriveTypes'
    <2>1. UNCHANGED <<nextFileId, nextStagingId>> /\ DOMAIN openFiles' \subseteq DOMAIN openFiles
      BY <1>3 DEF CloseFile, Without
    <2>2. DOMAIN result' = ShareName /\ \A m \in ShareName : result'[m].ok \in BOOLEAN /\ result'[m].known \in BOOLEAN
      BY <1>1, <1>3, <1>4, <1>9 DEF DriveTypes
    <2>3. IsCopy(copying)' /\ copying'.failed \in BOOLEAN
      BY <1>3 DEF IsCopy, NoCopy
    <2>4. nextFileId \in Nat /\ copying'.id \in 0..(nextFileId - 1)
      BY <1>1, <1>11, DriveAssumption DEF DriveTypes
    <2> QED BY <1>1, <1>3, <1>10, <1>11, <2>1, <2>2, <2>3, <2>4 DEF DriveTypes
  <1>14. OwnHandle'
    BY <1>11 DEF OwnHandle
  <1>15. ASSUME NEW m \in ShareName, m # n PROVE Course(m)' /\ Content(m)'
    <2>1. Course(m) /\ Content(m)
      BY DEF DriveInv
    <2>2. Untouched(Shared(m))
      BY <1>4, <1>6, <1>7, <1>8, <1>15, NamesDiffer
    <2>3. ~Copied(m)'
      BY <1>11 DEF Copied
    <2> QED BY <1>3, <1>9, <1>10, <1>15, <2>1, <2>2, <2>3, TransferStays
  <1>16. ~Copied(n)' /\ n \notin asked'
    BY <1>3, <1>5, <1>11 DEF Copied
  <1>17. Course(n)'
    BY <1>3, <1>4, <1>5, <1>9, <1>16 DEF Course
  <1>18. Content(n)'
    <2>3. /\ result'[n].ok = ~copying.failed /\ result'[n].known = TRUE /\ result'[n].sum = sum
          /\ fetch' = fetch /\ fetch[n].pc \in {"asked", "stopped"} /\ copying.op = fetch[n].op
          /\ copying.op = "Upload" /\ ~copying.failed => guestFile'[n] = sum
      BY <1>3, <1>4, <1>5, <1>9, <1>10
    <2>1. CASE copying.op = "Upload"
      <3>1. Untouched(Shared(n))
        BY <1>6, <1>8, <2>1
      <3>2. (Placed(n)' <=> Placed(n)) /\ (Placed(n) => disk'[Shared(n)] = disk[Shared(n)])
        BY <3>1 DEF Placed, Untouched
      <3>3. (Placed(n) <=> fetch[n].pc = "asked") /\ (Placed(n) => disk[Shared(n)] = Whole)
        BY <1>2, <1>4, <2>1 DEF Content
      <3> QED BY <2>1, <2>3, <3>2, <3>3 DEF Content
    <2>2. CASE copying.op = "Download"
      <3>1. sum = Whole
        BY <2>2 DEF sum
      <3>2. ~copying.failed => Placed(n)' /\ disk'[Shared(n)] = Whole
        <4> SUFFICES ASSUME ~copying.failed PROVE Placed(n)' /\ disk'[Shared(n)] = Whole
          OBVIOUS
        <4>1. copying.todo = {}
          BY <1>3
        <4>2. disk[e.staging] = Whole /\ Len(disk[e.staging]) = FileChunks
          BY <1>6, <2>2, <4>1, AllIsWritten
        <4>3. finalize_write(e)
          BY <1>3, <1>6, <2>2 DEF CloseFile, e
        <4> QED BY <1>6, <2>2, <4>2, <4>3, Finalizes DEF Placed
      <3> QED BY <2>2, <2>3, <3>1, <3>2 DEF Content
    <2> QED BY <1>4, <2>1, <2>2
  <1> QED BY <1>12, <1>13, <1>14, <1>15, <1>17, <1>18 DEF DriveInv

LEMMA ExplorerOpensKeeps ==
    ASSUME DriveInv, NEW wire \in WirePath, NEW d, ExplorerOpens(wire, d)
    PROVE  DriveInv'
  <1> DEFINE e == Granted(wire, d)
  <1>1. DriveTypes /\ Grants /\ OwnHandle
    BY DEF DriveInv
  <1>2. linked /\ CreateFile(wire, d) /\ UNCHANGED <<fetch, asked, result, copying, guestFile, linked>>
    BY DEF ExplorerOpens, copyVars
  <1>3. /\ nextFileId \in Nat /\ nextStagingId \in Nat /\ nextStagingId \in 1..nextFileId /\ MaxFileId \in Nat
        /\ copying.id \in 0..(nextFileId - 1) /\ DOMAIN openFiles \subseteq 1..(nextFileId - 1)
    BY <1>1, DriveAssumption DEF DriveTypes
  <1>4. /\ e.kind # "none" /\ nextFileId <= MaxFileId /\ nextFileId' = nextFileId + 1
        /\ DOMAIN openFiles' = DOMAIN openFiles \cup {nextFileId}
        /\ \A i \in DOMAIN openFiles : i # nextFileId => openFiles'[i] = openFiles[i]
        /\ nextStagingId' = nextStagingId + (IF e.kind = "WriteFile" THEN 1 ELSE 0)
        /\ \A p : e.kind # "WriteFile" \/ p # e.staging => Untouched(p)
    BY <1>2, <1>3, Creates
  <1>5. e.kind = "WriteFile" => wire # <<>> /\ e.path = resolve_under_root(wire) /\ e.staging = Staged(nextStagingId)
    BY <1>4, GrantIsContained
  <1>6. e.kind = "WriteFile" => Apart(e.path)
    BY <1>5, ExplorerAssumption DEF Apart
  <1>7. Grants'
    BY <1>1, <1>2, <1>6, OpenKeepsHandles
  <1> HIDE DEF e
  <1>8. DriveTypes'
    <2>1. nextFileId' \in 1..(MaxFileId + 1) /\ nextStagingId' \in 1..nextFileId'
      BY <1>3, <1>4
    <2>2. DOMAIN openFiles' \subseteq 1..(nextFileId' - 1)
      BY <1>3, <1>4
    <2>3. copying'.id \in 0..(nextFileId' - 1)
      BY <1>2, <1>3, <1>4
    <2> QED BY <1>1, <1>2, <2>1, <2>2, <2>3 DEF DriveTypes, Copies, IsCopy
  <1>9. OwnHandle'
    <2>1. Copies /\ linked => copying.id \in DOMAIN openFiles' /\ openFiles'[copying.id] = openFiles[copying.id]
      BY <1>1, <1>3, <1>4 DEF OwnHandle
    <2>2. ASSUME Copies, linked, copying.op = "Download" PROVE Untouched(openFiles[copying.id].staging)
      <3>1. copying.id \in DOMAIN openFiles /\ openFiles[copying.id].kind = "WriteFile"
        BY <1>1, <2>2 DEF OwnHandle
      <3>2. PICK k \in 1..(nextStagingId - 1) : openFiles[copying.id].staging = Staged(k)
        BY <1>1, <3>1 DEF Grants, Grant
      <3>3. k \in 1..MaxFileId /\ nextStagingId \in 1..MaxFileId /\ k # nextStagingId
        BY <1>3, <1>4
      <3>4. Staged(k) # Staged(nextStagingId)
        BY <3>3, NamesDiffer
      <3> QED BY <1>4, <1>5, <3>2, <3>4
    <2> QED BY <1>1, <1>2, <2>1, <2>2, OwnStays
  <1>10. \A n \in ShareName : Untouched(Shared(n))
    BY <1>3, <1>4, <1>5, NamesDiffer
  <1>11. Copies' => Copies /\ copying'.share = copying.share
    BY <1>2 DEF Copies
  <1> QED BY <1>2, <1>7, <1>8, <1>9, <1>10, <1>11, Apartly

LEMMA ExplorerActsKeeps ==
    ASSUME DriveInv, NEW id \in DOMAIN openFiles, ExplorerActs(id)
    PROVE  DriveInv'
  <1>1. DriveTypes /\ Grants /\ OwnHandle
    BY DEF DriveInv
  <1>2. linked /\ id # copying.id /\ UNCHANGED <<fetch, asked, result, copying, guestFile, linked, nextFileId, nextStagingId>>
    BY DEF ExplorerActs, Foreign, copyVars, CloseFile, ReadBundle, QueryDirectory
  <1>3. Copies' => Copies /\ copying'.share = copying.share
    BY <1>2 DEF Copies
  <1>4. CASE CloseFile(id)
    <2>1. Grants'
      BY <1>1, <1>2, <1>4, CloseKeepsHandles
    <2>2. openFiles' = [i \in DOMAIN openFiles \ {id} |-> openFiles[i]]
      BY <1>4 DEF CloseFile, Without
    <2>3. \A p : openFiles[id].kind # "WriteFile" \/ (p # openFiles[id].staging /\ p # openFiles[id].path) => Untouched(p)
      BY <1>4, CloseMoves
    <2>4. openFiles[id].kind = "WriteFile" =>
             Apart(openFiles[id].path) /\ \E k \in 1..(nextStagingId - 1) : openFiles[id].staging = Staged(k)
      BY <1>1, <1>2 DEF Grants, Grant
    <2>5. nextStagingId \in Nat
      BY <1>1, DriveAssumption DEF DriveTypes
    <2>6. \A n \in ShareName : Untouched(Shared(n))
      BY <2>3, <2>4, <2>5, NamesDiffer DEF Apart
    <2>7. ASSUME Copies, linked, copying.op = "Download" PROVE Untouched(openFiles[copying.id].staging)
      <3>1. copying.id \in DOMAIN openFiles /\ openFiles[copying.id].kind = "WriteFile"
        BY <1>1, <2>7 DEF OwnHandle
      <3>2. openFiles[id].kind = "WriteFile" => openFiles[copying.id].staging # openFiles[id].staging
        BY <1>1, <1>2, <3>1 DEF Grants
      <3>3. PICK k \in 1..MaxFileId : openFiles[copying.id].staging = Staged(k)
        BY <1>1, <2>7, OwnStaged
      <3> QED BY <2>3, <2>4, <3>2, <3>3 DEF Apart
    <2>8. OwnHandle'
      <3>1. Copies /\ linked => copying.id \in DOMAIN openFiles' /\ openFiles'[copying.id] = openFiles[copying.id]
        BY <1>1, <1>2, <2>2 DEF OwnHandle
      <3> QED BY <1>1, <1>2, <2>7, <3>1, OwnStays
    <2>9. DriveTypes'
      BY <1>1, <1>2, <2>2 DEF DriveTypes, Copies, IsCopy
    <2> QED BY <1>2, <1>3, <2>1, <2>6, <2>8, <2>9, Apartly
  <1>5. CASE openFiles' = openFiles /\ disk' = disk
    <2>1. Grants'
      BY <1>1, <1>2, <1>5, SameHandles
    <2>2. OwnHandle'
      BY <1>1, <1>2, <1>5 DEF OwnHandle, Copies
    <2>3. DriveTypes'
      BY <1>1, <1>2, <1>5 DEF DriveTypes, Copies, IsCopy
    <2>4. \A n \in ShareName : Untouched(Shared(n))
      BY <1>5 DEF Untouched
    <2> QED BY <1>2, <1>3, <2>1, <2>2, <2>3, <2>4, Apartly
  <1>6. CloseFile(id) \/ (openFiles' = openFiles /\ disk' = disk)
    BY DEF ExplorerActs, ReadBundle, QueryDirectory
  <1> QED BY <1>4, <1>5, <1>6

LEMMA LinkLostKeeps == ASSUME DriveInv, LinkLost PROVE DriveInv'
  <1>1. DriveTypes /\ Grants /\ OwnHandle
    BY DEF DriveInv
  <1>2. /\ linked' = FALSE /\ openFiles' = <<>> /\ DOMAIN openFiles' = {}
        /\ UNCHANGED <<nextFileId, nextStagingId, disk, stages, fetch, asked, result, copying, guestFile>>
    BY DEF LinkLost
  <1>3. Grants'
    BY <1>2 DEF Grants
  <1>4. OwnHandle'
    BY <1>2 DEF OwnHandle
  <1>5. DriveTypes'
    BY <1>1, <1>2 DEF DriveTypes, Copies, IsCopy
  <1>6. \A n \in ShareName : Untouched(Shared(n))
    BY <1>2 DEF Untouched
  <1>7. Copies' => Copies /\ copying'.share = copying.share
    BY <1>2 DEF Copies
  <1> QED BY <1>2, <1>3, <1>4, <1>5, <1>6, <1>7, Apartly

LEMMA DriveStart == DriveInit => DriveInv
  <1> SUFFICES ASSUME DriveInit PROVE DriveInv
    OBVIOUS
  <1>1. DOMAIN openFiles = {} /\ copying = NoCopy /\ NoCopy.id = 0 /\ ~Copies
    BY DEF DriveInit, NoCopy, Copies
  <1>2. DriveTypes
    <2>1. IsCopy(NoCopy) /\ NoCopy.failed \in BOOLEAN
      BY DEF NoCopy, IsCopy
    <2>2. nextFileId = 1 /\ nextStagingId = 1 /\ MaxFileId \in Nat
      BY DriveAssumption DEF DriveInit
    <2>3. nextFileId \in 1..(MaxFileId + 1) /\ nextStagingId \in 1..nextFileId /\ 0 \in 0..(nextFileId - 1)
      BY <2>2
    <2> QED BY <1>1, <2>1, <2>3 DEF DriveInit, DriveTypes, NoResult
  <1>3. Grants /\ OwnHandle
    BY <1>1 DEF Grants, OwnHandle
  <1>4. ASSUME NEW n \in ShareName PROVE Course(n) /\ Content(n)
    <2>1. ~Placed(n)
      BY NamesDiffer DEF DriveInit, Placed
    <2> QED BY <1>1, <2>1 DEF DriveInit, Course, Content, Copied, NoResult
  <1> QED BY <1>2, <1>3, <1>4 DEF DriveInv

LEMMA DriveStep == DriveInv /\ [DriveNext]_driveVars => DriveInv'
  <1> SUFFICES ASSUME DriveInv, [DriveNext]_driveVars PROVE DriveInv'
    OBVIOUS
  <1>1. ASSUME NEW n \in ShareName, NEW op \in {"Upload", "Download"}, HostBegins(n, op) PROVE DriveInv'
    BY <1>1, HostBeginsKeeps
  <1>2. ASSUME NEW n \in ShareName, HostEnds(n) \/ HostStops(n) PROVE DriveInv'
    BY <1>2, HostLeavesKeeps
  <1>3. ASSUME NEW n \in ShareName, CopyBusy(n) PROVE DriveInv'
    BY <1>3, CopyBusyKeeps
  <1>4. ASSUME NEW n \in ShareName, CopyOpens(n) PROVE DriveInv'
    BY <1>4, CopyOpensKeeps
  <1>5. CASE CopyWrites
    BY <1>5, CopyWritesKeeps
  <1>6. CASE CopyAnnounces
    BY <1>6, CopyAnnouncesKeeps
  <1>7. CASE CopyReadsChunk \/ CopyFails
    BY <1>7, CopyGoesKeeps
  <1>8. CASE CopyCloses
    BY <1>8, CopyClosesKeeps
  <1>9. ASSUME NEW wire \in WirePath, NEW d \in {"FILE_OPEN", "FILE_CREATE"}, ExplorerOpens(wire, d) PROVE DriveInv'
    BY <1>9, ExplorerOpensKeeps
  <1>10. ASSUME NEW id \in DOMAIN openFiles, ExplorerActs(id) PROVE DriveInv'
    BY <1>10, ExplorerActsKeeps
  <1>11. CASE LinkLost
    BY <1>11, LinkLostKeeps
  <1>12. CASE UNCHANGED driveVars
    <2>1. UNCHANGED <<openFiles, listings, nextFileId, nextStagingId, disk, stages>>
      BY <1>12 DEF driveVars, ioVars
    <2>2. UNCHANGED <<fetch, asked, result, copying, guestFile, linked>>
      BY <1>12 DEF driveVars, copyVars
    <2>3. DriveTypes /\ Grants /\ OwnHandle
      BY DEF DriveInv
    <2>4. Grants'
      BY <2>1, <2>2, <2>3, SameHandles
    <2>5. OwnHandle'
      BY <2>1, <2>2, <2>3 DEF OwnHandle, Copies
    <2>6. DriveTypes'
      BY <2>1, <2>2, <2>3 DEF DriveTypes, Copies, IsCopy
    <2>7. \A n \in ShareName : Untouched(Shared(n))
      BY <2>1 DEF Untouched
    <2>8. Copies' => Copies /\ copying'.share = copying.share
      BY <2>2 DEF Copies
    <2> QED BY <2>2, <2>4, <2>5, <2>6, <2>7, <2>8, Apartly
  <1> QED BY <1>1, <1>2, <1>3, <1>4, <1>5, <1>6, <1>7, <1>8, <1>9, <1>10, <1>11, <1>12 DEF DriveNext

\* A transfer that is reported as done has moved the whole file, and no handle of
\* the drive leaves the share and the bundle (handle_create, finalize_write,
\* upload_file, download_file).
THEOREM TransfersAreWholeEver == DriveSpec => []TransfersAreWhole
  <1>1. DriveInv => TransfersAreWhole
    <2> SUFFICES ASSUME DriveInv PROVE TransfersAreWhole
      OBVIOUS
    <2>1. ASSUME NEW n \in ShareName
          PROVE  /\ fetch[n].pc = "ok" /\ fetch[n].op = "Upload" => guestFile[n] = Whole
                 /\ fetch[n].pc = "ok" => result[n].sum = Whole
                 /\ fetch[n].pc = "asked" /\ result[n].ok => disk[Shared(n)] = Whole
                 /\ Shared(n) \in DOMAIN disk =>
                       /\ fetch[n].pc \in {"asked", "stopped"}
                       /\ disk[Shared(n)] = Whole \/ (result[n].known /\ ~result[n].ok)
      <3>1. Course(n) /\ Content(n)
        BY DEF DriveInv
      <3>2. fetch[n].pc = "idle" \/ fetch[n].op = "Upload" \/ fetch[n].op = "Download"
        BY <3>1 DEF Course
      <3> QED BY <3>1, <3>2 DEF Course, Content, Placed
    <2>2. \A id \in DOMAIN openFiles :
             openFiles[id].kind \in {"File", "WriteFile"} =>
                \/ IsPrefix(ShareRoot, openFiles[id].path)
                \/ IsPrefix(BundleDir, openFiles[id].path) /\ openFiles[id].kind = "File"
      BY DEF DriveInv, Grants, Grant
    <2> QED BY <2>1, <2>2 DEF TransfersAreWhole
  <1> QED BY <1>1, DriveStart, DriveStep, PTL DEF DriveSpec

=============================================================================
