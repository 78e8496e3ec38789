---------------------------- MODULE CallPathProofs ----------------------------
(* Theorems about BundleCache, ClientCall and CuaStream, for every set of       *)
(* connects, versions and requests, of clients, daemon processes and verbs, and *)
(* of streams, messages and ids.                                                *)
EXTENDS BundleCache, ClientCall, CuaStream, FiniteSetTheorems, SequenceTheorems,
        WellFoundedInduction, TLAPS

-----------------------------------------------------------------------------
(* Max                                                                        *)

LessNat == OpToRel(<, Nat)

LEMMA LeastNat == ASSUME NEW T, T \subseteq Nat, T # {} PROVE \E x \in T : \A y \in T : x <= y
  <1>1. \A x, y \in Nat : x < y => <<x, y>> \in LessNat
    BY DEF OpToRel, LessNat
  <1>2. PICK x \in T : \A y \in T : ~ (<<y, x>> \in LessNat)
    BY NatLessThanWellFounded, WFMin DEF LessNat
  <1>3. ASSUME NEW y \in T PROVE x <= y
    <2>1. x \in Nat /\ y \in Nat
      OBVIOUS
    <2>2. ~ (y < x)
      BY <1>1, <1>2, <2>1
    <2> QED BY <2>1, <2>2
  <1> QED BY <1>3

\* A finite set of numbers has a greatest member: the least cardinality of one
\* without it would be followed by a lesser one.
HasMax(S) == \E x \in S : \A y \in S : x >= y
LEMMA FiniteHasMax == ASSUME NEW S, S \subseteq Nat, IsFiniteSet(S), S # {} PROVE HasMax(S)
  <1> DEFINE Bad == {n \in Nat : \E T \in SUBSET S : T # {} /\ IsFiniteSet(T) /\ Cardinality(T) = n /\ ~HasMax(T)}
  <1>1. SUFFICES ASSUME Bad # {} PROVE FALSE
    <2>1. Cardinality(S) \in Nat
      BY FS_CardinalityType
    <2> QED BY <2>1
  <1>2. PICK n \in Bad : \A k \in Bad : n <= k
    <2> HIDE DEF Bad
    <2>1. Bad \subseteq Nat
      BY DEF Bad
    <2> QED BY <1>1, <2>1, LeastNat
  <1>3. PICK T \in SUBSET S : T # {} /\ IsFiniteSet(T) /\ Cardinality(T) = n /\ ~HasMax(T)
    OBVIOUS
  <1>4. PICK x \in T : TRUE
    BY <1>3
  <1> DEFINE U == T \ {x}
  <1>5. IsFiniteSet(U) /\ Cardinality(U) = n - 1
    BY <1>3, FS_RemoveElement
  <1>6. U # {}
    <2>1. U = {} => T = {x}
      OBVIOUS
    <2>2. T = {x} => HasMax(T)
      BY DEF HasMax
    <2> QED BY <1>3, <2>1, <2>2
  <1>7. HasMax(U)
    <2>1. n - 1 \in Nat
      BY <1>5, FS_CardinalityType
    <2>2. n \in Nat /\ ~ (n <= n - 1)
      BY <2>1
    <2>3. n - 1 \notin Bad
      BY <1>2, <2>2
    <2> QED BY <1>5, <1>6, <2>1, <2>3
  <1>8. PICK m \in U : \A y \in U : m >= y
    BY <1>7 DEF HasMax
  <1>9. HasMax(T)
    <2>1. x \in Nat /\ m \in Nat /\ T \subseteq Nat
      BY <1>3
    <2>2. CASE x >= m
      <3>1. \A y \in T : x >= y
        BY <1>8, <2>1, <2>2
      <3> QED BY <3>1 DEF HasMax
    <2>3. CASE m >= x
      <3>1. \A y \in T : m >= y
        BY <1>8, <2>1, <2>3
      <3> QED BY <3>1 DEF HasMax
    <2> QED BY <2>1, <2>2, <2>3
  <1> QED BY <1>3, <1>9

LEMMA MaxIsIn == ASSUME NEW S, S \subseteq Version, S # {} PROVE Max(S) \in S
  <1>1. S \subseteq Nat /\ IsFiniteSet(S)
    BY BundleAssumption, FS_Subset
  <1>2. HasMax(S)
    BY <1>1, FiniteHasMax
  <1> QED BY <1>2 DEF HasMax, Max

\* select, newest: 0 or one of the versions there are.
LEMMA NewestIsIn == ASSUME NEW S, S \subseteq Version PROVE Newest(S) \in S \cup {0}
  <1> QED BY MaxIsIn DEF Newest

-----------------------------------------------------------------------------
(* BundleCache: the inductive invariant                                       *)

Health == {"absent", "good", "bad"}
Fetching == {"lookup", "discard", "miss", "fetched", "taken", "retry", "last"}
Assembling ==
    {"assemble", "stage", "rename", "lost", "clean", "clean lost", "clean final", "remove", "again", "final", "ready"}
ConnPc == {"idle", "cua", "channel", "cached", "bridge", "newest", "failed"} \cup Fetching \cup Assembling

AnyChannel == Channels \cup {"tag"} \cup {r.channel : r \in Request}

ConnState ==
    [pc : ConnPc, part : Component, channel : AnyChannel, tag : Version \cup {0}, auto : BOOLEAN,
     local : SUBSET {"cua", "bridge", "two archives"}, ver : [Component -> Version \cup {0}],
     todo : SUBSET Version, back : {"none", "miss", "cached", "retry"}, staged : {"good", "bad"}]

BundleTypes ==
    /\ entry \in [Component -> [Version -> Health]]
    /\ bundle \in [(Version \cup {0}) \X (Version \cup {0}) -> Health]
    /\ resolved \in [Channels \cup {"bridge/newest"} -> Version \cup {0}]
    /\ litter \subseteq Connect
    /\ conn \in [Connect -> ConnState]
    /\ crashes \in Nat

\* Where a connect is, and for which component.
Place(cn) ==
    /\ cn.pc \in {"cua", "channel", "cached"} => cn.part = "cua"
    /\ cn.pc \in {"bridge", "newest"} \cup Assembling => cn.part = "bridge"
    /\ cn.pc \in Fetching /\ cn.part = "cua" => cn.ver["cua"] # 0
    /\ cn.pc \in Fetching /\ cn.part = "bridge" => cn.ver["bridge"] # 0
    /\ cn.pc = "lookup" => cn.back \in {"miss", "cached"}
    /\ cn.pc = "discard" => cn.back # "none"
    /\ cn.pc \in {"lookup", "discard"} /\ cn.back = "cached" => cn.part = "cua"
    /\ cn.part = "cua" => cn.ver["bridge"] = 0

\* The driver that is looked up or at hand is the one that was asked for.
AsAsked(cn) ==
    \/ "cua" \in cn.local
    \/ cn.channel = "tag" /\ cn.ver["cua"] = cn.tag
    \/ cn.channel \in Channels /\ cn.ver["cua"] \in accepts(cn.channel)
Driver(cn) ==
    /\ cn.pc = "cua" /\ cn.channel = "tag" => cn.tag # 0
    /\ cn.pc \in {"channel", "cached"} => cn.channel \in Channels
    /\ cn.pc \in {"lookup", "discard"} /\ cn.back = "cached" => cn.channel \in Channels
    /\ cn.todo \subseteq accepts(cn.channel)
    /\ cn.pc \in {"bridge", "newest"} \cup Fetching \cup Assembling => AsAsked(cn)

RememberedFits == \A ch \in Channels : resolved[ch] \in accepts(ch) \cup {0}

\* Another bridge is looked for only when the daemon's own has no release.
OwnBridge(cn) ==
    /\ cn.pc = "newest" => OwnVersion \notin Published["bridge"]
    /\ cn.ver["bridge"] \in {0, OwnVersion} \/ OwnVersion \notin Published["bridge"]

\* A component that a connect has found or published is removed at most.
Sound(k, v) == v # 0 => entry[k][v] # "bad"
Whole(cn) ==
    /\ cn.pc \in {"bridge", "newest"} \cup Assembling \/ (cn.pc \in Fetching /\ cn.part = "bridge") =>
          Sound("cua", cn.ver["cua"])
    /\ cn.pc \in Assembling => Sound("bridge", cn.ver["bridge"])
    /\ cn.staged = "good"

\* What there is under the name of an assembled bundle.
Given(c) ==
    /\ conn[c].pc = "ready" => bundle[BundleId(c)] # "bad"
    /\ crashes = 0 => /\ conn[c].pc \notin {"clean", "clean lost", "clean final", "remove", "again", "final"}
                      /\ conn[c].pc \in {"ready", "lost"} => bundle[BundleId(c)] = "good"
Undamaged == crashes = 0 => \A id \in DOMAIN bundle : bundle[id] # "bad"

\* A connect that has something temporary is on its way to a rename.
Litters(cn) ==
    \/ cn.pc \in {"fetched", "taken", "retry", "last", "rename", "lost", "clean lost", "remove", "again"}
    \/ cn.pc = "discard" /\ cn.back = "retry"

Fine(c) ==
    /\ Place(conn[c])
    /\ Driver(conn[c])
    /\ OwnBridge(conn[c])
    /\ Whole(conn[c])
    /\ Given(c)
    /\ c \in litter => Litters(conn[c])

BundleInv ==
    /\ BundleTypes
    /\ RememberedFits
    /\ Undamaged
    /\ \A c \in Connect : Fine(c)

-----------------------------------------------------------------------------
(* ClientCall: who listens                                                    *)

DaemonPc == {"none", "probe", "unlink", "bind", "bound", "serving", "draining", "deaf", "leaving", "ended"}

ProcTypes ==
    /\ platform \in {"unix", "windows"}
    /\ name \in DaemonProcess \cup {0}
    /\ proc \in [DaemonProcess -> [pc : DaemonPc, saw : DaemonProcess \cup {0}, ours : BOOLEAN]]
    /\ raced \in BOOLEAN

\* Unix: whoever has the path has bound it, and listens until it ends.
PathIsBound == name # 0 => proc[name].pc \in {"bound", "serving", "draining", "ended"}

\* What a probe took for a stale file stays one.
Stale(d) == proc[d].pc = "unlink" => proc[d].saw = 0 \/ proc[proc[d].saw].pc = "ended"

Listeners ==
    IF platform = "unix"
    THEN /\ PathIsBound
         /\ \A d \in DaemonProcess : Stale(d) /\ proc[d].pc \notin {"deaf", "leaving"}
         /\ ~raced => \A d \in DaemonProcess : Listens(d) => name = d
    ELSE \A d, e \in DaemonProcess : Listens(d) /\ Listens(e) => d = e

ListenInv == ProcTypes /\ Listeners

-----------------------------------------------------------------------------
(* BundleCache: what the steps do to a connect, field by field               *)

Others(c) == conn' \in [Connect -> ConnState] /\ \A d \in Connect \ {c} : conn'[d] = conn[d]

\* One connect moves, and asks for what it asked for.
Goes(c, spot, part, cua, bridge, back, todo, staged) ==
    /\ Others(c)
    /\ conn'[c].pc = spot /\ conn'[c].part = part
    /\ conn'[c].ver["cua"] = cua /\ conn'[c].ver["bridge"] = bridge
    /\ conn'[c].back = back /\ conn'[c].todo = todo /\ conn'[c].staged = staged
    /\ conn'[c].channel = conn[c].channel /\ conn'[c].tag = conn[c].tag
    /\ conn'[c].auto = conn[c].auto /\ conn'[c].local = conn[c].local

\* One connect moves, with all that it has.
Moves(c, spot) ==
    Goes(c, spot, conn[c].part, conn[c].ver["cua"], conn[c].ver["bridge"], conn[c].back, conn[c].todo, conn[c].staged)

\* Its component is at hand.
Obtains(c, v) ==
    \/ conn[c].part = "cua" /\ Goes(c, "bridge", "bridge", v, conn[c].ver["bridge"], conn[c].back, conn[c].todo, conn[c].staged)
    \/ conn[c].part = "bridge" /\ Goes(c, "assemble", "bridge", conn[c].ver["cua"], v, conn[c].back, conn[c].todo, conn[c].staged)

\* It looks the version v of its component up.
LooksUp(c, v, back, todo) ==
    \/ conn[c].part = "cua" /\ Goes(c, "lookup", "cua", v, conn[c].ver["bridge"], back, todo, conn[c].staged)
    \/ conn[c].part = "bridge" /\ Goes(c, "lookup", "bridge", conn[c].ver["cua"], v, back, todo, conn[c].staged)

LEMMA OneConn ==
    ASSUME conn \in [Connect -> ConnState], NEW c \in Connect, NEW new \in ConnState,
           conn' = [conn EXCEPT ![c] = new]
    PROVE  Others(c) /\ conn'[c] = new
  <1> QED BY DEF Others

LEMMA PcMoves ==
    ASSUME conn \in [Connect -> ConnState], NEW c \in Connect, NEW spot \in ConnPc,
           conn' = [conn EXCEPT ![c] = [conn[c] EXCEPT !.pc = spot]]
    PROVE  Moves(c, spot)
  <1> DEFINE new == [conn[c] EXCEPT !.pc = spot]
  <1>1. conn[c] \in ConnState
    OBVIOUS
  <1>2. new \in ConnState
    BY <1>1 DEF ConnState
  <1>3. Others(c) /\ conn'[c] = new
    BY <1>2, OneConn
  <1>4. /\ new.pc = spot /\ new.part = conn[c].part /\ new.ver = conn[c].ver /\ new.back = conn[c].back
        /\ new.todo = conn[c].todo /\ new.staged = conn[c].staged /\ new.channel = conn[c].channel
        /\ new.tag = conn[c].tag /\ new.auto = conn[c].auto /\ new.local = conn[c].local
    BY <1>1 DEF ConnState
  <1> QED BY <1>3, <1>4 DEF Moves, Goes

LEMMA PcGoes ==
    ASSUME conn \in [Connect -> ConnState], NEW c \in Connect, NEW spot \in ConnPc, ConnGoes(c, spot)
    PROVE  Moves(c, spot)
  <1>1. conn' = [conn EXCEPT ![c] = [conn[c] EXCEPT !.pc = spot]]
    BY DEF ConnGoes
  <1> QED BY <1>1, PcMoves

LEMMA Obtaining ==
    ASSUME conn \in [Connect -> ConnState], NEW c \in Connect, NEW v \in Version \cup {0},
           conn' = [conn EXCEPT ![c] = Obtained(conn[c], v)]
    PROVE  Obtains(c, v)
  <1> DEFINE new == Obtained(conn[c], v)
  <1>1. conn[c] \in ConnState /\ conn[c].part \in {"cua", "bridge"} /\ conn[c].ver \in [{"cua", "bridge"} -> Version \cup {0}]
    BY DEF ConnState, Component
  <1>2. CASE conn[c].part = "cua"
    <2>1. new = [conn[c] EXCEPT !.ver["cua"] = v, !.part = "bridge", !.pc = "bridge"]
      BY <1>2 DEF Obtained
    <2>2. /\ new \in ConnState
          /\ new.pc = "bridge" /\ new.part = "bridge" /\ new.ver["cua"] = v /\ new.ver["bridge"] = conn[c].ver["bridge"]
          /\ new.back = conn[c].back /\ new.todo = conn[c].todo /\ new.staged = conn[c].staged
          /\ new.channel = conn[c].channel /\ new.tag = conn[c].tag /\ new.auto = conn[c].auto /\ new.local = conn[c].local
      <3> HIDE DEF new
      <3> QED BY <1>1, <2>1 DEF ConnState, Component, ConnPc
    <2>3. Others(c) /\ conn'[c] = new
      BY <2>2, OneConn
    <2> HIDE DEF new
    <2> QED BY <1>2, <2>2, <2>3 DEF Obtains, Goes
  <1>3. CASE conn[c].part = "bridge"
    <2>1. new = [conn[c] EXCEPT !.ver["bridge"] = v, !.pc = "assemble"]
      BY <1>3 DEF Obtained
    <2>2. /\ new \in ConnState
          /\ new.pc = "assemble" /\ new.part = "bridge" /\ new.ver["cua"] = conn[c].ver["cua"] /\ new.ver["bridge"] = v
          /\ new.back = conn[c].back /\ new.todo = conn[c].todo /\ new.staged = conn[c].staged
          /\ new.channel = conn[c].channel /\ new.tag = conn[c].tag /\ new.auto = conn[c].auto /\ new.local = conn[c].local
      <3> HIDE DEF new
      <3> QED BY <1>1, <1>3, <2>1 DEF ConnState, Component, ConnPc, Assembling
    <2>3. Others(c) /\ conn'[c] = new
      BY <2>2, OneConn
    <2> HIDE DEF new
    <2> QED BY <1>3, <2>2, <2>3 DEF Obtains, Goes
  <1> QED BY <1>1, <1>2, <1>3

\* Its next place is the lookup of a driver.
LEMMA LookingUpDriver ==
    ASSUME conn \in [Connect -> ConnState], NEW c \in Connect, NEW v \in Version \cup {0},
           NEW back \in {"miss", "cached"}, NEW todo \in SUBSET Version,
           conn' = [conn EXCEPT ![c] = [conn[c] EXCEPT !.ver["cua"] = v, !.todo = todo, !.pc = "lookup", !.back = back]]
    PROVE  Goes(c, "lookup", conn[c].part, v, conn[c].ver["bridge"], back, todo, conn[c].staged)
  <1> DEFINE new == [conn[c] EXCEPT !.ver["cua"] = v, !.todo = todo, !.pc = "lookup", !.back = back]
  <1>1. conn[c] \in ConnState /\ conn[c].ver \in [{"cua", "bridge"} -> Version \cup {0}]
    BY DEF ConnState, Component
  <1>2. /\ new \in ConnState
        /\ new.pc = "lookup" /\ new.part = conn[c].part /\ new.ver["cua"] = v /\ new.ver["bridge"] = conn[c].ver["bridge"]
        /\ new.back = back /\ new.todo = todo /\ new.staged = conn[c].staged
        /\ new.channel = conn[c].channel /\ new.tag = conn[c].tag /\ new.auto = conn[c].auto /\ new.local = conn[c].local
    BY <1>1 DEF ConnState, Component, ConnPc, Fetching
  <1>3. Others(c) /\ conn'[c] = new
    BY <1>2, OneConn
  <1> HIDE DEF new
  <1> QED BY <1>2, <1>3 DEF Goes

\* ... of a bridge.
LEMMA LookingUpBridge ==
    ASSUME conn \in [Connect -> ConnState], NEW c \in Connect, NEW v \in Version \cup {0},
           conn' = [conn EXCEPT ![c] = [conn[c] EXCEPT !.ver["bridge"] = v, !.pc = "lookup", !.back = "miss"]]
    PROVE  Goes(c, "lookup", conn[c].part, conn[c].ver["cua"], v, "miss", conn[c].todo, conn[c].staged)
  <1> DEFINE new == [conn[c] EXCEPT !.ver["bridge"] = v, !.pc = "lookup", !.back = "miss"]
  <1>1. conn[c] \in ConnState /\ conn[c].ver \in [{"cua", "bridge"} -> Version \cup {0}]
    BY DEF ConnState, Component
  <1>2. /\ new \in ConnState
        /\ new.pc = "lookup" /\ new.part = conn[c].part /\ new.ver["cua"] = conn[c].ver["cua"] /\ new.ver["bridge"] = v
        /\ new.back = "miss" /\ new.todo = conn[c].todo /\ new.staged = conn[c].staged
        /\ new.channel = conn[c].channel /\ new.tag = conn[c].tag /\ new.auto = conn[c].auto /\ new.local = conn[c].local
    BY <1>1 DEF ConnState, Component, ConnPc, Fetching
  <1>3. Others(c) /\ conn'[c] = new
    BY <1>2, OneConn
  <1> HIDE DEF new
  <1> QED BY <1>2, <1>3 DEF Goes

\* The pc and one more field.
LEMMA PcAndBack ==
    ASSUME conn \in [Connect -> ConnState], NEW c \in Connect, NEW spot \in ConnPc, NEW back \in {"none", "miss", "cached", "retry"},
           NEW todo \in SUBSET Version, NEW staged \in {"good", "bad"},
           conn' = [conn EXCEPT ![c] = [conn[c] EXCEPT !.pc = spot, !.back = back, !.todo = todo, !.staged = staged]]
    PROVE  Goes(c, spot, conn[c].part, conn[c].ver["cua"], conn[c].ver["bridge"], back, todo, staged)
  <1> DEFINE new == [conn[c] EXCEPT !.pc = spot, !.back = back, !.todo = todo, !.staged = staged]
  <1>1. conn[c] \in ConnState
    OBVIOUS
  <1>2. /\ new \in ConnState
        /\ new.pc = spot /\ new.part = conn[c].part /\ new.ver = conn[c].ver
        /\ new.back = back /\ new.todo = todo /\ new.staged = staged
        /\ new.channel = conn[c].channel /\ new.tag = conn[c].tag /\ new.auto = conn[c].auto /\ new.local = conn[c].local
    BY <1>1 DEF ConnState
  <1>3. Others(c) /\ conn'[c] = new
    BY <1>2, OneConn
  <1> HIDE DEF new
  <1> QED BY <1>2, <1>3 DEF Goes

-----------------------------------------------------------------------------
(* ... and which steps there are                                             *)

LEMMA PrepareDoes ==
    ASSUME BundleTypes, NEW c \in Connect, NEW r \in Request, Prepare(c, r.channel, r.tag, r.auto, r.local)
    PROVE  /\ conn[c].pc = "idle" /\ Others(c)
           /\ conn'[c].pc \in {"cua", "failed"} /\ conn'[c].part = "cua" /\ conn'[c].ver["cua"] = 0 /\ conn'[c].ver["bridge"] = 0
           /\ conn'[c].todo = {} /\ conn'[c].back = "none" /\ conn'[c].staged = "good"
           /\ conn'[c].channel = "tag" => conn'[c].tag # 0
  <1> DEFINE new == [NoConn EXCEPT !.pc = IF ScanLocal(r.local) THEN "cua" ELSE "failed", !.channel = r.channel,
                                   !.tag = r.tag, !.auto = r.auto, !.local = r.local]
  <1>1. r \in [channel : STRING, tag : Version \cup {0}, auto : BOOLEAN, local : SUBSET {"cua", "bridge", "two archives"}]
        /\ (r.channel = "tag" => r.tag # 0)
    BY BundleAssumption
  <1>2. NoConn.ver \in [Component -> Version \cup {0}] /\ NoConn.ver["cua"] = 0 /\ NoConn.ver["bridge"] = 0
    BY DEF NoConn, Component
  <1>3. /\ new \in ConnState
        /\ new.pc \in {"cua", "failed"} /\ new.part = "cua" /\ new.ver = NoConn.ver /\ new.todo = {} /\ new.back = "none"
        /\ new.staged = "good" /\ new.channel = r.channel /\ new.tag = r.tag
    <2>1. r.channel \in AnyChannel
      BY DEF AnyChannel
    <2> QED BY <1>1, <1>2, <2>1 DEF NoConn, ConnState, Component, ConnPc
  <1>4. conn' = [conn EXCEPT ![c] = new] /\ conn[c].pc = "idle"
    BY DEF Prepare
  <1>5. Others(c) /\ conn'[c] = new
    BY <1>3, <1>4, OneConn DEF BundleTypes
  <1> HIDE DEF new
  <1> QED BY <1>1, <1>2, <1>3, <1>4, <1>5

LEMMA CuaDoes ==
    ASSUME BundleTypes, NEW c \in Connect, Cua(c)
    PROVE  /\ conn[c].pc = "cua"
           /\ \/ Moves(c, "failed")
              \/ "cua" \in conn[c].local /\ Obtains(c, 0)
              \/ conn[c].channel \in Channels /\ Moves(c, "channel")
              \/ /\ conn[c].channel = "tag"
                 /\ Goes(c, "lookup", conn[c].part, conn[c].tag, conn[c].ver["bridge"], "miss", conn[c].todo, conn[c].staged)
  <1>1. conn \in [Connect -> ConnState] /\ conn[c] \in ConnState
    BY DEF BundleTypes
  <1>2. CASE ~ParseWanted(conn[c])
    <2>1. conn' = [conn EXCEPT ![c] = [conn[c] EXCEPT !.pc = "failed"]] /\ "failed" \in ConnPc
      BY <1>2 DEF Cua, ConnPc
    <2> QED BY <1>1, <2>1, PcMoves DEF Cua
  <1>3. CASE ParseWanted(conn[c]) /\ "cua" \in conn[c].local
    <2>1. conn' = [conn EXCEPT ![c] = Obtained(conn[c], 0)]
      BY <1>3 DEF Cua
    <2> QED BY <1>1, <1>3, <2>1, Obtaining DEF Cua
  <1>4. CASE ParseWanted(conn[c]) /\ "cua" \notin conn[c].local /\ conn[c].channel \in Channels
    <2>1. conn' = [conn EXCEPT ![c] = [conn[c] EXCEPT !.pc = "channel"]] /\ "channel" \in ConnPc
      BY <1>4 DEF Cua, ConnPc
    <2> QED BY <1>1, <1>4, <2>1, PcMoves DEF Cua
  <1>5. CASE ParseWanted(conn[c]) /\ "cua" \notin conn[c].local /\ conn[c].channel \notin Channels
    <2>1. conn' = [conn EXCEPT ![c] = [conn[c] EXCEPT !.ver["cua"] = conn[c].tag, !.pc = "lookup", !.back = "miss"]]
      BY <1>5 DEF Cua
    <2>2. conn' = [conn EXCEPT ![c] = [conn[c] EXCEPT !.ver["cua"] = conn[c].tag, !.todo = conn[c].todo, !.pc = "lookup", !.back = "miss"]]
      BY <1>1, <2>1 DEF ConnState
    <2>3. conn[c].tag \in Version \cup {0} /\ conn[c].todo \in SUBSET Version
      BY <1>1 DEF ConnState
    <2>4. Goes(c, "lookup", conn[c].part, conn[c].tag, conn[c].ver["bridge"], "miss", conn[c].todo, conn[c].staged)
      BY <1>1, <2>2, <2>3, LookingUpDriver
    <2>5. conn[c].channel = "tag"
      BY <1>5 DEF ParseWanted
    <2> QED BY <2>4, <2>5 DEF Cua
  <1> QED BY <1>2, <1>3, <1>4, <1>5

\* The keys of what is remembered.
Keys == Channels \cup {"bridge/newest"}

LEMMA ResolveChannelDoes ==
    ASSUME BundleTypes, RememberedFits, NEW c \in Connect, conn[c].channel \in Channels, ResolveChannel(c)
    PROVE  /\ conn[c].pc = "channel"
           /\ resolved' \in [Keys -> Version \cup {0}] /\ RememberedFits'
           /\ \/ Moves(c, "failed")
              \/ \E todo \in SUBSET Version :
                    /\ todo \subseteq accepts(conn[c].channel)
                    /\ Goes(c, "cached", conn[c].part, conn[c].ver["cua"], conn[c].ver["bridge"], conn[c].back, todo, conn[c].staged)
              \/ \E v \in Version :
                    /\ v \in accepts(conn[c].channel)
                    /\ Goes(c, "lookup", conn[c].part, v, conn[c].ver["bridge"], "miss", conn[c].todo, conn[c].staged)
  <1> DEFINE ch == conn[c].channel
             found == Newest(Published["cua"] \cap accepts(ch))
             to(v) == [conn EXCEPT ![c].ver["cua"] = v, ![c].pc = "lookup", ![c].back = "miss"]
             cached == [conn EXCEPT ![c].pc = "cached", ![c].todo = Cached(c)]
  <1>1. /\ conn \in [Connect -> ConnState] /\ conn[c] \in ConnState
        /\ resolved \in [Keys -> Version \cup {0}] /\ ch \in Keys
    BY DEF BundleTypes, Keys
  <1>2. Published["cua"] \subseteq Version /\ StableVersion \subseteq Version
    BY BundleAssumption
  <1>3. found \in (Published["cua"] \cap accepts(ch)) \cup {0}
    BY <1>2, NewestIsIn
  <1>4. 0 \notin Version
    BY BundleAssumption
  <1>5. ASSUME NEW v \in Version, v \in accepts(ch), conn' = to(v)
        PROVE  Goes(c, "lookup", conn[c].part, v, conn[c].ver["bridge"], "miss", conn[c].todo, conn[c].staged)
    <2>1. conn' = [conn EXCEPT ![c] = [conn[c] EXCEPT !.ver["cua"] = v, !.todo = conn[c].todo, !.pc = "lookup", !.back = "miss"]]
      <3>1. conn' = [conn EXCEPT ![c] = [conn[c] EXCEPT !.ver["cua"] = v, !.pc = "lookup", !.back = "miss"]]
        BY <1>5
      <3> QED BY <1>1, <3>1 DEF ConnState
    <2>2. conn[c].todo \in SUBSET Version
      BY <1>1 DEF ConnState
    <2> QED BY <1>1, <2>1, <2>2, LookingUpDriver
  <1>6. ASSUME conn' = cached
        PROVE  \E todo \in SUBSET Version :
                    /\ todo \subseteq accepts(conn[c].channel)
                    /\ Goes(c, "cached", conn[c].part, conn[c].ver["cua"], conn[c].ver["bridge"], conn[c].back, todo, conn[c].staged)
    <2>1. Cached(c) \in SUBSET Version /\ Cached(c) \subseteq accepts(conn[c].channel)
      BY <1>2 DEF Cached, accepts
    <2>2. conn' = [conn EXCEPT ![c] = [conn[c] EXCEPT !.pc = "cached", !.back = conn[c].back, !.todo = Cached(c), !.staged = conn[c].staged]]
      <3>1. conn' = [conn EXCEPT ![c] = [conn[c] EXCEPT !.pc = "cached", !.todo = Cached(c)]]
        BY <1>6
      <3> QED BY <1>1, <3>1 DEF ConnState
    <2>3. "cached" \in ConnPc /\ conn[c].back \in {"none", "miss", "cached", "retry"} /\ conn[c].staged \in {"good", "bad"}
      BY <1>1 DEF ConnState, ConnPc
    <2> QED BY <1>1, <2>1, <2>2, <2>3, PcAndBack
  <1>7. conn[c].pc = "channel"
    BY DEF ResolveChannel
  <1>8. \/ conn' = cached /\ resolved' = resolved
        \/ \E v \in RememberedTag(ch) \ {0} : conn' = to(v) /\ resolved' = resolved
        \/ found # 0 /\ conn' = to(found) /\ resolved' = [resolved EXCEPT ![ch] = found]
        \/ ConnFails(c) /\ resolved' = resolved
    BY DEF ResolveChannel, Remember
  <1>9. resolved' = resolved => resolved' \in [Keys -> Version \cup {0}] /\ RememberedFits'
    BY <1>1 DEF RememberedFits, accepts
  <1>10. CASE conn' = cached /\ resolved' = resolved
    BY <1>6, <1>7, <1>9, <1>10
  <1>11. CASE \E v \in RememberedTag(ch) \ {0} : conn' = to(v) /\ resolved' = resolved
    <2>1. PICK v \in RememberedTag(ch) \ {0} : conn' = to(v) /\ resolved' = resolved
      BY <1>11
    <2>2. v \in accepts(ch) /\ v \in Version
      <3>1. v = resolved[ch] /\ v # 0
        BY <2>1 DEF RememberedTag
      <3>2. resolved[ch] \in accepts(ch) \cup {0}
        BY DEF RememberedFits
      <3> QED BY <1>2, <3>1, <3>2 DEF accepts
    <2>3. Goes(c, "lookup", conn[c].part, v, conn[c].ver["bridge"], "miss", conn[c].todo, conn[c].staged)
      BY <1>5, <2>1, <2>2
    <2> QED BY <1>7, <1>9, <2>1, <2>2, <2>3
  <1>12. CASE found # 0 /\ conn' = to(found) /\ resolved' = [resolved EXCEPT ![ch] = found]
    <2>1. found \in accepts(ch) /\ found \in Version
      BY <1>2, <1>3, <1>12
    <2>2. Goes(c, "lookup", conn[c].part, found, conn[c].ver["bridge"], "miss", conn[c].todo, conn[c].staged)
      BY <1>5, <1>12, <2>1
    <2>3. resolved' \in [Keys -> Version \cup {0}] /\ \A key \in Keys : resolved'[key] = IF key = ch THEN found ELSE resolved[key]
      <3> HIDE DEF found, ch
      <3> QED BY <1>1, <1>12, <2>1
    <2>4. RememberedFits'
      <3>1. \A key \in Channels : resolved[key] \in accepts(key) \cup {0}
        BY DEF RememberedFits
      <3>2. \A key \in Channels : resolved'[key] \in accepts(key) \cup {0}
        <4> HIDE DEF found
        <4> QED BY <2>1, <2>3, <3>1 DEF Keys
      <3> QED BY <3>2 DEF RememberedFits, accepts
    <2> HIDE DEF found, to
    <2> QED BY <1>7, <2>1, <2>2, <2>3, <2>4
  <1>13. CASE ConnFails(c) /\ resolved' = resolved
    <2>1. Moves(c, "failed")
      BY <1>1, <1>13, PcGoes DEF ConnFails, ConnPc
    <2> QED BY <1>7, <1>9, <1>13, <2>1
  <1> QED BY <1>8, <1>10, <1>11, <1>12, <1>13

LEMMA NewestCachedDoes ==
    ASSUME BundleTypes, NEW c \in Connect, NewestCached(c)
    PROVE  /\ conn[c].pc = "cached"
           /\ \/ Moves(c, "failed")
              \/ \E v \in conn[c].todo :
                    Goes(c, "lookup", conn[c].part, v, conn[c].ver["bridge"], "cached", conn[c].todo \ {v}, conn[c].staged)
  <1>1. conn \in [Connect -> ConnState] /\ conn[c] \in ConnState /\ conn[c].todo \in SUBSET Version
    BY DEF BundleTypes, ConnState
  <1>2. CASE conn[c].todo = {}
    <2>1. conn' = [conn EXCEPT ![c] = [conn[c] EXCEPT !.pc = "failed"]] /\ "failed" \in ConnPc
      BY <1>2 DEF NewestCached, ConnPc
    <2> QED BY <1>1, <2>1, PcMoves DEF NewestCached
  <1>3. CASE conn[c].todo # {}
    <2> DEFINE v == Max(conn[c].todo)
    <2>1. v \in conn[c].todo
      BY <1>1, <1>3, MaxIsIn
    <2>2. conn' = [conn EXCEPT ![c] = [conn[c] EXCEPT !.ver["cua"] = v, !.todo = conn[c].todo \ {v}, !.pc = "lookup", !.back = "cached"]]
      BY <1>3 DEF NewestCached
    <2>3. v \in Version \cup {0} /\ conn[c].todo \ {v} \in SUBSET Version
      BY <1>1, <2>1
    <2> HIDE DEF v
    <2>4. Goes(c, "lookup", conn[c].part, v, conn[c].ver["bridge"], "cached", conn[c].todo \ {v}, conn[c].staged)
      BY <1>1, <2>2, <2>3, LookingUpDriver
    <2> QED BY <2>1, <2>4 DEF NewestCached
  <1> QED BY <1>2, <1>3

\* What an entry of the cache becomes.
EntryIs(k, v, what) ==
    /\ entry' \in [Component -> [Version -> Health]]
    /\ \A m \in Component, u \in Version : entry'[m][u] = IF m = k /\ u = v THEN what ELSE entry[m][u]

LEMMA EntryChanges ==
    ASSUME BundleTypes, NEW c \in Connect, NEW what \in Health, EntryBecomes(c, what),
           conn[c].ver[conn[c].part] # 0
    PROVE  EntryIs(conn[c].part, conn[c].ver[conn[c].part], what)
  <1> DEFINE k == conn[c].part
             v == conn[c].ver[k]
  <1>1. k \in Component /\ v \in Version /\ entry \in [Component -> [Version -> Health]]
    <2>1. conn[c] \in ConnState /\ entry \in [Component -> [Version -> Health]]
      BY DEF BundleTypes
    <2>2. conn[c].part \in Component /\ conn[c].ver \in [Component -> Version \cup {0}]
      BY <2>1 DEF ConnState
    <2> QED BY <2>1, <2>2
  <1>2. entry' = [entry EXCEPT ![k][v] = what]
    BY DEF EntryBecomes
  <1> HIDE DEF k, v
  <1>3. entry' \in [Component -> [Version -> Health]]
    BY <1>1, <1>2
  <1>4. \A m \in Component, u \in Version : entry'[m][u] = IF m = k /\ u = v THEN what ELSE entry[m][u]
    BY <1>1, <1>2
  <1>5. EntryIs(k, v, what)
    BY <1>3, <1>4 DEF EntryIs
  <1> QED BY <1>5 DEF k, v

\* What an assembled bundle becomes.
BundleIs(c, what) ==
    /\ bundle' \in [(Version \cup {0}) \X (Version \cup {0}) -> Health]
    /\ \A id \in DOMAIN bundle : bundle'[id] = IF id = BundleId(c) THEN what ELSE bundle[id]

LEMMA IdIsThere ==
    ASSUME BundleTypes, NEW c \in Connect
    PROVE  BundleId(c) \in DOMAIN bundle /\ DOMAIN bundle = (Version \cup {0}) \X (Version \cup {0})
  <1>1. conn[c] \in ConnState /\ DOMAIN bundle = (Version \cup {0}) \X (Version \cup {0})
    BY DEF BundleTypes
  <1>2. conn[c].ver["cua"] \in Version \cup {0} /\ conn[c].ver["bridge"] \in Version \cup {0}
    BY <1>1 DEF ConnState, Component
  <1> QED BY <1>1, <1>2 DEF BundleId

LEMMA BundleChanges ==
    ASSUME BundleTypes, NEW c \in Connect, NEW what \in Health, BundleBecomes(c, what)
    PROVE  BundleIs(c, what)
  <1> DEFINE i == BundleId(c)
  <1>1. i \in DOMAIN bundle /\ DOMAIN bundle = (Version \cup {0}) \X (Version \cup {0})
    BY IdIsThere
  <1>2. bundle' = [bundle EXCEPT ![i] = what] /\ bundle \in [(Version \cup {0}) \X (Version \cup {0}) -> Health]
    BY DEF BundleBecomes, BundleTypes
  <1>3. /\ bundle' \in [(Version \cup {0}) \X (Version \cup {0}) -> Health]
        /\ \A id \in DOMAIN bundle : bundle'[id] = IF id = i THEN what ELSE bundle[id]
    <2> HIDE DEF i
    <2> DEFINE D == DOMAIN bundle
    <2>1. bundle \in [D -> Health] /\ i \in D /\ what \in Health /\ D = (Version \cup {0}) \X (Version \cup {0})
      BY <1>1, <1>2
    <2> HIDE DEF D
    <2>2. bundle' \in [D -> Health] /\ \A id \in D : bundle'[id] = IF id = i THEN what ELSE bundle[id]
      BY <1>2, <2>1
    <2> QED BY <2>1, <2>2 DEF D
  <1> QED BY <1>3 DEF BundleIs

LEMMA LookupDoes ==
    ASSUME BundleTypes, NEW c \in Connect, Place(conn[c]), Lookup(c)
    PROVE  /\ conn[c].pc = "lookup"
           /\ \/ /\ Here(c) = "good" /\ conn[c].back = "cached"
                 /\ Goes(c, "lookup", conn[c].part, conn[c].ver["cua"], conn[c].ver["bridge"], "miss", conn[c].todo, conn[c].staged)
              \/ Here(c) = "good" /\ conn[c].back # "cached" /\ Obtains(c, conn[c].ver[conn[c].part])
              \/ Here(c) = "bad" /\ Moves(c, "discard")
              \/ Here(c) = "absent" /\ Moves(c, conn[c].back)
  <1>1. conn \in [Connect -> ConnState] /\ conn[c] \in ConnState /\ conn[c].pc = "lookup"
    BY DEF BundleTypes, Lookup
  <1>2. conn[c].part \in Component /\ conn[c].ver[conn[c].part] \in Version /\ conn[c].back \in {"miss", "cached"}
    <2>1. conn[c].part \in {"cua", "bridge"} /\ conn[c].ver \in [Component -> Version \cup {0}]
      BY <1>1 DEF ConnState, Component
    <2>2. /\ conn[c].part = "cua" => conn[c].ver["cua"] # 0
          /\ conn[c].part = "bridge" => conn[c].ver["bridge"] # 0
          /\ conn[c].back \in {"miss", "cached"}
      BY <1>1 DEF Place, Fetching
    <2> QED BY <2>1, <2>2 DEF Component
  <1>3. Here(c) \in Health
    BY <1>2 DEF Here, BundleTypes
  <1>4. CASE Here(c) = "good" /\ conn[c].back = "cached"
    <2>1. conn' = [conn EXCEPT ![c] = [conn[c] EXCEPT !.back = "miss"]]
      BY <1>4 DEF Lookup
    <2>2. conn' = [conn EXCEPT ![c] = [conn[c] EXCEPT !.pc = "lookup", !.back = "miss", !.todo = conn[c].todo, !.staged = conn[c].staged]]
      BY <1>1, <2>1 DEF ConnState
    <2>3. "lookup" \in ConnPc /\ conn[c].todo \in SUBSET Version /\ conn[c].staged \in {"good", "bad"}
      BY <1>1 DEF ConnState, ConnPc, Fetching
    <2>4. Goes(c, "lookup", conn[c].part, conn[c].ver["cua"], conn[c].ver["bridge"], "miss", conn[c].todo, conn[c].staged)
      BY <1>1, <2>2, <2>3, PcAndBack
    <2> QED BY <1>1, <1>4, <2>4
  <1>5. CASE Here(c) = "good" /\ conn[c].back # "cached"
    <2>1. conn' = [conn EXCEPT ![c] = Obtained(conn[c], conn[c].ver[conn[c].part])]
      BY <1>5 DEF Lookup
    <2>2. Obtains(c, conn[c].ver[conn[c].part])
      BY <1>1, <1>2, <2>1, Obtaining
    <2> QED BY <1>1, <1>5, <2>2
  <1>6. CASE Here(c) = "bad"
    <2>1. conn' = [conn EXCEPT ![c] = [conn[c] EXCEPT !.pc = "discard"]] /\ "discard" \in ConnPc
      BY <1>6 DEF Lookup, ConnPc, Fetching
    <2> QED BY <1>1, <1>6, <2>1, PcMoves
  <1>7. CASE Here(c) = "absent"
    <2>1. conn' = [conn EXCEPT ![c] = [conn[c] EXCEPT !.pc = conn[c].back]] /\ conn[c].back \in ConnPc
      BY <1>2, <1>7 DEF Lookup, ConnPc, Fetching
    <2> QED BY <1>1, <1>7, <2>1, PcMoves
  <1> QED BY <1>3, <1>4, <1>5, <1>6, <1>7 DEF Health

LEMMA DiscardDoes ==
    ASSUME BundleTypes, NEW c \in Connect, Place(conn[c]), Discard(c)
    PROVE  /\ conn[c].pc = "discard" /\ conn[c].back \in {"miss", "cached", "retry"}
           /\ Moves(c, conn[c].back)
           /\ EntryIs(conn[c].part, conn[c].ver[conn[c].part], "absent")
  <1>1. conn \in [Connect -> ConnState] /\ conn[c] \in ConnState /\ conn[c].pc = "discard"
    BY DEF BundleTypes, Discard
  <1>2. conn[c].back \in {"miss", "cached", "retry"} /\ conn[c].ver[conn[c].part] # 0
    <2>1. conn[c].part \in {"cua", "bridge"} /\ conn[c].back \in {"none", "miss", "cached", "retry"}
      BY <1>1 DEF ConnState, Component
    <2> QED BY <1>1, <2>1 DEF Place, Fetching
  <1>3. conn[c].back \in ConnPc /\ "absent" \in Health
    BY <1>2 DEF ConnPc, Fetching, Health
  <1>4. Moves(c, conn[c].back)
    BY <1>1, <1>3, PcGoes DEF Discard
  <1>5. EntryIs(conn[c].part, conn[c].ver[conn[c].part], "absent")
    BY <1>2, <1>3, EntryChanges DEF Discard
  <1> QED BY <1>1, <1>2, <1>4, <1>5

LEMMA BridgeOwnDoes ==
    ASSUME BundleTypes, NEW c \in Connect, Place(conn[c]), BridgeOwn(c)
    PROVE  /\ conn[c].pc = "bridge"
           /\ \/ Obtains(c, 0)
              \/ Goes(c, "lookup", conn[c].part, conn[c].ver["cua"], OwnVersion, "miss", conn[c].todo, conn[c].staged)
  <1>1. conn \in [Connect -> ConnState] /\ conn[c].pc = "bridge"
    BY DEF BundleTypes, BridgeOwn
  <1>2. CASE "bridge" \in conn[c].local
    <2>1. conn' = [conn EXCEPT ![c] = Obtained(conn[c], 0)]
      BY <1>2 DEF BridgeOwn
    <2> QED BY <1>1, <2>1, Obtaining
  <1>3. CASE "bridge" \notin conn[c].local
    <2>1. conn' = [conn EXCEPT ![c] = [conn[c] EXCEPT !.ver["bridge"] = OwnVersion, !.pc = "lookup", !.back = "miss"]]
      BY <1>3 DEF BridgeOwn
    <2> QED BY <1>1, <2>1, BundleAssumption, LookingUpBridge
  <1> QED BY <1>2, <1>3

LEMMA BridgeNewestDoes ==
    ASSUME BundleTypes, RememberedFits, NEW c \in Connect, BridgeNewest(c)
    PROVE  /\ conn[c].pc = "newest"
           /\ resolved' \in [Keys -> Version \cup {0}] /\ RememberedFits'
           /\ \/ Moves(c, "failed")
              \/ \E v \in Version :
                    Goes(c, "lookup", conn[c].part, conn[c].ver["cua"], v, "miss", conn[c].todo, conn[c].staged)
  <1> DEFINE found == Newest(Published["bridge"] \cap StableVersion)
  <1>1. conn \in [Connect -> ConnState] /\ conn[c].pc = "newest" /\ resolved \in [Keys -> Version \cup {0}]
    BY DEF BundleTypes, BridgeNewest, Keys
  <1>2. Published["bridge"] \subseteq Version
    BY BundleAssumption
  <1>3. found \in Version \cup {0}
    BY <1>2, NewestIsIn
  <1>4. resolved["bridge/newest"] \in Version \cup {0}
    BY <1>1 DEF Keys
  <1>5. PICK v \in RememberedTag("bridge/newest") \cup {found} :
           \/ /\ v # 0
              /\ conn' = [conn EXCEPT ![c].ver["bridge"] = v, ![c].pc = "lookup", ![c].back = "miss"]
              /\ Remember("bridge/newest", v)
           \/ ConnFails(c) /\ resolved' = resolved
    BY DEF BridgeNewest
  <1>6. CASE v # 0 /\ conn' = [conn EXCEPT ![c].ver["bridge"] = v, ![c].pc = "lookup", ![c].back = "miss"]
             /\ Remember("bridge/newest", v)
    <2>1. v \in Version
      <3> HIDE DEF found
      <3> QED BY <1>3, <1>4, <1>6 DEF RememberedTag
    <2>2. conn' = [conn EXCEPT ![c] = [conn[c] EXCEPT !.ver["bridge"] = v, !.pc = "lookup", !.back = "miss"]]
      BY <1>6
    <2>3. Goes(c, "lookup", conn[c].part, conn[c].ver["cua"], v, "miss", conn[c].todo, conn[c].staged)
      BY <1>1, <2>1, <2>2, LookingUpBridge
    <2>4. resolved' = [resolved EXCEPT !["bridge/newest"] = v]
      BY <1>6 DEF Remember
    <2>5. resolved' \in [Keys -> Version \cup {0}] /\ \A ch \in Channels : resolved'[ch] = resolved[ch]
      <3>1. "bridge/newest" \notin Channels /\ Channels \subseteq Keys
        BY DEF Keys, Channels
      <3> QED BY <1>1, <2>1, <2>4, <3>1
    <2>6. RememberedFits'
      BY <2>5 DEF RememberedFits, accepts
    <2> QED BY <1>1, <2>1, <2>3, <2>5, <2>6
  <1>7. CASE ConnFails(c) /\ resolved' = resolved
    <2>1. Moves(c, "failed")
      BY <1>1, <1>7, PcGoes DEF ConnFails, ConnPc
    <2>2. RememberedFits'
      BY <1>7 DEF RememberedFits, accepts
    <2> QED BY <1>1, <1>7, <2>1, <2>2
  <1> QED BY <1>5, <1>6, <1>7

\* A download that is not refused is temporary until it is published.
Downloads(c) ==
    \/ Moves(c, "fetched") /\ litter' = litter \cup {c}
    \/ Moves(c, "failed") /\ litter' = litter

LEMMA DownloadDoes ==
    ASSUME BundleTypes, NEW c \in Connect, DownloadVerified(c)
    PROVE  Downloads(c)
  <1>1. conn \in [Connect -> ConnState] /\ "fetched" \in ConnPc /\ "failed" \in ConnPc
    BY DEF BundleTypes, ConnPc, Fetching
  <1> QED BY <1>1, PcGoes DEF DownloadVerified, Downloads, ConnFails

LEMMA FetchDriverDoes ==
    ASSUME BundleTypes, NEW c \in Connect, FetchDriver(c)
    PROVE  conn[c].pc = "miss" /\ conn[c].part = "cua" /\ Downloads(c)
  <1>1. conn \in [Connect -> ConnState] /\ "failed" \in ConnPc
    BY DEF BundleTypes, ConnPc
  <1>2. DownloadVerified(c) \/ (ConnFails(c) /\ litter' = litter)
    BY DEF FetchDriver
  <1>3. ConnFails(c) /\ litter' = litter => Downloads(c)
    BY <1>1, PcGoes DEF Downloads, ConnFails
  <1>4. Downloads(c)
    BY <1>2, <1>3, DownloadDoes
  <1> QED BY <1>4 DEF FetchDriver

LEMMA FetchBridgeDoes ==
    ASSUME BundleTypes, NEW c \in Connect, FetchBridge(c)
    PROVE  /\ conn[c].pc = "miss" /\ conn[c].part = "bridge"
           /\ \/ Downloads(c)
              \/ OwnVersion \notin Published["bridge"] /\ Moves(c, "newest") /\ litter' = litter
  <1>1. conn \in [Connect -> ConnState] /\ "failed" \in ConnPc /\ "newest" \in ConnPc
    BY DEF BundleTypes, ConnPc
  <1>2. \/ DownloadVerified(c)
        \/ ConnFails(c) /\ litter' = litter
        \/ \E a \in Answers(conn[c].ver["bridge"] \in Published["bridge"]) :
              /\ a = "not found" /\ conn[c].ver["bridge"] = OwnVersion
              /\ ConnGoes(c, "newest") /\ litter' = litter
    BY DEF FetchBridge
  <1>3. ConnFails(c) /\ litter' = litter => Downloads(c)
    BY <1>1, PcGoes DEF Downloads, ConnFails
  <1>4. ASSUME NEW a \in Answers(conn[c].ver["bridge"] \in Published["bridge"]), a = "not found",
               conn[c].ver["bridge"] = OwnVersion, ConnGoes(c, "newest")
        PROVE  OwnVersion \notin Published["bridge"] /\ Moves(c, "newest")
    <2>1. OwnVersion \notin Published["bridge"]
      BY <1>4 DEF Answers
    <2>2. Moves(c, "newest")
      BY <1>1, <1>4, PcGoes
    <2> QED BY <2>1, <2>2
  <1>5. \/ Downloads(c)
        \/ OwnVersion \notin Published["bridge"] /\ Moves(c, "newest") /\ litter' = litter
    BY <1>2, <1>3, <1>4, DownloadDoes
  <1> QED BY <1>5 DEF FetchBridge

LEMMA PublishDoes ==
    ASSUME BundleTypes, NEW c \in Connect, Place(conn[c]), Publish(c)
    PROVE  /\ conn[c].pc \in {"fetched", "retry"}
           /\ \/ /\ EntryIs(conn[c].part, conn[c].ver[conn[c].part], "good")
                 /\ litter' = litter \ {c} /\ Obtains(c, conn[c].ver[conn[c].part])
              \/ (Moves(c, "taken") \/ Moves(c, "last")) /\ entry' = entry /\ litter' = litter
  <1>1. conn \in [Connect -> ConnState] /\ conn[c] \in ConnState /\ conn[c].pc \in {"fetched", "retry"}
    BY DEF BundleTypes, Publish
  <1>2. conn[c].part \in Component /\ conn[c].ver[conn[c].part] \in Version /\ conn[c].ver[conn[c].part] # 0
    <2>1. conn[c].part \in Component /\ conn[c].ver \in [Component -> Version \cup {0}]
      BY <1>1 DEF ConnState
    <2>2. conn[c].ver[conn[c].part] # 0
      BY <1>1, <2>1 DEF Place, Fetching, Component
    <2> QED BY <2>1, <2>2
  <1>3. CASE Here(c) = "absent"
    <2>1. EntryBecomes(c, "good") /\ litter' = litter \ {c} /\ "good" \in Health
      BY <1>3 DEF Publish, Health
    <2>2. conn' = [conn EXCEPT ![c] = Obtained(conn[c], conn[c].ver[conn[c].part])]
      BY <1>3 DEF Publish
    <2>3. Obtains(c, conn[c].ver[conn[c].part])
      BY <1>1, <1>2, <2>2, Obtaining
    <2>4. EntryIs(conn[c].part, conn[c].ver[conn[c].part], "good")
      BY <1>2, <2>1, EntryChanges
    <2> QED BY <1>1, <2>1, <2>3, <2>4
  <1>4. CASE Here(c) # "absent"
    <2> DEFINE spot == IF conn[c].pc = "fetched" THEN "taken" ELSE "last"
    <2>1. conn' = [conn EXCEPT ![c].pc = IF @ = "fetched" THEN "taken" ELSE "last"] /\ entry' = entry /\ litter' = litter
      BY <1>4 DEF Publish
    <2>2. conn' = [conn EXCEPT ![c] = [conn[c] EXCEPT !.pc = spot]]
      BY <2>1
    <2>3. spot \in ConnPc
      BY DEF ConnPc, Fetching
    <2>4. Moves(c, spot)
      <3> HIDE DEF spot
      <3> QED BY <1>1, <2>2, <2>3, PcMoves
    <2> QED BY <1>1, <2>1, <2>4
  <1> QED BY <1>3, <1>4

LEMMA PublishLooksDoes ==
    ASSUME BundleTypes, NEW c \in Connect, Place(conn[c]), PublishLooks(c)
    PROVE  /\ conn[c].pc \in {"taken", "last"}
           /\ \/ Here(c) = "good" /\ Obtains(c, conn[c].ver[conn[c].part]) /\ litter' = litter \ {c}
              \/ /\ \E spot \in {"discard", "retry"} :
                      Goes(c, spot, conn[c].part, conn[c].ver["cua"], conn[c].ver["bridge"], "retry", conn[c].todo, conn[c].staged)
                 /\ litter' = litter
              \/ Moves(c, "failed") /\ litter' = litter \ {c}
  <1>1. conn \in [Connect -> ConnState] /\ conn[c] \in ConnState /\ conn[c].pc \in {"taken", "last"}
    BY DEF BundleTypes, PublishLooks
  <1>2. CASE Here(c) = "good" /\ conn' = [conn EXCEPT ![c] = Obtained(conn[c], conn[c].ver[conn[c].part])]
             /\ litter' = litter \ {c}
    <2>1. conn[c].part \in Component /\ conn[c].ver \in [Component -> Version \cup {0}]
      BY <1>1 DEF ConnState
    <2>2. conn[c].ver[conn[c].part] \in Version \cup {0}
      BY <2>1
    <2>3. Obtains(c, conn[c].ver[conn[c].part])
      BY <1>1, <1>2, <2>2, Obtaining
    <2> QED BY <1>1, <1>2, <2>3
  <1>3. CASE conn' = [conn EXCEPT ![c].pc = IF Here(c) = "bad" THEN "discard" ELSE "retry", ![c].back = "retry"]
             /\ litter' = litter
    <2> DEFINE spot == IF Here(c) = "bad" THEN "discard" ELSE "retry"
    <2>1. conn' = [conn EXCEPT ![c] = [conn[c] EXCEPT !.pc = spot, !.back = "retry"]]
      BY <1>3
    <2>2. spot \in {"discard", "retry"} /\ spot \in ConnPc
      BY DEF ConnPc, Fetching
    <2> HIDE DEF spot
    <2>3. conn' = [conn EXCEPT ![c] = [conn[c] EXCEPT !.pc = spot, !.back = "retry", !.todo = conn[c].todo, !.staged = conn[c].staged]]
      BY <1>1, <2>1 DEF ConnState
    <2>4. conn[c].todo \in SUBSET Version /\ conn[c].staged \in {"good", "bad"}
      BY <1>1 DEF ConnState
    <2>5. Goes(c, spot, conn[c].part, conn[c].ver["cua"], conn[c].ver["bridge"], "retry", conn[c].todo, conn[c].staged)
      BY <1>1, <2>2, <2>3, <2>4, PcAndBack
    <2> QED BY <1>1, <1>3, <2>2, <2>5
  <1>4. CASE ConnFails(c) /\ litter' = litter \ {c}
    <2>1. Moves(c, "failed")
      BY <1>1, <1>4, PcGoes DEF ConnFails, ConnPc
    <2> QED BY <1>1, <1>4, <2>1
  <1>5. \/ Here(c) = "good" /\ conn' = [conn EXCEPT ![c] = Obtained(conn[c], conn[c].ver[conn[c].part])]
             /\ litter' = litter \ {c}
        \/ conn' = [conn EXCEPT ![c].pc = IF Here(c) = "bad" THEN "discard" ELSE "retry", ![c].back = "retry"]
             /\ litter' = litter
        \/ ConnFails(c) /\ litter' = litter \ {c}
    BY DEF PublishLooks
  <1> QED BY <1>2, <1>3, <1>4, <1>5

-----------------------------------------------------------------------------
(* The assembly                                                               *)

LEMMA VerifyDoes ==
    ASSUME BundleTypes, NEW c \in Connect, Verify(c)
    PROVE  /\ conn[c].pc \in {"assemble", "lost", "final"}
           /\ \/ bundle[BundleId(c)] = "good" /\ Moves(c, "ready") /\ litter' = litter \ {c}
              \/ /\ bundle[BundleId(c)] = "bad" /\ litter' = litter
                 /\ \/ conn[c].pc = "assemble" /\ Moves(c, "clean")
                    \/ conn[c].pc = "lost" /\ Moves(c, "clean lost")
                    \/ conn[c].pc = "final" /\ Moves(c, "clean final")
              \/ /\ bundle[BundleId(c)] = "absent" /\ litter' = litter
                 /\ \/ conn[c].pc = "assemble" /\ Moves(c, "stage")
                    \/ conn[c].pc = "lost" /\ Moves(c, "remove")
                    \/ conn[c].pc = "final" /\ Moves(c, "failed")
  <1>1. conn \in [Connect -> ConnState]
    BY DEF BundleTypes
  <1>2. conn[c].pc \in {"assemble", "lost", "final"}
    BY DEF Verify, AfterMiss
  <1>3. \A spot \in ConnPc : ConnGoes(c, spot) => Moves(c, spot)
    BY <1>1, PcGoes
  <1>4. {"ready", "clean", "clean lost", "clean final", "stage", "remove", "failed"} \subseteq ConnPc
    BY DEF ConnPc, Assembling
  <1>5. \/ bundle[BundleId(c)] = "good" /\ ConnGoes(c, "ready") /\ litter' = litter \ {c}
        \/ bundle[BundleId(c)] = "bad" /\ ConnGoes(c, AfterBad[conn[c].pc]) /\ litter' = litter
        \/ bundle[BundleId(c)] = "absent" /\ ConnGoes(c, AfterMiss[conn[c].pc]) /\ litter' = litter
    BY DEF Verify, AsmGoes
  <1>6. /\ AfterBad["assemble"] = "clean" /\ AfterBad["lost"] = "clean lost" /\ AfterBad["final"] = "clean final"
        /\ AfterMiss["assemble"] = "stage" /\ AfterMiss["lost"] = "remove" /\ AfterMiss["final"] = "failed"
    BY DEF AfterBad, AfterMiss
  <1>7. CASE bundle[BundleId(c)] = "good" /\ ConnGoes(c, "ready") /\ litter' = litter \ {c}
    BY <1>2, <1>3, <1>4, <1>7
  <1>8. CASE bundle[BundleId(c)] = "bad" /\ ConnGoes(c, AfterBad[conn[c].pc]) /\ litter' = litter
    BY <1>2, <1>3, <1>4, <1>6, <1>8
  <1>9. CASE bundle[BundleId(c)] = "absent" /\ ConnGoes(c, AfterMiss[conn[c].pc]) /\ litter' = litter
    BY <1>2, <1>3, <1>4, <1>6, <1>9
  <1> QED BY <1>5, <1>7, <1>8, <1>9

LEMMA RemoveBundleDoes ==
    ASSUME BundleTypes, NEW c \in Connect, RemoveBundle(c)
    PROVE  /\ BundleIs(c, "absent")
           /\ \/ conn[c].pc = "clean" /\ Moves(c, "stage")
              \/ conn[c].pc = "clean lost" /\ Moves(c, "remove")
              \/ conn[c].pc = "clean final" /\ Moves(c, "failed")
              \/ conn[c].pc = "remove" /\ Moves(c, "again")
  <1>1. conn \in [Connect -> ConnState] /\ "absent" \in Health
    BY DEF BundleTypes, Health
  <1>2. conn[c].pc \in {"clean", "clean lost", "clean final", "remove"}
    BY DEF RemoveBundle
  <1>3. BundleIs(c, "absent")
    BY <1>1, BundleChanges DEF RemoveBundle
  <1>4. ConnGoes(c, AfterRemoval(conn[c].pc))
    BY DEF RemoveBundle
  <1>5. \A spot \in ConnPc : ConnGoes(c, spot) => Moves(c, spot)
    BY <1>1, PcGoes
  <1>6. {"stage", "remove", "failed", "again"} \subseteq ConnPc
    BY DEF ConnPc, Assembling
  <1>7. /\ AfterRemoval("clean") = "stage" /\ AfterRemoval("clean lost") = "remove"
        /\ AfterRemoval("clean final") = "failed" /\ AfterRemoval("remove") = "again"
    BY DEF AfterRemoval
  <1> QED BY <1>2, <1>3, <1>4, <1>5, <1>6, <1>7

LEMMA StageDoes ==
    ASSUME BundleTypes, NEW c \in Connect, Stage(c)
    PROVE  /\ conn[c].pc = "stage"
           /\ \/ Moves(c, "failed") /\ litter' = litter \ {c}
              \/ \E staged \in {"good", "bad"} :
                    /\ Goes(c, "rename", conn[c].part, conn[c].ver["cua"], conn[c].ver["bridge"], conn[c].back, conn[c].todo, staged)
                    /\ litter' = litter \cup {c}
                    /\ staged = "bad" => \E k \in Component : conn[c].ver[k] # 0 /\ entry[k][conn[c].ver[k]] = "bad"
  <1> DEFINE files == {entry[k][conn[c].ver[k]] : k \in {m \in Component : conn[c].ver[m] # 0}}
             staged == IF "bad" \in files THEN "bad" ELSE "good"
  <1>1. conn \in [Connect -> ConnState] /\ conn[c] \in ConnState /\ conn[c].pc = "stage"
    BY DEF BundleTypes, Stage
  <1>2. CASE "absent" \in files
    <2>1. ConnGoes(c, "failed") /\ litter' = litter \ {c}
      BY <1>2 DEF Stage, AsmGoes
    <2>2. Moves(c, "failed")
      BY <1>1, <2>1, PcGoes DEF ConnPc
    <2> QED BY <1>1, <2>1, <2>2
  <1>3. CASE "absent" \notin files
    <2>1. conn' = [conn EXCEPT ![c].pc = "rename", ![c].staged = staged] /\ litter' = litter \cup {c}
      BY <1>3 DEF Stage
    <2>2. staged = "bad" => \E k \in Component : conn[c].ver[k] # 0 /\ entry[k][conn[c].ver[k]] = "bad"
      OBVIOUS
    <2>3. staged \in {"good", "bad"}
      OBVIOUS
    <2> HIDE DEF staged, files
    <2>4. conn' = [conn EXCEPT ![c] = [conn[c] EXCEPT !.pc = "rename", !.staged = staged]]
      BY <2>1
    <2>5. conn' = [conn EXCEPT ![c] = [conn[c] EXCEPT !.pc = "rename", !.back = conn[c].back, !.todo = conn[c].todo, !.staged = staged]]
      BY <1>1, <2>4 DEF ConnState
    <2>6. conn[c].todo \in SUBSET Version /\ conn[c].back \in {"none", "miss", "cached", "retry"} /\ "rename" \in ConnPc
      BY <1>1 DEF ConnState, ConnPc, Assembling
    <2>7. Goes(c, "rename", conn[c].part, conn[c].ver["cua"], conn[c].ver["bridge"], conn[c].back, conn[c].todo, staged)
      BY <1>1, <2>3, <2>5, <2>6, PcAndBack
    <2> QED BY <1>1, <2>1, <2>2, <2>3, <2>7
  <1> QED BY <1>2, <1>3

LEMMA RenameBundleDoes ==
    ASSUME BundleTypes, NEW c \in Connect, RenameBundle(c)
    PROVE  /\ conn[c].pc \in {"rename", "again"}
           /\ \/ BundleIs(c, conn[c].staged) /\ Moves(c, "ready") /\ litter' = litter \ {c}
              \/ /\ bundle[BundleId(c)] # "absent" /\ bundle' = bundle
                 /\ \/ conn[c].pc = "rename" /\ Moves(c, "lost") /\ litter' = litter
                    \/ conn[c].pc = "again" /\ Moves(c, "final") /\ litter' = litter \ {c}
  <1>1. conn \in [Connect -> ConnState] /\ conn[c] \in ConnState /\ conn[c].pc \in {"rename", "again"}
    BY DEF BundleTypes, RenameBundle
  <1>2. conn[c].staged \in Health /\ {"ready", "lost", "final"} \subseteq ConnPc
    BY <1>1 DEF ConnState, Health, ConnPc, Assembling
  <1>3. \A spot \in ConnPc : ConnGoes(c, spot) => Moves(c, spot)
    BY <1>1, PcGoes
  <1>4. CASE bundle[BundleId(c)] = "absent"
    <2>1. BundleBecomes(c, conn[c].staged) /\ ConnGoes(c, "ready") /\ litter' = litter \ {c}
      BY <1>4 DEF RenameBundle, AsmGoes
    <2>2. BundleIs(c, conn[c].staged)
      BY <1>2, <2>1, BundleChanges
    <2> QED BY <1>1, <1>2, <1>3, <2>1, <2>2
  <1>5. CASE bundle[BundleId(c)] # "absent"
    <2>1. /\ ConnGoes(c, IF conn[c].pc = "rename" THEN "lost" ELSE "final") /\ bundle' = bundle
          /\ litter' = IF conn[c].pc = "again" THEN litter \ {c} ELSE litter
      BY <1>5 DEF RenameBundle, AsmGoes
    <2>2. CASE conn[c].pc = "rename"
      <3>1. ConnGoes(c, "lost") /\ litter' = litter
        BY <2>1, <2>2
      <3> QED BY <1>1, <1>2, <1>3, <1>5, <2>1, <2>2, <3>1
    <2>3. CASE conn[c].pc = "again"
      <3>1. ConnGoes(c, "final") /\ litter' = litter \ {c}
        BY <2>1, <2>3
      <3> QED BY <1>1, <1>2, <1>3, <1>5, <2>1, <2>3, <3>1
    <2> QED BY <1>1, <2>2, <2>3
  <1> QED BY <1>4, <1>5

-----------------------------------------------------------------------------
(* The invariant is kept                                                      *)

\* What a step of c may do to what others rely on: nothing becomes bad, and
\* without a crash nothing good goes.
Gentle(c) ==
    /\ entry' \in [Component -> [Version -> Health]]
    /\ \A k \in Component, v \in Version : entry[k][v] # "bad" => entry'[k][v] # "bad"
    /\ bundle' \in [(Version \cup {0}) \X (Version \cup {0}) -> Health]
    /\ \A id \in DOMAIN bundle : /\ bundle[id] # "bad" => bundle'[id] # "bad"
                                 /\ crashes = 0 /\ bundle[id] = "good" => bundle'[id] = "good"
    /\ resolved' \in [Keys -> Version \cup {0}] /\ RememberedFits'
    /\ litter' \subseteq litter \cup {c}
    /\ crashes' = crashes

LEMMA Versions ==
    ASSUME NEW d \in Connect, conn \in [Connect -> ConnState]
    PROVE  /\ conn[d].ver["cua"] \in Version \cup {0} /\ conn[d].ver["bridge"] \in Version \cup {0}
           /\ conn[d].part \in {"cua", "bridge"} /\ conn[d].pc \in ConnPc
  <1>1. conn[d] \in ConnState
    OBVIOUS
  <1> QED BY <1>1 DEF ConnState, Component

LEMMA StepKeeps ==
    ASSUME BundleInv, NEW c \in Connect, Others(c), Gentle(c), Fine(c)'
    PROVE  BundleInv'
  <1>1. BundleTypes'
    BY DEF BundleInv, BundleTypes, Others, Gentle, Keys
  <1>2. Undamaged'
    <2>1. DOMAIN bundle' = DOMAIN bundle
      BY DEF Gentle, BundleInv, BundleTypes
    <2> QED BY <2>1 DEF Undamaged, BundleInv, Gentle
  <1>3. ASSUME NEW d \in Connect, d # c PROVE Fine(d)'
    <2>1. conn'[d] = conn[d] /\ conn \in [Connect -> ConnState]
      BY <1>3 DEF Others, BundleInv, BundleTypes
    <2>2. Fine(d)
      BY DEF BundleInv
    <2>3. Place(conn[d])' /\ Driver(conn[d])' /\ OwnBridge(conn[d])'
      <3>1. Place(conn[d]) /\ Driver(conn[d]) /\ OwnBridge(conn[d])
        BY <2>2 DEF Fine
      <3>2. Place(conn[d])'
        BY <2>1, <3>1 DEF Place
      <3>3. Driver(conn[d])'
        BY <2>1, <3>1 DEF Driver, AsAsked, accepts
      <3>4. OwnBridge(conn[d])'
        BY <2>1, <3>1 DEF OwnBridge
      <3> QED BY <3>2, <3>3, <3>4
    <2>4. Whole(conn[d])'
      <3>1. Whole(conn[d])
        BY <2>2 DEF Fine
      <3>2. \A k \in Component, v \in Version : entry[k][v] # "bad" => entry'[k][v] # "bad"
        BY DEF Gentle
      <3>3. conn[d].ver["cua"] \in Version \cup {0} /\ conn[d].ver["bridge"] \in Version \cup {0}
        BY <2>1, Versions
      <3> QED BY <2>1, <3>1, <3>2, <3>3 DEF Whole, Sound, Component
    <2>5. Given(d)'
      <3>1. Given(d)
        BY <2>2 DEF Fine
      <3>2. BundleId(d) \in DOMAIN bundle
        BY IdIsThere DEF BundleInv
      <3>3. BundleId(d)' = BundleId(d)
        BY <2>1 DEF BundleId
      <3>4. crashes' = crashes
        BY DEF Gentle
      <3>5. /\ bundle[BundleId(d)] # "bad" => bundle'[BundleId(d)] # "bad"
            /\ crashes = 0 /\ bundle[BundleId(d)] = "good" => bundle'[BundleId(d)] = "good"
        BY <3>2 DEF Gentle
      <3> QED BY <2>1, <3>1, <3>3, <3>4, <3>5 DEF Given
    <2>6. (d \in litter => Litters(conn[d]))'
      <3>1. d \in litter => Litters(conn[d])
        BY <2>2 DEF Fine
      <3>2. d \in litter' => d \in litter
        BY <1>3 DEF Gentle
      <3> QED BY <2>1, <3>1, <3>2 DEF Litters
    <2> QED BY <2>3, <2>4, <2>5, <2>6 DEF Fine
  <1>4. RememberedFits'
    BY DEF Gentle
  <1>5. (\A d \in Connect : Fine(d))'
    BY <1>3
  <1> QED BY <1>1, <1>2, <1>4, <1>5 DEF BundleInv

LEMMA Untouched ==
    ASSUME BundleInv, NEW c \in Connect, entry' = entry, bundle' = bundle, crashes' = crashes,
           litter' \subseteq litter \cup {c}, resolved' \in [Keys -> Version \cup {0}], RememberedFits'
    PROVE  Gentle(c)
  <1> QED BY DEF Gentle, BundleInv, BundleTypes

LEMMA RememberedStays ==
    ASSUME BundleInv, resolved' = resolved
    PROVE  resolved' \in [Keys -> Version \cup {0}] /\ RememberedFits'
  <1> QED BY DEF BundleInv, BundleTypes, Keys, RememberedFits, accepts

\* A connect that is not at hand of anything yet.
LEMMA PrepareKeeps ==
    ASSUME BundleInv, NEW c \in Connect, NEW r \in Request, Prepare(c, r.channel, r.tag, r.auto, r.local)
    PROVE  BundleInv'
  <1>1. entry' = entry /\ bundle' = bundle /\ litter' = litter /\ crashes' = crashes /\ resolved' = resolved
    BY DEF Prepare, diskVars
  <1>2. Fine(c) /\ BundleTypes
    BY DEF BundleInv
  <1>3. Gentle(c)
    BY <1>1, Untouched, RememberedStays
  <1>4. /\ conn[c].pc = "idle" /\ Others(c)
        /\ conn'[c].pc \in {"cua", "failed"} /\ conn'[c].part = "cua" /\ conn'[c].ver["cua"] = 0 /\ conn'[c].ver["bridge"] = 0
        /\ conn'[c].todo = {} /\ conn'[c].back = "none" /\ conn'[c].staged = "good"
        /\ conn'[c].channel = "tag" => conn'[c].tag # 0
    BY <1>2, PrepareDoes
  <1>5. Fine(c)'
    <2>1. Place(conn[c])' /\ Driver(conn[c])' /\ OwnBridge(conn[c])'
      BY <1>4 DEF Place, Driver, OwnBridge, Fetching, Assembling
    <2>2. Whole(conn[c])' /\ Given(c)'
      BY <1>4 DEF Whole, Given, Fetching, Assembling
    <2>3. c \notin litter'
      BY <1>1, <1>2, <1>4 DEF Fine, Litters
    <2> QED BY <2>1, <2>2, <2>3 DEF Fine
  <1> QED BY <1>3, <1>4, <1>5, StepKeeps

\* A driver from bundle_path is not looked up, so there is nothing to be sound.
LEMMA CuaKeeps ==
    ASSUME BundleInv, NEW c \in Connect, Cua(c)
    PROVE  BundleInv'
  <1>1. entry' = entry /\ bundle' = bundle /\ litter' = litter /\ crashes' = crashes /\ resolved' = resolved
    BY DEF Cua, diskVars
  <1>2. Fine(c) /\ BundleTypes
    BY DEF BundleInv
  <1>3. Gentle(c)
    BY <1>1, Untouched, RememberedStays
  <1>4. /\ conn[c].pc = "cua"
        /\ \/ Moves(c, "failed")
           \/ "cua" \in conn[c].local /\ Obtains(c, 0)
           \/ conn[c].channel \in Channels /\ Moves(c, "channel")
           \/ /\ conn[c].channel = "tag"
              /\ Goes(c, "lookup", conn[c].part, conn[c].tag, conn[c].ver["bridge"], "miss", conn[c].todo, conn[c].staged)
    BY <1>2, CuaDoes
  <1>5. Place(conn[c]) /\ Driver(conn[c]) /\ OwnBridge(conn[c]) /\ Whole(conn[c])
    BY <1>2 DEF Fine
  <1>6. Others(c)
    BY <1>4 DEF Moves, Obtains, Goes
  <1>7. Place(conn[c])'
    BY <1>4, <1>5 DEF Place, Driver, Moves, Obtains, Goes, Fetching, Assembling
  <1>8. Driver(conn[c])'
    BY <1>4, <1>5 DEF Place, Driver, AsAsked, accepts, Moves, Obtains, Goes, Fetching, Assembling
  <1>9. OwnBridge(conn[c])' /\ Whole(conn[c])'
    BY <1>4, <1>5 DEF Place, OwnBridge, Whole, Sound, Moves, Obtains, Goes, Fetching, Assembling
  <1>10. Given(c)' /\ c \notin litter'
    BY <1>1, <1>2, <1>4 DEF Given, Fine, Litters, Moves, Obtains, Goes
  <1>11. Fine(c)'
    BY <1>7, <1>8, <1>9, <1>10 DEF Fine
  <1> QED BY <1>3, <1>6, <1>11, StepKeeps

LEMMA ResolveChannelKeeps ==
    ASSUME BundleInv, NEW c \in Connect, ResolveChannel(c)
    PROVE  BundleInv'
  <1>1. entry' = entry /\ bundle' = bundle /\ litter' = litter /\ crashes' = crashes /\ conn[c].pc = "channel"
    BY DEF ResolveChannel, diskVars
  <1>2. Fine(c) /\ BundleTypes /\ RememberedFits
    BY DEF BundleInv
  <1>3. Place(conn[c]) /\ Driver(conn[c]) /\ OwnBridge(conn[c]) /\ Whole(conn[c])
    BY <1>2 DEF Fine
  <1>4. conn[c].channel \in Channels
    BY <1>1, <1>3 DEF Driver
  <1>5. /\ resolved' \in [Keys -> Version \cup {0}] /\ RememberedFits'
        /\ \/ Moves(c, "failed")
           \/ \E todo \in SUBSET Version :
                 /\ todo \subseteq accepts(conn[c].channel)
                 /\ Goes(c, "cached", conn[c].part, conn[c].ver["cua"], conn[c].ver["bridge"], conn[c].back, todo, conn[c].staged)
           \/ \E v \in Version :
                 /\ v \in accepts(conn[c].channel)
                 /\ Goes(c, "lookup", conn[c].part, v, conn[c].ver["bridge"], "miss", conn[c].todo, conn[c].staged)
    BY <1>2, <1>4, ResolveChannelDoes
  <1>6. Gentle(c)
    BY <1>1, <1>5, Untouched
  <1>7. Others(c)
    BY <1>5 DEF Moves, Goes
  <1>8. 0 \notin Version
    BY BundleAssumption
  <1>9. Place(conn[c])'
    BY <1>1, <1>3, <1>5, <1>8 DEF Place, Moves, Goes, Fetching, Assembling
  <1>10. Driver(conn[c])'
    BY <1>1, <1>3, <1>4, <1>5 DEF Driver, AsAsked, accepts, Moves, Goes, Fetching, Assembling
  <1>11. OwnBridge(conn[c])' /\ Whole(conn[c])'
    BY <1>1, <1>3, <1>5 DEF Place, OwnBridge, Whole, Sound, Moves, Goes, Fetching, Assembling
  <1>12. Given(c)' /\ c \notin litter'
    BY <1>1, <1>2, <1>5 DEF Given, Fine, Litters, Moves, Goes
  <1>13. Fine(c)'
    BY <1>9, <1>10, <1>11, <1>12 DEF Fine
  <1> QED BY <1>6, <1>7, <1>13, StepKeeps

LEMMA NewestCachedKeeps ==
    ASSUME BundleInv, NEW c \in Connect, NewestCached(c)
    PROVE  BundleInv'
  <1>1. entry' = entry /\ bundle' = bundle /\ litter' = litter /\ crashes' = crashes /\ resolved' = resolved
    BY DEF NewestCached, diskVars
  <1>2. Fine(c) /\ BundleTypes
    BY DEF BundleInv
  <1>3. Gentle(c)
    BY <1>1, Untouched, RememberedStays
  <1>4. /\ conn[c].pc = "cached"
        /\ \/ Moves(c, "failed")
           \/ \E v \in conn[c].todo :
                 Goes(c, "lookup", conn[c].part, v, conn[c].ver["bridge"], "cached", conn[c].todo \ {v}, conn[c].staged)
    BY <1>2, NewestCachedDoes
  <1>5. Place(conn[c]) /\ Driver(conn[c]) /\ OwnBridge(conn[c]) /\ Whole(conn[c])
    BY <1>2 DEF Fine
  <1>6. Others(c)
    BY <1>4 DEF Moves, Goes
  <1>7. conn[c].todo \subseteq Version /\ 0 \notin Version
    <2>1. conn[c] \in ConnState
      BY <1>2 DEF BundleTypes
    <2> QED BY <2>1, BundleAssumption DEF ConnState
  <1>8. Place(conn[c])'
    BY <1>4, <1>5, <1>7 DEF Place, Moves, Goes, Fetching, Assembling
  <1>9. Driver(conn[c])'
    <2>1. conn[c].channel \in Channels /\ conn[c].todo \subseteq accepts(conn[c].channel)
      BY <1>4, <1>5 DEF Driver
    <2> QED BY <1>4, <1>5, <2>1 DEF Driver, AsAsked, accepts, Moves, Goes, Fetching, Assembling
  <1>10. OwnBridge(conn[c])' /\ Whole(conn[c])'
    BY <1>4, <1>5 DEF Place, OwnBridge, Whole, Sound, Moves, Goes, Fetching, Assembling
  <1>11. Given(c)' /\ c \notin litter'
    BY <1>1, <1>2, <1>4 DEF Given, Fine, Litters, Moves, Goes
  <1>12. Fine(c)'
    BY <1>8, <1>9, <1>10, <1>11 DEF Fine
  <1> QED BY <1>3, <1>6, <1>12, StepKeeps

\* Only what is whole is at hand: an entry that is found good.
LEMMA LookupKeeps ==
    ASSUME BundleInv, NEW c \in Connect, Lookup(c)
    PROVE  BundleInv'
  <1>1. entry' = entry /\ bundle' = bundle /\ litter' = litter /\ crashes' = crashes /\ resolved' = resolved
    BY DEF Lookup, diskVars
  <1>2. Fine(c) /\ BundleTypes
    BY DEF BundleInv
  <1>3. Gentle(c)
    BY <1>1, Untouched, RememberedStays
  <1>4. Place(conn[c]) /\ Driver(conn[c]) /\ OwnBridge(conn[c]) /\ Whole(conn[c])
    BY <1>2 DEF Fine
  <1>5. /\ conn[c].pc = "lookup"
        /\ \/ /\ Here(c) = "good" /\ conn[c].back = "cached"
              /\ Goes(c, "lookup", conn[c].part, conn[c].ver["cua"], conn[c].ver["bridge"], "miss", conn[c].todo, conn[c].staged)
           \/ Here(c) = "good" /\ conn[c].back # "cached" /\ Obtains(c, conn[c].ver[conn[c].part])
           \/ Here(c) = "bad" /\ Moves(c, "discard")
           \/ Here(c) = "absent" /\ Moves(c, conn[c].back)
    BY <1>2, <1>4, LookupDoes
  <1>6. Others(c)
    BY <1>5 DEF Moves, Obtains, Goes
  <1>7. conn[c].back \in {"miss", "cached"} /\ conn[c].part \in {"cua", "bridge"}
    BY <1>2, <1>4, <1>5, Versions DEF Place, BundleTypes
  <1>8. Place(conn[c])'
    BY <1>4, <1>5, <1>7 DEF Place, Moves, Obtains, Goes, Fetching, Assembling
  <1>9. Driver(conn[c])'
    <2>1. AsAsked(conn[c]) /\ conn[c].todo \subseteq accepts(conn[c].channel)
      BY <1>4, <1>5 DEF Driver, Fetching
    <2>2. AsAsked(conn[c])' /\ (conn[c].todo \subseteq accepts(conn[c].channel))'
      BY <1>5, <1>7, <2>1 DEF AsAsked, accepts, Moves, Obtains, Goes
    <2>3. conn[c].back = "cached" => conn[c].channel \in Channels
      BY <1>4, <1>5 DEF Driver
    <2>4. /\ conn'[c].pc \in {"lookup", "bridge", "assemble", "discard", "miss", "cached"}
          /\ conn'[c].pc \in {"cached", "lookup", "discard"} => conn'[c].back = conn[c].back \/ conn'[c].back = "miss"
          /\ conn'[c].pc = "cached" => conn[c].back = "cached"
          /\ conn'[c].channel = conn[c].channel
      BY <1>5, <1>7 DEF Moves, Obtains, Goes
    <2> QED BY <2>2, <2>3, <2>4 DEF Driver
  <1>10. OwnBridge(conn[c])'
    BY <1>4, <1>5, <1>7 DEF Place, OwnBridge, Moves, Obtains, Goes, Fetching, Assembling
  <1>11. Whole(conn[c])'
    BY <1>1, <1>4, <1>5, <1>7 DEF Place, Whole, Sound, Here, Moves, Obtains, Goes, Fetching, Assembling
  <1>12. Given(c)' /\ c \notin litter'
    BY <1>1, <1>2, <1>5, <1>7 DEF Given, Fine, Litters, Moves, Obtains, Goes
  <1>13. Fine(c)'
    BY <1>8, <1>9, <1>10, <1>11, <1>12 DEF Fine
  <1> QED BY <1>3, <1>6, <1>13, StepKeeps

\* A removed entry is not bad.
LEMMA EntryIsGentle ==
    ASSUME BundleInv, NEW c \in Connect, NEW k, NEW v, NEW what \in {"absent", "good"}, EntryIs(k, v, what),
           bundle' = bundle, crashes' = crashes, resolved' = resolved, litter' \subseteq litter \cup {c}
    PROVE  Gentle(c)
  <1>1. resolved' \in [Keys -> Version \cup {0}] /\ RememberedFits'
    BY RememberedStays
  <1> QED BY <1>1 DEF Gentle, EntryIs, BundleInv, BundleTypes

LEMMA DiscardKeeps ==
    ASSUME BundleInv, NEW c \in Connect, Discard(c)
    PROVE  BundleInv'
  <1>1. bundle' = bundle /\ litter' = litter /\ crashes' = crashes /\ resolved' = resolved
    BY DEF Discard
  <1>2. Fine(c) /\ BundleTypes
    BY DEF BundleInv
  <1>3. Place(conn[c]) /\ Driver(conn[c]) /\ OwnBridge(conn[c]) /\ Whole(conn[c])
    BY <1>2 DEF Fine
  <1>4. /\ conn[c].pc = "discard" /\ conn[c].back \in {"miss", "cached", "retry"} /\ Moves(c, conn[c].back)
        /\ EntryIs(conn[c].part, conn[c].ver[conn[c].part], "absent")
    BY <1>2, <1>3, DiscardDoes
  <1>5. Gentle(c)
    BY <1>1, <1>4, EntryIsGentle
  <1>6. Others(c)
    BY <1>4 DEF Moves, Goes
  <1>7. conn[c].part \in {"cua", "bridge"} /\ conn[c].ver["cua"] \in Version \cup {0} /\ conn[c].ver["bridge"] \in Version \cup {0}
    BY <1>2, Versions DEF BundleTypes
  <1>8. Place(conn[c])'
    BY <1>3, <1>4, <1>7 DEF Place, Moves, Goes, Fetching, Assembling
  <1>9. Driver(conn[c])'
    BY <1>3, <1>4 DEF Place, Driver, AsAsked, accepts, Moves, Goes, Fetching, Assembling
  <1>10. OwnBridge(conn[c])'
    BY <1>3, <1>4 DEF OwnBridge, Moves, Goes
  <1>11. Whole(conn[c])'
    BY <1>3, <1>4, <1>7 DEF Place, Whole, Sound, EntryIs, Component, Moves, Goes, Fetching, Assembling
  <1>12. Given(c)' /\ (c \in litter' => Litters(conn[c])')
    BY <1>1, <1>2, <1>4 DEF Given, Fine, Litters, Moves, Goes
  <1>13. Fine(c)'
    BY <1>8, <1>9, <1>10, <1>11, <1>12 DEF Fine
  <1> QED BY <1>5, <1>6, <1>13, StepKeeps

LEMMA BridgeOwnKeeps ==
    ASSUME BundleInv, NEW c \in Connect, BridgeOwn(c)
    PROVE  BundleInv'
  <1>1. entry' = entry /\ bundle' = bundle /\ litter' = litter /\ crashes' = crashes /\ resolved' = resolved
    BY DEF BridgeOwn, diskVars
  <1>2. Fine(c) /\ BundleTypes
    BY DEF BundleInv
  <1>3. Gentle(c)
    BY <1>1, Untouched, RememberedStays
  <1>4. Place(conn[c]) /\ Driver(conn[c]) /\ OwnBridge(conn[c]) /\ Whole(conn[c])
    BY <1>2 DEF Fine
  <1>5. /\ conn[c].pc = "bridge"
        /\ \/ Obtains(c, 0)
           \/ Goes(c, "lookup", conn[c].part, conn[c].ver["cua"], OwnVersion, "miss", conn[c].todo, conn[c].staged)
    BY <1>2, <1>4, BridgeOwnDoes
  <1>6. Others(c) /\ OwnVersion # 0
    BY <1>5, BundleAssumption DEF Obtains, Goes
  <1>7. Place(conn[c])'
    BY <1>4, <1>5, <1>6 DEF Place, Obtains, Goes, Fetching, Assembling
  <1>8. Driver(conn[c])'
    BY <1>4, <1>5 DEF Place, Driver, AsAsked, accepts, Obtains, Goes, Fetching, Assembling
  <1>9. OwnBridge(conn[c])' /\ Whole(conn[c])'
    BY <1>1, <1>4, <1>5 DEF Place, OwnBridge, Whole, Sound, Obtains, Goes, Fetching, Assembling
  <1>10. Given(c)' /\ c \notin litter'
    BY <1>1, <1>2, <1>5 DEF Given, Fine, Litters, Obtains, Goes
  <1>11. Fine(c)'
    BY <1>7, <1>8, <1>9, <1>10 DEF Fine
  <1> QED BY <1>3, <1>6, <1>11, StepKeeps

LEMMA BridgeNewestKeeps ==
    ASSUME BundleInv, NEW c \in Connect, BridgeNewest(c)
    PROVE  BundleInv'
  <1>1. entry' = entry /\ bundle' = bundle /\ litter' = litter /\ crashes' = crashes
    BY DEF BridgeNewest, diskVars
  <1>2. Fine(c) /\ BundleTypes /\ RememberedFits
    BY DEF BundleInv
  <1>3. Place(conn[c]) /\ Driver(conn[c]) /\ OwnBridge(conn[c]) /\ Whole(conn[c])
    BY <1>2 DEF Fine
  <1>4. /\ conn[c].pc = "newest"
        /\ resolved' \in [Keys -> Version \cup {0}] /\ RememberedFits'
        /\ \/ Moves(c, "failed")
           \/ \E v \in Version :
                 Goes(c, "lookup", conn[c].part, conn[c].ver["cua"], v, "miss", conn[c].todo, conn[c].staged)
    BY <1>2, BridgeNewestDoes
  <1>5. Gentle(c)
    BY <1>1, <1>4, Untouched
  <1>6. Others(c) /\ 0 \notin Version
    BY <1>4, BundleAssumption DEF Moves, Goes
  <1>7. Place(conn[c])'
    BY <1>3, <1>4, <1>6 DEF Place, Moves, Goes, Fetching, Assembling
  <1>8. Driver(conn[c])'
    BY <1>3, <1>4 DEF Place, Driver, AsAsked, accepts, Moves, Goes, Fetching, Assembling
  <1>9. OwnBridge(conn[c])' /\ Whole(conn[c])'
    BY <1>1, <1>3, <1>4 DEF Place, OwnBridge, Whole, Sound, Moves, Goes, Fetching, Assembling
  <1>10. Given(c)' /\ c \notin litter'
    BY <1>1, <1>2, <1>4 DEF Given, Fine, Litters, Moves, Goes
  <1>11. Fine(c)'
    BY <1>7, <1>8, <1>9, <1>10 DEF Fine
  <1> QED BY <1>5, <1>6, <1>11, StepKeeps

\* Only a definite "no such release" of the own version leads to another bridge.
LEMMA FetchKeeps ==
    ASSUME BundleInv, NEW c \in Connect, FetchDriver(c) \/ FetchBridge(c)
    PROVE  BundleInv'
  <1>1. entry' = entry /\ bundle' = bundle /\ crashes' = crashes /\ resolved' = resolved
    BY DEF FetchDriver, FetchBridge
  <1>2. Fine(c) /\ BundleTypes
    BY DEF BundleInv
  <1>3. Place(conn[c]) /\ Driver(conn[c]) /\ OwnBridge(conn[c]) /\ Whole(conn[c])
    BY <1>2 DEF Fine
  <1>4. /\ conn[c].pc = "miss"
        /\ \/ Moves(c, "fetched") /\ litter' = litter \cup {c}
           \/ Moves(c, "failed") /\ litter' = litter
           \/ OwnVersion \notin Published["bridge"] /\ conn[c].part = "bridge" /\ Moves(c, "newest") /\ litter' = litter
    BY <1>2, FetchDriverDoes, FetchBridgeDoes DEF Downloads
  <1>5. litter' \subseteq litter \cup {c}
    BY <1>4
  <1>6. Gentle(c)
    BY <1>1, <1>5, Untouched, RememberedStays
  <1>7. Others(c)
    BY <1>4 DEF Moves, Goes
  <1>8. Place(conn[c])'
    BY <1>3, <1>4 DEF Place, Moves, Goes, Fetching, Assembling
  <1>9. Driver(conn[c])'
    BY <1>3, <1>4 DEF Driver, AsAsked, accepts, Moves, Goes, Fetching, Assembling
  <1>10. OwnBridge(conn[c])' /\ Whole(conn[c])'
    BY <1>1, <1>3, <1>4 DEF Place, OwnBridge, Whole, Sound, Moves, Goes, Fetching, Assembling
  <1>11. Given(c)' /\ (c \in litter' => Litters(conn[c])')
    BY <1>1, <1>2, <1>4 DEF Given, Fine, Litters, Moves, Goes
  <1>12. Fine(c)'
    BY <1>8, <1>9, <1>10, <1>11 DEF Fine
  <1> QED BY <1>6, <1>7, <1>12, StepKeeps

LEMMA PublishKeeps ==
    ASSUME BundleInv, NEW c \in Connect, Publish(c)
    PROVE  BundleInv'
  <1>1. bundle' = bundle /\ crashes' = crashes /\ resolved' = resolved
    BY DEF Publish
  <1>2. Fine(c) /\ BundleTypes
    BY DEF BundleInv
  <1>3. Place(conn[c]) /\ Driver(conn[c]) /\ OwnBridge(conn[c]) /\ Whole(conn[c])
    BY <1>2 DEF Fine
  <1>4. conn[c].part \in {"cua", "bridge"} /\ conn[c].ver["cua"] \in Version \cup {0} /\ conn[c].ver["bridge"] \in Version \cup {0}
    BY <1>2, Versions DEF BundleTypes
  <1>5. /\ conn[c].pc \in {"fetched", "retry"}
        /\ \/ /\ EntryIs(conn[c].part, conn[c].ver[conn[c].part], "good")
              /\ litter' = litter \ {c} /\ Obtains(c, conn[c].ver[conn[c].part])
           \/ (Moves(c, "taken") \/ Moves(c, "last")) /\ entry' = entry /\ litter' = litter
    BY <1>2, <1>3, PublishDoes
  <1>6. CASE /\ EntryIs(conn[c].part, conn[c].ver[conn[c].part], "good")
             /\ litter' = litter \ {c} /\ Obtains(c, conn[c].ver[conn[c].part])
    <2>1. Gentle(c)
      BY <1>1, <1>6, EntryIsGentle
    <2>2. Others(c)
      BY <1>6 DEF Obtains, Goes
    <2>3. Place(conn[c])'
      BY <1>3, <1>5, <1>6 DEF Place, Obtains, Goes, Fetching, Assembling
    <2>4. Driver(conn[c])'
      <3>1. AsAsked(conn[c]) /\ conn[c].todo \subseteq accepts(conn[c].channel)
        BY <1>3, <1>5 DEF Driver, Fetching
      <3>2. AsAsked(conn[c])' /\ (conn[c].todo \subseteq accepts(conn[c].channel))'
        BY <1>6, <3>1 DEF AsAsked, accepts, Obtains, Goes
      <3>3. conn'[c].pc \in {"bridge", "assemble"}
        BY <1>6 DEF Obtains, Goes
      <3> QED BY <3>2, <3>3 DEF Driver
    <2>5. OwnBridge(conn[c])'
      BY <1>3, <1>5, <1>6 DEF OwnBridge, Obtains, Goes
    <2>6. Whole(conn[c])'
      BY <1>3, <1>4, <1>5, <1>6 DEF Whole, Sound, EntryIs, Component, Obtains, Goes, Fetching, Assembling
    <2>7. Given(c)' /\ c \notin litter'
      BY <1>6 DEF Given, Obtains, Goes
    <2>8. Fine(c)'
      BY <2>3, <2>4, <2>5, <2>6, <2>7 DEF Fine
    <2> QED BY <2>1, <2>2, <2>8, StepKeeps
  <1>7. CASE (Moves(c, "taken") \/ Moves(c, "last")) /\ entry' = entry /\ litter' = litter
    <2>1. Gentle(c)
      BY <1>1, <1>7, Untouched, RememberedStays
    <2>2. Others(c)
      BY <1>7 DEF Moves, Goes
    <2>3. Place(conn[c])'
      BY <1>3, <1>5, <1>7 DEF Place, Moves, Goes, Fetching, Assembling
    <2>4. Driver(conn[c])'
      BY <1>3, <1>5, <1>7 DEF Driver, AsAsked, accepts, Moves, Goes, Fetching, Assembling
    <2>5. OwnBridge(conn[c])' /\ Whole(conn[c])'
      BY <1>3, <1>5, <1>7 DEF OwnBridge, Whole, Sound, Moves, Goes, Fetching, Assembling
    <2>6. Given(c)' /\ (c \in litter' => Litters(conn[c])')
      BY <1>1, <1>2, <1>7 DEF Given, Fine, Litters, Moves, Goes
    <2>7. Fine(c)'
      BY <2>3, <2>4, <2>5, <2>6 DEF Fine
    <2> QED BY <2>1, <2>2, <2>7, StepKeeps
  <1> QED BY <1>5, <1>6, <1>7

LEMMA PublishLooksKeeps ==
    ASSUME BundleInv, NEW c \in Connect, PublishLooks(c)
    PROVE  BundleInv'
  <1>1. entry' = entry /\ bundle' = bundle /\ crashes' = crashes /\ resolved' = resolved
    BY DEF PublishLooks
  <1>2. Fine(c) /\ BundleTypes
    BY DEF BundleInv
  <1>3. Place(conn[c]) /\ Driver(conn[c]) /\ OwnBridge(conn[c]) /\ Whole(conn[c])
    BY <1>2 DEF Fine
  <1>4. conn[c].part \in {"cua", "bridge"}
    BY <1>2, Versions DEF BundleTypes
  <1>5. /\ conn[c].pc \in {"taken", "last"}
        /\ \/ Here(c) = "good" /\ Obtains(c, conn[c].ver[conn[c].part]) /\ litter' = litter \ {c}
           \/ /\ \E spot \in {"discard", "retry"} :
                   Goes(c, spot, conn[c].part, conn[c].ver["cua"], conn[c].ver["bridge"], "retry", conn[c].todo, conn[c].staged)
              /\ litter' = litter
           \/ Moves(c, "failed") /\ litter' = litter \ {c}
    BY <1>2, <1>3, PublishLooksDoes
  <1>6. litter' \subseteq litter \cup {c}
    BY <1>5
  <1>7. Gentle(c)
    BY <1>1, <1>6, Untouched, RememberedStays
  <1>8. Others(c)
    BY <1>5 DEF Moves, Obtains, Goes
  <1>9. Place(conn[c])'
    BY <1>3, <1>4, <1>5 DEF Place, Moves, Obtains, Goes, Fetching, Assembling
  <1>10. Driver(conn[c])'
    <2>1. AsAsked(conn[c]) /\ conn[c].todo \subseteq accepts(conn[c].channel)
      BY <1>3, <1>5 DEF Driver, Fetching
    <2>2. AsAsked(conn[c])' /\ (conn[c].todo \subseteq accepts(conn[c].channel))'
      BY <1>5, <2>1 DEF AsAsked, accepts, Moves, Obtains, Goes
    <2>3. conn'[c].pc \in {"bridge", "assemble", "retry", "failed"} \/ (conn'[c].pc = "discard" /\ conn'[c].back = "retry")
      BY <1>5 DEF Moves, Obtains, Goes
    <2> QED BY <2>2, <2>3 DEF Driver
  <1>11. OwnBridge(conn[c])'
    BY <1>3, <1>5 DEF OwnBridge, Moves, Obtains, Goes
  <1>12. Whole(conn[c])'
    BY <1>1, <1>3, <1>4, <1>5 DEF Whole, Sound, Here, Moves, Obtains, Goes, Fetching, Assembling
  <1>13. Given(c)' /\ (c \in litter' => Litters(conn[c])')
    BY <1>1, <1>2, <1>5 DEF Given, Fine, Litters, Moves, Obtains, Goes
  <1>14. Fine(c)'
    BY <1>9, <1>10, <1>11, <1>12, <1>13 DEF Fine
  <1> QED BY <1>7, <1>8, <1>14, StepKeeps

-----------------------------------------------------------------------------

\* The name of the bundle of a connect that moves on.
LEMMA SameId == ASSUME NEW c \in Connect, NEW spot, Moves(c, spot) PROVE BundleId(c)' = BundleId(c)
  <1> QED BY DEF Moves, Goes, BundleId

LEMMA VerifyKeeps ==
    ASSUME BundleInv, NEW c \in Connect, Verify(c)
    PROVE  BundleInv'
  <1>1. entry' = entry /\ bundle' = bundle /\ crashes' = crashes /\ resolved' = resolved
    BY DEF Verify
  <1>2. Fine(c) /\ BundleTypes /\ Undamaged
    BY DEF BundleInv
  <1>3. Place(conn[c]) /\ Driver(conn[c]) /\ OwnBridge(conn[c]) /\ Whole(conn[c]) /\ Given(c)
    BY <1>2 DEF Fine
  <1>4. /\ conn[c].pc \in {"assemble", "lost", "final"}
        /\ \/ bundle[BundleId(c)] = "good" /\ Moves(c, "ready") /\ litter' = litter \ {c}
           \/ /\ bundle[BundleId(c)] = "bad" /\ litter' = litter
              /\ \/ conn[c].pc = "assemble" /\ Moves(c, "clean")
                 \/ conn[c].pc = "lost" /\ Moves(c, "clean lost")
                 \/ conn[c].pc = "final" /\ Moves(c, "clean final")
           \/ /\ bundle[BundleId(c)] = "absent" /\ litter' = litter
              /\ \/ conn[c].pc = "assemble" /\ Moves(c, "stage")
                 \/ conn[c].pc = "lost" /\ Moves(c, "remove")
                 \/ conn[c].pc = "final" /\ Moves(c, "failed")
    BY <1>2, VerifyDoes
  <1>5. litter' \subseteq litter \cup {c}
    BY <1>4
  <1>6. Gentle(c)
    BY <1>1, <1>5, Untouched, RememberedStays
  <1>7. Others(c) /\ BundleId(c)' = BundleId(c)
    BY <1>4, SameId DEF Moves, Goes
  <1>8. Place(conn[c])'
    BY <1>3, <1>4 DEF Place, Moves, Goes, Fetching, Assembling
  <1>9. Driver(conn[c])'
    BY <1>3, <1>4 DEF Driver, AsAsked, accepts, Moves, Goes, Fetching, Assembling
  <1>10. OwnBridge(conn[c])'
    BY <1>3, <1>4 DEF OwnBridge, Moves, Goes
  <1>11. Whole(conn[c])'
    BY <1>1, <1>3, <1>4 DEF Whole, Sound, Moves, Goes, Fetching, Assembling
  <1>12. Given(c)'
    <2>1. bundle[BundleId(c)] = "bad" => crashes # 0
      BY <1>2, IdIsThere DEF Undamaged
    <2>2. conn[c].pc = "final" => crashes # 0
      BY <1>3 DEF Given
    <2>3. conn[c].pc = "lost" /\ bundle[BundleId(c)] # "good" => crashes # 0
      BY <1>3 DEF Given
    <2> QED BY <1>1, <1>4, <1>7, <2>1, <2>2, <2>3 DEF Given, Moves, Goes
  <1>13. c \in litter' => Litters(conn[c])'
    BY <1>2, <1>4 DEF Fine, Litters, Moves, Goes
  <1>14. Fine(c)'
    BY <1>8, <1>9, <1>10, <1>11, <1>12, <1>13 DEF Fine
  <1> QED BY <1>6, <1>7, <1>14, StepKeeps

\* Without a crash there is nothing damaged, and nothing is removed.
LEMMA RemoveBundleKeeps ==
    ASSUME BundleInv, NEW c \in Connect, RemoveBundle(c)
    PROVE  BundleInv'
  <1>1. entry' = entry /\ litter' = litter /\ crashes' = crashes /\ resolved' = resolved
    BY DEF RemoveBundle
  <1>2. Fine(c) /\ BundleTypes
    BY DEF BundleInv
  <1>3. Place(conn[c]) /\ Driver(conn[c]) /\ OwnBridge(conn[c]) /\ Whole(conn[c]) /\ Given(c)
    BY <1>2 DEF Fine
  <1>4. /\ BundleIs(c, "absent")
        /\ \/ conn[c].pc = "clean" /\ Moves(c, "stage")
           \/ conn[c].pc = "clean lost" /\ Moves(c, "remove")
           \/ conn[c].pc = "clean final" /\ Moves(c, "failed")
           \/ conn[c].pc = "remove" /\ Moves(c, "again")
    BY <1>2, RemoveBundleDoes
  <1>5. crashes # 0
    BY <1>3, <1>4 DEF Given
  <1>6. Gentle(c)
    <2>1. resolved' \in [Keys -> Version \cup {0}] /\ RememberedFits'
      BY <1>1, RememberedStays
    <2> QED BY <1>1, <1>2, <1>4, <1>5, <2>1 DEF Gentle, BundleIs, BundleTypes
  <1>7. Others(c)
    BY <1>4 DEF Moves, Goes
  <1>8. Place(conn[c])'
    BY <1>3, <1>4 DEF Place, Moves, Goes, Fetching, Assembling
  <1>9. Driver(conn[c])'
    BY <1>3, <1>4 DEF Driver, AsAsked, accepts, Moves, Goes, Fetching, Assembling
  <1>10. OwnBridge(conn[c])'
    BY <1>3, <1>4 DEF OwnBridge, Moves, Goes
  <1>11. Whole(conn[c])'
    BY <1>1, <1>3, <1>4 DEF Whole, Sound, Moves, Goes, Fetching, Assembling
  <1>12. Given(c)'
    BY <1>1, <1>4, <1>5 DEF Given, Moves, Goes
  <1>13. c \in litter' => Litters(conn[c])'
    BY <1>1, <1>2, <1>4 DEF Fine, Litters, Moves, Goes
  <1>14. Fine(c)'
    BY <1>8, <1>9, <1>10, <1>11, <1>12, <1>13 DEF Fine
  <1> QED BY <1>6, <1>7, <1>14, StepKeeps

\* Whatever is linked is whole, if it is still there.
LEMMA StageKeeps ==
    ASSUME BundleInv, NEW c \in Connect, Stage(c)
    PROVE  BundleInv'
  <1>1. entry' = entry /\ bundle' = bundle /\ crashes' = crashes /\ resolved' = resolved
    BY DEF Stage
  <1>2. Fine(c) /\ BundleTypes
    BY DEF BundleInv
  <1>3. Place(conn[c]) /\ Driver(conn[c]) /\ OwnBridge(conn[c]) /\ Whole(conn[c]) /\ Given(c)
    BY <1>2 DEF Fine
  <1>4. /\ conn[c].pc = "stage"
        /\ \/ Moves(c, "failed") /\ litter' = litter \ {c}
           \/ \E staged \in {"good", "bad"} :
                 /\ Goes(c, "rename", conn[c].part, conn[c].ver["cua"], conn[c].ver["bridge"], conn[c].back, conn[c].todo, staged)
                 /\ litter' = litter \cup {c}
                 /\ staged = "bad" => \E k \in Component : conn[c].ver[k] # 0 /\ entry[k][conn[c].ver[k]] = "bad"
    BY <1>2, StageDoes
  <1>5. ~ \E k \in Component : conn[c].ver[k] # 0 /\ entry[k][conn[c].ver[k]] = "bad"
    BY <1>3, <1>4 DEF Whole, Sound, Assembling, Component
  <1>6. \/ Moves(c, "failed") /\ litter' = litter \ {c}
        \/ /\ Goes(c, "rename", conn[c].part, conn[c].ver["cua"], conn[c].ver["bridge"], conn[c].back, conn[c].todo, "good")
           /\ litter' = litter \cup {c}
    BY <1>4, <1>5
  <1>7. litter' \subseteq litter \cup {c}
    BY <1>6
  <1>8. Gentle(c)
    BY <1>1, <1>7, Untouched, RememberedStays
  <1>9. Others(c)
    BY <1>6 DEF Moves, Goes
  <1>10. Place(conn[c])'
    BY <1>3, <1>4, <1>6 DEF Place, Moves, Goes, Fetching, Assembling
  <1>11. Driver(conn[c])'
    BY <1>3, <1>4, <1>6 DEF Driver, AsAsked, accepts, Moves, Goes, Fetching, Assembling
  <1>12. OwnBridge(conn[c])'
    BY <1>3, <1>4, <1>6 DEF OwnBridge, Moves, Goes
  <1>13. Whole(conn[c])'
    BY <1>1, <1>3, <1>4, <1>6 DEF Whole, Sound, Moves, Goes, Fetching, Assembling
  <1>14. Given(c)' /\ (c \in litter' => Litters(conn[c])')
    BY <1>1, <1>2, <1>6 DEF Given, Litters, Moves, Goes
  <1>15. Fine(c)'
    BY <1>10, <1>11, <1>12, <1>13, <1>14 DEF Fine
  <1> QED BY <1>8, <1>9, <1>15, StepKeeps

LEMMA RenameBundleKeeps ==
    ASSUME BundleInv, NEW c \in Connect, RenameBundle(c)
    PROVE  BundleInv'
  <1>1. entry' = entry /\ crashes' = crashes /\ resolved' = resolved
    BY DEF RenameBundle
  <1>2. Fine(c) /\ BundleTypes /\ Undamaged
    BY DEF BundleInv
  <1>3. Place(conn[c]) /\ Driver(conn[c]) /\ OwnBridge(conn[c]) /\ Whole(conn[c]) /\ Given(c) /\ conn[c].staged = "good"
    BY <1>2 DEF Fine, Whole
  <1>4. /\ conn[c].pc \in {"rename", "again"}
        /\ \/ BundleIs(c, "good") /\ Moves(c, "ready") /\ litter' = litter \ {c}
           \/ /\ bundle[BundleId(c)] # "absent" /\ bundle' = bundle
              /\ \/ conn[c].pc = "rename" /\ Moves(c, "lost") /\ litter' = litter
                 \/ conn[c].pc = "again" /\ Moves(c, "final") /\ litter' = litter \ {c}
    BY <1>2, <1>3, RenameBundleDoes
  <1>5. BundleId(c) \in DOMAIN bundle /\ bundle[BundleId(c)] \in Health
    BY <1>2, IdIsThere DEF BundleTypes
  <1>6. Gentle(c)
    <2>1. resolved' \in [Keys -> Version \cup {0}] /\ RememberedFits'
      BY <1>1, RememberedStays
    <2>2. litter' \subseteq litter \cup {c}
      BY <1>4
    <2>3. CASE BundleIs(c, "good")
      BY <1>1, <1>2, <2>1, <2>2, <2>3 DEF Gentle, BundleIs, BundleTypes
    <2>4. CASE bundle' = bundle
      BY <1>1, <2>1, <2>2, <2>4, Untouched
    <2> QED BY <1>4, <2>3, <2>4
  <1>7. Others(c) /\ BundleId(c)' = BundleId(c)
    BY <1>4, SameId DEF Moves, Goes
  <1>8. Place(conn[c])'
    BY <1>3, <1>4 DEF Place, Moves, Goes, Fetching, Assembling
  <1>9. Driver(conn[c])'
    BY <1>3, <1>4 DEF Driver, AsAsked, accepts, Moves, Goes, Fetching, Assembling
  <1>10. OwnBridge(conn[c])'
    BY <1>3, <1>4 DEF OwnBridge, Moves, Goes
  <1>11. Whole(conn[c])'
    BY <1>1, <1>3, <1>4 DEF Whole, Sound, Moves, Goes, Fetching, Assembling
  <1>12. Given(c)'
    <2>1. bundle[BundleId(c)] = "bad" => crashes # 0
      BY <1>2, <1>5 DEF Undamaged
    <2>2. conn[c].pc = "again" => crashes # 0
      BY <1>3 DEF Given
    <2>3. BundleIs(c, "good") => bundle'[BundleId(c)] = "good"
      BY <1>5 DEF BundleIs
    <2> QED BY <1>1, <1>4, <1>5, <1>7, <2>1, <2>2, <2>3 DEF Given, Health, Moves, Goes
  <1>13. c \in litter' => Litters(conn[c])'
    BY <1>2, <1>4 DEF Fine, Litters, Moves, Goes
  <1>14. Fine(c)'
    BY <1>8, <1>9, <1>10, <1>11, <1>12, <1>13 DEF Fine
  <1> QED BY <1>6, <1>7, <1>14, StepKeeps

LEMMA Nothing ==
    /\ NoConn \in ConnState /\ NoConn.pc = "idle" /\ NoConn.part = "cua" /\ NoConn.todo = {} /\ NoConn.staged = "good"
    /\ NoConn.ver["cua"] = 0 /\ NoConn.ver["bridge"] = 0
  <1>1. NoConn.ver \in [Component -> Version \cup {0}] /\ NoConn.ver["cua"] = 0 /\ NoConn.ver["bridge"] = 0
    BY DEF NoConn, Component
  <1>2. NoConn.pc = "idle" /\ NoConn.part = "cua" /\ NoConn.todo = {} /\ NoConn.staged = "good"
    BY DEF NoConn
  <1>3. NoConn \in ConnState
    <2> DEFINE v == [k \in Component |-> 0]
    <2>1. v \in [Component -> Version \cup {0}]
      OBVIOUS
    <2>2. NoConn = [pc |-> "idle", part |-> "cua", channel |-> "tag", tag |-> 0, auto |-> TRUE, local |-> {},
                    ver |-> v, todo |-> {}, back |-> "none", staged |-> "good"]
      BY DEF NoConn
    <2> HIDE DEF v
    <2>3. "idle" \in ConnPc /\ "cua" \in Component /\ "tag" \in AnyChannel
      BY DEF ConnPc, Component, AnyChannel
    <2> QED BY <2>1, <2>2, <2>3 DEF ConnState
  <1> QED BY <1>1, <1>2, <1>3

\* A crash resets every connect, so that nobody relies on what it damages.
LEMMA CrashKeeps ==
    ASSUME BundleInv, CrashAndSweep
    PROVE  BundleInv'
  <1>1. conn' = [c \in Connect |-> NoConn] /\ litter' = {} /\ crashes' = crashes + 1 /\ resolved' = resolved
    BY DEF CrashAndSweep
  <1>2. BundleTypes
    BY DEF BundleInv
  <1>3. NoConn \in ConnState /\ NoConn.pc = "idle" /\ NoConn.part = "cua" /\ NoConn.todo = {} /\ NoConn.staged = "good"
        /\ NoConn.ver["cua"] = 0 /\ NoConn.ver["bridge"] = 0
    BY Nothing
  <1>4. entry' \in [Component -> [Version -> Health]]
    <2>1. CASE entry' = entry
      BY <1>2, <2>1 DEF BundleTypes
    <2>2. CASE \E k \in Component, v \in Version : entry' = [entry EXCEPT ![k][v] = "bad"]
      <3>1. entry \in [Component -> [Version -> Health]] /\ "bad" \in Health
        BY <1>2 DEF BundleTypes, Health
      <3> QED BY <2>2, <3>1
    <2> QED BY <2>1, <2>2 DEF CrashAndSweep
  <1>5. bundle' \in [(Version \cup {0}) \X (Version \cup {0}) -> Health]
    <2> DEFINE D == (Version \cup {0}) \X (Version \cup {0})
    <2>1. bundle \in [D -> Health] /\ "bad" \in Health
      BY <1>2 DEF BundleTypes, Health
    <2>2. bundle' = bundle \/ \E id \in D : bundle' = [bundle EXCEPT ![id] = "bad"]
      BY <2>1 DEF CrashAndSweep
    <2> HIDE DEF D
    <2>3. bundle' \in [D -> Health]
      BY <2>1, <2>2
    <2> QED BY <2>3 DEF D
  <1>6. BundleTypes'
    BY <1>1, <1>2, <1>3, <1>4, <1>5 DEF BundleTypes
  <1>7. RememberedFits' /\ Undamaged'
    <2>1. RememberedFits'
      BY <1>1, RememberedStays
    <2>2. crashes' # 0
      BY <1>1, <1>2 DEF BundleTypes
    <2> QED BY <2>1, <2>2 DEF Undamaged
  <1>8. ASSUME NEW c \in Connect PROVE Fine(c)'
    <2>1. conn'[c] = NoConn
      BY <1>1
    <2>2. Place(conn[c])' /\ Driver(conn[c])' /\ OwnBridge(conn[c])' /\ Whole(conn[c])' /\ Given(c)'
      BY <1>3, <2>1 DEF Place, Driver, OwnBridge, Whole, Given, Fetching, Assembling
    <2>3. c \notin litter'
      BY <1>1
    <2> QED BY <2>2, <2>3 DEF Fine
  <1> QED BY <1>6, <1>7, <1>8 DEF BundleInv

LEMMA BundleStep == BundleInv /\ [BundleNext]_bundleVars => BundleInv'
  <1> SUFFICES ASSUME BundleInv, [BundleNext]_bundleVars PROVE BundleInv'
    OBVIOUS
  <1>1. ASSUME NEW c \in Connect, ConnectStep(c) PROVE BundleInv'
    <2>1. ASSUME NEW r \in Request, Prepare(c, r.channel, r.tag, r.auto, r.local) PROVE BundleInv'
      BY <2>1, PrepareKeeps
    <2>2. CASE Cua(c)
      BY <2>2, CuaKeeps
    <2>3. CASE ResolveChannel(c)
      BY <2>3, ResolveChannelKeeps
    <2>4. CASE NewestCached(c)
      BY <2>4, NewestCachedKeeps
    <2>5. CASE Lookup(c)
      BY <2>5, LookupKeeps
    <2>6. CASE Discard(c)
      BY <2>6, DiscardKeeps
    <2>7. CASE BridgeOwn(c)
      BY <2>7, BridgeOwnKeeps
    <2>8. CASE BridgeNewest(c)
      BY <2>8, BridgeNewestKeeps
    <2>9. CASE FetchDriver(c) \/ FetchBridge(c)
      BY <2>9, FetchKeeps
    <2>10. CASE Publish(c)
      BY <2>10, PublishKeeps
    <2>11. CASE PublishLooks(c)
      BY <2>11, PublishLooksKeeps
    <2>12. CASE Verify(c)
      BY <2>12, VerifyKeeps
    <2>13. CASE RemoveBundle(c)
      BY <2>13, RemoveBundleKeeps
    <2>14. CASE Stage(c)
      BY <2>14, StageKeeps
    <2>15. CASE RenameBundle(c)
      BY <2>15, RenameBundleKeeps
    <2> QED BY <1>1, <2>1, <2>2, <2>3, <2>4, <2>5, <2>6, <2>7, <2>8, <2>9, <2>10, <2>11, <2>12, <2>13, <2>14, <2>15
            DEF ConnectStep
  <1>2. CASE CrashAndSweep
    BY <1>2, CrashKeeps
  <1>3. CASE UNCHANGED bundleVars
    <2>1. /\ entry' = entry /\ bundle' = bundle /\ resolved' = resolved /\ litter' = litter /\ conn' = conn /\ crashes' = crashes
      BY <1>3 DEF bundleVars
    <2>2. BundleTypes' /\ RememberedFits' /\ Undamaged'
      BY <2>1 DEF BundleInv, BundleTypes, RememberedFits, Undamaged, accepts
    <2>3. ASSUME NEW c \in Connect PROVE Fine(c)'
      <3>1. Fine(c)
        BY DEF BundleInv
      <3>2. Place(conn[c])' /\ Driver(conn[c])' /\ OwnBridge(conn[c])'
        BY <2>1, <3>1 DEF Fine, Place, Driver, AsAsked, OwnBridge, accepts
      <3>3. Whole(conn[c])' /\ Given(c)' /\ (c \in litter' => Litters(conn[c])')
        BY <2>1, <3>1 DEF Fine, Whole, Sound, Given, Litters, BundleId
      <3> QED BY <3>2, <3>3 DEF Fine
    <2> QED BY <2>2, <2>3 DEF BundleInv
  <1> QED BY <1>1, <1>2, <1>3 DEF BundleNext

LEMMA BundleStart == BundleInit => BundleInv
  <1> SUFFICES ASSUME BundleInit PROVE BundleInv
    OBVIOUS
  <1>1. NoConn \in ConnState /\ NoConn.pc = "idle" /\ NoConn.part = "cua" /\ NoConn.todo = {} /\ NoConn.staged = "good"
        /\ NoConn.ver["cua"] = 0 /\ NoConn.ver["bridge"] = 0
    BY Nothing
  <1>2. BundleTypes
    <2>1. entry \in [Component -> [Version -> Health]] /\ resolved \in [Channels \cup {"bridge/newest"} -> Version \cup {0}]
      BY DEF BundleInit, Health, Keys
    <2>2. bundle \in [(Version \cup {0}) \X (Version \cup {0}) -> Health]
      BY DEF BundleInit, Health
    <2> QED BY <1>1, <2>1, <2>2 DEF BundleInit, BundleTypes
  <1>3. RememberedFits
    BY DEF BundleInit, RememberedFits
  <1>4. Undamaged
    BY DEF BundleInit, Undamaged
  <1>5. ASSUME NEW c \in Connect PROVE Fine(c)
    <2>1. conn[c] = NoConn /\ litter = {}
      BY DEF BundleInit
    <2>2. Place(conn[c]) /\ Driver(conn[c]) /\ OwnBridge(conn[c]) /\ Whole(conn[c]) /\ Given(c)
      BY <1>1, <2>1 DEF Place, Driver, OwnBridge, Whole, Given, Fetching, Assembling
    <2> QED BY <2>1, <2>2 DEF Fine
  <1> QED BY <1>2, <1>3, <1>4, <1>5 DEF BundleInv

LEMMA BundleFine == BundleInv => BundleIsAsAsked
  <1> SUFFICES ASSUME BundleInv, NEW c \in Connect
               PROVE  /\ conn[c].pc = "ready" =>
                           /\ bundle[BundleId(c)] = "good" \/ (bundle[BundleId(c)] = "absent" /\ crashes > 0)
                           /\ \/ "cua" \in conn[c].local
                              \/ conn[c].channel = "tag" /\ conn[c].ver["cua"] = conn[c].tag
                              \/ conn[c].channel \in Channels /\ conn[c].ver["cua"] \in accepts(conn[c].channel)
                           /\ conn[c].ver["bridge"] \in {0, OwnVersion} \/ OwnVersion \notin Published["bridge"]
                      /\ conn[c].pc \in {"ready", "failed", "idle"} => c \notin litter
    BY DEF BundleIsAsAsked
  <1>1. Fine(c) /\ BundleTypes
    BY DEF BundleInv
  <1>2. bundle[BundleId(c)] \in Health /\ crashes \in Nat
    BY <1>1, IdIsThere DEF BundleTypes
  <1>3. conn[c].pc = "ready" => bundle[BundleId(c)] = "good" \/ (bundle[BundleId(c)] = "absent" /\ crashes > 0)
    BY <1>1, <1>2 DEF Fine, Given, Health
  <1>4. conn[c].pc = "ready" => AsAsked(conn[c])
    BY <1>1 DEF Fine, Driver, Assembling
  <1>5. conn[c].ver["bridge"] \in {0, OwnVersion} \/ OwnVersion \notin Published["bridge"]
    BY <1>1 DEF Fine, OwnBridge
  <1>6. conn[c].pc \in {"ready", "failed", "idle"} => c \notin litter
    BY <1>1 DEF Fine, Litters
  <1> QED BY <1>3, <1>4, <1>5, <1>6 DEF AsAsked

\* Whatever other connects, downloads and crashes do to the cache meanwhile, a
\* connect that is ready serves whole files of the driver that was asked for and of
\* the daemon's own bridge (Cache::lookup, publish, assemble, fetch_bridge), or
\* none where a crash had damaged some; one that ended leaves nothing temporary.
THEOREM BundleIsAsAskedEver == BundleSpec => []BundleIsAsAsked
  <1>1. BundleInit => BundleInv
    BY BundleStart
  <1>2. BundleInv /\ [BundleNext]_bundleVars => BundleInv'
    BY BundleStep
  <1>3. BundleInv => BundleIsAsAsked
    BY BundleFine
  <1> QED BY <1>1, <1>2, <1>3, PTL DEF BundleSpec

-----------------------------------------------------------------------------
(* ClientCall: the steps of the daemon processes                              *)

ProcState == [pc : DaemonPc, saw : DaemonProcess \cup {0}, ours : BOOLEAN]

\* One process moves.
ProcMoves(d, spot, saw) ==
    /\ proc' \in [DaemonProcess -> ProcState]
    /\ \A e \in DaemonProcess \ {d} : proc'[e] = proc[e]
    /\ proc'[d].pc = spot /\ proc'[d].saw = saw /\ proc'[d].ours = proc[d].ours

LEMMA ProcGoes ==
    ASSUME ProcTypes, NEW d \in DaemonProcess, NEW spot \in DaemonPc, NEW saw \in DaemonProcess \cup {0},
           proc' = [proc EXCEPT ![d] = [proc[d] EXCEPT !.pc = spot, !.saw = saw]]
    PROVE  ProcMoves(d, spot, saw)
  <1> DEFINE new == [proc[d] EXCEPT !.pc = spot, !.saw = saw]
  <1>1. proc \in [DaemonProcess -> ProcState] /\ proc[d] \in ProcState
    BY DEF ProcTypes, ProcState
  <1>2. new \in ProcState /\ new.pc = spot /\ new.saw = saw /\ new.ours = proc[d].ours
    BY <1>1 DEF ProcState
  <1> HIDE DEF new
  <1>3. proc' \in [DaemonProcess -> ProcState] /\ proc'[d] = new /\ \A e \in DaemonProcess \ {d} : proc'[e] = proc[e]
    BY <1>1, <1>2 DEF new
  <1> QED BY <1>2, <1>3 DEF ProcMoves

\* Only the spot of one process changes.
LEMMA ProcPc ==
    ASSUME ProcTypes, NEW d \in DaemonProcess, NEW spot \in DaemonPc, proc' = [proc EXCEPT ![d] = [proc[d] EXCEPT !.pc = spot]]
    PROVE  ProcMoves(d, spot, proc[d].saw)
  <1>1. proc[d] \in ProcState
    BY DEF ProcTypes, ProcState
  <1>2. proc' = [proc EXCEPT ![d] = [proc[d] EXCEPT !.pc = spot, !.saw = proc[d].saw]]
    BY <1>1 DEF ProcState
  <1>3. proc[d].saw \in DaemonProcess \cup {0}
    BY <1>1 DEF ProcState
  <1> QED BY <1>2, <1>3, ProcGoes

\* A process moves and does not begin to listen; the path stays, or is removed.
LEMMA OneMoves ==
    ASSUME ListenInv, NEW d \in DaemonProcess, NEW spot \in DaemonPc, NEW saw, ProcMoves(d, spot, saw), platform' = platform,
           spot \in {"bound", "serving", "draining"} => Listens(d),
           spot # "unlink", platform = "unix" => spot \notin {"deaf", "leaving"},
           proc[d].pc \in {"bound", "serving", "draining"} /\ platform = "unix" => spot \in {"bound", "serving", "draining", "ended"},
           proc[d].pc # "ended",
           \/ name' = name /\ raced' = raced
           \/ name' = 0 /\ raced' \in BOOLEAN /\ (~raced' => ~raced /\ \A e \in DaemonProcess : ~Listens(e)')
    PROVE  ListenInv'
  <1>1. ProcTypes /\ Listeners
    BY DEF ListenInv
  <1>2. ProcTypes'
    BY <1>1 DEF ProcTypes, ProcMoves, ProcState
  <1>3. \A e \in DaemonProcess : e # d => proc'[e] = proc[e]
    BY DEF ProcMoves
  <1>4. proc'[d].pc = spot
    BY DEF ProcMoves
  <1>5. \A e \in DaemonProcess : Listens(e)' => Listens(e)
    BY <1>3, <1>4 DEF Listens
  <1>6. CASE platform = "unix"
    <2>1. PathIsBound /\ (\A e \in DaemonProcess : Stale(e) /\ proc[e].pc \notin {"deaf", "leaving"})
          /\ (~raced => \A e \in DaemonProcess : Listens(e) => name = e)
      BY <1>1, <1>6 DEF Listeners
    <2>2. PathIsBound'
      <3>1. CASE name' = name /\ name # 0
        <4>1. name \in DaemonProcess
          BY <1>1, <3>1 DEF ProcTypes
        <4>2. proc'[name].pc \in {"bound", "serving", "draining", "ended"}
          BY <1>3, <1>4, <1>6, <2>1, <3>1, <4>1 DEF PathIsBound
        <4> QED BY <3>1, <4>2 DEF PathIsBound
      <3>2. CASE name' = 0
        BY <3>2 DEF PathIsBound
      <3> QED BY <3>1, <3>2
    <2>3. ASSUME NEW e \in DaemonProcess PROVE Stale(e)' /\ proc'[e].pc \notin {"deaf", "leaving"}
      <3>1. CASE e = d
        BY <1>4, <1>6, <3>1 DEF Stale
      <3>2. CASE e # d
        <4>1. proc'[e] = proc[e] /\ Stale(e) /\ proc[e].pc \notin {"deaf", "leaving"} /\ proc[e].saw \in DaemonProcess \cup {0}
          BY <1>1, <1>3, <2>1, <3>2 DEF ProcTypes
        <4>2. proc[e].pc = "unlink" /\ proc[e].saw # 0 => proc[e].saw # d
          BY <4>1 DEF Stale
        <4> QED BY <1>3, <4>1, <4>2 DEF Stale
      <3> QED BY <3>1, <3>2
    <2>4. ~raced' => \A e \in DaemonProcess : Listens(e)' => name' = e
      BY <1>5, <2>1
    <2> QED BY <1>2, <1>6, <2>2, <2>3, <2>4 DEF ListenInv, Listeners
  <1>7. CASE platform # "unix"
    <2>1. \A e, f \in DaemonProcess : Listens(e) /\ Listens(f) => e = f
      BY <1>1, <1>7 DEF Listeners
    <2> QED BY <1>2, <1>5, <1>7, <2>1 DEF ListenInv, Listeners
  <1> QED BY <1>6, <1>7

LEMMA StartKeeps ==
    ASSUME ListenInv, NEW d \in DaemonProcess, Startable(d), proc' = [proc EXCEPT ![d] = Started(@)],
           platform' = platform, name' = name, raced' = raced
    PROVE  ListenInv'
  <1> DEFINE spot == IF platform = "unix" /\ name # 0 THEN "probe" ELSE "bind"
  <1>1. proc' = [proc EXCEPT ![d] = [proc[d] EXCEPT !.pc = spot]]
    BY DEF Started
  <1>2. spot \in {"probe", "bind"} /\ spot \in DaemonPc
    BY DEF DaemonPc
  <1> HIDE DEF spot
  <1>3. ProcMoves(d, spot, proc[d].saw) /\ proc[d].saw \in DaemonProcess \cup {0}
    BY <1>1, <1>2, ProcPc DEF ListenInv, ProcTypes
  <1> QED BY <1>2, <1>3, OneMoves DEF Startable, Listens

\* What the probe finds: nobody who listens has the path.
LEMMA BindProbesKeeps ==
    ASSUME ListenInv, NEW d \in DaemonProcess, BindProbes(d)
    PROVE  ListenInv'
  <1>1. ProcTypes /\ Listeners /\ proc[d].pc = "probe" /\ platform' = platform /\ name' = name /\ raced' = raced
    BY DEF ListenInv, BindProbes
  <1> DEFINE spot == IF Reached = {} THEN "unlink" ELSE "ended"
             saw == IF Reached = {} THEN name ELSE 0
  <1>2. proc' = [proc EXCEPT ![d] = [proc[d] EXCEPT !.pc = spot, !.saw = saw]]
    BY DEF BindProbes
  <1>3. spot \in DaemonPc /\ saw \in DaemonProcess \cup {0} /\ spot \in {"unlink", "ended"}
    BY <1>1 DEF DaemonPc, ProcTypes
  <1>4. spot = "unlink" => Reached = {} /\ saw = name
    OBVIOUS
  <1> HIDE DEF spot, saw
  <1>5. ProcMoves(d, spot, saw)
    BY <1>1, <1>2, <1>3, ProcGoes
  <1>6. ProcTypes'
    BY <1>1, <1>5 DEF ProcTypes, ProcMoves, ProcState
  <1>7. \A e \in DaemonProcess : /\ Listens(e)' <=> (e # d /\ Listens(e))
                                 /\ e # d => proc'[e] = proc[e]
    BY <1>1, <1>3, <1>5 DEF Listens, ProcMoves
  <1>8. CASE platform = "unix"
    <2>1. PathIsBound /\ (\A e \in DaemonProcess : Stale(e) /\ proc[e].pc \notin {"deaf", "leaving"})
          /\ (~raced => \A e \in DaemonProcess : Listens(e) => name = e)
      BY <1>1, <1>8 DEF Listeners
    <2>2. name # 0 => name # d /\ name \in DaemonProcess
      BY <1>1, <2>1 DEF PathIsBound, ProcTypes
    <2>3. PathIsBound'
      BY <1>1, <1>7, <2>1, <2>2 DEF PathIsBound
    <2>4. spot = "unlink" /\ name # 0 => proc[name].pc = "ended"
      <3>1. Reached = {e \in DaemonProcess : e = name /\ Listens(e)}
        BY <1>8 DEF Reached
      <3>2. spot = "unlink" /\ name # 0 => ~Listens(name)
        BY <1>4, <2>2, <3>1
      <3> QED BY <2>1, <3>2 DEF PathIsBound, Listens
    <2>5. ASSUME NEW e \in DaemonProcess PROVE Stale(e)' /\ proc'[e].pc \notin {"deaf", "leaving"}
      <3>1. CASE e = d
        BY <1>3, <1>4, <1>5, <1>7, <2>2, <2>4, <3>1 DEF Stale, ProcMoves
      <3>2. CASE e # d
        <4>1. proc'[e] = proc[e] /\ Stale(e) /\ proc[e].pc \notin {"deaf", "leaving"} /\ proc[e].saw \in DaemonProcess \cup {0}
          BY <1>1, <1>7, <2>1, <3>2 DEF ProcTypes
        <4>2. proc[e].pc = "unlink" /\ proc[e].saw # 0 => proc[e].saw # d
          BY <1>1, <4>1 DEF Stale
        <4> QED BY <1>7, <4>1, <4>2 DEF Stale
      <3> QED BY <3>1, <3>2
    <2>6. ~raced' => \A e \in DaemonProcess : Listens(e)' => name' = e
      BY <1>1, <1>7, <2>1
    <2> QED BY <1>1, <1>6, <1>8, <2>3, <2>5, <2>6 DEF ListenInv, Listeners
  <1>9. CASE platform # "unix"
    <2>1. \A e, f \in DaemonProcess : Listens(e) /\ Listens(f) => e = f
      BY <1>1, <1>9 DEF Listeners
    <2> QED BY <1>1, <1>6, <1>7, <1>9, <2>1 DEF ListenInv, Listeners
  <1> QED BY <1>8, <1>9

\* remove_file: whoever listened without being noted as raced has the path, or had
\* let it go when the probe found its file stale.
LEMMA BindUnlinksKeeps ==
    ASSUME ListenInv, NEW d \in DaemonProcess, BindUnlinks(d)
    PROVE  ListenInv'
  <1>1. ProcTypes /\ Listeners /\ proc[d].pc = "unlink" /\ platform' = platform /\ name' = 0
        /\ raced' = (raced \/ (name # proc[d].saw /\ Reached # {}))
    BY DEF ListenInv, BindUnlinks
  <1> DEFINE spot == IF name = 0 THEN "ended" ELSE "bind"
  <1>2. proc' = [proc EXCEPT ![d] = [proc[d] EXCEPT !.pc = spot, !.saw = 0]]
    BY DEF BindUnlinks
  <1>3. spot \in DaemonPc /\ spot \in {"ended", "bind"}
    BY DEF DaemonPc
  <1> HIDE DEF spot
  <1>4. ProcMoves(d, spot, 0)
    BY <1>1, <1>2, <1>3, ProcGoes
  <1>5. raced' \in BOOLEAN
    BY <1>1 DEF ProcTypes
  <1>6. CASE platform = "unix"
    <2>1. ASSUME ~raced' PROVE ~raced /\ \A e \in DaemonProcess : ~Listens(e)'
      <3>1. ~raced /\ (name = proc[d].saw \/ Reached = {})
        BY <1>1, <2>1
      <3>2. PathIsBound /\ Stale(d) /\ (\A e \in DaemonProcess : Listens(e) => name = e)
        BY <1>1, <1>6, <3>1 DEF Listeners
      <3>3. \A e \in DaemonProcess : ~Listens(e)
        <4>1. CASE name = proc[d].saw
          <5>1. 0 \notin DaemonProcess
            BY DEF DaemonProcess
          <5>2. name = 0 \/ proc[name].pc = "ended"
            BY <1>1, <3>2, <4>1 DEF Stale
          <5>3. ASSUME NEW e \in DaemonProcess, Listens(e) PROVE FALSE
            <6>1. name = e
              BY <3>2, <5>3
            <6> QED BY <5>1, <5>2, <5>3, <6>1 DEF Listens
          <5> QED BY <5>3
        <4>2. CASE Reached = {}
          BY <1>6, <3>2, <4>2 DEF Reached
        <4> QED BY <3>1, <4>1, <4>2
      <3>4. \A e \in DaemonProcess : e # d => proc'[e] = proc[e]
        BY <1>4 DEF ProcMoves
      <3>5. ~Listens(d)'
        BY <1>3, <1>4 DEF ProcMoves, Listens
      <3>6. \A e \in DaemonProcess : ~Listens(e)'
        BY <3>3, <3>4, <3>5 DEF Listens
      <3> QED BY <3>1, <3>6
    <2> QED BY <1>1, <1>3, <1>4, <1>5, <2>1, OneMoves
  <1>7. CASE platform # "unix"
    <2>1. ProcTypes'
      BY <1>1, <1>4, <1>5 DEF ProcTypes, ProcMoves, ProcState
    <2>2. \A e, f \in DaemonProcess : Listens(e) /\ Listens(f) => e = f
      BY <1>1, <1>7 DEF Listeners
    <2>3. \A e \in DaemonProcess : Listens(e)' => Listens(e)
      BY <1>3, <1>4 DEF Listens, ProcMoves
    <2> QED BY <1>1, <1>7, <2>1, <2>2, <2>3 DEF ListenInv, Listeners
  <1> QED BY <1>6, <1>7

\* The path is free, or no process has an instance of the pipe.
LEMMA BindEndsKeeps ==
    ASSUME ListenInv, NEW d \in DaemonProcess, BindEnds(d)
    PROVE  ListenInv'
  <1>1. ProcTypes /\ Listeners /\ proc[d].pc = "bind" /\ platform' = platform /\ raced' = raced
    BY DEF ListenInv, BindEnds
  <1>2. proc \in [DaemonProcess -> ProcState] /\ proc[d] \in ProcState
    BY <1>1 DEF ProcTypes, ProcState
  <1>3. CASE platform = "unix"
    <2> DEFINE spot == IF name = 0 THEN "bound" ELSE "ended"
    <2>1. proc' = [proc EXCEPT ![d] = [proc[d] EXCEPT !.pc = spot]] /\ name' = IF name = 0 THEN d ELSE name
      BY <1>3 DEF BindEnds
    <2>2. spot \in DaemonPc
      BY DEF DaemonPc
    <2>3. ProcMoves(d, spot, proc[d].saw)
      <3> HIDE DEF spot
      <3> QED BY <1>1, <2>1, <2>2, ProcPc
    <2>4. CASE name # 0
      <3>1. name' = name /\ spot = "ended"
        BY <2>1, <2>4
      <3> HIDE DEF spot
      <3> QED BY <1>1, <2>2, <2>3, <3>1, OneMoves
    <2>5. CASE name = 0
      <3>1. name' = d /\ proc'[d].pc = "bound" /\ \A e \in DaemonProcess : e # d => proc'[e] = proc[e]
        BY <2>1, <2>3, <2>5 DEF ProcMoves
      <3>2. ProcTypes'
        BY <1>1, <2>3, <3>1 DEF ProcTypes, ProcMoves, ProcState
      <3>3. PathIsBound /\ (\A e \in DaemonProcess : Stale(e) /\ proc[e].pc \notin {"deaf", "leaving"})
            /\ (~raced => \A e \in DaemonProcess : Listens(e) => name = e)
        BY <1>1, <1>3 DEF Listeners
      <3>4. PathIsBound'
        BY <3>1 DEF PathIsBound
      <3>5. ASSUME NEW e \in DaemonProcess PROVE Stale(e)' /\ proc'[e].pc \notin {"deaf", "leaving"}
        <4>1. CASE e = d
          BY <3>1, <4>1 DEF Stale
        <4>2. CASE e # d
          <5>1. proc'[e] = proc[e] /\ Stale(e) /\ proc[e].pc \notin {"deaf", "leaving"} /\ proc[e].saw \in DaemonProcess \cup {0}
            BY <1>1, <3>1, <3>3, <4>2 DEF ProcTypes
          <5>2. proc[e].pc = "unlink" /\ proc[e].saw # 0 => proc[e].saw # d
            BY <1>1, <5>1 DEF Stale
          <5> QED BY <3>1, <5>1, <5>2 DEF Stale
        <4> QED BY <4>1, <4>2
      <3>6. ~raced' => \A e \in DaemonProcess : Listens(e)' => name' = e
        <4>1. ~raced => \A e \in DaemonProcess : ~Listens(e)
          BY <2>5, <3>3 DEF DaemonProcess
        <4> QED BY <1>1, <3>1, <4>1 DEF Listens
      <3> QED BY <1>1, <1>3, <3>2, <3>4, <3>5, <3>6 DEF ListenInv, Listeners
    <2> QED BY <2>4, <2>5
  <1>4. CASE platform # "unix"
    <2> DEFINE spot == IF NameInUse(d) THEN "ended" ELSE "bound"
    <2>1. proc' = [proc EXCEPT ![d] = [proc[d] EXCEPT !.pc = spot]] /\ name' = name
      BY <1>4 DEF BindEnds
    <2>2. spot \in DaemonPc /\ (spot = "bound" => ~NameInUse(d)) /\ spot \in {"ended", "bound"}
      BY DEF DaemonPc
    <2> HIDE DEF spot
    <2>3. ProcMoves(d, spot, proc[d].saw)
      BY <1>1, <2>1, <2>2, ProcPc
    <2>4. ProcTypes'
      BY <1>1, <2>1, <2>3 DEF ProcTypes, ProcMoves, ProcState
    <2>5. \A e \in DaemonProcess : e # d => (Listens(e)' <=> Listens(e))
      BY <2>3 DEF Listens, ProcMoves
    <2>6. Listens(d)' => \A e \in DaemonProcess \ {d} : ~Listens(e)
      BY <2>2, <2>3 DEF NameInUse, ProcMoves, Listens
    <2>7. \A e, f \in DaemonProcess : Listens(e) /\ Listens(f) => e = f
      BY <1>1, <1>4 DEF Listeners
    <2>8. \A e, f \in DaemonProcess : Listens(e)' /\ Listens(f)' => e = f
      BY <2>5, <2>6, <2>7
    <2> QED BY <1>1, <1>4, <2>4, <2>8 DEF ListenInv, Listeners
  <1> QED BY <1>3, <1>4

\* The path is removed by its name: a daemon that is not the one that has it
\* removes it under the one that does, and that is noted.
LEMMA DaemonExitsKeeps ==
    ASSUME ListenInv, NEW d \in DaemonProcess, DaemonExits(d)
    PROVE  ListenInv'
  <1>1. ProcTypes /\ Listeners /\ proc[d].pc \in {"draining", "leaving"} /\ platform' = platform /\ name' = 0
        /\ raced' = (raced \/ (name # d /\ Reached # {}))
        /\ proc' = [proc EXCEPT ![d] = [proc[d] EXCEPT !.pc = "ended"]]
    BY DEF ListenInv, DaemonExits
  <1>2. ProcMoves(d, "ended", proc[d].saw)
    BY <1>1, ProcPc DEF DaemonPc
  <1>3. raced' \in BOOLEAN
    BY <1>1 DEF ProcTypes
  <1>4. \A e \in DaemonProcess : Listens(e)' <=> (e # d /\ Listens(e))
    BY <1>2 DEF ProcMoves, Listens
  <1>5. CASE platform = "unix"
    <2>1. proc[d].pc = "draining"
      BY <1>1, <1>5 DEF Listeners
    <2>2. ASSUME ~raced' PROVE ~raced /\ \A e \in DaemonProcess : ~Listens(e)'
      <3>1. ~raced /\ (\A e \in DaemonProcess : Listens(e) => name = e)
        BY <1>1, <1>5, <2>2 DEF Listeners
      <3>2. name = d
        BY <2>1, <3>1 DEF Listens
      <3> QED BY <1>4, <3>1, <3>2
    <2> QED BY <1>1, <1>2, <1>3, <2>1, <2>2, OneMoves DEF DaemonPc
  <1>6. CASE platform # "unix"
    <2>1. ProcTypes'
      BY <1>1, <1>2, <1>3 DEF ProcTypes, ProcMoves, ProcState
    <2>2. \A e, f \in DaemonProcess : Listens(e) /\ Listens(f) => e = f
      BY <1>1, <1>6 DEF Listeners
    <2> QED BY <1>1, <1>4, <1>6, <2>1, <2>2 DEF ListenInv, Listeners
  <1> QED BY <1>5, <1>6

\* The other steps of a process that runs.
LEMMA RunsOn ==
    ASSUME ListenInv, NEW d \in DaemonProcess,
           DaemonServes(d) \/ DaemonDrains(d) \/ DaemonDies(d)
    PROVE  ListenInv'
  <1>1. ProcTypes /\ Listeners /\ platform' = platform /\ name' = name /\ raced' = raced
    BY DEF ListenInv, DaemonServes, DaemonDrains, DaemonDies
  <1>2. proc[d] \in ProcState
    BY <1>1 DEF ProcTypes, ProcState
  <1>3. CASE DaemonServes(d)
    <2>1. proc' = [proc EXCEPT ![d] = [proc[d] EXCEPT !.pc = "serving"]] /\ proc[d].pc = "bound" /\ "serving" \in DaemonPc
      BY <1>3 DEF DaemonServes, DaemonPc
    <2>2. ProcMoves(d, "serving", proc[d].saw)
      BY <1>1, <2>1, ProcPc
    <2> QED BY <1>1, <2>1, <2>2, OneMoves DEF Listens
  <1>4. CASE DaemonDrains(d)
    <2> DEFINE spot == IF proc[d].pc = "deaf" THEN "leaving" ELSE "draining"
    <2>1. proc' = [proc EXCEPT ![d] = [proc[d] EXCEPT !.pc = spot]] /\ proc[d].pc \in {"serving", "deaf"}
      BY <1>4 DEF DaemonDrains
    <2>2. /\ spot \in DaemonPc /\ spot \in {"leaving", "draining"}
          /\ spot = "draining" => Listens(d)
          /\ platform = "unix" => spot = "draining"
      BY <1>1, <2>1 DEF DaemonPc, Listens, Listeners
    <2> HIDE DEF spot
    <2>3. ProcMoves(d, spot, proc[d].saw)
      BY <1>1, <2>1, <2>2, ProcPc
    <2> QED BY <1>1, <2>1, <2>2, <2>3, OneMoves
  <1>5. CASE DaemonDies(d)
    <2>1. proc' = [proc EXCEPT ![d] = [proc[d] EXCEPT !.pc = "ended", !.saw = 0]] /\ proc[d].pc # "ended" /\ "ended" \in DaemonPc
      BY <1>5 DEF DaemonDies, DaemonPc, Alive
    <2>2. ProcMoves(d, "ended", 0)
      BY <1>1, <2>1, ProcGoes
    <2> QED BY <1>1, <2>1, <2>2, OneMoves
  <1> QED BY <1>3, <1>4, <1>5

\* Windows: the process whose pipe could not be made again is deaf.
LEMMA AcceptFailsKeeps ==
    ASSUME ListenInv, NEW c \in Caller, AcceptFails(c)
    PROVE  ListenInv'
  <1> DEFINE d == cl[c].to
  <1>1. ProcTypes /\ Listeners /\ platform = "windows" /\ platform' = platform /\ name' = name /\ raced' = raced
        /\ proc[d].pc = "serving" /\ proc' = [proc EXCEPT ![d].pc = "deaf"]
    BY DEF ListenInv, AcceptFails
  <1> HIDE DEF d
  <1>2. CASE d \in DaemonProcess
    <2>1. proc' = [proc EXCEPT ![d] = [proc[d] EXCEPT !.pc = "deaf"]] /\ "deaf" \in DaemonPc
      BY <1>1 DEF DaemonPc
    <2>2. ProcMoves(d, "deaf", proc[d].saw)
      BY <1>1, <1>2, <2>1, ProcPc
    <2> QED BY <1>1, <1>2, <2>1, <2>2, OneMoves
  <1>3. CASE d \notin DaemonProcess
    <2>1. proc' = proc
      BY <1>1, <1>3 DEF ProcTypes
    <2> QED BY <1>1, <2>1 DEF ListenInv, ProcTypes, Listeners, PathIsBound, Stale, Listens
  <1> QED BY <1>2, <1>3

LEMMA ListenSame ==
    ASSUME ListenInv, platform' = platform, name' = name, raced' = raced, proc' = proc
    PROVE  ListenInv'
  <1> QED BY DEF ListenInv, ProcTypes, Listeners, PathIsBound, Stale, Listens

LEMMA ListenStep == ListenInv /\ [ClientNext]_callVars => ListenInv'
  <1> SUFFICES ASSUME ListenInv, [ClientNext]_callVars PROVE ListenInv'
    OBVIOUS
  <1>1. ASSUME NEW d \in DaemonProcess,
               \/ DaemonRuns(d) \/ BindProbes(d) \/ BindUnlinks(d) \/ BindEnds(d) \/ DaemonServes(d)
               \/ DaemonDrains(d) \/ DaemonExits(d) \/ DaemonDies(d)
        PROVE  ListenInv'
    <2>1. CASE DaemonRuns(d)
      BY <2>1, StartKeeps DEF DaemonRuns
    <2>2. CASE BindProbes(d)
      BY <2>2, BindProbesKeeps
    <2>3. CASE BindUnlinks(d)
      BY <2>3, BindUnlinksKeeps
    <2>4. CASE BindEnds(d)
      BY <2>4, BindEndsKeeps
    <2>5. CASE DaemonServes(d) \/ DaemonDrains(d) \/ DaemonDies(d)
      BY <2>5, RunsOn
    <2>6. CASE DaemonExits(d)
      BY <2>6, DaemonExitsKeeps
    <2> QED BY <1>1, <2>1, <2>2, <2>3, <2>4, <2>5, <2>6
  <1>2. CASE OtherWrites
    BY <1>2, ListenSame DEF OtherWrites
  <1>3. ASSUME NEW c \in Caller,
               \/ Accepts(c) \/ ServeReads(c) \/ ServeGone(c)
               \/ DispatchRefuses(c) \/ Dispatched(c) \/ DispatchFails(c) \/ DispatchHolds(c) \/ AnswerUnwritten(c)
               \/ GetCreates(c) \/ GetEnds(c) \/ GetFails(c)
               \/ ConnectOpens(c) \/ ConnectAcked(c) \/ AckTimesOut(c)
        PROVE  ListenInv'
    <2>1. platform' = platform /\ name' = name /\ raced' = raced /\ proc' = proc
      BY <1>3 DEF Accepts, ServeReads, ServeGone, DispatchRefuses, Dispatched, DispatchFails, DispatchHolds, AnswerUnwritten,
                  GetCreates, GetEnds, GetFails, ConnectOpens, ConnectAcked, AckTimesOut
    <2> QED BY <2>1, ListenSame
  <1>4. ASSUME NEW c \in Caller, NEW v \in Verb,
               Begins(c, v) \/ BeginFails(c, v) \/ BeginRefuses(c, v) \/ PasswordFails(c, v) \/ StageFails(c, v)
        PROVE  ListenInv'
    <2>1. platform' = platform /\ name' = name /\ raced' = raced /\ proc' = proc
      BY <1>4 DEF Begins, BeginFails, BeginRefuses, PasswordFails, StageFails
    <2> QED BY <2>1, ListenSame
  <1>5. ASSUME NEW c \in Caller,
               \/ Opens(c) \/ OpenRetries(c) \/ OpenFails(c)
               \/ Probed(c) \/ AnsweredError(c) \/ AnsweredConnect(c) \/ Acked(c) \/ AnsweredOk(c) \/ AnsweredHeld(c)
               \/ RenderFails(c) \/ Lost(c) \/ AttachTimesOut(c) \/ ViewEnds(c) \/ ProxyEnds(c) \/ CallerDies(c)
        PROVE  ListenInv'
    <2>1. platform' = platform /\ name' = name /\ raced' = raced /\ proc' = proc
      BY <1>5 DEF Opens, OpenRetries, OpenFails, Probed, AnsweredError, AnsweredConnect, Acked, AnsweredOk, AnsweredHeld,
                  RenderFails, Lost, AttachTimesOut, ViewEnds, ProxyEnds, CallerDies
    <2> QED BY <2>1, ListenSame
  <1>6. ASSUME NEW c \in Caller, OpenSpawns(c) PROVE ListenInv'
    <2>1. PICK d \in DaemonProcess : Startable(d) /\ proc' = [proc EXCEPT ![d] = Started(@)]
      BY <1>6 DEF OpenSpawns
    <2>2. platform' = platform /\ name' = name /\ raced' = raced
      BY <1>6 DEF OpenSpawns
    <2> QED BY <2>1, <2>2, StartKeeps
  <1>7. ASSUME NEW c \in Caller, AcceptFails(c) PROVE ListenInv'
    BY <1>7, AcceptFailsKeeps
  <1>8. CASE UNCHANGED callVars
    BY <1>8, ListenSame DEF callVars
  <1> QED BY <1>1, <1>2, <1>3, <1>4, <1>5, <1>6, <1>7, <1>8 DEF ClientNext

LEMMA ListenStart == ClientInit => ListenInv
  <1> SUFFICES ASSUME ClientInit PROVE ListenInv
    OBVIOUS
  <1>1. platform \in {"unix", "windows"} /\ raced = FALSE
    BY ClientAssumption DEF ClientInit
  <1>2. 1 \in DaemonProcess /\ 0 \notin DaemonProcess
    BY ClientAssumption DEF DaemonProcess
  <1>3. NoProc \in ProcState /\ NoProc.pc = "none"
    BY DEF NoProc, ProcState, DaemonPc
  <1>4. CASE proc = [p \in DaemonProcess |-> NoProc] /\ name = 0
    <2>1. ProcTypes
      BY <1>1, <1>3, <1>4 DEF ProcTypes, ProcState
    <2>2. \A d \in DaemonProcess : proc[d].pc = "none"
      BY <1>3, <1>4
    <2> QED BY <1>4, <2>1, <2>2 DEF ListenInv, Listeners, PathIsBound, Stale, Listens
  <1>5. ASSUME NEW ours \in BOOLEAN,
               proc = [p \in DaemonProcess |-> IF p = 1 THEN [NoProc EXCEPT !.pc = "serving", !.ours = ours] ELSE NoProc],
               name = IF platform = "unix" THEN 1 ELSE 0
        PROVE  ListenInv
    <2> DEFINE first == [NoProc EXCEPT !.pc = "serving", !.ours = ours]
    <2>1. first \in ProcState /\ first.pc = "serving"
      BY DEF NoProc, ProcState, DaemonPc
    <2> HIDE DEF first
    <2>2. proc \in [DaemonProcess -> ProcState] /\ proc[1] = first /\ \A p \in DaemonProcess : p # 1 => proc[p] = NoProc
      BY <1>2, <1>3, <1>5, <2>1 DEF first
    <2>3. ProcTypes
      BY <1>1, <1>2, <1>5, <2>2 DEF ProcTypes, ProcState
    <2>4. \A d \in DaemonProcess : (Listens(d) => d = 1) /\ proc[d].pc \in {"none", "serving"}
      BY <1>3, <2>1, <2>2 DEF Listens
    <2>5. name # 0 => name = 1 /\ proc[name].pc = "serving"
      BY <1>5, <2>1, <2>2
    <2>6. platform = "unix" => name = 1
      BY <1>5
    <2> QED BY <2>3, <2>4, <2>5, <2>6 DEF ListenInv, Listeners, PathIsBound, Stale
  <1> QED BY <1>4, <1>5 DEF ClientInit

\* Two daemons listen at once only after a socket file was removed under the one
\* that listened on it (unix::bind, the end of run); on Windows they never do.
THEOREM DaemonsAreOneEver == ClientSpec => []DaemonsAreOne
  <1>1. ClientInit => ListenInv
    BY ListenStart
  <1>2. ListenInv /\ [ClientNext]_callVars => ListenInv'
    BY ListenStep
  <1>3. ListenInv => DaemonsAreOne
    <2> SUFFICES ASSUME ListenInv, ~raced PROVE Cardinality({d \in DaemonProcess : Listens(d)}) <= 1
      BY DEF DaemonsAreOne
    <2> DEFINE L == {d \in DaemonProcess : Listens(d)}
    <2>1. \A d, e \in L : d = e
      BY DEF ListenInv, Listeners
    <2>2. CASE L = {}
      BY <2>2, FS_EmptySet
    <2>3. ASSUME NEW d \in L PROVE Cardinality(L) <= 1
      <3>1. L = {d}
        BY <2>1
      <3>2. Cardinality({d}) = 1
        BY FS_Singleton
      <3> HIDE DEF L
      <3> QED BY <3>1, <3>2
    <2> QED BY <2>2, <2>3
  <1> QED BY <1>1, <1>2, <1>3, PTL DEF ClientSpec

-----------------------------------------------------------------------------
(* ClientCall: what an exit code promises                                     *)

Verbs == {"connect", "list", "takeover", "disconnect", "ping", "click", "key", "screenshot", "put", "get", "replace", "record",
          "stop", "annotate", "keep", "recordings", "view", "cua"}
Ops == {"Connect", "List", "Takeover", "Disconnect", "Ping", "Mouse", "Key", "Screenshot", "Put", "Get", "RecordStart",
        "RecordStop", "Annotate", "RecordingKeep", "RecordingList", "ViewerStart", "CuaAttach"}
Oks == {"Connected", "SessionList", "TakenOver", "Ack", "Screenshot", "Transfer", "RecordingChanged", "Recordings",
        "ViewerStarted", "CuaAttached"}
Codes == {"session-not-found", "transfer-failed", "path-traversal", "checksum-mismatch", "duplicate-session",
          "bundle-unavailable", "human-control", "recording", "internal"}
Nothings == {"duplicate-session", "bundle-unavailable"}

\* What a client is told of itself, in the order of a call.
ExitClass ==
    {"none", "ok", "config", "no-clobber", "daemon-unreachable", "daemon-incompatible", "transport", "killed"} \cup Codes
CallerState ==
    [verb : Verbs \cup {"none", "config"}, pc : {"idle", "open", "probe", "request", "acked", "held", "done"},
     to : DaemonProcess \cup {0}, tries : Nat, exit : ExitClass, told : {"nothing", "ConnectAck"} \cup Ops]
LinkState ==
    [srv : {"none", "queued", "read", "work", "acking", "holding", "closed"}, up : {"none", "ConnectAck"} \cup Ops,
     down : {"none"} \cup Oks \cup Codes]

CallTypes ==
    /\ cl \in [Caller -> CallerState]
    /\ link \in [Caller -> LinkState]
    /\ ses \in [Caller -> {"none", "opening", "open", "kept"}]
    /\ did \in [Caller -> BOOLEAN]

\* Where the client is, what it has told the daemon and whether it has left.
Telling(c) ==
    /\ cl[c].exit = "none" <=> cl[c].pc # "done"
    /\ cl[c].pc = "idle" => cl[c].verb = "none"
    /\ cl[c].pc \in {"idle", "open", "probe"} => cl[c].told = "nothing"
    /\ cl[c].pc \in {"request", "held"} => cl[c].told = Op(c)
    /\ cl[c].pc = "acked" => cl[c].told = "ConnectAck"
    /\ cl[c].pc \notin {"idle", "done"} => cl[c].verb \in Verbs
    /\ cl[c].pc \in {"idle", "open"} => link[c].srv = "none"
    /\ cl[c].pc \in {"probe", "request", "acked", "held"} => link[c].srv # "none" /\ cl[c].to \in DaemonProcess
    /\ cl[c].pc = "held" => link[c].down = "none" /\ did[c] /\ Op(c) \in DOMAIN Held

\* Only the probe has left the client: a list.
Unasked(c) ==
    cl[c].told = "nothing" =>
    /\ ses[c] = "none" /\ dest # c
    /\ did[c] => cl[c].exit = "ok"
    /\ link[c].srv \in {"none", "queued", "read", "closed"}
    /\ link[c].up \in {"none", "List"} /\ link[c].down \in {"none", "SessionList"}
    /\ link[c].srv = "none" => link[c].up = "none" /\ link[c].down = "none"
    /\ link[c].srv = "queued" => link[c].up = "List"
    /\ link[c].up = "List" => link[c].down = "none"

\* What an answer on its way says is so.
Outcome(c) ==
    /\ link[c].down # "none" => link[c].down \in WireCode \cup {VerbCall[cl[c].verb].ok}
    /\ link[c].down \in Nothings => ~did[c]
    /\ link[c].down \notin WireCode \cup {"none"} => did[c] /\ (cl[c].verb = "get" => dest = "whole")

\* The request has left: it is on its way, worked on, answered or cut.
Asked(c) ==
    cl[c].told \notin {"nothing", "ConnectAck"} =>
    /\ cl[c].verb \in Verbs \ {"list"} /\ cl[c].told = Op(c)
    /\ link[c].srv \in {"read", "work", "acking", "holding", "closed"}
    /\ link[c].up \in {"none", Op(c)}
    /\ link[c].up # "none" =>
          link[c].srv \in {"read", "closed"} /\ link[c].down = "none" /\ ~did[c] /\ ses[c] = "none" /\ dest # c
    /\ link[c].srv = "read" /\ link[c].up = "none" => link[c].down # "none" /\ Op(c) \notin DOMAIN Held
    /\ link[c].srv = "work" =>
          link[c].down = "none" /\ ~did[c] /\ ses[c] = (IF Op(c) = "Connect" THEN "opening" ELSE "none")
    /\ link[c].srv = "acking" => Op(c) = "Connect" /\ link[c].down = "Connected" /\ ses[c] = "open"
    /\ link[c].srv = "holding" => Op(c) \in DOMAIN Held /\ did[c]
    /\ link[c].srv \in {"read", "holding", "closed"} => ses[c] = "none"
    /\ link[c].down = "Connected" => link[c].srv \in {"acking", "closed"}
    /\ dest = c => cl[c].verb = "get" /\ link[c].srv \in {"work", "closed"} /\ link[c].down = "none"
    /\ Outcome(c)

\* The client has acknowledged its session.
Acking(c) ==
    cl[c].told = "ConnectAck" =>
    /\ cl[c].verb = "connect" /\ did[c] /\ dest # c
    /\ link[c].srv \in {"acking", "read", "closed"} /\ link[c].up \in {"none", "ConnectAck"}
    /\ link[c].srv = "acking" => ses[c] = "open" /\ link[c].up = "ConnectAck"
    /\ link[c].srv = "read" => ses[c] = "kept" /\ link[c].up = "none"
    /\ link[c].srv = "closed" => ses[c] \in {"none", "kept"}
    /\ link[c].down = (IF ses[c] = "kept" THEN "Ack" ELSE "none")

\* What was sent is not answered yet.
Waits(c) == link[c].srv \in {"queued", "work"} \/ (link[c].srv = "read" /\ link[c].up # "none")

\* What the exit says stays so.
Exited(c) ==
    /\ cl[c].exit = "ok" =>
          /\ did[c]
          /\ cl[c].verb = "connect" => ses[c] = "kept"
          /\ cl[c].verb \in {"get", "replace"} => dest = "whole"
    /\ cl[c].exit \in {"no-clobber", "daemon-incompatible", "config"} => cl[c].told = "nothing"
    /\ cl[c].exit = "daemon-unreachable" => cl[c].verb = "view" \/ cl[c].told = "nothing"
    /\ cl[c].exit \in Nothings =>
          link[c].down = cl[c].exit /\ link[c].srv \in {"read", "closed"} /\ cl[c].told \notin {"nothing", "ConnectAck"}
    /\ dest = c \/ Waits(c) => cl[c].exit \in {"none", "killed", "transport"}

OursOnly(c) == cl[c].told # "nothing" => cl[c].to \in DaemonProcess /\ proc[cl[c].to].ours

CallInv(c) == Telling(c) /\ Unasked(c) /\ Asked(c) /\ Acking(c) /\ Exited(c) /\ OursOnly(c)

CallsInv == ListenInv /\ CallTypes /\ \A c \in Caller : CallInv(c)

-----------------------------------------------------------------------------
(* The vocabulary                                                             *)

LEMMA Words ==
    /\ DOMAIN VerbCall = Verbs
    /\ DOMAIN Held = {"ViewerStart", "CuaAttach"}
    /\ \A v \in Verbs :
          /\ VerbCall[v].op \in Ops /\ VerbCall[v].ok \in Oks
          /\ VerbCall[v].op = "Connect" <=> v = "connect"
          /\ VerbCall[v].op = "List" <=> v = "list"
          /\ VerbCall[v].op = "Get" <=> v \in {"get", "replace"}
          /\ VerbCall[v].op = "Screenshot" => v = "screenshot"
          /\ VerbCall[v].op \in DOMAIN Held <=> v \in {"view", "cua"}
          /\ VerbCall[v].ok = "Connected" <=> v = "connect"
  <1>1. DOMAIN VerbCall = Verbs
    BY DEF VerbCall, Verbs
  <1>2. DOMAIN Held = {"ViewerStart", "CuaAttach"}
    BY DEF Held
  <1>3. ASSUME NEW v \in Verbs
        PROVE  /\ VerbCall[v].op \in Ops /\ VerbCall[v].ok \in Oks
               /\ VerbCall[v].op = "Connect" <=> v = "connect"
               /\ VerbCall[v].op = "List" <=> v = "list"
               /\ VerbCall[v].op = "Get" <=> v \in {"get", "replace"}
               /\ VerbCall[v].op = "Screenshot" => v = "screenshot"
               /\ VerbCall[v].op \in DOMAIN Held <=> v \in {"view", "cua"}
               /\ VerbCall[v].ok = "Connected" <=> v = "connect"
    BY <1>2 DEF Verbs, VerbCall, Sent, Ops, Oks, SessionVerbs, OwnerVerbs, InputVerbs, PerceiveVerbs, FileVerbs, RecordVerbs,
                ViewVerb, McpVerb
  <1> QED BY <1>1, <1>2, <1>3

\* The only answer a verb takes for success is the one that its success gives.
LEMMA AnswersFit ==
    ASSUME NEW v \in Verbs
    PROVE  /\ VerbCall[v].op \notin DOMAIN Held => VerbCall[v].ok = Answer[VerbCall[v].op]
           /\ VerbCall[v].op \in DOMAIN Held => VerbCall[v].ok = Held[VerbCall[v].op]
           /\ Answer["Get"] = "Transfer" /\ Answer["List"] = "SessionList" /\ Answer["Connect"] = "Connected"
           /\ v \in {"get", "replace"} => VerbCall[v].ok = "Transfer"
  <1>1. DOMAIN Held = {"ViewerStart", "CuaAttach"}
    BY DEF Held
  <1> QED BY <1>1 DEF Verbs, VerbCall, Sent, Held, Answer, SessionVerbs, OwnerVerbs, InputVerbs, PerceiveVerbs, FileVerbs,
                      RecordVerbs, ViewVerb, McpVerb

LEMMA CodeOf ==
    ASSUME NEW e
    PROVE  /\ code_for(e) = 0 <=> e = "ok"
           /\ code_for(e) = 3 <=> e = "daemon-unreachable"
           /\ code_for(e) = 7 <=> e = "duplicate-session"
           /\ code_for(e) = 8 <=> e = "no-clobber"
           /\ code_for(e) = 9 <=> e = "bundle-unavailable"
           /\ code_for(e) = 12 <=> e = "daemon-incompatible"
  <1> DEFINE Known == {"ok", "session-not-found", "daemon-unreachable", "transfer-failed", "path-traversal",
                       "checksum-mismatch", "duplicate-session", "no-clobber", "bundle-unavailable", "human-control",
                       "daemon-incompatible"}
  <1>1. e = "ok" => code_for(e) = 0
    BY Zenon DEF code_for
  <1>2. e = "session-not-found" => code_for(e) = 2
    BY Zenon DEF code_for
  <1>3. e = "daemon-unreachable" => code_for(e) = 3
    BY Zenon DEF code_for
  <1>4. e = "transfer-failed" => code_for(e) = 4
    BY Zenon DEF code_for
  <1>5. e = "path-traversal" => code_for(e) = 5
    BY Zenon DEF code_for
  <1>6. e = "checksum-mismatch" => code_for(e) = 6
    BY Zenon DEF code_for
  <1>7. e = "duplicate-session" => code_for(e) = 7
    BY Zenon DEF code_for
  <1>8. e = "no-clobber" => code_for(e) = 8
    BY Zenon DEF code_for
  <1>9. e = "bundle-unavailable" => code_for(e) = 9
    BY Zenon DEF code_for
  <1>10. e = "human-control" => code_for(e) = 10
    BY Zenon DEF code_for
  <1>11. e = "daemon-incompatible" => code_for(e) = 12
    BY Zenon DEF code_for
  <1>12. e \notin Known => code_for(e) = 1
    BY Zenon DEF code_for
  <1> QED BY <1>1, <1>2, <1>3, <1>4, <1>5, <1>6, <1>7, <1>8, <1>9, <1>10, <1>11, <1>12

LEMMA ErrorCodes ==
    /\ WireCode \subseteq Codes
    /\ \A v \in Verbs : \A e \in Refusals(VerbCall[v].op) \cup Failures(VerbCall[v].op) : WireError(e) \in WireCode
  <1>1. \A e : WireError(e) \in Codes
    BY DEF WireError, wire_code_for_sdk_error, Codes
  <1>2. DOMAIN VerbCall = Verbs
    BY Words
  <1> QED BY <1>1, <1>2 DEF WireCode

\* Only a connect says that nothing was done, and not once it has begun.
LEMMA ErrorsSay ==
    ASSUME NEW op
    PROVE  /\ \A e \in Failures(op) : WireError(e) \notin Nothings
           /\ op # "Connect" => \A e \in Refusals(op) : WireError(e) \notin Nothings
  <1> DEFINE Plain == {"sdk", "human control", "checksum", "path traversal", "session closed", "connect", "not found", "recording"}
  <1>1. \A e \in Plain : WireError(e) \notin Nothings
    BY DEF WireError, wire_code_for_sdk_error, Nothings
  <1>2. Failures(op) \subseteq Plain
    BY DEF Failures, Admission, TransferErrors
  <1>3. op # "Connect" => Refusals(op) \subseteq Plain
    BY DEF Refusals, LiveSession, Admission
  <1> QED BY <1>1, <1>2, <1>3

-----------------------------------------------------------------------------
(* What a step does, field by field                                           *)

ClientGoes(c, verb, spot, to, exit, told) ==
    /\ cl' \in [Caller -> CallerState]
    /\ \A d \in Caller \ {c} : cl'[d] = cl[d]
    /\ cl'[c].verb = verb /\ cl'[c].pc = spot /\ cl'[c].to = to /\ cl'[c].exit = exit /\ cl'[c].told = told

LinkGoes(c, srv, up, down) ==
    /\ link' \in [Caller -> LinkState]
    /\ \A d \in Caller \ {c} : link'[d] = link[d]
    /\ link'[c].srv = srv /\ link'[c].up = up /\ link'[c].down = down

SesGoes(c, s) ==
    /\ ses' \in [Caller -> {"none", "opening", "open", "kept"}]
    /\ \A d \in Caller \ {c} : ses'[d] = ses[d]
    /\ ses'[c] = s

DidGoes(c, b) ==
    /\ did' \in [Caller -> BOOLEAN]
    /\ \A d \in Caller \ {c} : did'[d] = did[d]
    /\ did'[c] = b

\* What no step does to the others: their file stays theirs, a whole file stays
\* whole and a daemon keeps its version.
Mild(c) ==
    /\ \A d \in Caller \ {c} : dest' = d => dest = d
    /\ dest = "whole" => dest' = "whole"
    /\ \A p \in DaemonProcess : proc'[p].ours = proc[p].ours

LEMMA ClientBecomes ==
    ASSUME CallTypes, NEW c \in Caller, NEW k \in CallerState, cl' = [cl EXCEPT ![c] = k]
    PROVE  ClientGoes(c, k.verb, k.pc, k.to, k.exit, k.told)
  <1>1. cl \in [Caller -> CallerState]
    BY DEF CallTypes
  <1>2. cl' \in [Caller -> CallerState] /\ cl'[c] = k /\ \A d \in Caller \ {c} : cl'[d] = cl[d]
    BY <1>1
  <1> QED BY <1>2 DEF ClientGoes

LEMMA ClientExits ==
    ASSUME CallTypes, NEW c \in Caller, NEW e \in ExitClass, Exits(c, e)
    PROVE  ClientGoes(c, cl[c].verb, "done", cl[c].to, e, cl[c].told)
  <1> DEFINE k == [cl[c] EXCEPT !.pc = "done", !.exit = e]
  <1>1. cl[c] \in CallerState
    BY DEF CallTypes
  <1>2. /\ k \in CallerState /\ k.verb = cl[c].verb /\ k.pc = "done" /\ k.to = cl[c].to /\ k.exit = e /\ k.told = cl[c].told
        /\ cl' = [cl EXCEPT ![c] = k]
    BY <1>1 DEF CallerState, Exits
  <1> HIDE DEF k
  <1>3. ClientGoes(c, k.verb, k.pc, k.to, k.exit, k.told)
    BY <1>2, ClientBecomes
  <1> QED BY <1>2, <1>3

LEMMA ClientBegins ==
    ASSUME CallTypes, NEW c \in Caller, NEW v \in Verbs \cup {"config"}, NEW spot \in {"open", "done"}, NEW e \in ExitClass,
           cl' = [cl EXCEPT ![c].verb = v, ![c].pc = spot, ![c].exit = e]
    PROVE  ClientGoes(c, v, spot, cl[c].to, e, cl[c].told)
  <1> DEFINE k == [cl[c] EXCEPT !.verb = v, !.pc = spot, !.exit = e]
  <1>1. cl[c] \in CallerState
    BY DEF CallTypes
  <1>2. /\ k \in CallerState /\ k.verb = v /\ k.pc = spot /\ k.to = cl[c].to /\ k.exit = e /\ k.told = cl[c].told
        /\ cl' = [cl EXCEPT ![c] = k]
    BY <1>1 DEF CallerState
  <1> HIDE DEF k
  <1>3. ClientGoes(c, k.verb, k.pc, k.to, k.exit, k.told)
    BY <1>2, ClientBecomes
  <1> QED BY <1>2, <1>3

LEMMA ClientOpens ==
    ASSUME CallTypes, NEW c \in Caller, NEW d \in DaemonProcess, cl' = [cl EXCEPT ![c].pc = "probe", ![c].to = d]
    PROVE  ClientGoes(c, cl[c].verb, "probe", d, cl[c].exit, cl[c].told)
  <1> DEFINE k == [cl[c] EXCEPT !.pc = "probe", !.to = d]
  <1>1. cl[c] \in CallerState
    BY DEF CallTypes
  <1>2. /\ k \in CallerState /\ k.verb = cl[c].verb /\ k.pc = "probe" /\ k.to = d /\ k.exit = cl[c].exit /\ k.told = cl[c].told
        /\ cl' = [cl EXCEPT ![c] = k]
    BY <1>1 DEF CallerState
  <1> HIDE DEF k
  <1>3. ClientGoes(c, k.verb, k.pc, k.to, k.exit, k.told)
    BY <1>2, ClientBecomes
  <1> QED BY <1>2, <1>3

LEMMA ClientTries ==
    ASSUME CallTypes, NEW c \in Caller, NEW n \in Nat, cl' = [cl EXCEPT ![c].tries = n]
    PROVE  ClientGoes(c, cl[c].verb, cl[c].pc, cl[c].to, cl[c].exit, cl[c].told)
  <1> DEFINE k == [cl[c] EXCEPT !.tries = n]
  <1>1. cl[c] \in CallerState
    BY DEF CallTypes
  <1>2. /\ k \in CallerState /\ k.verb = cl[c].verb /\ k.pc = cl[c].pc /\ k.to = cl[c].to /\ k.exit = cl[c].exit /\ k.told = cl[c].told
        /\ cl' = [cl EXCEPT ![c] = k]
    BY <1>1 DEF CallerState
  <1> HIDE DEF k
  <1>3. ClientGoes(c, k.verb, k.pc, k.to, k.exit, k.told)
    BY <1>2, ClientBecomes
  <1> QED BY <1>2, <1>3

LEMMA ClientSends ==
    ASSUME CallTypes, NEW c \in Caller, NEW spot \in {"request", "acked", "held"}, NEW m \in {"nothing", "ConnectAck"} \cup Ops,
           cl' = [cl EXCEPT ![c].pc = spot, ![c].told = m]
    PROVE  ClientGoes(c, cl[c].verb, spot, cl[c].to, cl[c].exit, m)
  <1> DEFINE k == [cl[c] EXCEPT !.pc = spot, !.told = m]
  <1>1. cl[c] \in CallerState
    BY DEF CallTypes
  <1>2. /\ k \in CallerState /\ k.verb = cl[c].verb /\ k.pc = spot /\ k.to = cl[c].to /\ k.exit = cl[c].exit /\ k.told = m
        /\ cl' = [cl EXCEPT ![c] = k]
    BY <1>1 DEF CallerState
  <1> HIDE DEF k
  <1>3. ClientGoes(c, k.verb, k.pc, k.to, k.exit, k.told)
    BY <1>2, ClientBecomes
  <1> QED BY <1>2, <1>3

LEMMA ClientHolds ==
    ASSUME CallTypes, NEW c \in Caller, cl' = [cl EXCEPT ![c].pc = "held"]
    PROVE  ClientGoes(c, cl[c].verb, "held", cl[c].to, cl[c].exit, cl[c].told)
  <1> DEFINE k == [cl[c] EXCEPT !.pc = "held"]
  <1>1. cl[c] \in CallerState
    BY DEF CallTypes
  <1>2. /\ k \in CallerState /\ k.verb = cl[c].verb /\ k.pc = "held" /\ k.to = cl[c].to /\ k.exit = cl[c].exit /\ k.told = cl[c].told
        /\ cl' = [cl EXCEPT ![c] = k]
    BY <1>1 DEF CallerState
  <1> HIDE DEF k
  <1>3. ClientGoes(c, k.verb, k.pc, k.to, k.exit, k.told)
    BY <1>2, ClientBecomes
  <1> QED BY <1>2, <1>3

LEMMA ClientStays ==
    ASSUME CallTypes, NEW c \in Caller, cl' = cl
    PROVE  ClientGoes(c, cl[c].verb, cl[c].pc, cl[c].to, cl[c].exit, cl[c].told)
  <1> QED BY DEF ClientGoes, CallTypes

LEMMA LinkBecomes ==
    ASSUME CallTypes, NEW c \in Caller, NEW l \in LinkState, link' = [link EXCEPT ![c] = l]
    PROVE  LinkGoes(c, l.srv, l.up, l.down)
  <1>1. link \in [Caller -> LinkState]
    BY DEF CallTypes
  <1>2. link' \in [Caller -> LinkState] /\ link'[c] = l /\ \A d \in Caller \ {c} : link'[d] = link[d]
    BY <1>1
  <1> QED BY <1>2 DEF LinkGoes

\* All ways in which a step writes the link of one client.
LEMMA LinkMoves ==
    ASSUME CallTypes, NEW c \in Caller, NEW srv, NEW up, NEW down, [srv |-> srv, up |-> up, down |-> down] \in LinkState,
           \/ link' = [link EXCEPT ![c] = [srv |-> srv, up |-> up, down |-> down]]
           \/ link' = [link EXCEPT ![c].srv = srv, ![c].up = up, ![c].down = down]
           \/ link' = [link EXCEPT ![c].up = up, ![c].srv = srv, ![c].down = down]
           \/ link' = [link EXCEPT ![c].srv = srv, ![c].down = down] /\ up = link[c].up
           \/ link' = [link EXCEPT ![c].down = down, ![c].srv = srv] /\ up = link[c].up
           \/ link' = [link EXCEPT ![c].down = down, ![c].up = up] /\ srv = link[c].srv
           \/ link' = [link EXCEPT ![c].srv = srv] /\ up = link[c].up /\ down = link[c].down
           \/ link' = [link EXCEPT ![c].down = down] /\ up = link[c].up /\ srv = link[c].srv
           \/ link' = link /\ up = link[c].up /\ srv = link[c].srv /\ down = link[c].down
    PROVE  LinkGoes(c, srv, up, down)
  <1> DEFINE l == [srv |-> srv, up |-> up, down |-> down]
  <1>1. link[c] \in LinkState /\ link \in [Caller -> LinkState]
    BY DEF CallTypes
  <1>2. link' = [link EXCEPT ![c] = l]
    BY <1>1 DEF LinkState
  <1>3. l \in LinkState /\ l.srv = srv /\ l.up = up /\ l.down = down
    OBVIOUS
  <1> HIDE DEF l
  <1>4. LinkGoes(c, l.srv, l.up, l.down)
    BY <1>2, <1>3, LinkBecomes
  <1> QED BY <1>3, <1>4

LEMMA LinkStays ==
    ASSUME CallTypes, NEW c \in Caller, link' = link
    PROVE  LinkGoes(c, link[c].srv, link[c].up, link[c].down)
  <1> QED BY DEF LinkGoes, CallTypes

LEMMA SesMoves ==
    ASSUME CallTypes, NEW c \in Caller, NEW s \in {"none", "opening", "open", "kept"},
           ses' = [ses EXCEPT ![c] = s] \/ (ses' = ses /\ s = ses[c])
    PROVE  SesGoes(c, s)
  <1> QED BY DEF SesGoes, CallTypes

LEMMA DidMoves ==
    ASSUME CallTypes, NEW c \in Caller, NEW b \in BOOLEAN,
           did' = [did EXCEPT ![c] = b] \/ (did' = did /\ b = did[c])
    PROVE  DidGoes(c, b)
  <1> QED BY DEF DidGoes, CallTypes

-----------------------------------------------------------------------------
(* What a step leaves of what the others were promised                        *)

LEMMA UntouchedKeeps ==
    ASSUME NEW d \in Caller, CallInv(d), cl'[d] = cl[d], link'[d] = link[d], ses'[d] = ses[d], did'[d] = did[d],
           dest' = d => dest = d, dest = "whole" => dest' = "whole", \A p \in DaemonProcess : proc'[p].ours = proc[p].ours
    PROVE  CallInv(d)'
  <1>1. Op(d)' = Op(d)
    BY DEF Op
  <1>2. Telling(d)'
    BY <1>1 DEF CallInv, Telling
  <1>3. Unasked(d)'
    BY DEF CallInv, Unasked
  <1>4. Asked(d)'
    BY <1>1 DEF CallInv, Asked, Outcome
  <1>5. Acking(d)'
    BY DEF CallInv, Acking
  <1>6. Exited(d)'
    BY DEF CallInv, Exited, Waits
  <1>7. OursOnly(d)'
    BY DEF CallInv, OursOnly
  <1> QED BY <1>2, <1>3, <1>4, <1>5, <1>6, <1>7 DEF CallInv

\* A step of one call.
CallKeeps == CallTypes' /\ \A d \in Caller : CallInv(d)'

LEMMA OneCall ==
    ASSUME CallsInv, NEW c \in Caller, NEW v, NEW spot, NEW to, NEW e, NEW told, NEW srv, NEW up, NEW down, NEW s, NEW b,
           ClientGoes(c, v, spot, to, e, told), LinkGoes(c, srv, up, down), SesGoes(c, s), DidGoes(c, b), Mild(c),
           CallInv(c)'
    PROVE  CallKeeps
  <1>1. CallTypes /\ \A d \in Caller : CallInv(d)
    BY DEF CallsInv
  <1>2. CallTypes'
    BY DEF CallTypes, ClientGoes, LinkGoes, SesGoes, DidGoes
  <1>3. ASSUME NEW d \in Caller \ {c} PROVE CallInv(d)'
    <2>1. cl'[d] = cl[d] /\ link'[d] = link[d] /\ ses'[d] = ses[d] /\ did'[d] = did[d]
      BY DEF ClientGoes, LinkGoes, SesGoes, DidGoes
    <2>2. (dest' = d => dest = d) /\ (dest = "whole" => dest' = "whole") /\ \A p \in DaemonProcess : proc'[p].ours = proc[p].ours
      BY DEF Mild
    <2> QED BY <1>1, <2>1, <2>2, UntouchedKeeps
  <1> QED BY <1>2, <1>3 DEF CallKeeps

\* What is known of one call before a step.
LEMMA Known ==
    ASSUME CallsInv, NEW c \in Caller
    PROVE  /\ CallTypes /\ ProcTypes
           /\ Telling(c) /\ Unasked(c) /\ Asked(c) /\ Acking(c) /\ Exited(c) /\ OursOnly(c)
           /\ cl[c] \in CallerState /\ link[c] \in LinkState
           /\ cl[c].exit \in ExitClass /\ cl[c].told \in {"nothing", "ConnectAck"} \cup Ops
           /\ cl[c].verb \in Verbs \cup {"none", "config"} /\ cl[c].tries \in Nat
           /\ cl[c].pc \in {"idle", "open", "probe", "request", "acked", "held", "done"}
           /\ link[c].srv \in {"none", "queued", "read", "work", "acking", "holding", "closed"}
           /\ link[c].up \in {"none", "ConnectAck"} \cup Ops
           /\ link[c].down \in {"none"} \cup Oks \cup Codes
           /\ ses[c] \in {"none", "opening", "open", "kept"} /\ did[c] \in BOOLEAN
           /\ c \notin {"unnamed", "absent", "theirs", "whole"}
  <1>1. CallTypes /\ ProcTypes /\ CallInv(c)
    BY DEF CallsInv, ListenInv
  <1>2. cl[c] \in CallerState /\ link[c] \in LinkState /\ ses[c] \in {"none", "opening", "open", "kept"} /\ did[c] \in BOOLEAN
    BY <1>1 DEF CallTypes
  <1>3. /\ cl[c].exit \in ExitClass /\ cl[c].told \in {"nothing", "ConnectAck"} \cup Ops
        /\ cl[c].verb \in Verbs \cup {"none", "config"} /\ cl[c].tries \in Nat
        /\ cl[c].pc \in {"idle", "open", "probe", "request", "acked", "held", "done"}
    BY <1>2 DEF CallerState
  <1>4. /\ link[c].srv \in {"none", "queued", "read", "work", "acking", "holding", "closed"}
        /\ link[c].up \in {"none", "ConnectAck"} \cup Ops
        /\ link[c].down \in {"none"} \cup Oks \cup Codes
    BY <1>2 DEF LinkState
  <1> QED BY <1>1, <1>2, <1>3, <1>4, CallerAssumption DEF CallInv

LEMMA MildSteps ==
    ASSUME NEW c \in Caller, proc' = proc,
           \/ dest' = dest
           \/ dest' \in {"absent", "theirs"} /\ dest # "whole" /\ c \notin {"absent", "theirs"}
           \/ dest' \in {c, "whole"} /\ dest # "whole"
           \/ dest' = "whole"
    PROVE  Mild(c)
  <1>1. \A d \in Caller : d \notin {"absent", "theirs", "whole"}
    BY CallerAssumption
  <1> QED BY <1>1 DEF Mild

\* Only the exit of one client is new.
LEMMA ExitKeeps ==
    ASSUME CallsInv, NEW c \in Caller, NEW e \in ExitClass \ {"none"}, Exits(c, e), cl[c].pc # "done",
           link' = link, ses' = ses, proc' = proc,
           did' = did \/ (did' = [did EXCEPT ![c] = TRUE] /\ e = "ok" /\ cl[c].told = "nothing"),
           dest' = dest \/ dest' = "whole",
           e = "ok" => /\ did[c]'
                       /\ cl[c].verb = "connect" => ses[c] = "kept"
                       /\ cl[c].verb \in {"get", "replace"} => dest' = "whole",
           e \in {"no-clobber", "daemon-incompatible", "config"} => cl[c].told = "nothing",
           e = "daemon-unreachable" => cl[c].verb = "view" \/ cl[c].told = "nothing",
           e \in Nothings => link[c].down = e /\ link[c].srv \in {"read", "closed"} /\ cl[c].pc = "request",
           dest = c \/ Waits(c) => e \in {"killed", "transport"}
    PROVE  CallKeeps
  <1>0. /\ CallTypes /\ Telling(c) /\ Unasked(c) /\ Asked(c) /\ Acking(c) /\ Exited(c) /\ OursOnly(c)
        /\ c # "whole" /\ did[c] \in BOOLEAN /\ ses[c] \in {"none", "opening", "open", "kept"}
    BY Known
  <1>1. ClientGoes(c, cl[c].verb, "done", cl[c].to, e, cl[c].told)
    BY <1>0, ClientExits
  <1>2. LinkGoes(c, link[c].srv, link[c].up, link[c].down)
    BY <1>0, LinkStays
  <1>3. DidGoes(c, did[c]) \/ DidGoes(c, TRUE)
    <2>1. did' = did => DidGoes(c, did[c])
      BY <1>0, DidMoves
    <2>2. ASSUME did' = [did EXCEPT ![c] = TRUE] PROVE DidGoes(c, TRUE)
      BY <1>0, <2>2 DEF DidGoes, CallTypes
    <2> QED BY <2>1, <2>2
  <1>4. SesGoes(c, ses[c])
    BY <1>0, SesMoves
  <1>5. Mild(c)
    BY MildSteps
  <1>6. /\ cl'[c].verb = cl[c].verb /\ cl'[c].pc = "done" /\ cl'[c].to = cl[c].to /\ cl'[c].exit = e /\ cl'[c].told = cl[c].told
        /\ did'[c] = did[c] \/ (did'[c] /\ e = "ok" /\ cl[c].told = "nothing")
        /\ dest' = c => dest = c
        /\ dest = "whole" => dest' = "whole"
        /\ Op(c)' = Op(c)
    BY <1>0, <1>1 DEF ClientGoes, CallTypes, Op
  <1>7. Telling(c)'
    BY <1>0, <1>6 DEF Telling
  <1>8. Unasked(c)'
    BY <1>0, <1>6 DEF Unasked, Telling
  <1>9. Asked(c)' /\ Acking(c)'
    BY <1>0, <1>6 DEF Asked, Acking, Outcome
  <1>10. Exited(c)'
    <2>1. cl[c].pc = "request" => cl[c].told \notin {"nothing", "ConnectAck"}
      BY <1>0, Words DEF Telling, Op, Ops
    <2> QED BY <1>0, <1>6, <2>1 DEF Exited, Waits, Nothings
  <1>11. OursOnly(c)'
    BY <1>0, <1>6 DEF OursOnly
  <1>12. CallInv(c)'
    BY <1>7, <1>8, <1>9, <1>10, <1>11 DEF CallInv
  <1> QED BY <1>1, <1>2, <1>3, <1>4, <1>5, <1>12, OneCall

-----------------------------------------------------------------------------
(* The steps of a client                                                      *)

\* A call begins: its verb is known, and it has left already or goes on.
LEMMA BeginKeeps ==
    ASSUME CallsInv, NEW c \in Caller, NEW v \in Verb, NEW spot \in {"open", "done"}, NEW e \in ExitClass, NEW b \in BOOLEAN,
           cl[c].pc = "idle", ClientGoes(c, v, spot, cl[c].to, e, cl[c].told), DidGoes(c, b), link' = link, ses' = ses, proc' = proc,
           dest' = dest \/ (dest # "whole" /\ dest' \in {"absent", "theirs"}),
           spot = "open" <=> e = "none", spot = "open" <=> v # "config" /\ e \notin {"config", "no-clobber", "internal"},
           e = "ok" <=> v = "config" /\ e \notin {"config", "no-clobber", "internal"}, b <=> e = "ok",
           e \in {"none", "ok", "config", "no-clobber", "internal"}
    PROVE  CallKeeps
  <1>0. /\ CallTypes /\ Telling(c) /\ Unasked(c) /\ Asked(c) /\ Acking(c) /\ Exited(c)
        /\ c \notin {"absent", "theirs"} /\ did[c] \in BOOLEAN /\ ses[c] \in {"none", "opening", "open", "kept"}
    BY Known
  <1>1. v \in Verbs \cup {"config"}
    BY VerbAssumption, Words
  <1>3. LinkGoes(c, link[c].srv, link[c].up, link[c].down) /\ SesGoes(c, ses[c])
    BY <1>0, LinkStays, SesMoves
  <1>6. Mild(c)
    BY <1>0, MildSteps
  <1>7. /\ cl'[c].verb = v /\ cl'[c].pc = spot /\ cl'[c].to = cl[c].to /\ cl'[c].exit = e /\ cl'[c].told = "nothing"
        /\ cl[c].told = "nothing" /\ did'[c] = b /\ dest # c /\ dest' # c /\ link[c].srv = "none"
    BY <1>0 DEF ClientGoes, DidGoes, Telling, Unasked
  <1>8. Telling(c)'
    BY <1>0, <1>1, <1>7 DEF Telling
  <1>9. Unasked(c)'
    BY <1>0, <1>7 DEF Unasked
  <1>10. Asked(c)' /\ Acking(c)' /\ OursOnly(c)'
    BY <1>7 DEF Asked, Acking, OursOnly
  <1>11. Exited(c)'
    BY <1>1, <1>7 DEF Exited, Waits, Nothings, Verbs
  <1>12. CallInv(c)'
    BY <1>8, <1>9, <1>10, <1>11 DEF CallInv
  <1> QED BY <1>3, <1>6, <1>12, OneCall

LEMMA BeginsKeep ==
    ASSUME CallsInv, NEW c \in Caller, NEW v \in Verb,
           Begins(c, v) \/ BeginFails(c, v) \/ BeginRefuses(c, v) \/ PasswordFails(c, v) \/ StageFails(c, v)
    PROVE  CallKeeps
  <1>0. CallTypes /\ (cl[c].pc = "idle" => ~did[c])
    BY Known DEF Telling, Unasked
  <1>1. {"none", "ok", "config", "no-clobber", "internal"} \subseteq ExitClass
    BY DEF ExitClass, Codes
  <1>2. v \in Verbs \cup {"config"}
    BY VerbAssumption, Words
  <1>3. Found(v) = {dest} \/ (dest = "unnamed" /\ Found(v) = {"absent", "theirs"})
    BY DEF Found
  <1>4. CASE Begins(c, v)
    <2>1. /\ cl[c].pc = "idle" /\ link' = link /\ ses' = ses /\ proc' = proc
          /\ dest' = dest \/ (dest # "whole" /\ dest' \in {"absent", "theirs"})
      BY <1>3, <1>4 DEF Begins
    <2>2. CASE v = "config"
      <3>1. cl' = [cl EXCEPT ![c].verb = v, ![c].pc = "done", ![c].exit = "ok"] /\ did' = [did EXCEPT ![c] = TRUE]
        BY <1>4, <2>2 DEF Begins
      <3>2. ClientGoes(c, v, "done", cl[c].to, "ok", cl[c].told)
        BY <1>0, <1>1, <1>2, <3>1, ClientBegins
      <3>3. DidGoes(c, TRUE)
        BY <1>0, <3>1 DEF DidGoes, CallTypes
      <3> QED BY <1>1, <2>1, <2>2, <3>2, <3>3, BeginKeeps
    <2>3. CASE v # "config"
      <3>1. cl' = [cl EXCEPT ![c].verb = v, ![c].pc = "open", ![c].exit = "none"] /\ did' = [did EXCEPT ![c] = FALSE]
        BY <1>4, <2>3 DEF Begins
      <3>2. ClientGoes(c, v, "open", cl[c].to, "none", cl[c].told)
        BY <1>0, <1>1, <1>2, <3>1, ClientBegins
      <3>3. DidGoes(c, FALSE)
        BY <1>0, <3>1 DEF DidGoes, CallTypes
      <3> QED BY <1>1, <2>1, <2>3, <3>2, <3>3, BeginKeeps
    <2> QED BY <2>2, <2>3
  <1>5. ASSUME NEW e \in {"config", "internal", "no-clobber"},
               cl' = [cl EXCEPT ![c].verb = v, ![c].pc = "done", ![c].exit = e],
               cl[c].pc = "idle", did' = did, link' = link, ses' = ses, proc' = proc,
               dest' = dest \/ (dest # "whole" /\ dest' \in {"absent", "theirs"})
        PROVE  CallKeeps
    <2>1. ClientGoes(c, v, "done", cl[c].to, e, cl[c].told)
      BY <1>0, <1>1, <1>2, <1>5, ClientBegins
    <2>2. DidGoes(c, FALSE)
      BY <1>0, <1>5 DEF DidGoes, CallTypes
    <2> QED BY <1>1, <1>5, <2>1, <2>2, BeginKeeps
  <1>6. CASE BeginFails(c, v)
    BY <1>5, <1>6 DEF BeginFails
  <1>7. CASE PasswordFails(c, v)
    BY <1>5, <1>7 DEF PasswordFails
  <1>8. CASE StageFails(c, v)
    BY <1>5, <1>8 DEF StageFails
  <1>9. CASE BeginRefuses(c, v)
    <2>1. dest' = dest \/ (dest # "whole" /\ dest' \in {"absent", "theirs"})
      BY <1>3, <1>9 DEF BeginRefuses
    <2> QED BY <1>5, <1>9, <2>1 DEF BeginRefuses
  <1> QED BY <1>4, <1>6, <1>7, <1>8, <1>9

\* A connection is made, and the probe sent on it.
LEMMA OpensKeeps ==
    ASSUME CallsInv, NEW c \in Caller, Opens(c)
    PROVE  CallKeeps
  <1>0. /\ CallTypes /\ Telling(c) /\ Unasked(c) /\ Asked(c) /\ Acking(c) /\ Exited(c)
        /\ did[c] \in BOOLEAN /\ ses[c] \in {"none", "opening", "open", "kept"}
    BY Known
  <1>1. PICK d \in Reached :
          /\ cl' = [cl EXCEPT ![c].pc = "probe", ![c].to = d]
          /\ link' = [link EXCEPT ![c] = [srv |-> "queued", up |-> "List", down |-> "none"]]
    BY DEF Opens
  <1>2. d \in DaemonProcess
    BY DEF Reached
  <1>3. cl[c].pc = "open" /\ ses' = ses /\ did' = did /\ dest' = dest /\ proc' = proc
    BY DEF Opens
  <1>4. ClientGoes(c, cl[c].verb, "probe", d, cl[c].exit, cl[c].told)
    BY <1>0, <1>1, <1>2, ClientOpens
  <1>5. [srv |-> "queued", up |-> "List", down |-> "none"] \in LinkState
    BY DEF LinkState, Ops
  <1>6. LinkGoes(c, "queued", "List", "none")
    BY <1>0, <1>1, <1>5, LinkMoves
  <1>7. SesGoes(c, ses[c]) /\ DidGoes(c, did[c])
    BY <1>0, <1>3 DEF SesGoes, DidGoes, CallTypes
  <1>8. Mild(c)
    BY <1>3, MildSteps
  <1>9. /\ cl'[c].verb = cl[c].verb /\ cl'[c].pc = "probe" /\ cl'[c].to = d /\ cl'[c].exit = cl[c].exit /\ cl'[c].told = cl[c].told
        /\ link'[c].srv = "queued" /\ link'[c].up = "List" /\ link'[c].down = "none"
        /\ cl[c].told = "nothing" /\ cl[c].exit = "none" /\ cl[c].verb \in Verbs /\ dest # c
    BY <1>0, <1>3, <1>4, <1>6 DEF ClientGoes, LinkGoes, Telling, Unasked
  <1>10. Telling(c)' /\ Unasked(c)'
    BY <1>0, <1>2, <1>3, <1>9 DEF Telling, Unasked
  <1>11. Asked(c)' /\ Acking(c)' /\ OursOnly(c)' /\ Exited(c)'
    BY <1>3, <1>9 DEF Asked, Acking, OursOnly, Exited, Waits, Nothings
  <1>12. CallInv(c)'
    BY <1>10, <1>11 DEF CallInv
  <1> QED BY <1>4, <1>6, <1>7, <1>8, <1>12, OneCall

\* Nothing but the count of tries, and a daemon of the client's version.
LEMMA TriesKeep ==
    ASSUME CallsInv, NEW c \in Caller, NEW n \in Nat, cl' = [cl EXCEPT ![c].tries = n], cl[c].pc = "open",
           link' = link, ses' = ses, did' = did, dest' = dest, \A p \in DaemonProcess : proc'[p].ours = proc[p].ours
    PROVE  CallKeeps
  <1>0. /\ CallTypes /\ Telling(c) /\ Unasked(c) /\ Asked(c) /\ Acking(c) /\ Exited(c)
        /\ did[c] \in BOOLEAN /\ ses[c] \in {"none", "opening", "open", "kept"}
    BY Known
  <1>1. ClientGoes(c, cl[c].verb, cl[c].pc, cl[c].to, cl[c].exit, cl[c].told)
    BY <1>0, ClientTries
  <1>2. LinkGoes(c, link[c].srv, link[c].up, link[c].down)
    BY <1>0, LinkStays
  <1>3. SesGoes(c, ses[c]) /\ DidGoes(c, did[c])
    BY <1>0 DEF SesGoes, DidGoes, CallTypes
  <1>4. Mild(c)
    BY DEF Mild
  <1>5. /\ cl'[c].verb = cl[c].verb /\ cl'[c].pc = cl[c].pc /\ cl'[c].to = cl[c].to /\ cl'[c].exit = cl[c].exit
        /\ cl'[c].told = cl[c].told /\ cl[c].told = "nothing" /\ cl[c].exit = "none"
    BY <1>0, <1>1 DEF ClientGoes, Telling
  <1>6. Telling(c)' /\ Unasked(c)'
    BY <1>0, <1>5 DEF Telling, Unasked
  <1>7. Asked(c)' /\ Acking(c)' /\ OursOnly(c)' /\ Exited(c)'
    BY <1>0, <1>5 DEF Asked, Acking, OursOnly, Exited, Waits, Nothings, Unasked
  <1>8. CallInv(c)'
    BY <1>6, <1>7 DEF CallInv
  <1> QED BY <1>1, <1>2, <1>3, <1>4, <1>8, OneCall

\* The request leaves the client, for a daemon of its version.
LEMMA RequestKeeps ==
    ASSUME CallsInv, NEW c \in Caller, cl[c].pc = "probe", link[c].down = "SessionList", cl[c].verb # "list",
           proc[cl[c].to].ours, Sends(c, "request", Op(c)), did' = did, ses' = ses, dest' = dest, proc' = proc
    PROVE  CallKeeps
  <1>0. /\ CallTypes /\ Telling(c) /\ Unasked(c) /\ Asked(c) /\ Acking(c) /\ Exited(c)
        /\ did[c] \in BOOLEAN /\ ses[c] \in {"none", "opening", "open", "kept"}
        /\ link[c].srv \in {"none", "queued", "read", "work", "acking", "holding", "closed"}
    BY Known
  <1>1. cl[c].verb \in Verbs /\ Op(c) \in Ops /\ Op(c) \notin {"nothing", "ConnectAck", "none"}
    BY <1>0, Words DEF Telling, Op, Ops
  <1>2. ClientGoes(c, cl[c].verb, "request", cl[c].to, cl[c].exit, Op(c))
    BY <1>0, <1>1, ClientSends DEF Sends
  <1>3. [srv |-> link[c].srv, up |-> Op(c), down |-> "none"] \in LinkState
    BY <1>0, <1>1 DEF LinkState
  <1>4. LinkGoes(c, link[c].srv, Op(c), "none")
    BY <1>0, <1>3, LinkMoves DEF Sends
  <1>5. SesGoes(c, ses[c]) /\ DidGoes(c, did[c])
    BY <1>0 DEF SesGoes, DidGoes, CallTypes
  <1>6. Mild(c)
    BY MildSteps
  <1>7. /\ cl'[c].verb = cl[c].verb /\ cl'[c].pc = "request" /\ cl'[c].to = cl[c].to /\ cl'[c].exit = "none" /\ cl'[c].told = Op(c)
        /\ link'[c].srv = link[c].srv /\ link'[c].up = Op(c) /\ link'[c].down = "none" /\ Op(c)' = Op(c)
        /\ cl[c].told = "nothing" /\ cl[c].to \in DaemonProcess
    BY <1>0, <1>2, <1>4 DEF ClientGoes, LinkGoes, Telling, Op
  <1>8. ~did[c] /\ ses[c] = "none" /\ dest # c /\ link[c].srv \in {"read", "closed"}
    BY <1>0, <1>7 DEF Unasked, Telling
  <1>9. Telling(c)' /\ Unasked(c)' /\ Acking(c)' /\ OursOnly(c)'
    BY <1>1, <1>7, <1>8 DEF Telling, Unasked, Acking, OursOnly
  <1>10. Asked(c)' /\ Exited(c)'
    BY <1>1, <1>7, <1>8 DEF Asked, Outcome, Exited, Waits, Nothings, Codes
  <1>11. CallInv(c)'
    BY <1>9, <1>10 DEF CallInv
  <1> QED BY <1>2, <1>4, <1>5, <1>6, <1>11, OneCall

\* A client that reads an answer to its request has asked for something.
LEMMA Requested ==
    ASSUME CallsInv, NEW c \in Caller, cl[c].pc = "request"
    PROVE  /\ cl[c].told = Op(c) /\ cl[c].verb \in Verbs \ {"list"} /\ Op(c) \in Ops
           /\ cl[c].told \notin {"nothing", "ConnectAck"} /\ cl[c].exit = "none" /\ Outcome(c)
           /\ link[c].srv \in {"read", "work", "acking", "holding", "closed"}
           /\ link[c].down # "none" => dest # c /\ ~Waits(c)
  <1>1. Telling(c) /\ Asked(c)
    BY Known
  <1>2. cl[c].told = Op(c) /\ cl[c].verb \in Verbs /\ cl[c].exit = "none"
    BY <1>1 DEF Telling
  <1>3. Op(c) \in Ops /\ Op(c) \notin {"nothing", "ConnectAck"}
    BY <1>2, Words DEF Op, Ops
  <1> QED BY <1>1, <1>2, <1>3 DEF Asked, Waits

\* The answer to a connect is acknowledged.
LEMMA AnsweredConnectKeeps ==
    ASSUME CallsInv, NEW c \in Caller, AnsweredConnect(c)
    PROVE  CallKeeps
  <1>0. /\ CallTypes /\ Telling(c) /\ Unasked(c) /\ Asked(c) /\ Acking(c) /\ Exited(c) /\ OursOnly(c)
        /\ did[c] \in BOOLEAN /\ ses[c] \in {"none", "opening", "open", "kept"}
        /\ link[c].srv \in {"none", "queued", "read", "work", "acking", "holding", "closed"}
    BY Known
  <1>1. /\ cl[c].pc = "request" /\ link[c].down = "Connected" /\ Sends(c, "acked", "ConnectAck")
        /\ ses' = ses /\ did' = did /\ dest' = dest /\ proc' = proc
    BY DEF AnsweredConnect
  <1>2. /\ cl[c].told = Op(c) /\ cl[c].verb \in Verbs /\ Outcome(c) /\ cl[c].told \notin {"nothing", "ConnectAck"}
        /\ cl[c].exit = "none" /\ dest # c
    BY <1>1, Requested
  <1>3. "Connected" \notin Codes /\ WireCode \subseteq Codes
    BY ErrorCodes DEF Codes
  <1>4. cl[c].verb = "connect" /\ did[c] /\ Op(c) = "Connect"
    BY <1>1, <1>2, <1>3, Words DEF Outcome, Op
  <1>5. ClientGoes(c, cl[c].verb, "acked", cl[c].to, cl[c].exit, "ConnectAck")
    BY <1>0, <1>1, ClientSends DEF Sends
  <1>6. [srv |-> link[c].srv, up |-> "ConnectAck", down |-> "none"] \in LinkState
    BY <1>0 DEF LinkState
  <1>7. LinkGoes(c, link[c].srv, "ConnectAck", "none")
    BY <1>0, <1>1, <1>6, LinkMoves DEF Sends
  <1>8. SesGoes(c, ses[c]) /\ DidGoes(c, did[c])
    BY <1>0, <1>1 DEF SesGoes, DidGoes, CallTypes
  <1>9. Mild(c)
    BY <1>1, MildSteps
  <1>10. /\ cl'[c].verb = cl[c].verb /\ cl'[c].pc = "acked" /\ cl'[c].to = cl[c].to /\ cl'[c].exit = "none"
         /\ cl'[c].told = "ConnectAck" /\ link'[c].srv = link[c].srv /\ link'[c].up = "ConnectAck" /\ link'[c].down = "none"
    BY <1>2, <1>5, <1>7 DEF ClientGoes, LinkGoes
  <1>11. Op(c) \notin DOMAIN Held
    BY <1>4, Words
  <1>12. link[c].srv \in {"acking", "closed"} /\ (link[c].srv = "acking" => ses[c] = "open") /\ (link[c].srv = "closed" => ses[c] = "none")
    BY <1>0, <1>1, <1>2, <1>4, <1>11 DEF Asked
  <1>13. Telling(c)' /\ Unasked(c)' /\ OursOnly(c)'
    BY <1>0, <1>1, <1>2, <1>4, <1>10, <1>12 DEF Telling, Unasked, OursOnly
  <1>14. Asked(c)' /\ Acking(c)' /\ Exited(c)'
    BY <1>1, <1>2, <1>4, <1>10, <1>12 DEF Asked, Acking, Exited, Waits, Nothings
  <1>15. CallInv(c)'
    BY <1>13, <1>14 DEF CallInv
  <1> QED BY <1>5, <1>7, <1>8, <1>9, <1>15, OneCall

\* A viewer or an attachment is answered and held.
LEMMA AnsweredHeldKeeps ==
    ASSUME CallsInv, NEW c \in Caller, AnsweredHeld(c)
    PROVE  CallKeeps
  <1>0. /\ CallTypes /\ Telling(c) /\ Unasked(c) /\ Asked(c) /\ Acking(c) /\ Exited(c) /\ OursOnly(c)
        /\ did[c] \in BOOLEAN /\ ses[c] \in {"none", "opening", "open", "kept"}
        /\ link[c].srv \in {"none", "queued", "read", "work", "acking", "holding", "closed"}
        /\ link[c].up \in {"none", "ConnectAck"} \cup Ops
    BY Known
  <1>1. /\ cl[c].pc = "request" /\ link[c].down = VerbCall[cl[c].verb].ok /\ Op(c) \in DOMAIN Held
        /\ cl' = [cl EXCEPT ![c].pc = "held"] /\ link' = [link EXCEPT ![c].down = "none"]
        /\ ses' = ses /\ did' = did /\ dest' = dest /\ proc' = proc
    BY DEF AnsweredHeld
  <1>2. /\ cl[c].told = Op(c) /\ cl[c].verb \in Verbs \ {"list"} /\ Outcome(c) /\ cl[c].told \notin {"nothing", "ConnectAck"}
        /\ cl[c].exit = "none"
    BY <1>1, Requested
  <1>3. link[c].down \in Oks /\ link[c].down \notin WireCode \cup {"none"}
    <2>1. Oks \cap (Codes \cup {"none"}) = {} /\ WireCode \subseteq Codes
      BY ErrorCodes DEF Codes, Oks
    <2> QED BY <1>1, <1>2, <2>1, Words
  <1>4. did[c] /\ dest # c
    BY <1>0, <1>2, <1>3 DEF Outcome, Asked
  <1>5. ClientGoes(c, cl[c].verb, "held", cl[c].to, cl[c].exit, cl[c].told)
    BY <1>0, <1>1, ClientHolds
  <1>6. [srv |-> link[c].srv, up |-> link[c].up, down |-> "none"] \in LinkState
    BY <1>0 DEF LinkState
  <1>7. LinkGoes(c, link[c].srv, link[c].up, "none")
    BY <1>0, <1>1, <1>6, LinkMoves
  <1>8. SesGoes(c, ses[c]) /\ DidGoes(c, did[c])
    BY <1>0, <1>1 DEF SesGoes, DidGoes, CallTypes
  <1>9. Mild(c)
    BY <1>1, MildSteps
  <1>10. /\ cl'[c].verb = cl[c].verb /\ cl'[c].pc = "held" /\ cl'[c].to = cl[c].to /\ cl'[c].exit = "none"
         /\ cl'[c].told = cl[c].told /\ link'[c].srv = link[c].srv /\ link'[c].up = link[c].up /\ link'[c].down = "none"
         /\ Op(c)' = Op(c)
    BY <1>2, <1>5, <1>7 DEF ClientGoes, LinkGoes, Op
  <1>11. Op(c) # "Connect"
    BY <1>1, <1>2, Words DEF Op
  <1>12. link[c].srv \in {"holding", "closed"} /\ link[c].up = "none" /\ ses[c] = "none"
    BY <1>0, <1>1, <1>2, <1>3, <1>11 DEF Asked
  <1>13. Telling(c)' /\ Unasked(c)' /\ OursOnly(c)'
    BY <1>0, <1>1, <1>2, <1>4, <1>10, <1>12 DEF Telling, Unasked, OursOnly
  <1>14. Asked(c)'
    BY <1>0, <1>1, <1>2, <1>4, <1>10, <1>12 DEF Asked, Outcome, Nothings
  <1>15. Acking(c)' /\ Exited(c)'
    BY <1>1, <1>2, <1>4, <1>10, <1>12 DEF Acking, Exited, Waits, Nothings
  <1>16. CallInv(c)'
    BY <1>13, <1>14, <1>15 DEF CallInv
  <1> QED BY <1>5, <1>7, <1>8, <1>9, <1>16, OneCall

LEMMA OurExits ==
    /\ {"ok", "config", "no-clobber", "daemon-unreachable", "daemon-incompatible", "transport", "killed", "internal"} \subseteq ExitClass \ {"none"}
    /\ WireCode \subseteq Codes /\ Codes \subseteq ExitClass \ {"none"}
    /\ Codes \cap {"ok", "config", "no-clobber", "daemon-unreachable", "daemon-incompatible", "transport", "killed"} = {}
    /\ Oks \cap (Codes \cup {"none"}) = {}
  <1> QED BY ErrorCodes DEF ExitClass, Codes, Oks

\* The exits that say nothing of what the daemon has done.
LEMMA QuietExits ==
    ASSUME CallsInv, NEW c \in Caller,
           \/ OpenFails(c) \/ Lost(c) \/ AttachTimesOut(c) \/ CallerDies(c)
           \/ RenderFails(c)
    PROVE  CallKeeps
  <1>1. Telling(c) /\ Asked(c) /\ Unasked(c) /\ Acking(c) /\ Exited(c) /\ cl[c].pc \in {"idle", "open", "probe", "request", "acked", "held", "done"}
    BY Known
  <1>2. CASE OpenFails(c)
    <2>1. /\ cl[c].pc = "open" /\ Exits(c, "daemon-unreachable") /\ link' = link /\ ses' = ses /\ proc' = proc
          /\ did' = did /\ dest' = dest
      BY <1>2 DEF OpenFails
    <2>2. cl[c].told = "nothing" /\ dest # c /\ ~Waits(c)
      BY <1>1, <2>1 DEF Telling, Unasked, Waits
    <2> QED BY <2>1, <2>2, OurExits, ExitKeeps DEF Nothings
  <1>3. CASE Lost(c) \/ AttachTimesOut(c)
    <2>1. /\ cl[c].pc # "done" /\ Exits(c, "transport") /\ link' = link /\ ses' = ses /\ proc' = proc
          /\ did' = did /\ dest' = dest
      BY <1>3 DEF Lost, AttachTimesOut
    <2> QED BY <2>1, OurExits, ExitKeeps DEF Nothings
  <1>4. CASE CallerDies(c)
    <2>1. /\ cl[c].pc # "done" /\ Exits(c, "killed") /\ link' = link /\ ses' = ses /\ proc' = proc
          /\ did' = did /\ dest' = dest
      BY <1>4 DEF CallerDies
    <2> QED BY <2>1, OurExits, ExitKeeps DEF Nothings
  <1>5. CASE RenderFails(c)
    <2>1. /\ cl[c].pc = "request" /\ Exits(c, "internal") /\ link' = link /\ ses' = ses /\ proc' = proc
          /\ did' = did /\ dest' = dest /\ link[c].down # "none"
      BY <1>5 DEF RenderFails
    <2>2. dest # c /\ ~Waits(c)
      BY <2>1, Requested
    <2> QED BY <2>1, <2>2, OurExits, ExitKeeps DEF Nothings
  <1> QED BY <1>2, <1>3, <1>4, <1>5

\* The probe: a daemon of another version, a list, or the request.
LEMMA ProbedKeeps ==
    ASSUME CallsInv, NEW c \in Caller, Probed(c)
    PROVE  CallKeeps
  <1>0. CallTypes /\ Telling(c) /\ Unasked(c)
    BY Known
  <1>1. cl[c].pc = "probe" /\ link[c].down = "SessionList" /\ ses' = ses /\ proc' = proc /\ dest' = dest
    BY DEF Probed
  <1>2. cl[c].told = "nothing" /\ dest # c /\ ~Waits(c)
    BY <1>0, <1>1 DEF Telling, Unasked, Waits
  <1>3. CASE ~proc[cl[c].to].ours
    <2>1. Exits(c, "daemon-incompatible") /\ link' = link /\ did' = did
      BY <1>3 DEF Probed, validate_preflight
    <2> QED BY <1>1, <1>2, <2>1, OurExits, ExitKeeps DEF Nothings
  <1>4. CASE proc[cl[c].to].ours /\ cl[c].verb = "list"
    <2>1. Exits(c, "ok") /\ link' = link /\ did' = [did EXCEPT ![c] = TRUE]
      BY <1>4 DEF Probed, validate_preflight
    <2>2. did[c]'
      BY <1>0, <2>1 DEF CallTypes
    <2> QED BY <1>1, <1>2, <1>4, <2>1, <2>2, OurExits, ExitKeeps DEF Nothings
  <1>5. CASE proc[cl[c].to].ours /\ cl[c].verb # "list"
    <2>1. Sends(c, "request", Op(c)) /\ did' = did
      BY <1>5 DEF Probed, validate_preflight
    <2> QED BY <1>1, <1>5, <2>1, RequestKeeps
  <1> QED BY <1>3, <1>4, <1>5

\* An error is the exit it stands for.
LEMMA AnsweredErrorKeeps ==
    ASSUME CallsInv, NEW c \in Caller, AnsweredError(c)
    PROVE  CallKeeps
  <1>0. CallTypes /\ Telling(c) /\ Asked(c)
    BY Known
  <1>1. /\ cl[c].pc = "request" /\ link[c].down \in WireCode /\ Exits(c, link[c].down) /\ link' = link /\ ses' = ses
        /\ proc' = proc /\ did' = did /\ dest' = dest
    BY DEF AnsweredError
  <1>2. /\ link[c].down \in ExitClass \ {"none"} /\ link[c].down \in Codes
        /\ link[c].down \notin {"ok", "config", "no-clobber", "daemon-unreachable", "daemon-incompatible"}
    BY <1>1, OurExits
  <1>3. dest # c /\ ~Waits(c)
    BY <1>1, <1>2, Requested
  <1>4. link[c].down \in Nothings => link[c].srv \in {"read", "closed"}
    <2>1. link[c].srv \in {"read", "work", "acking", "holding", "closed"} /\ Outcome(c) /\ cl[c].told \notin {"nothing", "ConnectAck"}
      BY <1>1, Requested
    <2> QED BY <1>0, <2>1 DEF Asked, Outcome, Nothings
  <1> QED BY <1>1, <1>2, <1>3, <1>4, ExitKeeps

\* The daemon has said that it keeps the session.
LEMMA AckedKeeps ==
    ASSUME CallsInv, NEW c \in Caller, Acked(c)
    PROVE  CallKeeps
  <1>0. CallTypes /\ Telling(c) /\ Acking(c)
    BY Known
  <1>1. /\ cl[c].pc = "acked" /\ link[c].down = "Ack" /\ Exits(c, "ok") /\ link' = link /\ ses' = ses
        /\ proc' = proc /\ did' = did /\ dest' = dest
    BY DEF Acked
  <1>2. cl[c].told = "ConnectAck" /\ cl[c].verb = "connect" /\ did[c] /\ dest # c /\ ses[c] = "kept" /\ ~Waits(c)
    BY <1>0, <1>1 DEF Telling, Acking, Waits
  <1>3. did[c]'
    BY <1>1, <1>2
  <1> QED BY <1>1, <1>2, <1>3, OurExits, ExitKeeps DEF Nothings

\* The only answer that is no error is the one the verb takes for success.
LEMMA AnsweredOkKeeps ==
    ASSUME CallsInv, NEW c \in Caller, AnsweredOk(c)
    PROVE  CallKeeps
  <1>0. CallTypes /\ Telling(c) /\ Asked(c)
    BY Known
  <1>1. /\ cl[c].pc = "request" /\ link[c].down \notin WireCode \cup {"none", "Connected"} /\ link' = link /\ ses' = ses
        /\ proc' = proc /\ did' = did /\ dest' = (IF cl[c].verb = "replace" THEN "whole" ELSE dest)
    BY DEF AnsweredOk
  <1>2. Outcome(c) /\ cl[c].verb \in Verbs /\ dest # c /\ ~Waits(c)
    BY <1>1, Requested
  <1>3. link[c].down = VerbCall[cl[c].verb].ok /\ did[c] /\ (cl[c].verb = "get" => dest = "whole")
    BY <1>1, <1>2 DEF Outcome
  <1>4. cl[c].verb # "connect"
    BY <1>1, <1>2, <1>3, Words
  <1>5. Exits(c, "ok")
    BY <1>3 DEF AnsweredOk
  <1>6. did[c]' /\ (cl[c].verb \in {"get", "replace"} => dest' = "whole") /\ (dest' = dest \/ dest' = "whole")
    BY <1>1, <1>3
  <1> QED BY <1>1, <1>2, <1>4, <1>5, <1>6, OurExits, ExitKeeps DEF Nothings

\* A client that held its connection leaves.
LEMMA HeldEndsKeeps ==
    ASSUME CallsInv, NEW c \in Caller, ViewEnds(c) \/ ProxyEnds(c)
    PROVE  CallKeeps
  <1>0. CallTypes /\ Telling(c) /\ Asked(c) /\ Unasked(c)
    BY Known
  <1>1. /\ cl[c].pc = "held" /\ cl[c].verb \in {"view", "cua"} /\ link' = link /\ ses' = ses
        /\ proc' = proc /\ did' = did /\ dest' = dest
        /\ \E e \in {"ok", "transport", "daemon-unreachable"} : Exits(c, e) /\ (e = "daemon-unreachable" => cl[c].verb = "view")
    BY DEF ViewEnds, ProxyEnds
  <1>2. PICK e \in {"ok", "transport", "daemon-unreachable"} : Exits(c, e) /\ (e = "daemon-unreachable" => cl[c].verb = "view")
    BY <1>1
  <1>3. did[c] /\ cl[c].told = Op(c) /\ cl[c].verb \in Verbs
    BY <1>0, <1>1 DEF Telling
  <1>4. Op(c) \notin {"nothing", "ConnectAck"}
    BY <1>3, Words DEF Op, Ops
  <1>5. dest # c /\ ~Waits(c)
    <2>1. Unasked(c) /\ Asked(c) /\ cl[c].told \notin {"nothing", "ConnectAck"} /\ link[c].down = "none"
      BY <1>0, <1>1, <1>3, <1>4 DEF Telling
    <2>2. dest # c
      BY <1>1, <2>1 DEF Asked
    <2>3. link[c].up = "none" /\ link[c].srv \in {"holding", "closed"}
      BY <1>3, <2>1, Words DEF Asked
    <2> QED BY <2>2, <2>3 DEF Waits
  <1>6. did[c]' /\ cl[c].verb \notin {"connect", "get", "replace"} /\ e \in ExitClass \ {"none"}
    BY <1>1, <1>2, <1>3, OurExits
  <1> QED BY <1>1, <1>2, <1>5, <1>6, ExitKeeps DEF Nothings

LEMMA TryKeeps ==
    ASSUME CallsInv, NEW c \in Caller, OpenSpawns(c) \/ OpenRetries(c)
    PROVE  CallKeeps
  <1>1. ProcTypes /\ cl[c].tries \in Nat
    BY Known
  <1>2. CASE OpenSpawns(c)
    <2>1. PICK d \in DaemonProcess : Startable(d) /\ proc' = [proc EXCEPT ![d] = Started(@)]
      BY <1>2 DEF OpenSpawns
    <2>2. \A p \in DaemonProcess : proc'[p].ours = proc[p].ours
      BY <1>1, <2>1 DEF Started, ProcTypes
    <2>3. /\ cl' = [cl EXCEPT ![c].tries = 1] /\ cl[c].pc = "open" /\ link' = link /\ ses' = ses /\ did' = did /\ dest' = dest
      BY <1>2 DEF OpenSpawns
    <2> QED BY <2>2, <2>3, TriesKeep
  <1>3. CASE OpenRetries(c)
    <2>1. /\ cl' = [cl EXCEPT ![c].tries = cl[c].tries + 1] /\ cl[c].pc = "open" /\ link' = link /\ ses' = ses /\ did' = did /\ dest' = dest
          /\ proc' = proc
      BY <1>3 DEF OpenRetries
    <2>2. PICK n \in Nat : n = cl[c].tries + 1
      BY <1>1
    <2> QED BY <2>1, <2>2, TriesKeep
  <1> QED BY <1>2, <1>3

-----------------------------------------------------------------------------
(* The steps of the daemon for one call                                       *)

\* What is known of a request that is worked on.
LEMMA Working ==
    ASSUME CallsInv, NEW c \in Caller, link[c].srv = "work"
    PROVE  /\ cl[c].verb \in Verbs \ {"list"} /\ cl[c].told = Op(c) /\ Op(c) \in Ops /\ Op(c) = VerbCall[cl[c].verb].op
           /\ link[c].up = "none" /\ link[c].down = "none" /\ ~did[c]
           /\ ses[c] = (IF Op(c) = "Connect" THEN "opening" ELSE "none")
           /\ cl[c].pc \in {"request", "done"} /\ cl[c].exit \in {"none", "killed", "transport"}
           /\ dest = c => cl[c].verb = "get"
  <1>1. Telling(c) /\ Unasked(c) /\ Asked(c) /\ Acking(c) /\ Exited(c) /\ cl[c].pc \in {"idle", "open", "probe", "request", "acked", "held", "done"}
    BY Known
  <1>2. cl[c].told \notin {"nothing", "ConnectAck"}
    BY <1>1 DEF Unasked, Acking
  <1>3. cl[c].verb \in Verbs \ {"list"} /\ cl[c].told = Op(c) /\ Op(c) \in Ops
    BY <1>1, <1>2, Words DEF Asked, Op
  <1>4. link[c].up = "none" /\ link[c].down = "none" /\ ~did[c] /\ ses[c] = (IF Op(c) = "Connect" THEN "opening" ELSE "none")
        /\ (dest = c => cl[c].verb = "get")
    BY <1>1, <1>2 DEF Asked
  <1>5. cl[c].pc \in {"request", "done"} /\ cl[c].exit \in {"none", "killed", "transport"}
    BY <1>1, <1>2, <1>4 DEF Telling, Exited, Waits
  <1> QED BY <1>3, <1>4, <1>5 DEF Op

\* A step of the work: what it leaves is what its answer says.
LEMMA WorkKeeps ==
    ASSUME CallsInv, NEW c \in Caller, link[c].srv = "work", cl' = cl, proc' = proc,
           NEW srv, NEW down, NEW s, NEW b, LinkGoes(c, srv, "none", down), SesGoes(c, s), DidGoes(c, b), Mild(c),
           srv \in {"read", "work", "acking", "holding", "closed"},
           srv = "read" => down # "none" /\ Op(c) \notin DOMAIN Held,
           srv = "work" => down = "none" /\ ~b /\ s = ses[c],
           srv = "acking" => Op(c) = "Connect" /\ down = "Connected" /\ s = "open",
           srv = "holding" => Op(c) \in DOMAIN Held /\ b,
           srv \in {"read", "holding", "closed"} => s = "none",
           down = "Connected" => srv \in {"acking", "closed"},
           dest' = c => cl[c].verb = "get" /\ srv \in {"work", "closed"} /\ down = "none",
           down # "none" => down \in WireCode \cup {VerbCall[cl[c].verb].ok},
           down \in Nothings => ~b,
           down \notin WireCode \cup {"none"} => b /\ (cl[c].verb = "get" => dest' = "whole")
    PROVE  CallKeeps
  <1>1. CallTypes /\ Telling(c) /\ Unasked(c) /\ Asked(c) /\ Acking(c) /\ Exited(c) /\ OursOnly(c)
    BY Known
  <1>2. /\ cl[c].verb \in Verbs \ {"list"} /\ cl[c].told = Op(c) /\ Op(c) \in Ops
        /\ ses[c] = (IF Op(c) = "Connect" THEN "opening" ELSE "none")
        /\ cl[c].pc \in {"request", "done"} /\ cl[c].exit \in {"none", "killed", "transport"}
    BY Working
  <1>3. Op(c) \notin {"nothing", "ConnectAck"} /\ Op(c)' = Op(c)
    BY <1>2 DEF Ops, Op
  <1>4. ClientGoes(c, cl[c].verb, cl[c].pc, cl[c].to, cl[c].exit, cl[c].told)
    BY <1>1, ClientStays
  <1>5. /\ cl'[c] = cl[c] /\ link'[c].srv = srv /\ link'[c].up = "none" /\ link'[c].down = down /\ ses'[c] = s /\ did'[c] = b
    BY DEF LinkGoes, SesGoes, DidGoes
  <1>6. Telling(c)' /\ Unasked(c)' /\ Acking(c)' /\ OursOnly(c)'
    BY <1>1, <1>2, <1>3, <1>5 DEF Telling, Unasked, Acking, OursOnly
  <1>7. Asked(c)'
    BY <1>2, <1>3, <1>5 DEF Asked, Outcome
  <1>8. Exited(c)'
    BY <1>2, <1>5 DEF Exited, Nothings
  <1>9. CallInv(c)'
    BY <1>6, <1>7, <1>8 DEF CallInv
  <1> QED BY <1>4, <1>9, OneCall

\* An error is the answer.
LEMMA RefusedKeeps ==
    ASSUME CallsInv, NEW c \in Caller, link[c].srv = "work", cl' = cl, proc' = proc, dest' = dest,
           NEW e \in Refusals(Op(c)) \cup Failures(Op(c)), Refused(c, e), NEW b \in BOOLEAN, DidGoes(c, b),
           WireError(e) \in Nothings => ~b
    PROVE  CallKeeps
  <1>1. CallTypes
    BY Known
  <1>2. cl[c].verb \in Verbs \ {"list"} /\ Op(c) = VerbCall[cl[c].verb].op /\ link[c].up = "none"
    BY Working
  <1>3. WireError(e) \in WireCode /\ WireError(e) \in Codes
    BY <1>2, ErrorCodes, OurExits
  <1>4. WireError(e) \notin {"none", "Connected"}
    BY <1>3 DEF Codes
  <1>5. PICK srv \in {"closed", "read"} : srv = IF Op(c) \in DOMAIN Held THEN "closed" ELSE "read"
    OBVIOUS
  <1>6. PICK down \in Codes : down = WireError(e)
    BY <1>3
  <1>7. /\ dest # c /\ link' = [link EXCEPT ![c].srv = srv, ![c].down = down] /\ ses' = [ses EXCEPT ![c] = "none"]
    BY <1>5, <1>6 DEF Refused
  <1>8. [srv |-> srv, up |-> "none", down |-> down] \in LinkState
    BY DEF LinkState
  <1>9. LinkGoes(c, srv, "none", down)
    BY <1>1, <1>2, <1>7, <1>8, LinkMoves
  <1>10. SesGoes(c, "none")
    BY <1>1, <1>7 DEF SesGoes, CallTypes
  <1>11. Mild(c)
    BY MildSteps
  <1> QED BY <1>3, <1>4, <1>5, <1>6, <1>7, <1>9, <1>10, <1>11, WorkKeeps

LEMMA DispatchErrorsKeep ==
    ASSUME CallsInv, NEW c \in Caller, DispatchRefuses(c) \/ DispatchFails(c)
    PROVE  CallKeeps
  <1>1. CallTypes /\ did[c] \in BOOLEAN
    BY Known
  <1>2. CASE DispatchRefuses(c)
    <2>1. link[c].srv = "work" /\ ~did[c] /\ cl' = cl /\ proc' = proc /\ dest' = dest /\ did' = did
      BY <1>2 DEF DispatchRefuses
    <2>2. PICK e \in Refusals(Op(c)) : Refused(c, e)
      BY <1>2 DEF DispatchRefuses
    <2>3. DidGoes(c, FALSE)
      BY <1>1, <2>1 DEF DidGoes, CallTypes
    <2> QED BY <2>1, <2>2, <2>3, RefusedKeeps
  <1>3. CASE DispatchFails(c)
    <2>1. link[c].srv = "work" /\ cl' = cl /\ proc' = proc /\ dest' = dest /\ did' = [did EXCEPT ![c] = TRUE]
      BY <1>3 DEF DispatchFails
    <2>2. PICK e \in Failures(Op(c)) : Refused(c, e)
      BY <1>3 DEF DispatchFails
    <2>3. DidGoes(c, TRUE)
      BY <1>1, <2>1 DEF DidGoes, CallTypes
    <2>4. WireError(e) \notin Nothings
      BY ErrorsSay
    <2> QED BY <2>1, <2>2, <2>3, <2>4, RefusedKeeps
  <1> QED BY <1>2, <1>3

\* The answers of work that was done.
LEMMA DoneKeeps ==
    ASSUME CallsInv, NEW c \in Caller, Dispatched(c) \/ AnswerUnwritten(c) \/ DispatchHolds(c)
    PROVE  CallKeeps
  <1>1. CallTypes
    BY Known
  <1>2. link[c].srv = "work" /\ cl' = cl /\ proc' = proc /\ ses' = ses /\ dest' = dest /\ did' = [did EXCEPT ![c] = TRUE]
    BY DEF Dispatched, AnswerUnwritten, DispatchHolds
  <1>3. /\ cl[c].verb \in Verbs \ {"list"} /\ Op(c) = VerbCall[cl[c].verb].op /\ link[c].up = "none" /\ link[c].down = "none"
        /\ ses[c] = (IF Op(c) = "Connect" THEN "opening" ELSE "none") /\ (dest = c => cl[c].verb = "get")
    BY <1>2, Working
  <1>4. Op(c) \notin {"Connect", "Get"}
    <2>1. DOMAIN Held = {"ViewerStart", "CuaAttach"}
      BY Words
    <2> QED BY <2>1 DEF Dispatched, AnswerUnwritten, DispatchHolds
  <1>5. ses[c] = "none" /\ dest # c /\ cl[c].verb \notin {"connect", "get", "replace"}
    BY <1>3, <1>4, Words
  <1>6. DidGoes(c, TRUE)
    BY <1>1, <1>2 DEF DidGoes, CallTypes
  <1>7. SesGoes(c, "none") /\ Mild(c)
    BY <1>1, <1>2, <1>5, SesMoves, MildSteps
  <1>8. PICK ok \in Oks : ok = VerbCall[cl[c].verb].ok
    BY <1>3, Words
  <1>9. ok \notin Codes \cup {"none", "Connected"} /\ ok \notin Nothings
    <2>1. ok \notin Codes \cup {"none"} /\ ok # "Connected"
      BY <1>3, <1>5, <1>8, Words, OurExits
    <2> QED BY <2>1 DEF Nothings, Codes
  <1>10. /\ Op(c) \notin DOMAIN Held => ok = Answer[Op(c)]
         /\ Op(c) \in DOMAIN Held => ok = Held[Op(c)]
    BY <1>3, <1>8, AnswersFit
  <1>11. CASE Dispatched(c)
    <2>1. Op(c) \notin DOMAIN Held
      BY <1>11 DEF Dispatched
    <2>2. link' = [link EXCEPT ![c].down = ok, ![c].srv = "read"]
      BY <1>10, <1>11, <2>1 DEF Dispatched
    <2>3. [srv |-> "read", up |-> "none", down |-> ok] \in LinkState
      BY DEF LinkState
    <2>4. LinkGoes(c, "read", "none", ok)
      BY <1>1, <1>3, <2>2, <2>3, LinkMoves
    <2>5. dest' # c /\ ok \notin {"none", "Connected"} /\ ok \in WireCode \cup {VerbCall[cl[c].verb].ok} /\ cl[c].verb # "get"
          /\ ok \notin Nothings
      BY <1>2, <1>5, <1>8, <1>9
    <2> QED BY <1>2, <1>6, <1>7, <2>1, <2>4, <2>5, WorkKeeps
  <1>12. CASE DispatchHolds(c)
    <2>1. Op(c) \in DOMAIN Held
      BY <1>12 DEF DispatchHolds
    <2>2. link' = [link EXCEPT ![c].down = ok, ![c].srv = "holding"]
      BY <1>10, <1>12, <2>1 DEF DispatchHolds
    <2>3. [srv |-> "holding", up |-> "none", down |-> ok] \in LinkState
      BY DEF LinkState
    <2>4. LinkGoes(c, "holding", "none", ok)
      BY <1>1, <1>3, <2>2, <2>3, LinkMoves
    <2> QED BY <1>2, <1>5, <1>6, <1>7, <1>8, <1>9, <2>1, <2>4, WorkKeeps
  <1>13. CASE AnswerUnwritten(c)
    <2>1. link' = [link EXCEPT ![c].srv = "closed"]
      BY <1>13 DEF AnswerUnwritten
    <2>2. [srv |-> "closed", up |-> "none", down |-> "none"] \in LinkState
      BY DEF LinkState
    <2>3. LinkGoes(c, "closed", "none", "none")
      BY <1>1, <1>3, <2>1, <2>2, LinkMoves
    <2>4. "none" \notin Nothings
      BY DEF Nothings
    <2> QED BY <1>2, <1>5, <1>6, <1>7, <2>3, <2>4, WorkKeeps
  <1> QED BY <1>11, <1>12, <1>13

\* The file of a `get'.
LEMMA GetKeeps ==
    ASSUME CallsInv, NEW c \in Caller, GetCreates(c) \/ GetEnds(c) \/ GetFails(c)
    PROVE  CallKeeps
  <1>1. /\ CallTypes /\ did[c] \in BOOLEAN /\ ses[c] \in {"none", "opening", "open", "kept"}
        /\ c \notin {"unnamed", "absent", "theirs", "whole"}
    BY Known
  <1>2. link[c].srv = "work" /\ cl' = cl /\ proc' = proc /\ ses' = ses
    BY DEF GetCreates, GetEnds, GetFails
  <1>3. /\ cl[c].verb \in Verbs \ {"list"} /\ Op(c) = VerbCall[cl[c].verb].op /\ link[c].up = "none" /\ link[c].down = "none"
        /\ ses[c] = (IF Op(c) = "Connect" THEN "opening" ELSE "none") /\ (dest = c => cl[c].verb = "get") /\ ~did[c]
    BY <1>2, Working
  <1>4. cl[c].verb \in {"get", "replace"}
    BY <1>3 DEF GetCreates, GetEnds, GetFails
  <1>5. Op(c) = "Get" /\ Op(c) \notin DOMAIN Held /\ ses[c] = "none"
    BY <1>3, <1>4, Words
  <1>6. SesGoes(c, "none")
    BY <1>1, <1>2, <1>5 DEF SesGoes, CallTypes
  <1>7. "none" \notin Nothings /\ "Transfer" \notin Nothings /\ "Transfer" \notin Codes /\ "Transfer" \in Oks
    BY DEF Nothings, Codes, Oks
  <1>8. CASE GetCreates(c)
    <2>1. cl[c].verb = "get" /\ dest = "absent" /\ dest' = c /\ link' = link /\ did' = did
      BY <1>8 DEF GetCreates
    <2>2. [srv |-> "work", up |-> "none", down |-> "none"] \in LinkState
      BY DEF LinkState
    <2>3. LinkGoes(c, "work", "none", "none")
      BY <1>1, <1>2, <1>3, <2>1, <2>2, LinkMoves
    <2>4. DidGoes(c, FALSE)
      BY <1>1, <1>3, <2>1 DEF DidGoes, CallTypes
    <2>5. Mild(c)
      BY <1>2, <2>1, MildSteps
    <2> QED BY <1>2, <1>5, <1>6, <1>7, <2>1, <2>3, <2>4, <2>5, WorkKeeps
  <1>9. CASE GetEnds(c)
    <2>1. link' = [link EXCEPT ![c].srv = "read", ![c].down = "Transfer"] /\ did' = [did EXCEPT ![c] = TRUE]
      BY <1>9, <1>4, AnswersFit, <1>3 DEF GetEnds
    <2>2. (cl[c].verb = "get" /\ dest = c /\ dest' = "whole") \/ (cl[c].verb = "replace" /\ dest' = dest)
      BY <1>9 DEF GetEnds
    <2>3. [srv |-> "read", up |-> "none", down |-> "Transfer"] \in LinkState
      BY <1>7 DEF LinkState
    <2>4. LinkGoes(c, "read", "none", "Transfer")
      BY <1>1, <1>3, <2>1, <2>3, LinkMoves
    <2>5. DidGoes(c, TRUE)
      BY <1>1, <2>1 DEF DidGoes, CallTypes
    <2>6. Mild(c)
      BY <1>2, <2>2, MildSteps
    <2>7. dest' # c /\ VerbCall[cl[c].verb].ok = "Transfer" /\ (cl[c].verb = "get" => dest' = "whole")
      BY <1>1, <1>3, <1>4, <2>2, AnswersFit
    <2> QED BY <1>2, <1>5, <1>6, <1>7, <2>4, <2>5, <2>6, <2>7, WorkKeeps
  <1>10. CASE GetFails(c)
    <2>1. dest = c /\ dest' \in {"absent", "whole"} /\ did' = did
      BY <1>10 DEF GetFails
    <2>2. PICK e \in Failures("Get") : link' = [link EXCEPT ![c].srv = "read", ![c].down = WireError(e)]
      BY <1>10 DEF GetFails
    <2>3. WireError(e) \in WireCode /\ WireError(e) \in Codes
      BY <1>3, <1>5, ErrorCodes, OurExits
    <2>4. PICK down \in Codes : down = WireError(e)
      BY <2>3
    <2>5. link' = [link EXCEPT ![c].srv = "read", ![c].down = down]
      BY <2>2, <2>4
    <2>6. [srv |-> "read", up |-> "none", down |-> down] \in LinkState
      BY DEF LinkState
    <2>7. LinkGoes(c, "read", "none", down)
      BY <1>1, <1>3, <2>5, <2>6, LinkMoves
    <2>8. DidGoes(c, FALSE)
      BY <1>1, <1>3, <2>1 DEF DidGoes, CallTypes
    <2>9. Mild(c)
      BY <1>1, <1>2, <2>1, MildSteps
    <2>10. dest' # c /\ down \in WireCode /\ down \notin {"none", "Connected"}
      BY <1>1, <2>1, <2>3, <2>4 DEF Codes
    <2> QED BY <1>2, <1>5, <1>6, <2>7, <2>8, <2>9, <2>10, WorkKeeps
  <1> QED BY <1>8, <1>9, <1>10

\* A connect is answered.
LEMMA ConnectOpensKeeps ==
    ASSUME CallsInv, NEW c \in Caller, ConnectOpens(c)
    PROVE  CallKeeps
  <1>1. CallTypes
    BY Known
  <1>2. /\ link[c].srv = "work" /\ ses[c] = "opening" /\ cl' = cl /\ proc' = proc /\ dest' = dest
        /\ ses' = [ses EXCEPT ![c] = "open"] /\ did' = [did EXCEPT ![c] = TRUE]
        /\ link' = [link EXCEPT ![c].srv = "acking", ![c].down = "Connected"]
    BY AnswersFit, "connect" \in Verbs DEF ConnectOpens, Verbs
  <1>3. /\ cl[c].verb \in Verbs \ {"list"} /\ Op(c) = VerbCall[cl[c].verb].op /\ link[c].up = "none"
        /\ ses[c] = (IF Op(c) = "Connect" THEN "opening" ELSE "none") /\ (dest = c => cl[c].verb = "get")
    BY <1>2, Working
  <1>4. Op(c) = "Connect"
    BY <1>2, <1>3
  <1>5. cl[c].verb = "connect" /\ VerbCall[cl[c].verb].ok = "Connected"
    BY <1>3, <1>4, Words
  <1>6. dest' # c /\ cl[c].verb # "get" /\ "Connected" \notin Nothings
    BY <1>2, <1>3, <1>5 DEF Nothings
  <1>7. [srv |-> "acking", up |-> "none", down |-> "Connected"] \in LinkState
    BY DEF LinkState, Oks
  <1>8. LinkGoes(c, "acking", "none", "Connected")
    BY <1>1, <1>2, <1>3, <1>7, LinkMoves
  <1>9. SesGoes(c, "open") /\ DidGoes(c, TRUE)
    BY <1>1, <1>2 DEF SesGoes, DidGoes, CallTypes
  <1>10. Mild(c)
    BY <1>2, MildSteps
  <1> QED BY <1>2, <1>4, <1>5, <1>6, <1>8, <1>9, <1>10, WorkKeeps

\* A connection ends: at the daemon's end, or with its process.
LEMMA CutKeeps ==
    ASSUME CallsInv, NEW c \in Caller, cl'[c] = cl[c], did'[c] = did[c], dest' = dest,
           \A p \in DaemonProcess : proc'[p].ours = proc[p].ours,
           link[c].srv \notin {"none", "closed"}, link'[c].srv = "closed", link'[c].up \in {"none", link[c].up},
           link'[c].down = link[c].down, ses'[c] = IF ses[c] = "kept" THEN "kept" ELSE "none",
           link[c].srv = "work" => link'[c].up = "none"
    PROVE  CallInv(c)'
  <1>1. /\ Telling(c) /\ Unasked(c) /\ Asked(c) /\ Acking(c) /\ Exited(c) /\ OursOnly(c)
        /\ link[c].srv \in {"none", "queued", "read", "work", "acking", "holding", "closed"}
    BY Known
  <1>2. Op(c)' = Op(c)
    BY DEF Op
  <1>3. Telling(c)' /\ Unasked(c)' /\ OursOnly(c)'
    BY <1>1, <1>2 DEF Telling, Unasked, OursOnly
  <1>4. Asked(c)'
    BY <1>1, <1>2 DEF Asked, Outcome
  <1>5. Acking(c)'
    BY <1>1 DEF Acking
  <1>6. Exited(c)'
    BY <1>1 DEF Exited, Waits, Nothings
  <1> QED BY <1>3, <1>4, <1>5, <1>6 DEF CallInv

LEMMA EndsKeep ==
    ASSUME CallsInv, NEW c \in Caller, link[c].srv \notin {"none", "closed"}, link' = [link EXCEPT ![c].srv = "closed"],
           ses' = [ses EXCEPT ![c] = IF ses[c] = "kept" THEN "kept" ELSE "none"] \/ (ses' = ses /\ ses[c] = "none"),
           cl' = cl, did' = did, dest' = dest, \A p \in DaemonProcess : proc'[p].ours = proc[p].ours
    PROVE  CallKeeps
  <1>1. CallTypes /\ did[c] \in BOOLEAN
        /\ link[c].up \in {"none", "ConnectAck"} \cup Ops /\ link[c].down \in {"none"} \cup Oks \cup Codes
    BY Known
  <1>2. PICK s \in {"kept", "none"} : s = IF ses[c] = "kept" THEN "kept" ELSE "none"
    OBVIOUS
  <1>3. SesGoes(c, s)
    BY <1>1, <1>2 DEF SesGoes, CallTypes
  <1>4. [srv |-> "closed", up |-> link[c].up, down |-> link[c].down] \in LinkState
    BY <1>1 DEF LinkState
  <1>5. LinkGoes(c, "closed", link[c].up, link[c].down)
    BY <1>1, <1>4, LinkMoves
  <1>6. DidGoes(c, did[c])
    BY <1>1 DEF DidGoes, CallTypes
  <1>7. ClientGoes(c, cl[c].verb, cl[c].pc, cl[c].to, cl[c].exit, cl[c].told)
    BY <1>1, ClientStays
  <1>8. Mild(c)
    BY DEF Mild
  <1>9. link[c].srv = "work" => link[c].up = "none"
    BY Working
  <1>10. CallInv(c)'
    BY <1>2, <1>3, <1>5, <1>6, <1>9, CutKeeps DEF SesGoes, LinkGoes, DidGoes
  <1> QED BY <1>3, <1>5, <1>6, <1>7, <1>8, <1>10, OneCall

LEMMA AcceptsKeeps ==
    ASSUME CallsInv, NEW c \in Caller, Accepts(c) \/ AcceptFails(c)
    PROVE  CallKeeps
  <1>1. /\ CallTypes /\ ProcTypes /\ Telling(c) /\ Unasked(c) /\ Asked(c) /\ Acking(c) /\ Exited(c) /\ OursOnly(c)
        /\ did[c] \in BOOLEAN
    BY Known
  <1>2. link[c].srv = "queued" /\ cl' = cl /\ ses' = ses /\ did' = did /\ dest' = dest
    BY DEF Accepts, AcceptFails
  <1>3. cl[c].told = "nothing"
    BY <1>1, <1>2 DEF Asked, Acking
  <1>4. ses[c] = "none" /\ link[c].up = "List" /\ link[c].down = "none"
    BY <1>1, <1>2, <1>3 DEF Unasked
  <1>5. \A p \in DaemonProcess : proc'[p].ours = proc[p].ours
    BY <1>1 DEF Accepts, AcceptFails, ProcTypes
  <1>6. CASE link' = [link EXCEPT ![c].srv = "closed"]
    BY <1>2, <1>4, <1>5, <1>6, EndsKeep
  <1>7. CASE link' = [link EXCEPT ![c].srv = "read"]
    <2>1. [srv |-> "read", up |-> "List", down |-> "none"] \in LinkState
      BY DEF LinkState, Ops
    <2>2. LinkGoes(c, "read", "List", "none")
      BY <1>1, <1>4, <1>7, <2>1, LinkMoves
    <2>3. SesGoes(c, "none") /\ DidGoes(c, did[c])
      BY <1>1, <1>2, <1>4 DEF SesGoes, DidGoes, CallTypes
    <2>4. ClientGoes(c, cl[c].verb, cl[c].pc, cl[c].to, cl[c].exit, cl[c].told)
      BY <1>1, <1>2, ClientStays
    <2>5. Mild(c)
      BY <1>2, <1>5 DEF Mild
    <2>6. /\ cl'[c] = cl[c] /\ link'[c].srv = "read" /\ link'[c].up = "List" /\ link'[c].down = "none" /\ ses'[c] = "none"
          /\ did'[c] = did[c]
      BY <1>2, <2>2, <2>3 DEF LinkGoes, SesGoes, DidGoes
    <2>7. Telling(c)' /\ Unasked(c)' /\ OursOnly(c)'
      <3>1. cl[c].pc # "held"
        BY <1>1, <1>3, Words DEF Telling, Op, Ops
      <3>2. Op(c)' = Op(c)
        BY <2>6 DEF Op
      <3>3. Telling(c)'
        BY <1>1, <1>2, <2>6, <3>1, <3>2 DEF Telling
      <3> QED BY <1>1, <1>2, <1>3, <1>4, <1>5, <2>6, <3>3 DEF Unasked, OursOnly
    <2>8. Asked(c)' /\ Acking(c)' /\ Exited(c)'
      BY <1>1, <1>2, <1>3, <1>4, <2>6 DEF Asked, Acking, Exited, Waits
    <2>9. CallInv(c)'
      BY <2>7, <2>8 DEF CallInv
    <2> QED BY <2>2, <2>3, <2>4, <2>5, <2>9, OneCall
  <1> QED BY <1>6, <1>7 DEF Accepts, AcceptFails

\* A list is answered, another request is worked on.
LEMMA ServeReadsKeeps ==
    ASSUME CallsInv, NEW c \in Caller, ServeReads(c)
    PROVE  CallKeeps
  <1>1. /\ CallTypes /\ Telling(c) /\ Unasked(c) /\ Asked(c) /\ Acking(c) /\ Exited(c) /\ OursOnly(c)
        /\ did[c] \in BOOLEAN /\ cl[c].pc \in {"idle", "open", "probe", "request", "acked", "held", "done"}
    BY Known
  <1>2. link[c].srv = "read" /\ link[c].up # "none" /\ cl' = cl /\ did' = did /\ dest' = dest /\ proc' = proc
    BY DEF ServeReads
  <1>3. cl[c].told # "ConnectAck" /\ link[c].down = "none" /\ ses[c] = "none"
    BY <1>1, <1>2 DEF Unasked, Asked, Acking
  <1>4. ClientGoes(c, cl[c].verb, cl[c].pc, cl[c].to, cl[c].exit, cl[c].told)
    BY <1>1, <1>2, ClientStays
  <1>5. DidGoes(c, did[c])
    BY <1>1, <1>2 DEF DidGoes, CallTypes
  <1>6. Mild(c)
    BY <1>2, MildSteps
  <1>7. cl[c].exit \in {"none", "killed", "transport"}
    BY <1>1, <1>2 DEF Exited, Waits
  <1>8. CASE cl[c].told = "nothing"
    <2>1. link[c].up = "List"
      BY <1>1, <1>2, <1>8 DEF Unasked
    <2>2. link' = [link EXCEPT ![c].up = "none", ![c].srv = "read", ![c].down = "SessionList"] /\ ses' = ses
      <3>1. link' = [link EXCEPT ![c].up = "none", ![c].srv = "read", ![c].down = "SessionList"]
        BY <2>1, AnswersFit, "list" \in Verbs DEF ServeReads, Verbs
      <3>2. ses' = [ses EXCEPT ![c] = ses[c]]
        BY <2>1 DEF ServeReads
      <3> QED BY <1>1, <3>1, <3>2 DEF CallTypes
    <2>3. [srv |-> "read", up |-> "none", down |-> "SessionList"] \in LinkState
      BY DEF LinkState, Oks
    <2>4. LinkGoes(c, "read", "none", "SessionList")
      BY <1>1, <2>2, <2>3, LinkMoves
    <2>5. SesGoes(c, "none")
      BY <1>1, <1>3, <2>2 DEF SesGoes, CallTypes
    <2>6. /\ cl'[c] = cl[c] /\ link'[c].srv = "read" /\ link'[c].up = "none" /\ link'[c].down = "SessionList" /\ ses'[c] = "none"
          /\ did'[c] = did[c]
      BY <1>2, <1>5, <2>4, <2>5 DEF LinkGoes, SesGoes, DidGoes
    <2>7. Telling(c)' /\ Unasked(c)' /\ OursOnly(c)'
      <3>1. cl[c].pc # "held"
        BY <1>1, <1>8, Words DEF Telling, Op, Ops
      <3>2. Op(c)' = Op(c)
        BY <2>6 DEF Op
      <3>3. Telling(c)'
        BY <1>1, <1>2, <2>6, <3>1, <3>2 DEF Telling
      <3> QED BY <1>1, <1>2, <1>3, <1>8, <2>6, <3>3 DEF Unasked, OursOnly
    <2>8. Asked(c)' /\ Acking(c)' /\ Exited(c)'
      BY <1>2, <1>7, <1>8, <2>6 DEF Asked, Acking, Exited, Waits, Nothings
    <2>9. CallInv(c)'
      BY <2>7, <2>8 DEF CallInv
    <2> QED BY <1>4, <1>5, <1>6, <2>4, <2>5, <2>9, OneCall
  <1>9. CASE cl[c].told # "nothing"
    <2>1. cl[c].verb \in Verbs \ {"list"} /\ cl[c].told = Op(c) /\ ~did[c] /\ dest # c /\ link[c].up = Op(c)
      BY <1>1, <1>2, <1>3, <1>9 DEF Asked
    <2>2. Op(c) # "List" /\ Op(c) \in Ops
      BY <2>1, Words DEF Op
    <2>3. PICK s \in {"opening", "none"} : s = IF Op(c) = "Connect" THEN "opening" ELSE "none"
      OBVIOUS
    <2>4. link' = [link EXCEPT ![c].up = "none", ![c].srv = "work", ![c].down = "none"] /\ ses' = [ses EXCEPT ![c] = s]
      BY <1>3, <2>1, <2>2, <2>3 DEF ServeReads
    <2>5. [srv |-> "work", up |-> "none", down |-> "none"] \in LinkState
      BY DEF LinkState
    <2>6. LinkGoes(c, "work", "none", "none")
      BY <1>1, <2>4, <2>5, LinkMoves
    <2>7. SesGoes(c, s)
      BY <1>1, <2>3, <2>4 DEF SesGoes, CallTypes
    <2>8. /\ cl'[c] = cl[c] /\ link'[c].srv = "work" /\ link'[c].up = "none" /\ link'[c].down = "none" /\ ses'[c] = s
          /\ did'[c] = did[c] /\ Op(c)' = Op(c)
      BY <1>2, <1>5, <2>6, <2>7 DEF LinkGoes, SesGoes, DidGoes, Op
    <2>9. Telling(c)' /\ Unasked(c)' /\ OursOnly(c)' /\ Acking(c)'
      BY <1>1, <1>2, <1>3, <1>9, <2>1, <2>8 DEF Telling, Unasked, OursOnly, Acking
    <2>10. Asked(c)' /\ Exited(c)'
      BY <1>2, <1>7, <2>1, <2>3, <2>8 DEF Asked, Outcome, Exited, Nothings
    <2>11. CallInv(c)'
      BY <2>9, <2>10 DEF CallInv
    <2> QED BY <1>4, <1>5, <1>6, <2>6, <2>7, <2>11, OneCall
  <1> QED BY <1>8, <1>9

\* The daemon keeps the session.
LEMMA ConnectAckedKeeps ==
    ASSUME CallsInv, NEW c \in Caller, ConnectAcked(c)
    PROVE  CallKeeps
  <1>1. /\ CallTypes /\ Telling(c) /\ Unasked(c) /\ Asked(c) /\ Acking(c) /\ Exited(c) /\ OursOnly(c)
        /\ did[c] \in BOOLEAN
    BY Known
  <1>2. /\ link[c].srv = "acking" /\ link[c].up = "ConnectAck" /\ cl' = cl /\ did' = did /\ dest' = dest /\ proc' = proc
        /\ ses' = [ses EXCEPT ![c] = "kept"]
        /\ link' = [link EXCEPT ![c].srv = "read", ![c].up = "none", ![c].down = "Ack"]
    BY DEF ConnectAcked
  <1>3. cl[c].told = "ConnectAck"
    BY <1>1, <1>2 DEF Unasked, Asked
  <1>4. cl[c].verb = "connect" /\ did[c] /\ dest # c /\ ses[c] = "open"
    BY <1>1, <1>2, <1>3 DEF Acking
  <1>5. ClientGoes(c, cl[c].verb, cl[c].pc, cl[c].to, cl[c].exit, cl[c].told)
    BY <1>1, <1>2, ClientStays
  <1>6. [srv |-> "read", up |-> "none", down |-> "Ack"] \in LinkState
    BY DEF LinkState, Oks
  <1>7. LinkGoes(c, "read", "none", "Ack")
    BY <1>1, <1>2, <1>6, LinkMoves
  <1>8. SesGoes(c, "kept") /\ DidGoes(c, did[c])
    BY <1>1, <1>2 DEF SesGoes, DidGoes, CallTypes
  <1>9. Mild(c)
    BY <1>2, MildSteps
  <1>10. /\ cl'[c] = cl[c] /\ link'[c].srv = "read" /\ link'[c].up = "none" /\ link'[c].down = "Ack" /\ ses'[c] = "kept"
         /\ did'[c] = did[c]
    BY <1>2, <1>7, <1>8 DEF LinkGoes, SesGoes, DidGoes
  <1>11. cl[c].pc # "held"
    BY <1>1, <1>3, Words DEF Telling, Op, Ops
  <1>12. Telling(c)' /\ Unasked(c)' /\ OursOnly(c)' /\ Asked(c)'
    <2>1. Op(c)' = Op(c)
      BY <1>10 DEF Op
    <2>2. Telling(c)'
      BY <1>1, <1>2, <1>10, <1>11, <2>1 DEF Telling
    <2> QED BY <1>1, <1>2, <1>3, <1>10, <2>2 DEF Unasked, OursOnly, Asked
  <1>13. Acking(c)' /\ Exited(c)'
    BY <1>1, <1>2, <1>3, <1>4, <1>10 DEF Acking, Exited, Waits, Nothings
  <1>14. CallInv(c)'
    BY <1>12, <1>13 DEF CallInv
  <1> QED BY <1>5, <1>7, <1>8, <1>9, <1>14, OneCall

LEMMA ServerEndsKeeps ==
    ASSUME CallsInv, NEW c \in Caller, ServeGone(c) \/ AckTimesOut(c)
    PROVE  CallKeeps
  <1>1. CallTypes /\ Unasked(c) /\ Asked(c) /\ Acking(c) /\ cl[c].told \in {"nothing", "ConnectAck"} \cup Ops
    BY Known
  <1>2. /\ link[c].srv \notin {"none", "closed"} /\ link' = [link EXCEPT ![c].srv = "closed"]
        /\ cl' = cl /\ did' = did /\ dest' = dest /\ proc' = proc
    BY DEF ServeGone, AckTimesOut
  <1>3. link[c].srv = "acking" => ses[c] # "kept"
    BY <1>1 DEF Unasked, Asked, Acking
  <1>4. ses' = [ses EXCEPT ![c] = IF ses[c] = "kept" THEN "kept" ELSE "none"]
    BY <1>3 DEF ServeGone, AckTimesOut
  <1> QED BY <1>2, <1>4, EndsKeep

-----------------------------------------------------------------------------
(* The daemon processes, and the whole                                        *)

\* No call moves.
LEMMA AllKeep ==
    ASSUME CallsInv, cl' = cl, link' = link, ses' = ses, did' = did, \A p \in DaemonProcess : proc'[p].ours = proc[p].ours,
           \A c \in Caller : dest' = c => dest = c, dest = "whole" => dest' = "whole"
    PROVE  CallKeeps
  <1>1. CallTypes /\ \A c \in Caller : CallInv(c)
    BY DEF CallsInv
  <1>2. CallTypes'
    BY <1>1 DEF CallTypes
  <1>3. ASSUME NEW c \in Caller PROVE CallInv(c)'
    BY <1>1, UntouchedKeeps
  <1> QED BY <1>2, <1>3 DEF CallKeeps

\* What a process does leaves every version as it is.
LEMMA VersionsStay ==
    ASSUME ProcTypes, NEW d \in DaemonProcess,
           \/ DaemonRuns(d) \/ BindProbes(d) \/ BindUnlinks(d) \/ BindEnds(d) \/ DaemonServes(d)
           \/ DaemonDrains(d) \/ DaemonExits(d) \/ DaemonDies(d)
    PROVE  \A p \in DaemonProcess : proc'[p].ours = proc[p].ours
  <1>1. proc \in [DaemonProcess -> ProcState]
    BY DEF ProcTypes, ProcState
  <1>2. proc[d] \in ProcState
    BY <1>1
  <1>3. ASSUME NEW k \in ProcState, k.ours = proc[d].ours, proc' = [proc EXCEPT ![d] = k]
        PROVE  \A p \in DaemonProcess : proc'[p].ours = proc[p].ours
    BY <1>1, <1>3
  <1>4. ASSUME NEW spot \in DaemonPc PROVE [proc[d] EXCEPT !.pc = spot] \in ProcState /\ [proc[d] EXCEPT !.pc = spot].ours = proc[d].ours
    BY <1>2 DEF ProcState
  <1>5. ASSUME NEW spot \in DaemonPc, NEW saw \in DaemonProcess \cup {0}
        PROVE  /\ [proc[d] EXCEPT !.pc = spot, !.saw = saw] \in ProcState
               /\ [proc[d] EXCEPT !.pc = spot, !.saw = saw].ours = proc[d].ours
    BY <1>2 DEF ProcState
  <1>6. ASSUME NEW spot \in DaemonPc, proc' = [proc EXCEPT ![d] = [proc[d] EXCEPT !.pc = spot]]
        PROVE  \A p \in DaemonProcess : proc'[p].ours = proc[p].ours
    BY <1>3, <1>4, <1>6
  <1>7. ASSUME NEW spot \in DaemonPc, NEW saw \in DaemonProcess \cup {0},
               proc' = [proc EXCEPT ![d] = [proc[d] EXCEPT !.pc = spot, !.saw = saw]]
        PROVE  \A p \in DaemonProcess : proc'[p].ours = proc[p].ours
    BY <1>3, <1>5, <1>7
  <1>8. {"probe", "bind", "unlink", "ended", "bound", "serving", "leaving", "draining"} \subseteq DaemonPc
    BY DEF DaemonPc
  <1>9. CASE DaemonRuns(d)
    <2>1. PICK spot \in DaemonPc : spot = IF platform = "unix" /\ name # 0 THEN "probe" ELSE "bind"
      BY <1>8
    <2> QED BY <1>6, <1>9, <2>1 DEF DaemonRuns, Started
  <1>10. CASE BindProbes(d)
    <2>1. PICK spot \in DaemonPc : spot = IF Reached = {} THEN "unlink" ELSE "ended"
      BY <1>8
    <2>2. PICK saw \in DaemonProcess \cup {0} : saw = IF Reached = {} THEN name ELSE 0
      BY DEF ProcTypes
    <2> QED BY <1>7, <1>10, <2>1, <2>2 DEF BindProbes
  <1>11. CASE BindUnlinks(d)
    <2>1. PICK spot \in DaemonPc : spot = IF name = 0 THEN "ended" ELSE "bind"
      BY <1>8
    <2> QED BY <1>7, <1>11, <2>1 DEF BindUnlinks
  <1>12. CASE BindEnds(d)
    <2>1. PICK spot \in DaemonPc :
            spot = IF platform = "unix" THEN (IF name = 0 THEN "bound" ELSE "ended") ELSE (IF NameInUse(d) THEN "ended" ELSE "bound")
      BY <1>8
    <2>2. proc' = [proc EXCEPT ![d] = [proc[d] EXCEPT !.pc = spot]]
      BY <1>12, <2>1 DEF BindEnds
    <2> QED BY <1>6, <2>2
  <1>13. CASE DaemonServes(d)
    BY <1>6, <1>8, <1>13 DEF DaemonServes
  <1>14. CASE DaemonDrains(d)
    <2>1. PICK spot \in DaemonPc : spot = IF proc[d].pc = "deaf" THEN "leaving" ELSE "draining"
      BY <1>8
    <2> QED BY <1>6, <1>14, <2>1 DEF DaemonDrains
  <1>15. CASE DaemonExits(d)
    <2>1. proc' = [proc EXCEPT ![d] = [proc[d] EXCEPT !.pc = "ended"]]
      BY <1>15 DEF DaemonExits
    <2> QED BY <1>6, <1>8, <2>1
  <1>16. CASE DaemonDies(d)
    <2>1. proc' = [proc EXCEPT ![d] = [proc[d] EXCEPT !.pc = "ended", !.saw = 0]]
      BY <1>16 DEF DaemonDies
    <2> QED BY <1>7, <1>8, <2>1
  <1> QED BY <1>9, <1>10, <1>11, <1>12, <1>13, <1>14, <1>15, <1>16

\* The end of a process cuts each connection it had.
LEMMA CutsKeep ==
    ASSUME CallsInv, NEW d \in DaemonProcess, Cut(d), cl' = cl, did' = did, dest' = dest,
           \A p \in DaemonProcess : proc'[p].ours = proc[p].ours
    PROVE  CallKeeps
  <1>1. CallTypes /\ \A c \in Caller : CallInv(c)
    BY DEF CallsInv
  <1>2. ASSUME NEW c \in Caller, ~At(d, c) PROVE link'[c] = link[c]
    BY <1>2 DEF Cut
  <1>3. ASSUME NEW c \in Caller, At(d, c)
        PROVE  link'[c].srv = "closed" /\ link'[c].up = "none" /\ link'[c].down = link[c].down /\ link'[c] \in LinkState
    <2>1. link[c] \in LinkState /\ link'[c] = [link[c] EXCEPT !.srv = "closed", !.up = "none"]
      BY <1>1, <1>3 DEF Cut, CallTypes
    <2> QED BY <2>1 DEF LinkState
  <1>4. \A c \in Caller : ses'[c] = IF At(d, c) /\ ses[c] # "kept" THEN "none" ELSE ses[c]
    BY DEF Cut
  <1>5. CallTypes'
    <2>1. link' = [c \in Caller |-> link'[c]] /\ \A c \in Caller : link'[c] \in LinkState
      BY <1>1, <1>2, <1>3 DEF Cut, CallTypes
    <2>2. link' \in [Caller -> LinkState]
      BY <2>1
    <2>3. ses' \in [Caller -> {"none", "opening", "open", "kept"}]
      BY <1>1 DEF Cut, CallTypes
    <2> QED BY <1>1, <2>2, <2>3 DEF CallTypes
  <1>6. ASSUME NEW c \in Caller PROVE CallInv(c)'
    <2>1. CASE At(d, c)
      BY <1>3, <1>4, <2>1, CutKeeps DEF At
    <2>2. CASE ~At(d, c)
      BY <1>1, <1>2, <1>4, <2>2, UntouchedKeeps
    <2> QED BY <2>1, <2>2
  <1> QED BY <1>5, <1>6 DEF CallKeeps

LEMMA DaemonsKeep ==
    ASSUME CallsInv, NEW d \in DaemonProcess,
           \/ DaemonRuns(d) \/ BindProbes(d) \/ BindUnlinks(d) \/ BindEnds(d) \/ DaemonServes(d)
           \/ DaemonDrains(d) \/ DaemonExits(d) \/ DaemonDies(d)
    PROVE  CallKeeps
  <1>1. \A p \in DaemonProcess : proc'[p].ours = proc[p].ours
    BY VersionsStay DEF CallsInv, ListenInv
  <1>2. CASE DaemonRuns(d) \/ BindProbes(d) \/ BindUnlinks(d) \/ BindEnds(d) \/ DaemonServes(d) \/ DaemonDrains(d)
    <2>1. cl' = cl /\ link' = link /\ ses' = ses /\ did' = did /\ dest' = dest
      BY <1>2 DEF DaemonRuns, BindProbes, BindUnlinks, BindEnds, DaemonServes, DaemonDrains
    <2> QED BY <1>1, <2>1, AllKeep
  <1>3. CASE DaemonExits(d) \/ DaemonDies(d)
    <2>1. Cut(d) /\ cl' = cl /\ did' = did /\ dest' = dest
      BY <1>3 DEF DaemonExits, DaemonDies
    <2> QED BY <1>1, <2>1, CutsKeep
  <1> QED BY <1>2, <1>3

LEMMA CallsStep == CallsInv /\ [ClientNext]_callVars => CallsInv'
  <1> SUFFICES ASSUME CallsInv, [ClientNext]_callVars PROVE CallsInv'
    OBVIOUS
  <1>1. ListenInv'
    BY ListenStep DEF CallsInv
  <1>2. ASSUME CallKeeps PROVE CallsInv'
    BY <1>1, <1>2 DEF CallKeeps, CallsInv
  <1>3. CASE \E d \in DaemonProcess :
               \/ DaemonRuns(d) \/ BindProbes(d) \/ BindUnlinks(d) \/ BindEnds(d) \/ DaemonServes(d)
               \/ DaemonDrains(d) \/ DaemonExits(d) \/ DaemonDies(d)
    BY <1>2, <1>3, DaemonsKeep
  <1>4. CASE OtherWrites
    <2>1. /\ cl' = cl /\ link' = link /\ ses' = ses /\ did' = did /\ proc' = proc /\ dest = "absent" /\ dest' = "theirs"
      BY <1>4 DEF OtherWrites
    <2>2. \A c \in Caller : dest' # c
      BY <2>1, CallerAssumption
    <2> QED BY <1>2, <2>1, <2>2, AllKeep
  <1>5. CASE UNCHANGED callVars
    <2>1. cl' = cl /\ link' = link /\ ses' = ses /\ did' = did /\ proc' = proc /\ dest' = dest
      BY <1>5 DEF callVars
    <2> QED BY <1>2, <2>1, AllKeep
  <1>6. ASSUME NEW c \in Caller,
               \/ Accepts(c) \/ AcceptFails(c) \/ ServeReads(c) \/ ServeGone(c)
               \/ DispatchRefuses(c) \/ Dispatched(c) \/ DispatchFails(c) \/ DispatchHolds(c) \/ AnswerUnwritten(c)
               \/ GetCreates(c) \/ GetEnds(c) \/ GetFails(c)
               \/ ConnectOpens(c) \/ ConnectAcked(c) \/ AckTimesOut(c)
        PROVE  CallKeeps
    BY <1>6, AcceptsKeeps, ServeReadsKeeps, ServerEndsKeeps, DispatchErrorsKeep, DoneKeeps, GetKeeps, ConnectOpensKeeps,
       ConnectAckedKeeps
  <1>7. ASSUME NEW c \in Caller, NEW v \in Verb,
               Begins(c, v) \/ BeginFails(c, v) \/ BeginRefuses(c, v) \/ PasswordFails(c, v) \/ StageFails(c, v)
        PROVE  CallKeeps
    BY <1>7, BeginsKeep
  <1>8. ASSUME NEW c \in Caller,
               \/ Opens(c) \/ OpenSpawns(c) \/ OpenRetries(c) \/ OpenFails(c)
               \/ Probed(c) \/ AnsweredError(c) \/ AnsweredConnect(c) \/ Acked(c) \/ AnsweredOk(c) \/ AnsweredHeld(c)
               \/ RenderFails(c) \/ Lost(c) \/ AttachTimesOut(c) \/ ViewEnds(c) \/ ProxyEnds(c) \/ CallerDies(c)
        PROVE  CallKeeps
    BY <1>8, OpensKeeps, TryKeeps, QuietExits, ProbedKeeps, AnsweredErrorKeeps, AnsweredConnectKeeps, AckedKeeps,
       AnsweredOkKeeps, AnsweredHeldKeeps, HeldEndsKeeps
  <1> QED BY <1>2, <1>3, <1>4, <1>5, <1>6, <1>7, <1>8 DEF ClientNext

LEMMA CallsStart == ClientInit => CallsInv
  <1> SUFFICES ASSUME ClientInit PROVE CallsInv
    OBVIOUS
  <1>1. ListenInv
    BY ListenStart
  <1>2. NoCall \in CallerState /\ NoConnection \in LinkState
    BY DEF NoCall, NoConnection, CallerState, LinkState, ExitClass
  <1>3. CallTypes
    BY <1>2 DEF ClientInit, CallTypes
  <1>4. ASSUME NEW c \in Caller PROVE CallInv(c)
    <2>1. /\ cl[c].verb = "none" /\ cl[c].pc = "idle" /\ cl[c].exit = "none" /\ cl[c].told = "nothing" /\ link[c].srv = "none"
          /\ link[c].up = "none" /\ link[c].down = "none" /\ ses[c] = "none" /\ ~did[c] /\ dest # c
      BY CallerAssumption DEF ClientInit, NoCall, NoConnection
    <2>2. Telling(c) /\ Unasked(c) /\ OursOnly(c)
      BY <2>1 DEF Telling, Unasked, OursOnly
    <2>3. Asked(c) /\ Acking(c) /\ Exited(c)
      BY <2>1 DEF Asked, Acking, Exited, Nothings, Waits
    <2> QED BY <2>2, <2>3 DEF CallInv
  <1> QED BY <1>1, <1>3, <1>4 DEF CallsInv

LEMMA CallsSay == CallsInv => ExitIsTrue
  <1> SUFFICES ASSUME CallsInv, NEW c \in Caller
               PROVE  LET code == code_for(cl[c].exit)
                          verb == cl[c].verb IN
                      /\ code = 0 => /\ did[c]
                                     /\ verb = "connect" => ses[c] = "kept"
                                     /\ verb \in {"get", "replace"} => dest = "whole"
                      /\ code \in {8, 12} \/ cl[c].exit = "config" => cl[c].told = "nothing" /\ ~did[c]
                      /\ code = 3 => verb = "view" \/ cl[c].told = "nothing"
                      /\ code \in {7, 9} => ~did[c] /\ ses[c] = "none"
                      /\ cl[c].exit # "unexpected"
                      /\ cl[c].told # "nothing" => proc[cl[c].to].ours
                      /\ link[c].srv = "closed" => ses[c] \in {"none", "kept"}
                      /\ dest = c => verb = "get" /\ cl[c].exit \in {"none", "killed", "transport"}
    BY Zenon DEF ExitIsTrue
  <1>1. /\ Telling(c) /\ Unasked(c) /\ Asked(c) /\ Acking(c) /\ Exited(c) /\ OursOnly(c) /\ cl[c].exit \in ExitClass
        /\ ses[c] \in {"none", "opening", "open", "kept"}
    BY Known
  <1>2. /\ code_for(cl[c].exit) = 0 <=> cl[c].exit = "ok"
        /\ code_for(cl[c].exit) = 3 <=> cl[c].exit = "daemon-unreachable"
        /\ code_for(cl[c].exit) = 7 <=> cl[c].exit = "duplicate-session"
        /\ code_for(cl[c].exit) = 8 <=> cl[c].exit = "no-clobber"
        /\ code_for(cl[c].exit) = 9 <=> cl[c].exit = "bundle-unavailable"
        /\ code_for(cl[c].exit) = 12 <=> cl[c].exit = "daemon-incompatible"
    BY CodeOf
  <1>3. cl[c].exit \in {"no-clobber", "daemon-incompatible", "config"} => cl[c].told = "nothing" /\ ~did[c]
    BY <1>1 DEF Exited, Unasked
  <1>4. cl[c].exit \in Nothings => ~did[c] /\ ses[c] = "none"
    BY <1>1 DEF Exited, Asked, Outcome, Nothings
  <1>5. cl[c].exit = "ok" => /\ did[c]
                             /\ cl[c].verb = "connect" => ses[c] = "kept"
                             /\ cl[c].verb \in {"get", "replace"} => dest = "whole"
    BY <1>1 DEF Exited
  <1>6. cl[c].exit = "daemon-unreachable" => cl[c].verb = "view" \/ cl[c].told = "nothing"
    BY <1>1 DEF Exited
  <1>7. cl[c].exit # "unexpected"
    BY <1>1 DEF ExitClass, Codes
  <1>8. cl[c].told # "nothing" => proc[cl[c].to].ours
    BY <1>1 DEF OursOnly
  <1>9. link[c].srv = "closed" => ses[c] \in {"none", "kept"}
    BY <1>1 DEF Unasked, Asked, Acking
  <1>10. dest = c => cl[c].verb = "get" /\ cl[c].exit \in {"none", "killed", "transport"}
    BY <1>1 DEF Unasked, Asked, Acking, Exited
  <1>11. PICK code : code = code_for(cl[c].exit)
    OBVIOUS
  <1>12. code \in {8, 12} \/ cl[c].exit = "config" => cl[c].exit \in {"no-clobber", "daemon-incompatible", "config"}
    BY <1>2, <1>11
  <1>13. code \in {7, 9} => cl[c].exit \in Nothings
    BY <1>2, <1>11 DEF Nothings
  <1>14. (code = 0 => cl[c].exit = "ok") /\ (code = 3 => cl[c].exit = "daemon-unreachable")
    BY <1>2, <1>11
  <1> QED BY <1>3, <1>4, <1>5, <1>6, <1>7, <1>8, <1>9, <1>10, <1>11, <1>12, <1>13, <1>14, Zenon

\* What an exit code promises is so from then on (verified_round_trip,
\* connect_round_trip, get, exit_codes.rs): done and kept, nothing but a list
\* sent, nothing done, and no part of a file left behind.
THEOREM ExitIsTrueEver == ClientSpec => []ExitIsTrue
  <1> QED BY CallsStart, CallsStep, CallsSay, PTL DEF ClientSpec

-----------------------------------------------------------------------------
(* The queues of a stream                                                     *)

\* w is q without its entry number k.
Skips(w, q, k) ==
    /\ k \in 1..Len(q) /\ Len(w) = Len(q) - 1
    /\ \A j \in 1..Len(w) : w[j] = IF j < k THEN q[j] ELSE q[j + 1]

LEMMA RemoveAtSkips ==
  ASSUME NEW S, NEW q \in Seq(S), NEW k \in 1..Len(q)
  PROVE  RemoveAt(q, k) \in Seq(S) /\ Skips(RemoveAt(q, k), q, k)
  <1> DEFINE a == SubSeq(q, 1, k - 1)
             b == SubSeq(q, k + 1, Len(q))
  <1>1. a \in Seq(S) /\ Len(a) = k - 1 /\ \A j \in 1..(k - 1) : a[j] = q[j]
    OBVIOUS
  <1>2. b \in Seq(S) /\ Len(b) = Len(q) - k /\ \A j \in 1..(Len(q) - k) : b[j] = q[k + j]
    OBVIOUS
  <1>3. RemoveAt(q, k) = a \o b
    BY DEF RemoveAt
  <1> HIDE DEF a, b
  <1>4. a \o b \in Seq(S) /\ Len(a \o b) = Len(a) + Len(b)
    BY <1>1, <1>2, ConcatProperties
  <1>5. ASSUME NEW j \in 1..(Len(q) - 1)
        PROVE  (a \o b)[j] = IF j < k THEN q[j] ELSE q[j + 1]
    <2>1. CASE j < k
      BY <1>1, <1>2, <2>1, ConcatProperties
    <2>2. CASE ~(j < k)
      <3>1. j - (k - 1) \in 1..(Len(q) - k) /\ k + (j - (k - 1)) = j + 1
        BY <2>2
      <3>2. (a \o b)[j] = b[j - (k - 1)]
        BY <1>1, <1>2, <2>2, ConcatProperties
      <3>3. b[j - (k - 1)] = q[k + (j - (k - 1))]
        BY <1>2, <3>1
      <3>4. q[k + (j - (k - 1))] = q[j + 1]
        BY <3>1
      <3>5. (a \o b)[j] = q[j + 1]
        BY <3>2, <3>3, <3>4, Zenon
      <3> QED BY <2>2, <3>5, Zenon
    <2> QED BY <2>1, <2>2
  <1> DEFINE w == a \o b
  <1>6. w \in Seq(S) /\ Len(w) = Len(q) - 1 /\ RemoveAt(q, k) = w
    BY <1>1, <1>2, <1>3, <1>4
  <1>7. \A j \in 1..(Len(q) - 1) : w[j] = IF j < k THEN q[j] ELSE q[j + 1]
    BY <1>5
  <1> HIDE DEF w
  <1> QED BY <1>6, <1>7 DEF Skips

LEMMA FirstIsMin ==
  ASSUME NEW S, S \subseteq Nat, S # {}
  PROVE  Min(S) \in S /\ \A y \in S : Min(S) <= y
  BY LeastNat DEF Min

\* What stays when an entry is skipped.
AllBut(w, q, k) ==
    /\ \A j \in 1..Len(w) : \E i \in 1..Len(q) : i # k /\ w[j] = q[i]
    /\ \A i \in 1..Len(q) : i # k => \E j \in 1..Len(w) : w[j] = q[i]

LEMMA SkipsKeeps ==
  ASSUME NEW S, NEW q \in Seq(S), NEW w \in Seq(S), NEW k, Skips(w, q, k)
  PROVE  AllBut(w, q, k)
  <1>1. ASSUME NEW j \in 1..Len(w)
        PROVE  LET i == IF j < k THEN j ELSE j + 1 IN i \in 1..Len(q) /\ i # k /\ w[j] = q[i]
    BY DEF Skips
  <1>2. ASSUME NEW i \in 1..Len(q), i # k
        PROVE  LET j == IF i < k THEN i ELSE i - 1 IN j \in 1..Len(w) /\ w[j] = q[i]
    BY <1>2 DEF Skips
  <1> QED BY <1>1, <1>2 DEF AllBut

LEMMA WithoutIdSkips ==
  ASSUME NEW S, NEW q \in Seq(S), NEW id
  PROVE  /\ WithoutId(q, id) \in Seq(S)
         /\ \/ WithoutId(q, id) = q /\ \A i \in 1..Len(q) : q[i].id # id
            \/ \E k \in 1..Len(q) : q[k].id = id /\ Skips(WithoutId(q, id), q, k)
  <1> DEFINE I == {i \in 1..Len(q) : q[i].id = id}
  <1>1. CASE I = {}
    <2>1. WithoutId(q, id) = q
      BY <1>1 DEF WithoutId, RemoveFirstMatch
    <2> QED BY <1>1, <2>1
  <1>2. CASE I # {}
    <2>1. Min(I) \in I
      <3> HIDE DEF I
      <3>1. I \subseteq Nat
        BY DEF I
      <3> QED BY <1>2, <3>1, FirstIsMin
    <2>2. WithoutId(q, id) = RemoveAt(q, Min(I))
      BY <1>2 DEF WithoutId, RemoveFirstMatch, SelectInSeq
    <2>3. Min(I) \in 1..Len(q) /\ q[Min(I)].id = id
      BY <2>1
    <2> HIDE DEF I
    <2>4. RemoveAt(q, Min(I)) \in Seq(S) /\ Skips(RemoveAt(q, Min(I)), q, Min(I))
      BY <2>3, RemoveAtSkips
    <2> QED BY <2>2, <2>3, <2>4
  <1> QED BY <1>1, <1>2

LEMMA RemoveFirstSkips ==
  ASSUME NEW S, NEW q \in Seq(S), NEW id
  PROVE  /\ RemoveFirst(q, id) \in Seq(S)
         /\ \/ RemoveFirst(q, id) = q /\ \A i \in 1..Len(q) : q[i] # id
            \/ \E k \in 1..Len(q) : q[k] = id /\ Skips(RemoveFirst(q, id), q, k)
  <1> DEFINE I == {i \in 1..Len(q) : q[i] = id}
  <1>1. CASE I = {}
    <2>1. RemoveFirst(q, id) = q
      BY <1>1 DEF RemoveFirst
    <2> QED BY <1>1, <2>1
  <1>2. CASE I # {}
    <2>1. Min(I) \in I
      <3> HIDE DEF I
      <3>1. I \subseteq Nat
        BY DEF I
      <3> QED BY <1>2, <3>1, FirstIsMin
    <2>2. RemoveFirst(q, id) = RemoveAt(q, Min(I))
      BY <1>2 DEF RemoveFirst, SelectInSeq
    <2>3. Min(I) \in 1..Len(q) /\ q[Min(I)] = id
      BY <2>1
    <2> HIDE DEF I
    <2>4. RemoveAt(q, Min(I)) \in Seq(S) /\ Skips(RemoveAt(q, Min(I)), q, Min(I))
      BY <2>3, RemoveAtSkips
    <2> QED BY <2>2, <2>3, <2>4
  <1> QED BY <1>1, <1>2

\* The first id of a queue is taken out: the others stay, and nothing comes in.
LEMMA RemoveFirstKeeps ==
  ASSUME NEW S, NEW q \in Seq(S), NEW id
  PROVE  /\ RemoveFirst(q, id) \in Seq(S)
         /\ Len(RemoveFirst(q, id)) \in {Len(q), Len(q) - 1}
         /\ \A e \in ToSet(q) : e # id => e \in ToSet(RemoveFirst(q, id))
         /\ ToSet(RemoveFirst(q, id)) \subseteq ToSet(q)
  <1> DEFINE w == RemoveFirst(q, id)
  <1>1. w \in Seq(S)
    BY RemoveFirstSkips
  <1>2. CASE w = q
    BY <1>1, <1>2
  <1>3. CASE \E k \in 1..Len(q) : q[k] = id /\ Skips(w, q, k)
    <2>1. PICK k \in 1..Len(q) : q[k] = id /\ Skips(w, q, k)
      BY <1>3
    <2> HIDE DEF w
    <2>2. /\ \A j \in 1..Len(w) : \E i \in 1..Len(q) : i # k /\ w[j] = q[i]
          /\ \A i \in 1..Len(q) : i # k => \E j \in 1..Len(w) : w[j] = q[i]
      <3>1. AllBut(w, q, k)
        BY <1>1, <2>1, SkipsKeeps
      <3> QED BY <3>1, Zenon DEF AllBut
    <2>3. Len(w) = Len(q) - 1
      BY <2>1 DEF Skips
    <2>4. ASSUME NEW e \in ToSet(q), e # id PROVE e \in ToSet(w)
      <3>1. PICK i \in 1..Len(q) : q[i] = e
        BY DEF ToSet
      <3>2. PICK j \in 1..Len(w) : w[j] = q[i]
        BY <2>1, <2>2, <2>4, <3>1
      <3> QED BY <1>1, <3>1, <3>2 DEF ToSet
    <2>5. ASSUME NEW e \in ToSet(w) PROVE e \in ToSet(q)
      <3>1. PICK j \in 1..Len(w) : w[j] = e
        BY <1>1 DEF ToSet
      <3>2. PICK i \in 1..Len(q) : w[j] = q[i]
        BY <2>2
      <3> QED BY <3>1, <3>2 DEF ToSet
    <2> QED BY <1>1, <2>3, <2>4, <2>5 DEF w
  <1> QED
    <2> HIDE DEF w
    <2>1. w = q \/ \E k \in 1..Len(q) : q[k] = id /\ Skips(w, q, k)
      BY RemoveFirstSkips DEF w
    <2> QED BY <1>2, <1>3, <2>1 DEF w

\* A queue that is full forgets its oldest entry, and a shorter one nothing.
LEMMA PushCappedKeeps ==
  ASSUME NEW S, NEW q \in Seq(S), NEW id \in S
  PROVE  /\ PushCapped(q, id) \in Seq(S)
         /\ Len(PushCapped(q, id)) = IF Len(q) >= PendingCap THEN Len(q) ELSE Len(q) + 1
         /\ id \in ToSet(PushCapped(q, id))
         /\ Len(q) < PendingCap => ToSet(q) \subseteq ToSet(PushCapped(q, id))
  <1> USE CuaStreamAssumption
  <1>1. CASE Len(q) >= PendingCap
    <2> DEFINE t == Tail(q)
    <2>1. t \in Seq(S) /\ Len(t) = Len(q) - 1
      BY <1>1
    <2>2. PushCapped(q, id) = Append(t, id)
      BY <1>1 DEF PushCapped
    <2> HIDE DEF t
    <2>3. Append(t, id)[Len(t) + 1] = id /\ Len(Append(t, id)) = Len(t) + 1 /\ Append(t, id) \in Seq(S)
      BY <2>1
    <2>4. id \in ToSet(Append(t, id))
      BY <2>1, <2>3 DEF ToSet
    <2> QED BY <1>1, <2>1, <2>2, <2>3, <2>4
  <1>2. CASE ~(Len(q) >= PendingCap)
    <2>1. PushCapped(q, id) = Append(q, id)
      BY <1>2 DEF PushCapped
    <2>2. /\ Append(q, id) \in Seq(S) /\ Len(Append(q, id)) = Len(q) + 1
          /\ Append(q, id)[Len(q) + 1] = id
          /\ \A i \in 1..Len(q) : Append(q, id)[i] = q[i]
      OBVIOUS
    <2>3. id \in ToSet(Append(q, id)) /\ ToSet(q) \subseteq ToSet(Append(q, id))
      BY <2>2 DEF ToSet
    <2> QED BY <1>2, <2>1, <2>2, <2>3
  <1> QED BY <1>1, <1>2

-----------------------------------------------------------------------------
(* The loop over the calls of a message                                       *)

\* Induction up to a bound, over a set of numbers.
LEMMA CountUp ==
  ASSUME NEW L \in Nat, NEW P, 0 \in P, \A k \in 1..L : k - 1 \in P => k \in P
  PROVE  \A k \in 0..L : k \in P
  <1> DEFINE Bad == {k \in 0..L : k \notin P}
  <1>1. SUFFICES ASSUME Bad # {} PROVE FALSE
    OBVIOUS
  <1>2. PICK k \in Bad : \A j \in Bad : k <= j
    <2>1. Bad \subseteq Nat
      OBVIOUS
    <2> HIDE DEF Bad
    <2> QED BY <1>1, <2>1, LeastNat
  <1>3. k \in 1..L /\ k - 1 \in 0..L /\ ~(k <= k - 1)
    OBVIOUS
  <1>4. k - 1 \in P
    BY <1>2, <1>3
  <1> QED BY <1>3, <1>4

\* f is a loop of L steps, each a function of its number and of the value so far.
IsLoop(f, L, V, start, G) ==
    f \in [0..L -> V] /\ f[0] = start /\ \A k \in 1..L : f[k] = G[<<k, f[k - 1]>>]
LEMMA LoopExists ==
  ASSUME NEW L \in Nat, NEW V, NEW start \in V, NEW G \in [(1..L) \X V -> V]
  PROVE  \E f : IsLoop(f, L, V, start, G)
  <1> DEFINE Upto(f, n) == f \in [0..n -> V] /\ f[0] = start /\ \A k \in 1..n : f[k] = G[<<k, f[k - 1]>>]
             P == {n \in 0..L : \E f : Upto(f, n)}
  <1>1. 0 \in P
    <2> DEFINE f == [k \in 0..0 |-> start]
    <2>1. Upto(f, 0)
      OBVIOUS
    <2> HIDE DEF f, Upto
    <2> QED BY <2>1
  <1>2. ASSUME NEW n \in 1..L, n - 1 \in P PROVE n \in P
    <2>1. PICK f : Upto(f, n - 1)
      BY <1>2
    <2> DEFINE v == G[<<n, f[n - 1]>>]
               g == [k \in 0..n |-> IF k = n THEN v ELSE f[k]]
    <2>2. v \in V
      BY <2>1
    <2>3. g \in [0..n -> V] /\ g[0] = start
      BY <2>1, <2>2
    <2>4. ASSUME NEW k \in 1..n PROVE g[k] = G[<<k, g[k - 1]>>]
      <3>1. CASE k = n
        <4>1. g[n] = v /\ g[n - 1] = f[n - 1]
          OBVIOUS
        <4> QED BY <3>1, <4>1
      <3>2. CASE k # n
        <4>1. k \in 1..(n - 1) /\ g[k] = f[k] /\ g[k - 1] = f[k - 1]
          BY <3>2
        <4>2. f[k] = G[<<k, f[k - 1]>>]
          BY <2>1, <4>1
        <4> QED BY <4>1, <4>2
      <3> QED BY <3>1, <3>2
    <2>5. Upto(g, n)
      BY <2>3, <2>4
    <2> HIDE DEF g, Upto
    <2> QED BY <2>5
  <1>3. L \in P
    <2> HIDE DEF P
    <2> QED BY <1>1, <1>2, CountUp
  <1> QED BY <1>3 DEF IsLoop

Ids == UNION {{m.calls[i].id : i \in DOMAIN m.calls} : m \in Message}

\* How many of a set of positions are among the first k.
Among(which, k) == {i \in which : i <= k}

Counting(L, which) ==
    /\ IsFiniteSet(which) /\ Cardinality(which) \in Nat
    /\ Among(which, 0) = {} /\ Among(which, L) = which
    /\ \A k \in 0..L : /\ Cardinality(Among(which, k)) \in Nat
                       /\ Cardinality(Among(which, k)) <= Cardinality(which)
    /\ \A k \in 1..L : Cardinality(Among(which, k)) =
           Cardinality(Among(which, k - 1)) + (IF k \in which THEN 1 ELSE 0)

LEMMA AmongGrows == ASSUME NEW L \in Nat, NEW which, which \subseteq 1..L PROVE Counting(L, which)
  <1>1. IsFiniteSet(which)
    <2>1. IsFiniteSet(1..L)
      BY FS_Interval
    <2>2. which \in SUBSET (1..L)
      OBVIOUS
    <2> QED BY <2>1, <2>2, FS_Subset
  <1>2. Cardinality(which) \in Nat
    BY <1>1, FS_CardinalityType
  <1> \A i \in which : i \in 1..L
    OBVIOUS
  <1>3. Among(which, 0) = {} /\ Among(which, L) = which
    <2>1. \A i \in which : ~(i <= 0) /\ i <= L
      OBVIOUS
    <2> QED BY <2>1, Zenon DEF Among
  <1>4. ASSUME NEW k \in 0..L
        PROVE  /\ IsFiniteSet(Among(which, k)) /\ Cardinality(Among(which, k)) \in Nat
               /\ Cardinality(Among(which, k)) <= Cardinality(which)
    <2>1. Among(which, k) \subseteq which
      BY DEF Among
    <2> QED BY <1>1, <2>1, FS_Subset, FS_CardinalityType
  <1>5. ASSUME NEW k \in 1..L
        PROVE  Cardinality(Among(which, k)) =
                   Cardinality(Among(which, k - 1)) + (IF k \in which THEN 1 ELSE 0)
    <2>1. CASE k \in which
      <3>1. Among(which, k) = Among(which, k - 1) \cup {k} /\ k \notin Among(which, k - 1)
        <4>1. \A i \in which : i <= k <=> i <= k - 1 \/ i = k
          OBVIOUS
        <4>2. k <= k /\ ~(k <= k - 1)
          OBVIOUS
        <4> QED BY <2>1, <4>1, <4>2, Zenon DEF Among
      <3>2. IsFiniteSet(Among(which, k - 1))
        BY <1>4
      <3> QED BY <2>1, <3>1, <3>2, FS_AddElement
    <2>2. CASE k \notin which
      <3>1. Among(which, k) = Among(which, k - 1)
        <4>1. \A i \in which : i <= k <=> i <= k - 1 \/ i = k
          OBVIOUS
        <4> QED BY <2>2, <4>1, Zenon DEF Among
      <3>2. Cardinality(Among(which, k - 1)) \in Nat
        BY <1>4
      <3> QED BY <2>2, <3>1, <3>2
    <2> QED BY <2>1, <2>2
  <1> QED BY <1>1, <1>2, <1>3, <1>4, <1>5 DEF Counting

LEMMA CallPositions ==
  ASSUME NEW m \in Message
  PROVE  /\ Len(m.calls) \in Nat \ {0} /\ DOMAIN m.calls = 1..Len(m.calls)
         /\ CountedCalls(m) \subseteq 1..Len(m.calls) /\ ListCalls(m) \subseteq 1..Len(m.calls)
         /\ \A i \in 1..Len(m.calls) : m.calls[i].id \in Ids
  BY MessageAssumption DEF CountedCalls, ListCalls, ActingCalls, Ids

\* The loop of NotedLists, step by step.
LEMMA ListsLoop ==
  ASSUME NEW m \in Message, NEW s, lists[s] \in Seq(Ids)
  PROVE  \E f \in [0..Len(m.calls) -> Seq(Ids)] :
            /\ f[0] = lists[s] /\ NotedLists(s, m) = f[Len(m.calls)]
            /\ \A k \in 1..Len(m.calls) :
                  f[k] = IF k \in ListCalls(m) THEN PushCapped(f[k - 1], m.calls[k].id) ELSE f[k - 1]
  <1> DEFINE L == Len(m.calls)
             V == Seq(Ids)
             which == ListCalls(m)
             start == lists[s]
             Go(f) == [k \in 0..L |-> IF k = 0 THEN start
                                      ELSE IF k \in which THEN PushCapped(f[k - 1], m.calls[k].id)
                                      ELSE f[k - 1]]
             G == [x \in (1..L) \X V |-> IF x[1] \in which THEN PushCapped(x[2], m.calls[x[1]].id) ELSE x[2]]
  <1>1. NotedLists(s, m) = (CHOOSE f : f = Go(f))[L]
    BY DEF NotedLists, OverCalls
  <1>2. L \in Nat \ {0} /\ \A i \in 1..L : m.calls[i].id \in Ids
    BY CallPositions
  <1> HIDE DEF L
  <1>3. G \in [(1..L) \X V -> V]
    <2>1. ASSUME NEW i \in 1..L, NEW q \in V PROVE PushCapped(q, m.calls[i].id) \in V
      BY <1>2, PushCappedKeeps
    <2> QED BY <2>1
  <1>4. PICK f \in [0..L -> V] : f[0] = start /\ \A k \in 1..L : f[k] = G[<<k, f[k - 1]>>]
    <2> HIDE DEF G, V, start
    <2>1. start \in V
      BY DEF start, V
    <2>2. \E f : IsLoop(f, L, V, start, G)
      BY <1>2, <1>3, <2>1, LoopExists
    <2> QED BY <2>2 DEF IsLoop
  <1>5. ASSUME NEW k \in 1..L
        PROVE  f[k] = IF k \in which THEN PushCapped(f[k - 1], m.calls[k].id) ELSE f[k - 1]
    <2>1. k - 1 \in 0..L
      BY <1>2
    <2>2. f[k - 1] \in V
      BY <1>4, <2>1
    <2>3. <<k, f[k - 1]>> \in (1..L) \X V
      BY <2>2
    <2> QED BY <1>4, <2>3
  <1>6. f = Go(f)
    <2>1. ASSUME NEW k \in 0..L PROVE f[k] = Go(f)[k]
      <3>1. CASE k = 0
        BY <1>4, <3>1
      <3>2. CASE k # 0
        BY <1>5, <3>2
      <3> QED BY <3>1, <3>2
    <2>2. DOMAIN Go(f) = 0..L /\ DOMAIN f = 0..L
      BY <1>4
    <2>3. Go(f) = [k \in 0..L |-> Go(f)[k]] /\ f = [k \in 0..L |-> f[k]]
      BY <1>4, <2>2
    <2> HIDE DEF Go
    <2> QED BY <2>1, <2>3
  <1> DEFINE g == CHOOSE h : h = Go(h)
  <1>7. g = Go(g)
    <2> HIDE DEF Go
    <2> QED BY <1>6
  <1> HIDE DEF g
  <1>8. g[0] = start
    BY <1>2, <1>7
  <1>9. ASSUME NEW k \in 1..L
        PROVE  g[k] = IF k \in which THEN PushCapped(g[k - 1], m.calls[k].id) ELSE g[k - 1]
    <2>1. g[k] = Go(g)[k] /\ k \in 0..L /\ k # 0
      BY <1>7
    <2> QED BY <2>1
  <1>10. \A k \in 0..L : g[k] = f[k]
    <2> DEFINE P == {k \in 0..L : g[k] = f[k]}
    <2>1. 0 \in P
      BY <1>2, <1>4, <1>8
    <2>2. ASSUME NEW k \in 1..L, k - 1 \in P PROVE k \in P
      BY <1>5, <1>9, <2>2
    <2> HIDE DEF P
    <2>3. \A k \in 0..L : k \in P
      BY <1>2, <2>1, <2>2, CountUp
    <2> QED BY <2>3 DEF P
  <1>11. NotedLists(s, m) = f[L]
    BY <1>1, <1>2, <1>10 DEF g
  <1> QED BY <1>4, <1>5, <1>11 DEF L

\* The gate's queue in the loop, and how many counts it has freed.
Counts == [ids : Seq(Ids), freed : Nat]

\* One id more: what is freed is what the queue did not grow by.
LEMMA RememberKeeps ==
  ASSUME NEW acc \in Counts, NEW id \in Ids
  PROVE  LET new == RememberActing(acc, id) IN
         /\ new \in Counts
         /\ Len(new.ids) + new.freed = Len(acc.ids) + acc.freed + 1
         /\ id \in ToSet(new.ids)
         /\ Len(acc.ids) < PendingCap => ToSet(acc.ids) \subseteq ToSet(new.ids)
  <1> DEFINE others == RemoveFirst(acc.ids, id)
             new == RememberActing(acc, id)
  <1>1. acc.ids \in Seq(Ids) /\ acc.freed \in Nat
    BY DEF Counts
  <1>2. /\ others \in Seq(Ids) /\ Len(others) \in {Len(acc.ids), Len(acc.ids) - 1}
        /\ \A e \in ToSet(acc.ids) : e # id => e \in ToSet(others)
    BY <1>1, RemoveFirstKeeps
  <1>3. /\ new.ids = PushCapped(others, id)
        /\ new.freed = acc.freed + (Len(acc.ids) - Len(others)) + (IF Len(others) >= PendingCap THEN 1 ELSE 0)
        /\ new = [ids |-> new.ids, freed |-> new.freed]
    BY DEF RememberActing
  <1> HIDE DEF others, new
  <1>4. /\ new.ids \in Seq(Ids) /\ id \in ToSet(new.ids)
        /\ Len(new.ids) = IF Len(others) >= PendingCap THEN Len(others) ELSE Len(others) + 1
        /\ Len(others) < PendingCap => ToSet(others) \subseteq ToSet(new.ids)
    BY <1>2, <1>3, PushCappedKeeps
  <1>5. new.freed \in Nat /\ Len(new.ids) + new.freed = Len(acc.ids) + acc.freed + 1
    <2>1. Len(others) \in Nat /\ Len(acc.ids) \in Nat
      BY <1>1, <1>2
    <2> DEFINE a == Len(acc.ids)
               o == Len(others)
               n == Len(new.ids)
    <2>2. a \in Nat /\ o \in Nat /\ o \in {a, a - 1} /\ acc.freed \in Nat
      BY <1>1, <1>2
    <2>3. /\ new.freed = acc.freed + (a - o) + (IF o >= PendingCap THEN 1 ELSE 0)
          /\ n = IF o >= PendingCap THEN o ELSE o + 1
      BY <1>3, <1>4
    <2> HIDE DEF a, o, n
    <2>4. CASE o >= PendingCap
      <3>1. new.freed = acc.freed + (a - o) + 1 /\ n = o
        BY <2>3, <2>4
      <3>2. new.freed \in Nat /\ n + new.freed = a + acc.freed + 1
        BY <2>2, <3>1
      <3> QED BY <3>2 DEF a, n
    <2>5. CASE ~(o >= PendingCap)
      <3>1. new.freed = acc.freed + (a - o) + 0 /\ n = o + 1
        BY <2>3, <2>5
      <3>2. new.freed \in Nat /\ n + new.freed = a + acc.freed + 1
        BY <2>2, <3>1
      <3> QED BY <3>2 DEF a, n
    <2> QED BY <2>4, <2>5
  <1>6. new \in Counts
    BY <1>3, <1>4, <1>5 DEF Counts
  <1>7. ASSUME Len(acc.ids) < PendingCap, NEW e \in ToSet(acc.ids) PROVE e \in ToSet(new.ids)
    <2>1. Len(others) < PendingCap
      <3>1. Len(others) \in Nat /\ Len(acc.ids) \in Nat
        BY <1>1, <1>2
      <3> QED BY <1>2, <1>7, <3>1, CuaStreamAssumption
    <2> QED BY <1>2, <1>4, <1>7, <2>1
  <1> QED BY <1>4, <1>5, <1>6, <1>7 DEF new

\* The loop of Remembered, step by step.
IsActingLoop(f, s, m) ==
    /\ f \in [0..Len(m.calls) -> Counts]
    /\ f[0] = [ids |-> acting[s], freed |-> 0] /\ Remembered(s, m) = f[Len(m.calls)]
    /\ \A k \in 1..Len(m.calls) :
          f[k] = IF k \in CountedCalls(m) THEN RememberActing(f[k - 1], m.calls[k].id) ELSE f[k - 1]

LEMMA ActingLoop ==
  ASSUME NEW m \in Message, NEW s, acting[s] \in Seq(Ids)
  PROVE  \E f : IsActingLoop(f, s, m)
  <1> DEFINE L == Len(m.calls)
             V == Counts
             which == CountedCalls(m)
             start == [ids |-> acting[s], freed |-> 0]
             Go(f) == [k \in 0..L |-> IF k = 0 THEN start
                                      ELSE IF k \in which THEN RememberActing(f[k - 1], m.calls[k].id)
                                      ELSE f[k - 1]]
             G == [x \in (1..L) \X V |-> IF x[1] \in which THEN RememberActing(x[2], m.calls[x[1]].id) ELSE x[2]]
  <1>1. Remembered(s, m) = (CHOOSE f : f = Go(f))[L]
    BY DEF Remembered, OverCalls
  <1>2. L \in Nat \ {0} /\ \A i \in 1..L : m.calls[i].id \in Ids
    BY CallPositions
  <1> HIDE DEF L
  <1>3. G \in [(1..L) \X V -> V]
    <2>1. ASSUME NEW i \in 1..L, NEW q \in V PROVE RememberActing(q, m.calls[i].id) \in V
      BY <1>2, RememberKeeps
    <2> QED BY <2>1
  <1>4. PICK f \in [0..L -> V] : f[0] = start /\ \A k \in 1..L : f[k] = G[<<k, f[k - 1]>>]
    <2> HIDE DEF G, V, start
    <2>1. start \in V
      BY DEF start, V, Counts
    <2>2. \E f : IsLoop(f, L, V, start, G)
      BY <1>2, <1>3, <2>1, LoopExists
    <2> QED BY <2>2 DEF IsLoop
  <1>5. ASSUME NEW k \in 1..L
        PROVE  f[k] = IF k \in which THEN RememberActing(f[k - 1], m.calls[k].id) ELSE f[k - 1]
    <2>1. k - 1 \in 0..L
      BY <1>2
    <2>2. f[k - 1] \in V
      BY <1>4, <2>1
    <2>3. <<k, f[k - 1]>> \in (1..L) \X V
      BY <2>2
    <2> QED BY <1>4, <2>3
  <1>6. f = Go(f)
    <2>1. ASSUME NEW k \in 0..L PROVE f[k] = Go(f)[k]
      <3>1. CASE k = 0
        BY <1>4, <3>1
      <3>2. CASE k # 0
        BY <1>5, <3>2
      <3> QED BY <3>1, <3>2
    <2>2. DOMAIN Go(f) = 0..L /\ DOMAIN f = 0..L
      BY <1>4
    <2>3. Go(f) = [k \in 0..L |-> Go(f)[k]] /\ f = [k \in 0..L |-> f[k]]
      BY <1>4, <2>2
    <2> HIDE DEF Go
    <2> QED BY <2>1, <2>3
  <1> DEFINE g == CHOOSE h : h = Go(h)
  <1>7. g = Go(g)
    <2> HIDE DEF Go
    <2> QED BY <1>6
  <1> HIDE DEF g
  <1>8. g[0] = start
    BY <1>2, <1>7
  <1>9. ASSUME NEW k \in 1..L
        PROVE  g[k] = IF k \in which THEN RememberActing(g[k - 1], m.calls[k].id) ELSE g[k - 1]
    <2>1. g[k] = Go(g)[k] /\ k \in 0..L /\ k # 0
      BY <1>7
    <2> QED BY <2>1
  <1>10. \A k \in 0..L : g[k] = f[k]
    <2> DEFINE P == {k \in 0..L : g[k] = f[k]}
    <2>1. 0 \in P
      BY <1>2, <1>4, <1>8
    <2>2. ASSUME NEW k \in 1..L, k - 1 \in P PROVE k \in P
      BY <1>5, <1>9, <2>2
    <2> HIDE DEF P
    <2>3. \A k \in 0..L : k \in P
      BY <1>2, <2>1, <2>2, CountUp
    <2> QED BY <2>3 DEF P
  <1>11. Remembered(s, m) = f[L]
    BY <1>1, <1>2, <1>10 DEF g
  <1>12. IsActingLoop(f, s, m)
    BY <1>4, <1>5, <1>11 DEF L, IsActingLoop
  <1> QED BY <1>12

\* What the loop over the tools/list requests keeps.
LEMMA NotedListsKeeps ==
  ASSUME NEW m \in Message, NEW s, lists[s] \in Seq(Ids)
  PROVE  /\ NotedLists(s, m) \in Seq(Ids)
         /\ Len(lists[s]) + Cardinality(ListCalls(m)) <= PendingCap =>
               /\ ToSet(lists[s]) \subseteq ToSet(NotedLists(s, m))
               /\ \A i \in ListCalls(m) : m.calls[i].id \in ToSet(NotedLists(s, m))
  <1> DEFINE L == Len(m.calls)
             which == ListCalls(m)
  <1>1. /\ L \in Nat \ {0} /\ which \subseteq 1..L
        /\ \A i \in 1..L : m.calls[i].id \in Ids
    BY CallPositions
  <1>2. PICK f \in [0..L -> Seq(Ids)] :
            /\ f[0] = lists[s] /\ NotedLists(s, m) = f[L]
            /\ \A k \in 1..L : f[k] = IF k \in which THEN PushCapped(f[k - 1], m.calls[k].id) ELSE f[k - 1]
    BY ListsLoop
  <1> HIDE DEF L, which
  <1>9. Counting(L, which)
    BY <1>1, AmongGrows
  <1>3. ASSUME Len(lists[s]) + Cardinality(which) <= PendingCap
        PROVE  /\ ToSet(lists[s]) \subseteq ToSet(f[L])
               /\ \A i \in which : m.calls[i].id \in ToSet(f[L])
    <2> DEFINE Has(k) == /\ Len(f[k]) <= Len(lists[s]) + Cardinality(Among(which, k))
                         /\ ToSet(lists[s]) \subseteq ToSet(f[k])
                         /\ \A i \in Among(which, k) : m.calls[i].id \in ToSet(f[k])
               P == {k \in 0..L : Has(k)}
    <2>1. 0 \in P
      <3>1. Has(0)
        <4>1. Among(which, 0) = {} /\ Cardinality(Among(which, 0)) \in Nat
          BY <1>1, <1>9 DEF Counting
        <4>2. Cardinality(Among(which, 0)) = 0
          BY <4>1, FS_EmptySet
        <4> QED BY <1>2, <4>1, <4>2
      <3> HIDE DEF Has
      <3> QED BY <1>1, <3>1
    <2>2. ASSUME NEW k \in 1..L, k - 1 \in P PROVE k \in P
      <3> HIDE DEF Has
      <3>1. Has(k - 1) /\ k - 1 \in 0..L /\ k \in 0..L
        BY <1>1, <2>2
      <3> HIDE DEF P
      <3>2. Cardinality(Among(which, k)) = Cardinality(Among(which, k - 1)) + (IF k \in which THEN 1 ELSE 0)
        BY <1>9 DEF Counting
      <3>3. Cardinality(Among(which, k - 1)) \in Nat /\ Cardinality(Among(which, k)) <= Cardinality(which)
            /\ Cardinality(which) \in Nat
        BY <3>1, <1>9 DEF Counting
      <3>4. f[k - 1] \in Seq(Ids) /\ Len(f[k - 1]) \in Nat /\ Len(lists[s]) \in Nat
        BY <1>2, <3>1
      <3>5. \A i \in Among(which, k) : i \in Among(which, k - 1) \/ i = k
        BY <1>1 DEF Among
      <3>6. CASE k \in which
        <4>1. f[k] = PushCapped(f[k - 1], m.calls[k].id) /\ m.calls[k].id \in Ids
          BY <1>1, <1>2, <3>6
        <4>2. Len(f[k - 1]) < PendingCap
          BY <1>3, <3>1, <3>2, <3>3, <3>4, <3>6, CuaStreamAssumption DEF Has
        <4>3. /\ Len(f[k]) = Len(f[k - 1]) + 1
              /\ m.calls[k].id \in ToSet(f[k]) /\ ToSet(f[k - 1]) \subseteq ToSet(f[k])
          <5> DEFINE was == f[k - 1]
                     id == m.calls[k].id
          <5>1. was \in Seq(Ids) /\ id \in Ids /\ Len(was) \in Nat /\ Len(was) < PendingCap
            BY <3>4, <4>1, <4>2
          <5> HIDE DEF was, id
          <5>2. /\ Len(PushCapped(was, id)) = IF Len(was) >= PendingCap THEN Len(was) ELSE Len(was) + 1
                /\ id \in ToSet(PushCapped(was, id)) /\ ToSet(was) \subseteq ToSet(PushCapped(was, id))
            BY <5>1, PushCappedKeeps
          <5>3. ~(Len(was) >= PendingCap)
            BY <5>1, CuaStreamAssumption
          <5> QED BY <4>1, <5>2, <5>3 DEF was, id
        <4>4. Len(f[k]) <= Len(lists[s]) + Cardinality(Among(which, k))
          BY <3>1, <3>2, <3>3, <3>4, <3>6, <4>3 DEF Has
        <4>5. Has(k)
          BY <3>1, <3>5, <4>3, <4>4 DEF Has
        <4> QED BY <3>1, <4>5 DEF P
      <3>7. CASE k \notin which
        <4>1. f[k] = f[k - 1]
          BY <1>2, <3>7
        <4>2. Among(which, k) \subseteq Among(which, k - 1)
          BY <3>5, <3>7 DEF Among
        <4>3. Len(f[k]) <= Len(lists[s]) + Cardinality(Among(which, k))
          BY <3>1, <3>2, <3>3, <3>4, <3>7, <4>1 DEF Has
        <4>4. Has(k)
          BY <3>1, <4>1, <4>2, <4>3 DEF Has
        <4> QED BY <3>1, <4>4 DEF P
      <3> QED BY <3>6, <3>7
    <2> HIDE DEF P
    <2>3. \A k \in 0..L : k \in P
      <3>1. \A k \in 1..L : k - 1 \in P => k \in P
        BY <2>2
      <3> QED BY <1>1, <2>1, <3>1, CountUp
    <2>4. Has(L) /\ Among(which, L) = which
      <3> HIDE DEF Has
      <3>1. L \in P
        BY <1>1, <2>3
      <3> QED BY <3>1, <1>9 DEF P, Counting
    <2> QED BY <2>4
  <1>4. f[L] \in Seq(Ids)
    BY <1>1, <1>2
  <1> QED BY <1>2, <1>3, <1>4 DEF which

\* What the loop over the acting calls keeps: the queue and what it freed are
\* the queue before and the calls that count.
LEMMA RememberedKeeps ==
  ASSUME NEW m \in Message, NEW s, acting[s] \in Seq(Ids)
  PROVE  LET new == Remembered(s, m) IN
         /\ new.ids \in Seq(Ids) /\ new.freed \in Nat
         /\ Len(new.ids) + new.freed = Len(acting[s]) + Cardinality(CountedCalls(m))
         /\ CountedCalls(m) = {} => new.ids = acting[s] /\ new.freed = 0
         /\ Len(acting[s]) + Cardinality(CountedCalls(m)) <= PendingCap =>
               /\ ToSet(acting[s]) \subseteq ToSet(new.ids)
               /\ \A i \in CountedCalls(m) : m.calls[i].id \in ToSet(new.ids)
  <1> DEFINE L == Len(m.calls)
             which == CountedCalls(m)
  <1>1. /\ L \in Nat \ {0} /\ which \subseteq 1..L
        /\ \A i \in 1..L : m.calls[i].id \in Ids
    BY CallPositions
  <1>2. PICK f \in [0..L -> Counts] :
            /\ f[0] = [ids |-> acting[s], freed |-> 0] /\ Remembered(s, m) = f[L]
            /\ \A k \in 1..L : f[k] = IF k \in which THEN RememberActing(f[k - 1], m.calls[k].id) ELSE f[k - 1]
    <2>1. PICK f : IsActingLoop(f, s, m)
      BY ActingLoop
    <2> QED BY <2>1 DEF IsActingLoop
  <1> HIDE DEF L, which
  <1>9. Counting(L, which)
    BY <1>1, AmongGrows
  <1>3. \A k \in 0..L : f[k].ids \in Seq(Ids) /\ f[k].freed \in Nat
    BY <1>2 DEF Counts
  <1> DEFINE Adds(k) == Len(f[k].ids) + f[k].freed = Len(acting[s]) + Cardinality(Among(which, k))
             Rests(k) == which = {} => f[k] = f[0]
             Has(k) == Len(acting[s]) + Cardinality(which) <= PendingCap =>
                          /\ ToSet(acting[s]) \subseteq ToSet(f[k].ids)
                          /\ \A i \in Among(which, k) : m.calls[i].id \in ToSet(f[k].ids)
             P == {k \in 0..L : Adds(k) /\ Rests(k) /\ Has(k)}
  <1>4. 0 \in P
    <2>1. Among(which, 0) = {} /\ Cardinality(Among(which, 0)) = 0
      BY <1>9, FS_EmptySet DEF Counting
    <2>2. f[0].ids = acting[s] /\ f[0].freed = 0
      BY <1>2
    <2>3. Adds(0)
      BY <2>1, <2>2
    <2>4. Rests(0) /\ Has(0)
      BY <2>1, <2>2
    <2> HIDE DEF Adds, Rests, Has
    <2> QED BY <1>1, <2>3, <2>4
  <1>5. ASSUME NEW k \in 1..L, k - 1 \in P PROVE k \in P
    <2> HIDE DEF Adds, Rests, Has
    <2>1. Adds(k - 1) /\ Rests(k - 1) /\ Has(k - 1) /\ k - 1 \in 0..L /\ k \in 0..L
      BY <1>1, <1>5
    <2> HIDE DEF P
    <2>2. Cardinality(Among(which, k)) = Cardinality(Among(which, k - 1)) + (IF k \in which THEN 1 ELSE 0)
      BY <1>9 DEF Counting
    <2>3. Cardinality(Among(which, k - 1)) \in Nat /\ Cardinality(Among(which, k)) <= Cardinality(which)
          /\ Cardinality(which) \in Nat
      BY <2>1, <1>9 DEF Counting
    <2>4. /\ f[k - 1] \in Counts /\ f[k - 1].ids \in Seq(Ids) /\ f[k - 1].freed \in Nat
          /\ Len(f[k - 1].ids) \in Nat /\ Len(acting[s]) \in Nat
      BY <1>2, <1>3, <2>1
    <2>5. \A i \in Among(which, k) : i \in Among(which, k - 1) \/ i = k
      BY <1>1 DEF Among
    <2>6. CASE k \in which
      <3>1. f[k] = RememberActing(f[k - 1], m.calls[k].id) /\ m.calls[k].id \in Ids
        BY <1>1, <1>2, <2>6
      <3>2. /\ Len(f[k].ids) + f[k].freed = Len(f[k - 1].ids) + f[k - 1].freed + 1
            /\ m.calls[k].id \in ToSet(f[k].ids)
            /\ Len(f[k - 1].ids) < PendingCap => ToSet(f[k - 1].ids) \subseteq ToSet(f[k].ids)
        BY <2>4, <3>1, RememberKeeps
      <3>3. Adds(k)
        <4>1. Len(f[k].ids) \in Nat /\ f[k].freed \in Nat
          BY <1>3, <2>1
        <4>2. Cardinality(Among(which, k)) = Cardinality(Among(which, k - 1)) + 1
          BY <2>2, <2>6
        <4>3. Len(f[k - 1].ids) + f[k - 1].freed = Len(acting[s]) + Cardinality(Among(which, k - 1))
          BY <2>1 DEF Adds
        <4>4. Len(f[k].ids) + f[k].freed = Len(acting[s]) + Cardinality(Among(which, k))
          <5> DEFINE new == Len(f[k].ids) + f[k].freed
                     was == Len(f[k - 1].ids) + f[k - 1].freed
                     c == Cardinality(Among(which, k - 1))
                     d == Cardinality(Among(which, k))
                     l == Len(acting[s])
          <5>1. c \in Int /\ l \in Int
            BY <2>3, <2>4
          <5>2. new = was + 1 /\ was = l + c /\ d = c + 1
            BY <3>2, <4>2, <4>3
          <5> HIDE DEF new, was, c, d, l
          <5>3. new = l + d
            BY <5>1, <5>2
          <5> QED BY <5>3 DEF new, d, l
        <4> QED BY <4>4 DEF Adds
      <3>4. Rests(k)
        BY <2>6 DEF Rests
      <3>5. Len(acting[s]) + Cardinality(which) <= PendingCap => Len(f[k - 1].ids) < PendingCap
        BY <2>1, <2>2, <2>3, <2>4, <2>6, CuaStreamAssumption DEF Adds
      <3>6. Has(k)
        BY <2>1, <2>5, <3>2, <3>5 DEF Has
      <3> QED BY <2>1, <3>3, <3>4, <3>6 DEF P
    <2>7. CASE k \notin which
      <3>1. f[k] = f[k - 1]
        BY <1>2, <2>7
      <3>2. Among(which, k) \subseteq Among(which, k - 1)
        BY <2>5, <2>7 DEF Among
      <3>3. Adds(k)
        BY <2>1, <2>2, <2>3, <2>7, <3>1 DEF Adds
      <3>4. Rests(k) /\ Has(k)
        BY <2>1, <3>1, <3>2 DEF Rests, Has
      <3> QED BY <2>1, <3>3, <3>4 DEF P
    <2> QED BY <2>6, <2>7
  <1> HIDE DEF P
  <1>6. L \in P
    <2>1. \A k \in 1..L : k - 1 \in P => k \in P
      BY <1>5
    <2>2. \A k \in 0..L : k \in P
      BY <1>1, <1>4, <2>1, CountUp
    <2> QED BY <1>1, <2>2
  <1>7. Adds(L) /\ Rests(L) /\ Has(L) /\ Among(which, L) = which
    <2> HIDE DEF Adds, Rests, Has
    <2> QED BY <1>6, <1>9 DEF P, Counting
  <1>8. f[L].ids \in Seq(Ids) /\ f[L].freed \in Nat /\ f[0].ids = acting[s] /\ f[0].freed = 0
    BY <1>1, <1>2, <1>3
  <1> QED BY <1>2, <1>7, <1>8 DEF which

-----------------------------------------------------------------------------
(* The sum over the streams                                                   *)

Pick(T) == CHOOSE x \in T : TRUE

\* Induction over the subsets of a finite set, an element picked at a time.
LEMMA SubsetInduction ==
  ASSUME NEW S, IsFiniteSet(S), NEW P, {} \in P,
         \A T \in SUBSET S : T # {} /\ T \ {Pick(T)} \in P => T \in P
  PROVE  \A T \in SUBSET S : T \in P
  <1> DEFINE Q == {n \in Nat : \A T \in SUBSET S : Cardinality(T) = n => T \in P}
             L == Cardinality(S)
  <1>1. L \in Nat
    BY FS_CardinalityType
  <1>2. \A T \in SUBSET S : IsFiniteSet(T) /\ Cardinality(T) \in 0..L
    <2> TAKE T \in SUBSET S
    <2>1. IsFiniteSet(T) /\ Cardinality(T) <= L
      BY FS_Subset
    <2>2. Cardinality(T) \in Nat
      BY <2>1, FS_CardinalityType
    <2> QED BY <1>1, <2>1, <2>2
  <1>3. 0 \in Q
    <2>1. ASSUME NEW T \in SUBSET S, Cardinality(T) = 0 PROVE T \in P
      BY <1>2, <2>1, FS_EmptySet
    <2> QED BY <2>1
  <1>4. ASSUME NEW n \in 1..L, n - 1 \in Q PROVE n \in Q
    <2>1. ASSUME NEW T \in SUBSET S, Cardinality(T) = n PROVE T \in P
      <3>1. IsFiniteSet(T) /\ T # {}
        BY <1>2, <2>1, FS_EmptySet
      <3> DEFINE x == Pick(T)
      <3>2. x \in T
        BY <3>1 DEF Pick
      <3> HIDE DEF x
      <3>3. Cardinality(T \ {x}) = n - 1 /\ T \ {x} \in SUBSET S
        BY <2>1, <3>1, <3>2, FS_RemoveElement
      <3>4. T \ {x} \in P
        BY <1>4, <3>3
      <3> QED BY <3>1, <3>4 DEF x
    <2> QED BY <2>1
  <1> HIDE DEF Q
  <1>5. \A n \in 0..L : n \in Q
    <2>1. \A n \in 1..L : n - 1 \in Q => n \in Q
      BY <1>4
    <2> QED BY <1>1, <1>3, <2>1, CountUp
  <1>6. ASSUME NEW T \in SUBSET S PROVE T \in P
    <2>1. Cardinality(T) \in Q
      BY <1>2, <1>5
    <2> QED BY <2>1 DEF Q
  <1> QED BY <1>6

\* h has the sums of g over the subsets of S.
SumStep(g, h, T) == IF T = {} THEN 0 ELSE g[Pick(T)] + h[T \ {Pick(T)}]
IsSums(h, g, S) == h \in [SUBSET S -> Nat] /\ \A T \in SUBSET S : h[T] = SumStep(g, h, T)

LEMMA SumsExist ==
  ASSUME NEW S, IsFiniteSet(S), NEW g \in [S -> Nat]
  PROVE  \E h : IsSums(h, g, S)
  <1> DEFINE L == Cardinality(S) + 1
             V == [SUBSET S -> Nat]
             start == [T \in SUBSET S |-> 0]
             G == [x \in (1..L) \X V |-> [T \in SUBSET S |-> SumStep(g, x[2], T)]]
  <1>1. L \in Nat /\ L >= 1
    BY FS_CardinalityType
  <1>2. \A T \in SUBSET S : IsFiniteSet(T) /\ Cardinality(T) \in 0..(L - 1)
    <2> TAKE T \in SUBSET S
    <2>1. IsFiniteSet(T) /\ Cardinality(T) <= Cardinality(S)
      BY FS_Subset
    <2>2. Cardinality(T) \in Nat /\ Cardinality(S) \in Nat
      BY <2>1, FS_CardinalityType
    <2> QED BY <2>1, <2>2
  <1>3. \A T \in SUBSET S : T # {} => Pick(T) \in T /\ Pick(T) \in S /\ T \ {Pick(T)} \in SUBSET S
    BY DEF Pick
  <1>4. \A h \in V : \A T \in SUBSET S : SumStep(g, h, T) \in Nat
    BY <1>3 DEF SumStep
  <1>5. start \in V /\ G \in [(1..L) \X V -> V]
    BY <1>4
  <1> HIDE DEF L
  <1>6. PICK f : f \in [0..L -> V] /\ f[0] = start /\ \A k \in 1..L : f[k] = G[<<k, f[k - 1]>>]
    <2> HIDE DEF V, start, G
    <2>1. \E f : IsLoop(f, L, V, start, G)
      BY <1>1, <1>5, LoopExists
    <2> QED BY <2>1 DEF IsLoop
  <1>7. ASSUME NEW k \in 1..L, NEW T \in SUBSET S PROVE f[k][T] = SumStep(g, f[k - 1], T)
    <2>1. k - 1 \in 0..L
      BY <1>1
    <2>2. f[k - 1] \in V
      BY <1>6, <2>1
    <2>3. G[<<k, f[k - 1]>>] = [U \in SUBSET S |-> SumStep(g, f[k - 1], U)]
      BY <2>2
    <2> QED BY <1>6, <2>3
  <1> DEFINE Same(k) == \A T \in SUBSET S : Cardinality(T) < k => f[k + 1][T] = f[k][T]
             P == {k \in 0..(L - 1) : Same(k)}
  <1>8. \A k \in 0..(L - 1) : k \in P
    <2>1. 0 \in P
      <3>1. Same(0)
        BY <1>2
      <3> QED BY <1>1, <3>1
    <2>2. ASSUME NEW k \in 1..(L - 1), k - 1 \in P PROVE k \in P
      <3>1. ASSUME NEW T \in SUBSET S, Cardinality(T) < k PROVE f[k + 1][T] = f[k][T]
        <4>1. /\ k + 1 \in 1..L /\ k \in 1..L /\ k + 1 - 1 = k /\ k - 1 + 1 = k
          BY <1>1
        <4>2. f[k + 1][T] = SumStep(g, f[k], T) /\ f[k][T] = SumStep(g, f[k - 1], T)
          BY <1>7, <4>1
        <4>3. CASE T = {}
          BY <4>2, <4>3 DEF SumStep
        <4>4. CASE T # {}
          <5> DEFINE U == T \ {Pick(T)}
          <5>1. U \in SUBSET S /\ Cardinality(U) = Cardinality(T) - 1
            BY <1>2, <1>3, <4>4, FS_RemoveElement
          <5>2. Cardinality(U) < k - 1
            BY <1>2, <3>1, <5>1
          <5>3. f[k][U] = f[k - 1][U]
            BY <2>2, <4>1, <5>1, <5>2
          <5> QED BY <4>2, <4>4, <5>3 DEF SumStep
        <4> QED BY <4>3, <4>4
      <3> QED BY <3>1
    <2> HIDE DEF P
    <2>3. \A k \in 1..(L - 1) : k - 1 \in P => k \in P
      BY <2>2
    <2> QED BY <1>1, <2>1, <2>3, CountUp
  <1>9. ASSUME NEW T \in SUBSET S PROVE f[L][T] = SumStep(g, f[L], T)
    <2>1. f[L][T] = SumStep(g, f[L - 1], T)
      BY <1>1, <1>7
    <2>2. CASE T = {}
      BY <2>1, <2>2 DEF SumStep
    <2>3. CASE T # {}
      <3> DEFINE U == T \ {Pick(T)}
      <3>1. U \in SUBSET S /\ Cardinality(U) = Cardinality(T) - 1
        BY <1>2, <1>3, <2>3, FS_RemoveElement
      <3>2. Cardinality(U) < L - 1 /\ L - 1 \in 0..(L - 1) /\ L - 1 + 1 = L
        BY <1>1, <1>2, <3>1
      <3>3. Same(L - 1)
        BY <1>8, <3>2
      <3>4. f[L][U] = f[L - 1][U]
        BY <3>1, <3>2, <3>3
      <3> QED BY <2>1, <2>3, <3>4 DEF SumStep
    <2> QED BY <2>2, <2>3
  <1>10. f[L] \in [SUBSET S -> Nat]
    BY <1>1, <1>6
  <1>11. IsSums(f[L], g, S)
    BY <1>9, <1>10 DEF IsSums
  <1> QED BY <1>11

LEMMA SumIsSums ==
  ASSUME NEW S, IsFiniteSet(S), NEW g \in [S -> Nat]
  PROVE  \E h : IsSums(h, g, S) /\ SumFunction(g) = h[S]
  <1> DEFINE Go(h) == [T \in SUBSET S |-> SumStep(g, h, T)]
             i == CHOOSE h : h = Go(h)
  <1>1. SumFunction(g) = i[S]
    BY DEF SumFunction, SumFunctionOnSet, FoldFunctionOnSet, MapThenFoldSet, SumStep, Pick
  <1>2. PICK h : IsSums(h, g, S)
    BY SumsExist
  <1>3. h = Go(h)
    BY <1>2 DEF IsSums
  <1>4. i = Go(i)
    <2> HIDE DEF Go
    <2> QED BY <1>3
  <1> HIDE DEF i
  <1>5. DOMAIN i = SUBSET S /\ \A T \in SUBSET S : i[T] = SumStep(g, i, T)
    BY <1>4
  <1> DEFINE P == {T \in SUBSET S : i[T] = h[T]}
  <1>6. \A T \in SUBSET S : T \in P
    <2>1. {} \in P
      BY <1>2, <1>5 DEF SumStep, IsSums
    <2>2. ASSUME NEW T \in SUBSET S, T # {}, T \ {Pick(T)} \in P PROVE T \in P
      BY <1>2, <1>5, <2>2 DEF SumStep, IsSums
    <2> HIDE DEF P
    <2> QED BY <2>1, <2>2, SubsetInduction
  <1>7. i[S] = h[S]
    BY <1>6
  <1> QED BY <1>1, <1>2, <1>7

\* The sum of g, when it changes at one place.
LEMMA SumChanges ==
  ASSUME NEW S, IsFiniteSet(S), NEW g \in [S -> Nat], NEW f \in [S -> Nat], NEW a \in S,
         \A x \in S : x # a => f[x] = g[x]
  PROVE  SumFunction(g) \in Nat /\ SumFunction(f) \in Nat
         /\ SumFunction(f) + g[a] = SumFunction(g) + f[a] /\ g[a] <= SumFunction(g)
  <1>1. PICK h : IsSums(h, g, S) /\ SumFunction(g) = h[S]
    BY SumIsSums
  <1>2. PICK k : IsSums(k, f, S) /\ SumFunction(f) = k[S]
    BY SumIsSums
  <1> DEFINE Fits(T) == IF a \in T THEN k[T] + g[a] = h[T] + f[a] /\ g[a] <= h[T] ELSE k[T] = h[T]
             P == {T \in SUBSET S : Fits(T)}
  <1>3. /\ \A T \in SUBSET S : h[T] \in Nat /\ k[T] \in Nat
        /\ h[{}] = 0 /\ k[{}] = 0
        /\ \A T \in SUBSET S : T # {} => /\ h[T] = g[Pick(T)] + h[T \ {Pick(T)}]
                                        /\ k[T] = f[Pick(T)] + k[T \ {Pick(T)}]
    BY <1>1, <1>2 DEF IsSums, SumStep
  <1>4. {} \in P
    BY <1>3
  <1>5. ASSUME NEW T \in SUBSET S, T # {}, T \ {Pick(T)} \in P PROVE T \in P
    <2> DEFINE x == Pick(T)
               U == T \ {x}
    <2>1. x \in T /\ x \in S /\ U \in SUBSET S
      BY <1>5 DEF Pick
    <2>2. Fits(U)
      BY <1>5
    <2>3. h[T] = g[x] + h[U] /\ k[T] = f[x] + k[U]
      BY <1>3, <1>5
    <2>4. h[U] \in Nat /\ k[U] \in Nat /\ g[x] \in Nat /\ f[x] \in Nat /\ g[a] \in Nat /\ f[a] \in Nat
      BY <1>3, <2>1
    <2> HIDE DEF x
    <2>5. CASE x = a
      <3>1. a \notin U /\ a \in T
        BY <2>1, <2>5
      <3>2. k[U] = h[U]
        BY <2>2, <3>1
      <3>3. k[T] + g[a] = h[T] + f[a] /\ g[a] <= h[T]
        BY <2>3, <2>4, <2>5, <3>2
      <3> QED BY <3>1, <3>3
    <2>6. CASE x # a
      <3>1. f[x] = g[x] /\ (a \in U <=> a \in T)
        BY <2>1, <2>6
      <3>2. CASE a \in T
        <4>1. k[U] + g[a] = h[U] + f[a] /\ g[a] <= h[U]
          BY <2>2, <3>1, <3>2
        <4>2. k[T] + g[a] = h[T] + f[a] /\ g[a] <= h[T]
          BY <2>3, <2>4, <3>1, <4>1
        <4> QED BY <3>2, <4>2
      <3>3. CASE a \notin T
        <4>1. k[U] = h[U]
          BY <2>2, <3>1, <3>3
        <4> QED BY <2>3, <3>1, <3>3, <4>1
      <3> QED BY <3>2, <3>3
    <2> QED BY <2>5, <2>6
  <1>6. \A T \in SUBSET S : T \in P
    <2> HIDE DEF P
    <2> QED BY <1>4, <1>5, SubsetInduction
  <1>7. Fits(S)
    BY <1>6
  <1> QED BY <1>1, <1>2, <1>3, <1>7

LEMMA SumOfNothing ==
  ASSUME NEW S, IsFiniteSet(S), NEW g \in [S -> Nat], \A x \in S : g[x] = 0
  PROVE  SumFunction(g) = 0
  <1>1. PICK h : IsSums(h, g, S) /\ SumFunction(g) = h[S]
    BY SumIsSums
  <1> DEFINE P == {T \in SUBSET S : h[T] = 0}
  <1>2. {} \in P
    BY <1>1 DEF IsSums, SumStep
  <1>3. ASSUME NEW T \in SUBSET S, T # {}, T \ {Pick(T)} \in P PROVE T \in P
    <2>1. Pick(T) \in S
      BY <1>3 DEF Pick
    <2>2. h[T] = g[Pick(T)] + h[T \ {Pick(T)}]
      BY <1>1, <1>3 DEF IsSums, SumStep
    <2> QED BY <1>3, <2>1, <2>2
  <1>4. \A T \in SUBSET S : T \in P
    <2> HIDE DEF P
    <2> QED BY <1>2, <1>3, SubsetInduction
  <1> QED BY <1>1, <1>4

-----------------------------------------------------------------------------
(* The inductive invariant of the streams                                     *)

Live(s) == pc[s] \in {"idle", "releasing"}
Neat(s) == s \notin lossy
Withheld(n) == held[msgs[n].stream] = n
Awaited(r) == r \in RequestsOf(r.msg, msgs[r.msg].body)
StreamOf(r) == msgs[r.msg].stream

StreamTypes ==
    /\ lease \in {"agent", "taking", "human"}
    /\ pc \in [Stream -> {"idle", "releasing", "closing", "detached", "closed"}]
    /\ held \in [Stream -> Nat]
    /\ acting \in [Stream -> Seq(Ids)] /\ lists \in [Stream -> Seq(Ids)]
    /\ tracked \in [Stream -> Seq([id : Ids, call : Nat])]
    /\ DOMAIN atCua = Stream
    /\ msgs \in Seq([stream : Stream, body : Message]) /\ Len(msgs) <= MaxSent
    /\ finished \in [1..MaxSent -> Seq({"answer", "error", "no_reply"})]
    /\ lossy \subseteq Stream

\* A message is held from its admission until it is sent.
HeldIsOwn == \A s \in Stream :
    /\ pc[s] = "releasing" => held[s] \in DOMAIN msgs /\ msgs[held[s]].stream = s
    /\ pc[s] # "releasing" => held[s] = 0

\* Requests and replies are those of messages that are no longer held.
RequestsAreOwn ==
    /\ \A s \in Stream : \A r \in atCua[s] :
          r.msg \in DOMAIN msgs /\ Awaited(r) /\ StreamOf(r) = s /\ ~Withheld(r.msg)
    /\ \A p \in replies :
          p.to.msg \in DOMAIN msgs /\ Awaited(p.to) /\ ~Withheld(p.to.msg)

\* A request that has been sent is with Cua or has one reply.
RepliesAreOne ==
    /\ \A p, q \in replies : p.to = q.to => p = q
    /\ \A s \in Stream : Live(s) => \A r \in atCua[s] : \A p \in replies : p.to # r
    /\ \A n \in DOMAIN msgs : Live(msgs[n].stream) /\ ~Withheld(n) =>
          \A r \in RequestsOf(n, msgs[n].body) :
              r \in atCua[msgs[n].stream] \/ \E p \in replies : p.to = r

\* The tracker has calls that were sent, by different ids.
Own(p, s) ==
    /\ p.call \in DOMAIN msgs /\ msgs[p.call].stream = s /\ ~Withheld(p.call)
    /\ Recorded(msgs[p.call].body) /\ p.id = msgs[p.call].body.calls[1].id
Apart(q) == \A i, j \in 1..Len(q) : i # j => q[i].call # q[j].call /\ q[i].id # q[j].id

TrackedAreOwn == \A s \in Stream :
    Apart(tracked[s]) /\ \A p \in ToSet(tracked[s]) : Own(p, s)

FinishedOnce == \A n \in 1..MaxSent :
    IF n \in DOMAIN msgs /\ Recorded(msgs[n].body) /\ ~Withheld(n)
    THEN Len(finished[n]) = IF n \in CallsOf(tracked[msgs[n].stream]) THEN 0 ELSE 1
    ELSE finished[n] = <<>>

\* On a stream that keeps ids apart and within the bound, a call is tracked as
\* long as its request is with Cua.
TrackedAreAsked == \A s \in Stream : Neat(s) /\ Live(s) =>
    /\ \A r \in atCua[s] : Recorded(msgs[r.msg].body) => r.msg \in CallsOf(tracked[s])
    /\ \A p \in ToSet(tracked[s]) : \E r \in atCua[s] : r.msg = p.call /\ r.id = p.id
    /\ \A q, r \in atCua[s] : q.id = r.id => q = r

HeldIsNew == \A s \in Stream : Neat(s) /\ pc[s] = "releasing" =>
    /\ \A r \in RequestsOf(held[s], msgs[held[s]].body) :
          /\ \A q \in atCua[s] : q.id # r.id
          /\ \A q \in RequestsOf(held[s], msgs[held[s]].body) : q.id = r.id => q = r
    /\ Recorded(msgs[held[s]].body) => Len(tracked[s]) < PendingCap

Outcomes(n) == \E p \in replies : p.to.msg = n /\ p.what # "refusal"
OutcomesAreTrue == \A n \in DOMAIN msgs :
    LET s == msgs[n].stream
    IN Neat(s) /\ pc[s] # "closed" =>
          /\ finished[n] # <<>> => (finished[n][1] = "answer" <=> Outcomes(n))
          /\ n \in CallsOf(tracked[s]) => ~Outcomes(n)

\* Requests of s that Cua has or will have.
Outstanding(s) ==
    atCua[s] \cup (IF pc[s] = "releasing" THEN RequestsOf(held[s], msgs[held[s]].body) ELSE {})

ListsAreNoted ==
    /\ \A s \in Stream : Neat(s) /\ Live(s) =>
          \A r \in Outstanding(s) : r.kind = "list" => r.id \in ToSet(lists[s])
    /\ \A p \in replies : Neat(StreamOf(p.to)) /\ p.to.kind = "list" => p.what # "answer"

ActingAreNoted == \A s \in Stream : Neat(s) /\ StreamOpen(s) =>
    \A r \in Outstanding(s) : r.kind = "acting" => r.id \in ToSet(acting[s])

Lengths(queues) == [s \in Stream |-> Len(queues[s])]
Counted == inflight = SumFunction(Lengths(acting))
HumanIsQuiet == lease = "human" => inflight = 0

StreamInv ==
    /\ StreamTypes /\ HeldIsOwn /\ RequestsAreOwn /\ RepliesAreOne
    /\ TrackedAreOwn /\ FinishedOnce
    /\ TrackedAreAsked /\ HeldIsNew /\ OutcomesAreTrue /\ ListsAreNoted
    /\ ActingAreNoted /\ Counted /\ HumanIsQuiet

\* Nothing changes on another stream.
Elsewhere(s) == \A t \in Stream : t # s =>
    /\ pc'[t] = pc[t] /\ held'[t] = held[t] /\ acting'[t] = acting[t] /\ lists'[t] = lists[t]
    /\ tracked'[t] = tracked[t] /\ atCua'[t] = atCua[t] /\ (t \in lossy' <=> t \in lossy)

Pending == [id : Ids, call : Nat]

LEMMA CountsAreNat ==
  ASSUME StreamTypes, Counted
  PROVE  inflight \in Nat /\ \A s \in Stream : Len(acting[s]) \in Nat /\ Len(acting[s]) <= inflight
  <1>1. Lengths(acting) \in [Stream -> Nat] /\ \A s \in Stream : Lengths(acting)[s] = Len(acting[s])
    BY DEF StreamTypes, Lengths
  <1>2. CASE Stream = {}
    <2>1. SumFunction(Lengths(acting)) = 0
      BY <1>1, <1>2, CuaStreamAssumption, SumOfNothing
    <2> QED BY <1>2, <2>1 DEF Counted
  <1>3. ASSUME NEW s \in Stream
        PROVE  inflight \in Nat /\ Len(acting[s]) \in Nat /\ Len(acting[s]) <= inflight
    <2>1. SumFunction(Lengths(acting)) \in Nat /\ Lengths(acting)[s] <= SumFunction(Lengths(acting))
      BY <1>1, CuaStreamAssumption, SumChanges
    <2>2. Len(acting[s]) \in Nat
      BY DEF StreamTypes
    <2> QED BY <1>1, <2>1, <2>2 DEF Counted
  <1> QED BY <1>2, <1>3

\* The count follows a queue.
LEMMA CountFollows ==
  ASSUME StreamTypes, StreamTypes', Counted, NEW s \in Stream, Elsewhere(s),
         inflight' + Len(acting[s]) = inflight + Len(acting'[s]), inflight' \in Nat
  PROVE  Counted'
  <1>1. Lengths(acting) \in [Stream -> Nat] /\ Lengths(acting') \in [Stream -> Nat]
    BY DEF StreamTypes, Lengths
  <1>2. \A x \in Stream : Lengths(acting)[x] = Len(acting[x]) /\ Lengths(acting')[x] = Len(acting'[x])
    BY DEF Lengths
  <1>3. \A x \in Stream : x # s => Lengths(acting')[x] = Lengths(acting)[x]
    BY <1>2 DEF Elsewhere
  <1>4. /\ SumFunction(Lengths(acting)) \in Nat /\ SumFunction(Lengths(acting')) \in Nat
        /\ SumFunction(Lengths(acting')) + Lengths(acting)[s] = SumFunction(Lengths(acting)) + Lengths(acting')[s]
    BY <1>1, <1>3, CuaStreamAssumption, SumChanges
  <1>5. Len(acting[s]) \in Nat /\ Len(acting'[s]) \in Nat
    BY DEF StreamTypes
  <1> DEFINE was == SumFunction(Lengths(acting))
             is == SumFunction(Lengths(acting'))
             a == Len(acting[s])
             b == Len(acting'[s])
             now == inflight'
  <1>6. is + a = was + b /\ now + a = was + b
    BY <1>2, <1>4 DEF Counted
  <1>7. is \in Int /\ was \in Int /\ a \in Int /\ b \in Int /\ now \in Int
    BY <1>4, <1>5
  <1> HIDE DEF was, is, a, b, now
  <1>8. now = is
    BY <1>6, <1>7
  <1>9. Counted' = (now = is)
    BY DEF is, now, Counted
  <1> QED BY <1>8, <1>9

\* The entries of w are entries of q.
Drawn(w, q) == \A j \in 1..Len(w) : \E i \in 1..Len(q) : w[j] = q[i]

LEMMA WithoutIdDraws ==
  ASSUME NEW q \in Seq(Pending), NEW id, Apart(q)
  PROVE  LET w == WithoutId(q, id) IN
         /\ w \in Seq(Pending) /\ Drawn(w, q) /\ Apart(w)
         /\ \A j \in 1..Len(w) : w[j].id # id
         /\ \A i \in 1..Len(q) : q[i].id # id => q[i].call \in CallsOf(w)
         /\ CallsOf(w) \subseteq CallsOf(q)
         /\ \A i \in 1..Len(q) : q[i].id = id => q[i].call \notin CallsOf(w)
         /\ (\A i \in 1..Len(q) : q[i].id # id) => w = q
  <1> DEFINE w == WithoutId(q, id)
  <1>1. w \in Seq(Pending)
    BY WithoutIdSkips
  <1>2. CASE w = q /\ \A i \in 1..Len(q) : q[i].id # id
    <2>1. Drawn(q, q)
      BY DEF Drawn
    <2>2. \A i \in 1..Len(q) : q[i].call \in CallsOf(q)
      BY DEF CallsOf
    <2> QED BY <1>1, <1>2, <2>1, <2>2
  <1>3. CASE \E k \in 1..Len(q) : q[k].id = id /\ Skips(w, q, k)
    <2> HIDE DEF w
    <2>1. PICK k \in 1..Len(q) : q[k].id = id /\ Skips(w, q, k)
      BY <1>3
    <2> AllBut(w, q, k)
      BY <1>1, <2>1, SkipsKeeps
    <2>2. /\ \A j \in 1..Len(w) : \E i \in 1..Len(q) : i # k /\ w[j] = q[i]
          /\ \A i \in 1..Len(q) : i # k => \E j \in 1..Len(w) : w[j] = q[i]
      BY Zenon DEF AllBut
    <2>3. Drawn(w, q)
      BY <2>2 DEF Drawn
    <2>4. Apart(w)
      <3>1. ASSUME NEW i \in 1..Len(w), NEW j \in 1..Len(w), i # j
            PROVE  w[i].call # w[j].call /\ w[i].id # w[j].id
        <4> DEFINE at(x) == IF x < k THEN x ELSE x + 1
        <4>1. at(i) \in 1..Len(q) /\ at(j) \in 1..Len(q) /\ at(i) # at(j)
          BY <2>1, <3>1 DEF Skips
        <4>2. w[i] = q[at(i)] /\ w[j] = q[at(j)]
          BY <2>1 DEF Skips
        <4> HIDE DEF at
        <4> QED BY <4>1, <4>2 DEF Apart
      <3> QED BY <3>1 DEF Apart
    <2>5. \A j \in 1..Len(w) : w[j].id # id
      BY <2>1, <2>2 DEF Apart
    <2>6. ASSUME NEW i \in 1..Len(q), q[i].id # id PROVE q[i].call \in CallsOf(w)
      <3>1. PICK j \in 1..Len(w) : w[j] = q[i]
        BY <2>1, <2>2, <2>6
      <3> QED BY <1>1, <3>1 DEF CallsOf
    <2>7. CallsOf(w) \subseteq CallsOf(q)
      <3>1. ASSUME NEW j \in 1..Len(w) PROVE w[j].call \in CallsOf(q)
        <4>1. PICK i \in 1..Len(q) : w[j] = q[i]
          BY <2>2
        <4> QED BY <4>1 DEF CallsOf
      <3> QED BY <1>1, <3>1 DEF CallsOf
    <2>8. ASSUME NEW i \in 1..Len(q), q[i].id = id, q[i].call \in CallsOf(w) PROVE FALSE
      <3>1. PICK j \in 1..Len(w) : w[j].call = q[i].call
        BY <1>1, <2>8 DEF CallsOf
      <3>2. PICK a \in 1..Len(q) : a # k /\ w[j] = q[a]
        BY <2>2
      <3> QED BY <2>1, <2>8, <3>1, <3>2 DEF Apart
    <2> QED BY <1>1, <2>1, <2>3, <2>4, <2>5, <2>6, <2>7, <2>8 DEF w
  <1>4. \/ w = q /\ \A i \in 1..Len(q) : q[i].id # id
        \/ \E k \in 1..Len(q) : q[k].id = id /\ Skips(w, q, k)
    BY WithoutIdSkips
  <1> QED BY <1>2, <1>3, <1>4

\* Call n is the last entry of w, and the others are entries of q by other ids,
\* all of q when it has no call by that id and is not full.
Adds(w, q, n, id) ==
    /\ w \in Seq(Pending) /\ Apart(w) /\ Len(w) \in Nat \ {0}
    /\ w[Len(w)] = [id |-> id, call |-> n]
    /\ \A j \in 1..(Len(w) - 1) : w[j].id # id /\ \E i \in 1..Len(q) : w[j] = q[i]
    /\ (\A i \in 1..Len(q) : q[i].id # id) /\ Len(q) < PendingCap =>
          \A i \in 1..Len(q) : \E j \in 1..(Len(w) - 1) : w[j] = q[i]

LEMMA ObserveAdds ==
  ASSUME NEW s, tracked[s] \in Seq(Pending), Apart(tracked[s]), NEW m \in Message, Recorded(m),
         NEW n \in Nat, n \notin CallsOf(tracked[s])
  PROVE  Adds(ObserveRequest(s, n, m), tracked[s], n, m.calls[1].id)
  <1> DEFINE id == m.calls[1].id
             others == WithoutId(tracked[s], id)
             rest == IF Len(others) >= PendingCap THEN Tail(others) ELSE others
             new == [id |-> id, call |-> n]
             w == ObserveRequest(s, n, m)
  <1>1. w = Append(rest, new)
    BY DEF ObserveRequest
  <1>2. id \in Ids /\ new \in Pending /\ new.id = id /\ new.call = n
    <2>1. 1 \in 1..Len(m.calls)
      BY CallPositions
    <2> QED BY <2>1, CallPositions DEF Pending
  <1> HIDE DEF id
  <1>3. /\ others \in Seq(Pending) /\ Apart(others) /\ Drawn(others, tracked[s])
        /\ \A j \in 1..Len(others) : others[j].id # id
        /\ (\A i \in 1..Len(tracked[s]) : tracked[s][i].id # id) => others = tracked[s]
    BY WithoutIdDraws
  <1> HIDE DEF others, new, w
  <1>4. rest \in Seq(Pending) /\ Apart(rest) /\ Drawn(rest, others)
        /\ (Len(others) < PendingCap => rest = others)
    <2>1. CASE Len(others) >= PendingCap
      <3> DEFINE t == Tail(others)
      <3>1. /\ t \in Seq(Pending) /\ Len(t) = Len(others) - 1
            /\ \A j \in 1..Len(t) : t[j] = others[j + 1] /\ j + 1 \in 1..Len(others)
        BY <1>3, <2>1, CuaStreamAssumption
      <3> HIDE DEF t
      <3>2. Apart(t)
        <4>1. ASSUME NEW i \in 1..Len(t), NEW j \in 1..Len(t), i # j
              PROVE  t[i].call # t[j].call /\ t[i].id # t[j].id
          <5>1. t[i] = others[i + 1] /\ t[j] = others[j + 1] /\ i + 1 # j + 1
            BY <3>1, <4>1
          <5>2. i + 1 \in 1..Len(others) /\ j + 1 \in 1..Len(others)
            BY <3>1
          <5> QED BY <1>3, <5>1, <5>2 DEF Apart
        <4> QED BY <4>1 DEF Apart
      <3>3. Drawn(t, others)
        BY <3>1 DEF Drawn
      <3>4. rest = t /\ ~(Len(others) < PendingCap)
        BY <1>3, <2>1, CuaStreamAssumption DEF t
      <3> QED BY <3>1, <3>2, <3>3, <3>4
    <2>2. CASE ~(Len(others) >= PendingCap)
      <3>1. rest = others
        BY <2>2
      <3>2. Drawn(others, others)
        BY DEF Drawn
      <3> QED BY <1>3, <3>1, <3>2
    <2> QED BY <2>1, <2>2
  <1> HIDE DEF rest
  <1>5. \A j \in 1..Len(rest) : rest[j].id # id /\ \E i \in 1..Len(tracked[s]) : rest[j] = tracked[s][i]
    <2> TAKE j \in 1..Len(rest)
    <2>1. PICK i \in 1..Len(others) : rest[j] = others[i]
      BY <1>4 DEF Drawn
    <2>2. PICK k \in 1..Len(tracked[s]) : others[i] = tracked[s][k]
      BY <1>3 DEF Drawn
    <2> QED BY <1>3, <2>1, <2>2
  <1>6. /\ w \in Seq(Pending) /\ Len(w) = Len(rest) + 1 /\ w[Len(rest) + 1] = new
        /\ \A j \in 1..Len(rest) : w[j] = rest[j]
    BY <1>1, <1>2, <1>4
  <1>7. Len(rest) \in Nat /\ Len(w) - 1 = Len(rest)
    BY <1>4, <1>6
  <1>8. \A j \in 1..Len(rest) : rest[j].call # n
    BY <1>5 DEF CallsOf
  <1>9. Apart(w)
    <2>1. \A i \in 1..Len(w) : i \in 1..Len(rest) \/ i = Len(rest) + 1
      BY <1>6, <1>7
    <2> QED BY <1>2, <1>4, <1>5, <1>6, <1>8, <2>1 DEF Apart
  <1>10. (\A i \in 1..Len(tracked[s]) : tracked[s][i].id # id) /\ Len(tracked[s]) < PendingCap =>
            \A i \in 1..Len(tracked[s]) : w[i] = tracked[s][i] /\ i \in 1..Len(rest)
    BY <1>3, <1>4, <1>6
  <1> QED
    <2>1. Len(w) \in Nat \ {0} /\ w[Len(w)] = [id |-> id, call |-> n]
      BY <1>6, <1>7 DEF new
    <2>2. \A j \in 1..(Len(w) - 1) : w[j].id # id /\ \E i \in 1..Len(tracked[s]) : w[j] = tracked[s][i]
      BY <1>5, <1>6, <1>7
    <2>3. (\A i \in 1..Len(tracked[s]) : tracked[s][i].id # id) /\ Len(tracked[s]) < PendingCap =>
              \A i \in 1..Len(tracked[s]) : \E j \in 1..(Len(w) - 1) : w[j] = tracked[s][i]
      BY <1>7, <1>10
    <2>4. Adds(w, tracked[s], n, id)
      BY <1>6, <1>9, <2>1, <2>2, <2>3 DEF Adds
    <2> QED BY <2>4 DEF w, id

-----------------------------------------------------------------------------
(* What the steps do                                                          *)

LEMMA TypesAt ==
  ASSUME StreamTypes, NEW s \in Stream
  PROVE  /\ acting[s] \in Seq(Ids) /\ lists[s] \in Seq(Ids) /\ tracked[s] \in Seq(Pending)
         /\ Len(tracked[s]) \in Nat /\ Len(acting[s]) \in Nat /\ Len(msgs) \in Nat
         /\ DOMAIN msgs = 1..Len(msgs)
         /\ \A n \in DOMAIN msgs : n \in 1..MaxSent /\ msgs[n].stream \in Stream /\ msgs[n].body \in Message
         /\ DOMAIN tracked[s] = 1..Len(tracked[s])
  <1>1. acting[s] \in Seq(Ids) /\ lists[s] \in Seq(Ids) /\ tracked[s] \in Seq(Pending)
    BY DEF StreamTypes, Pending
  <1>2. msgs \in Seq([stream : Stream, body : Message]) /\ Len(msgs) <= MaxSent
    BY DEF StreamTypes
  <1>3. Len(msgs) \in Nat /\ DOMAIN msgs = 1..Len(msgs)
    BY <1>2
  <1>4. \A n \in DOMAIN msgs : n \in 1..MaxSent /\ msgs[n] \in [stream : Stream, body : Message]
    <2> DEFINE Posted == [stream : Stream, body : Message]
    <2>1. \A n \in 1..Len(msgs) : msgs[n] \in Posted
      <3>1. msgs \in Seq(Posted)
        BY <1>2
      <3> HIDE DEF Posted
      <3> QED BY <3>1, ElementOfSeq
    <2>2. \A n \in 1..Len(msgs) : n \in 1..MaxSent
      BY <1>2, <1>3, CuaStreamAssumption
    <2> QED BY <1>3, <2>1, <2>2
  <1>5. \A n \in DOMAIN msgs : n \in 1..MaxSent /\ msgs[n].stream \in Stream /\ msgs[n].body \in Message
    BY <1>4
  <1>6. Len(tracked[s]) \in Nat /\ Len(acting[s]) \in Nat /\ DOMAIN tracked[s] = 1..Len(tracked[s])
    BY <1>1
  <1> QED BY <1>1, <1>3, <1>5, <1>6

\* Counting down by what a queue has lost.
LEMMA CountsDown ==
  ASSUME NEW a \in Nat, NEW b \in Nat, b <= a, inflight \in Nat, a <= inflight
  PROVE  /\ CountDown(a - b) \in Nat /\ CountDown(a - b) + a = inflight + b
         /\ CountDown(a - b) <= inflight
  <1>1. CASE inflight > a - b
    <2>1. CountDown(a - b) = inflight - (a - b)
      BY <1>1 DEF CountDown
    <2> QED BY <1>1, <2>1
  <1>2. CASE ~(inflight > a - b)
    <2>1. CountDown(a - b) = 0 /\ inflight = a - b
      BY <1>2 DEF CountDown
    <2> QED BY <2>1
  <1> QED BY <1>1, <1>2

LEMMA TrackedTypes ==
  ASSUME StreamTypes, TrackedAreOwn, NEW s \in Stream
  PROVE  /\ Apart(tracked[s])
         /\ \A n \in CallsOf(tracked[s]) :
               n \in DOMAIN msgs /\ msgs[n].stream = s /\ ~Withheld(n) /\ Recorded(msgs[n].body)
  <1>1. Apart(tracked[s])
    BY DEF TrackedAreOwn
  <1>2. \A p \in ToSet(tracked[s]) :
            p.call \in DOMAIN msgs /\ msgs[p.call].stream = s /\ ~Withheld(p.call) /\ Recorded(msgs[p.call].body)
    BY DEF TrackedAreOwn, Own
  <1>3. \A n \in CallsOf(tracked[s]) : \E p \in ToSet(tracked[s]) : n = p.call
    BY DEF CallsOf, ToSet
  <1> QED BY <1>1, <1>2, <1>3

\* The log and its calls.
LEMMA FinishDoes ==
  ASSUME NEW log \in [1..MaxSent -> Seq({"answer", "error", "no_reply"})], NEW gone,
         NEW outcome \in {"answer", "error", "no_reply"}
  PROVE  /\ Finish(log, gone, outcome) \in [1..MaxSent -> Seq({"answer", "error", "no_reply"})]
         /\ \A n \in 1..MaxSent : n \notin gone => Finish(log, gone, outcome)[n] = log[n]
         /\ \A n \in gone : n \in 1..MaxSent /\ log[n] = <<>> =>
               Len(Finish(log, gone, outcome)[n]) = 1 /\ Finish(log, gone, outcome)[n][1] = outcome
  BY DEF Finish

LEMMA SendDoes ==
  ASSUME StreamTypes, HeldIsOwn, TrackedAreOwn, NEW s \in Stream, SendToCua(s)
  PROVE  LET n == held[s]
             m == msgs[n].body
             queue == ObserveRequest(s, n, m)
         IN /\ pc[s] = "releasing" /\ n \in DOMAIN msgs /\ n # 0 /\ msgs[n].stream = s /\ m \in Message
            /\ held'[s] = 0 /\ tracked'[s] = queue /\ finished' = Pushed(s, queue)
            /\ \/ pc'[s] = "idle" /\ atCua'[s] = atCua[s] \cup RequestsOf(n, m)
               \/ pc'[s] = "closing" /\ atCua'[s] = atCua[s]
            /\ Elsewhere(s) /\ acting' = acting /\ lists' = lists /\ lossy' = lossy
            /\ lease' = lease /\ inflight' = inflight /\ msgs' = msgs /\ replies' = replies
            /\ queue \in Seq(Pending) /\ (~Recorded(m) => queue = tracked[s])
            /\ (Recorded(m) => Adds(queue, tracked[s], n, m.calls[1].id))
            /\ StreamTypes'
  <1> DEFINE n == held[s]
             m == msgs[n].body
             queue == ObserveRequest(s, n, m)
  <1>1. /\ pc[s] = "releasing"
        /\ tracked' = [tracked EXCEPT ![s] = queue] /\ finished' = Pushed(s, queue)
        /\ held' = [held EXCEPT ![s] = 0]
        /\ \/ atCua' = [atCua EXCEPT ![s] = @ \cup RequestsOf(n, m)] /\ pc' = [pc EXCEPT ![s] = "idle"]
           \/ pc' = [pc EXCEPT ![s] = "closing"] /\ atCua' = atCua
        /\ acting' = acting /\ lists' = lists /\ lossy' = lossy
        /\ lease' = lease /\ inflight' = inflight /\ msgs' = msgs /\ replies' = replies
    BY DEF SendToCua, StreamGoes, leaseVars, gateVars, clientVars
  <1>2. n \in DOMAIN msgs /\ msgs[n].stream = s
    BY <1>1 DEF HeldIsOwn
  <1>3. n # 0 /\ n \in Nat /\ m \in Message /\ tracked[s] \in Seq(Pending)
    BY <1>2, TypesAt
  <1>4. Recorded(m) => Adds(queue, tracked[s], n, m.calls[1].id)
    <2>1. n \notin CallsOf(tracked[s]) /\ Apart(tracked[s])
      BY <1>2, TrackedTypes DEF Withheld
    <2> QED BY <1>3, <2>1, ObserveAdds
  <1>5. ~Recorded(m) => queue = tracked[s]
    BY DEF ObserveRequest
  <1>6. queue \in Seq(Pending)
    BY <1>3, <1>4, <1>5 DEF Adds
  <1> HIDE DEF queue, m
  <1>7. Elsewhere(s)
    BY <1>1 DEF StreamTypes, Elsewhere
  <1>8. tracked'[s] = queue /\ held'[s] = 0
        /\ \/ pc'[s] = "idle" /\ atCua'[s] = atCua[s] \cup RequestsOf(n, m)
           \/ pc'[s] = "closing" /\ atCua'[s] = atCua[s]
    BY <1>1 DEF StreamTypes
  <1>9. StreamTypes'
    <2>1. finished' \in [1..MaxSent -> Seq({"answer", "error", "no_reply"})]
      BY <1>1, FinishDoes DEF Pushed, StreamTypes
    <2>2. /\ pc' \in [Stream -> {"idle", "releasing", "closing", "detached", "closed"}]
          /\ held' \in [Stream -> Nat] /\ DOMAIN atCua' = Stream
      BY <1>1 DEF StreamTypes
    <2>3. tracked' \in [Stream -> Seq([id : Ids, call : Nat])]
      BY <1>1, <1>6 DEF StreamTypes, Pending
    <2> QED BY <1>1, <2>1, <2>2, <2>3 DEF StreamTypes
  <1> QED BY <1>1, <1>2, <1>3, <1>4, <1>5, <1>6, <1>7, <1>8, <1>9 DEF queue, m

LEMMA OutboundDoes ==
  ASSUME StreamTypes, Counted, TrackedAreOwn, NEW s \in Stream, NEW r \in atCua[s], Outbound(s, r)
  PROVE  LET rest == WithoutId(tracked[s], r.id)
         IN /\ pc[s] = "idle" /\ pc'[s] \in {"idle", "closing"}
            /\ atCua'[s] = atCua[s] \ {r} /\ tracked'[s] = rest
            /\ acting'[s] = RemoveFirst(acting[s], r.id) /\ lists'[s] = RemoveFirst(lists[s], r.id)
            /\ finished' = Finish(finished, CallsOf(tracked[s]) \ CallsOf(rest), "answer")
            /\ \E what \in {"patched", "answer", "lost"} :
                  /\ replies' = replies \cup {[to |-> r, what |-> what]}
                  /\ r.id \in ToSet(lists[s]) => what # "answer"
            /\ Elsewhere(s) /\ lossy' = lossy /\ lease' = lease /\ held' = held /\ msgs' = msgs
            /\ inflight' \in Nat /\ inflight' + Len(acting[s]) = inflight + Len(acting'[s])
            /\ inflight' <= inflight
            /\ StreamTypes'
  <1> DEFINE rest == WithoutId(tracked[s], r.id)
             kept == RemoveFirst(acting[s], r.id)
             left == RemoveFirst(lists[s], r.id)
  <1>1. /\ pc[s] = "idle"
        /\ atCua' = [atCua EXCEPT ![s] = @ \ {r}] /\ acting' = [acting EXCEPT ![s] = kept]
        /\ inflight' = CountDown(Len(acting[s]) - Len(kept))
        /\ lists' = [lists EXCEPT ![s] = RemoveFirst(@, r.id)] /\ tracked' = [tracked EXCEPT ![s] = rest]
        /\ finished' = Finish(finished, CallsOf(tracked[s]) \ CallsOf(rest), "answer")
        /\ pc' = pc \/ pc' = [pc EXCEPT ![s] = "closing"]
        /\ lossy' = lossy /\ lease' = lease /\ held' = held /\ msgs' = msgs
    BY DEF Outbound, StreamGoes, Settled
  <1>2. \E what \in {"patched", "answer", "lost"} :
            /\ replies' = replies \cup {[to |-> r, what |-> what]}
            /\ r.id \in ToSet(lists[s]) => what # "answer"
    BY DEF Outbound
  <1>3. acting[s] \in Seq(Ids) /\ lists[s] \in Seq(Ids) /\ tracked[s] \in Seq(Pending) /\ Len(acting[s]) \in Nat
    BY TypesAt
  <1>4. kept \in Seq(Ids) /\ left \in Seq(Ids) /\ Len(kept) \in {Len(acting[s]), Len(acting[s]) - 1}
    BY <1>3, RemoveFirstKeeps
  <1>5. rest \in Seq(Pending)
    BY <1>3, WithoutIdSkips
  <1> HIDE DEF rest, kept
  <1>6. lists' = [lists EXCEPT ![s] = left]
    BY <1>1
  <1> HIDE DEF left
  <1>7. /\ Elsewhere(s) /\ acting'[s] = kept /\ lists'[s] = left /\ tracked'[s] = rest
        /\ atCua'[s] = atCua[s] \ {r} /\ pc'[s] \in {"idle", "closing"}
    BY <1>1, <1>6 DEF StreamTypes, Elsewhere
  <1>8. inflight' \in Nat /\ inflight' + Len(acting[s]) = inflight + Len(kept) /\ inflight' <= inflight
    <2>1. inflight \in Nat /\ Len(acting[s]) <= inflight /\ Len(kept) \in Nat
      BY <1>4, CountsAreNat
    <2>2. Len(kept) <= Len(acting[s])
      BY <1>3, <1>4, <2>1
    <2> QED BY <1>1, <1>3, <2>1, <2>2, CountsDown
  <1>9. StreamTypes'
    <2>1. finished' \in [1..MaxSent -> Seq({"answer", "error", "no_reply"})]
      BY <1>1, FinishDoes DEF StreamTypes
    <2>2. /\ pc' \in [Stream -> {"idle", "releasing", "closing", "detached", "closed"}]
          /\ DOMAIN atCua' = Stream
      BY <1>1 DEF StreamTypes
    <2>3. tracked' \in [Stream -> Seq([id : Ids, call : Nat])]
      BY <1>1, <1>5 DEF StreamTypes, Pending
    <2>4. acting' \in [Stream -> Seq(Ids)] /\ lists' \in [Stream -> Seq(Ids)]
      BY <1>1, <1>4, <1>6 DEF StreamTypes
    <2> QED BY <1>1, <2>1, <2>2, <2>3, <2>4 DEF StreamTypes
  <1> QED BY <1>1, <1>2, <1>7, <1>8, <1>9 DEF rest, kept, left

LEMMA DetachDoes ==
  ASSUME StreamTypes, Counted, NEW s \in Stream, Detach(s)
  PROVE  /\ pc[s] = "closing" /\ pc'[s] = "detached"
         /\ acting'[s] = <<>> /\ lists'[s] = <<>> /\ tracked'[s] = <<>>
         /\ finished' = Finish(finished, CallsOf(tracked[s]), "no_reply")
         /\ Elsewhere(s) /\ lossy' = lossy /\ lease' = lease /\ held' = held /\ msgs' = msgs
         /\ atCua' = atCua /\ replies' = replies
         /\ inflight' \in Nat /\ inflight' + Len(acting[s]) = inflight + Len(acting'[s])
         /\ inflight' <= inflight
         /\ StreamTypes'
  <1>1. /\ pc[s] = "closing" /\ pc' = [pc EXCEPT ![s] = "detached"]
        /\ acting' = [acting EXCEPT ![s] = <<>>] /\ lists' = [lists EXCEPT ![s] = <<>>]
        /\ tracked' = [tracked EXCEPT ![s] = <<>>]
        /\ inflight' = CountDown(Len(acting[s]))
        /\ finished' = Finish(finished, CallsOf(tracked[s]), "no_reply")
        /\ lossy' = lossy /\ lease' = lease /\ held' = held /\ msgs' = msgs
        /\ atCua' = atCua /\ replies' = replies
    BY DEF Detach, StreamGoes, clientVars
  <1>2. /\ pc'[s] = "detached" /\ acting'[s] = <<>> /\ lists'[s] = <<>> /\ tracked'[s] = <<>> /\ Elsewhere(s)
    BY <1>1 DEF StreamTypes, Elsewhere
  <1>3. inflight' \in Nat /\ inflight' + Len(acting[s]) = inflight + Len(acting'[s]) /\ inflight' <= inflight
    <2>1. inflight \in Nat /\ Len(acting[s]) \in Nat /\ Len(acting[s]) <= inflight
      BY CountsAreNat
    <2>2. Len(acting'[s]) = 0
      BY <1>2
    <2> DEFINE a == Len(acting[s])
    <2>3. a \in Nat /\ 0 <= a /\ a <= inflight /\ CountDown(a) = inflight'
      BY <1>1, <2>1
    <2> HIDE DEF a
    <2>4. a - 0 = a
      BY <2>3
    <2>5. CountDown(a - 0) \in Nat /\ CountDown(a - 0) + a = inflight + 0 /\ CountDown(a - 0) <= inflight
      BY <2>1, <2>3, CountsDown
    <2> QED BY <2>2, <2>3, <2>4, <2>5 DEF a
  <1>4. StreamTypes'
    <2>1. finished' \in [1..MaxSent -> Seq({"answer", "error", "no_reply"})]
      BY <1>1, FinishDoes DEF StreamTypes
    <2>2. /\ pc' \in [Stream -> {"idle", "releasing", "closing", "detached", "closed"}]
          /\ DOMAIN atCua' = Stream
      BY <1>1 DEF StreamTypes
    <2>3. tracked' \in [Stream -> Seq([id : Ids, call : Nat])]
      <3> DEFINE none == <<>>
      <3>1. none \in Seq(Pending)
        OBVIOUS
      <3>2. tracked' = [tracked EXCEPT ![s] = none]
        BY <1>1
      <3>3. tracked \in [Stream -> Seq(Pending)]
        BY DEF StreamTypes, Pending
      <3> HIDE DEF none
      <3>4. tracked' \in [Stream -> Seq(Pending)]
        BY <3>1, <3>2, <3>3
      <3> QED BY <3>4 DEF Pending
    <2>4. acting' \in [Stream -> Seq(Ids)] /\ lists' \in [Stream -> Seq(Ids)]
      <3> DEFINE none == <<>>
      <3>1. none \in Seq(Ids)
        OBVIOUS
      <3>2. acting' = [acting EXCEPT ![s] = none] /\ lists' = [lists EXCEPT ![s] = none]
        BY <1>1
      <3> HIDE DEF none
      <3> QED BY <3>1, <3>2 DEF StreamTypes
    <2> QED BY <1>1, <2>1, <2>2, <2>3, <2>4 DEF StreamTypes
  <1> QED BY <1>1, <1>2, <1>3, <1>4

LEMMA CloseDoes ==
  ASSUME StreamTypes, NEW s \in Stream, CloseAttachment(s)
  PROVE  /\ pc[s] = "detached" /\ pc'[s] = "closed" /\ atCua'[s] = {}
         /\ replies' = {p \in replies : msgs[p.to.msg].stream # s}
         /\ Elsewhere(s) /\ lossy' = lossy /\ lease' = lease /\ held' = held /\ msgs' = msgs
         /\ acting' = acting /\ lists' = lists /\ tracked' = tracked /\ finished' = finished
         /\ inflight' = inflight /\ StreamTypes'
  <1>1. /\ pc[s] = "detached" /\ pc' = [pc EXCEPT ![s] = "closed"]
        /\ atCua' = [atCua EXCEPT ![s] = {}]
        /\ replies' = {p \in replies : msgs[p.to.msg].stream # s}
        /\ lossy' = lossy /\ lease' = lease /\ held' = held /\ msgs' = msgs
        /\ acting' = acting /\ lists' = lists /\ tracked' = tracked /\ finished' = finished
        /\ inflight' = inflight
    BY DEF CloseAttachment, StreamGoes, leaseVars, gateVars, callLogVars
  <1>2. pc'[s] = "closed" /\ atCua'[s] = {} /\ Elsewhere(s)
    BY <1>1 DEF StreamTypes, Elsewhere
  <1>3. StreamTypes'
    BY <1>1 DEF StreamTypes
  <1> QED BY <1>1, <1>2, <1>3

LEMMA EndsDoes ==
  ASSUME StreamTypes, NEW s \in Stream, StreamEnds(s)
  PROVE  /\ pc[s] = "idle" /\ pc'[s] = "closing"
         /\ Elsewhere(s) /\ lossy' = lossy /\ lease' = lease /\ held' = held /\ msgs' = msgs
         /\ acting' = acting /\ lists' = lists /\ tracked' = tracked /\ finished' = finished
         /\ inflight' = inflight /\ atCua' = atCua /\ replies' = replies /\ StreamTypes'
  <1>1. /\ pc[s] = "idle" /\ pc' = [pc EXCEPT ![s] = "closing"]
        /\ lossy' = lossy /\ lease' = lease /\ held' = held /\ msgs' = msgs
        /\ acting' = acting /\ lists' = lists /\ tracked' = tracked /\ finished' = finished
        /\ inflight' = inflight /\ atCua' = atCua /\ replies' = replies
    BY DEF StreamEnds, StreamGoes, leaseVars, gateVars, callLogVars, clientVars
  <1>2. pc'[s] = "closing" /\ Elsewhere(s)
    BY <1>1 DEF StreamTypes, Elsewhere
  <1>3. StreamTypes'
    BY <1>1 DEF StreamTypes
  <1> QED BY <1>1, <1>2, <1>3


\* Message number n comes in on s.
Arrives(s, m, n) ==
    /\ pc[s] = "idle" /\ held[s] = 0 /\ m \in Message
    /\ n = Len(msgs) + 1 /\ n \in 1..MaxSent /\ n \notin DOMAIN msgs /\ n # 0
    /\ DOMAIN msgs' = DOMAIN msgs \cup {n}
    /\ \A k \in DOMAIN msgs : msgs'[k] = msgs[k]
    /\ msgs'[n].stream = s /\ msgs'[n].body = m
    /\ lists'[s] = NotedLists(s, m)
    /\ (\A t \in Stream : t # s => (t \in lossy' <=> t \in lossy))
    /\ (Neat(s)' => Neat(s) /\ ~Overruns(s, m))
    /\ atCua' = atCua

LEMMA ReceiveDoes ==
  ASSUME StreamTypes, HeldIsOwn, NEW s \in Stream, NEW m \in Message, Receive(s, m)
  PROVE  /\ Arrives(s, m, Len(msgs'))
         /\ Forward(s, m, Len(msgs')) \/ GateRefuse(s, m, Len(msgs'))
         /\ msgs' \in Seq([stream : Stream, body : Message]) /\ Len(msgs') <= MaxSent
         /\ lists' \in [Stream -> Seq(Ids)] /\ lossy' \subseteq Stream
         /\ \A t \in Stream : t # s => lists'[t] = lists[t]
  <1> DEFINE Posted == [stream : Stream, body : Message]
             new == [stream |-> s, body |-> m]
             n == Len(msgs')
  <1>1. /\ pc[s] = "idle" /\ Len(msgs) < MaxSent /\ msgs' = Append(msgs, new)
        /\ lists' = [lists EXCEPT ![s] = NotedLists(s, m)]
        /\ lossy' = IF Overruns(s, m) THEN lossy \cup {s} ELSE lossy
        /\ Forward(s, m, n) \/ GateRefuse(s, m, n)
        /\ atCua' = atCua
    BY DEF Receive
  <1>2. new \in Posted /\ new.stream = s /\ new.body = m /\ msgs \in Seq(Posted)
    BY DEF StreamTypes
  <1> HIDE DEF Posted, new
  <1>3. /\ msgs' \in Seq(Posted) /\ n = Len(msgs) + 1 /\ Len(msgs) \in Nat
        /\ DOMAIN msgs = 1..Len(msgs) /\ DOMAIN msgs' = 1..n
        /\ \A k \in 1..Len(msgs) : msgs'[k] = msgs[k]
        /\ msgs'[Len(msgs) + 1] = new
    BY <1>1, <1>2
  <1>4. n \in 1..MaxSent /\ n \notin DOMAIN msgs /\ n # 0 /\ DOMAIN msgs' = DOMAIN msgs \cup {n} /\ n <= MaxSent
    BY <1>1, <1>3, CuaStreamAssumption
  <1>5. NotedLists(s, m) \in Seq(Ids)
    BY TypesAt, NotedListsKeeps
  <1>6. /\ lists' \in [Stream -> Seq(Ids)] /\ lists'[s] = NotedLists(s, m)
        /\ \A t \in Stream : t # s => lists'[t] = lists[t]
    BY <1>1, <1>5 DEF StreamTypes
  <1>7. /\ lossy' \subseteq Stream /\ \A t \in Stream : t # s => (t \in lossy' <=> t \in lossy)
        /\ (s \notin lossy' => s \notin lossy /\ ~Overruns(s, m))
    BY <1>1 DEF StreamTypes
  <1>8. held[s] = 0
    BY <1>1 DEF HeldIsOwn
  <1>9. msgs'[n].stream = s /\ msgs'[n].body = m
    BY <1>2, <1>3
  <1>10. Arrives(s, m, n)
    BY <1>1, <1>3, <1>4, <1>6, <1>7, <1>8, <1>9 DEF Arrives, Neat
  <1> QED BY <1>1, <1>3, <1>4, <1>6, <1>7, <1>10 DEF Posted

\* Message number n passes the gate on s.
Passes(s, m, n) ==
    LET new == Remembered(s, m)
    IN /\ pc'[s] = "releasing" /\ held'[s] = n /\ acting'[s] = new.ids
       /\ inflight' = inflight + Cardinality(CountedCalls(m)) - new.freed
       /\ tracked' = tracked /\ finished' = finished /\ replies' = replies
       /\ \/ ActingCalls(m) = {} /\ lease' = lease
          \/ lease' # "human"

LEMMA ForwardDoes ==
  ASSUME StreamTypes, HeldIsOwn, NEW s \in Stream, NEW m \in Message, Receive(s, m),
         Forward(s, m, Len(msgs'))
  PROVE  Arrives(s, m, Len(msgs')) /\ Passes(s, m, Len(msgs')) /\ Elsewhere(s) /\ StreamTypes'
  <1> DEFINE n == Len(msgs')
             new == Remembered(s, m)
  <1>1. /\ Arrives(s, m, n)
        /\ msgs' \in Seq([stream : Stream, body : Message]) /\ n <= MaxSent
        /\ lists' \in [Stream -> Seq(Ids)] /\ lossy' \subseteq Stream
        /\ \A t \in Stream : t # s => lists'[t] = lists[t]
    BY ReceiveDoes
  <1>2. /\ acting' = [acting EXCEPT ![s] = new.ids]
        /\ inflight' = inflight + Cardinality(CountedCalls(m)) - new.freed
        /\ held' = [held EXCEPT ![s] = n] /\ pc' = [pc EXCEPT ![s] = "releasing"]
        /\ tracked' = tracked /\ finished' = finished /\ replies' = replies
        /\ \/ ActingCalls(m) = {} /\ lease' = lease
           \/ lease' = "agent"
    BY DEF Forward, StreamGoes, callLogVars
  <1>3. new.ids \in Seq(Ids)
    BY TypesAt, RememberedKeeps
  <1>4. n \in Nat /\ atCua' = atCua /\ \A t \in Stream : t # s => (t \in lossy' <=> t \in lossy)
    BY <1>1, CuaStreamAssumption DEF Arrives
  <1> HIDE DEF new, n
  <1>5. /\ acting' \in [Stream -> Seq(Ids)] /\ held' \in [Stream -> Nat]
        /\ pc' \in [Stream -> {"idle", "releasing", "closing", "detached", "closed"}]
        /\ pc'[s] = "releasing" /\ held'[s] = n /\ acting'[s] = new.ids
    BY <1>2, <1>3, <1>4 DEF StreamTypes
  <1>6. Elsewhere(s)
    BY <1>1, <1>2, <1>4 DEF StreamTypes, Elsewhere
  <1>7. Passes(s, m, n)
    BY <1>2, <1>5 DEF Passes, new
  <1>8. StreamTypes'
    <2>1. lease' \in {"agent", "taking", "human"}
      BY <1>2 DEF StreamTypes
    <2> QED BY <1>1, <1>2, <1>4, <1>5, <2>1 DEF StreamTypes, n
  <1> QED BY <1>1, <1>6, <1>7, <1>8 DEF n

\* Message number n is refused by the gate of s.
Refuses(s, m, n) ==
    /\ held' = held /\ acting' = acting /\ inflight' = inflight /\ lease' = lease
    /\ LET queue == ObserveRequest(s, n, m)
           rest == IF Recorded(m) THEN WithoutId(queue, m.calls[1].id) ELSE queue
       IN /\ tracked'[s] = rest
          /\ finished' = Finish(Pushed(s, queue), CallsOf(queue) \ CallsOf(rest), "error")
          /\ (Recorded(m) => Adds(queue, tracked[s], n, m.calls[1].id))
          /\ (~Recorded(m) => queue = tracked[s])
          /\ queue \in Seq(Pending)
    /\ \/ /\ replies' = replies \cup {[to |-> r, what |-> "refusal"] : r \in RequestsOf(n, m)}
          /\ pc'[s] = "idle"
       \/ pc'[s] = "closing" /\ replies' = replies

LEMMA RefuseDoes ==
  ASSUME StreamTypes, HeldIsOwn, TrackedAreOwn, NEW s \in Stream, NEW m \in Message, Receive(s, m),
         GateRefuse(s, m, Len(msgs'))
  PROVE  Arrives(s, m, Len(msgs')) /\ Refuses(s, m, Len(msgs')) /\ Elsewhere(s) /\ StreamTypes'
  <1> DEFINE n == Len(msgs')
             queue == ObserveRequest(s, n, m)
             rest == IF Recorded(m) THEN WithoutId(queue, m.calls[1].id) ELSE queue
  <1>1. /\ Arrives(s, m, n)
        /\ msgs' \in Seq([stream : Stream, body : Message]) /\ n <= MaxSent
        /\ lists' \in [Stream -> Seq(Ids)] /\ lossy' \subseteq Stream
        /\ \A t \in Stream : t # s => lists'[t] = lists[t]
    BY ReceiveDoes
  <1>2. /\ tracked' = [tracked EXCEPT ![s] = rest]
        /\ finished' = Finish(Pushed(s, queue), CallsOf(queue) \ CallsOf(rest), "error")
        /\ held' = held /\ acting' = acting /\ inflight' = inflight /\ lease' = lease
        /\ \/ /\ replies' = replies \cup {[to |-> r, what |-> "refusal"] : r \in RequestsOf(n, m)}
              /\ pc' = pc
           \/ pc' = [pc EXCEPT ![s] = "closing"] /\ replies' = replies
    BY DEF GateRefuse, StreamGoes
  <1>3. n \in Nat /\ n \notin DOMAIN msgs /\ atCua' = atCua /\ pc[s] = "idle"
        /\ \A t \in Stream : t # s => (t \in lossy' <=> t \in lossy)
    BY <1>1, CuaStreamAssumption DEF Arrives
  <1>4. tracked[s] \in Seq(Pending)
    BY TypesAt
  <1>5. Recorded(m) => Adds(queue, tracked[s], n, m.calls[1].id)
    <2>1. n \notin CallsOf(tracked[s]) /\ Apart(tracked[s])
      BY <1>3, TrackedTypes
    <2> HIDE DEF n
    <2> QED BY <1>3, <1>4, <2>1, ObserveAdds
  <1>6. ~Recorded(m) => queue = tracked[s]
    BY DEF ObserveRequest
  <1>7. queue \in Seq(Pending)
    BY <1>4, <1>5, <1>6 DEF Adds
  <1> HIDE DEF queue, n
  <1>8. rest \in Seq(Pending)
    BY <1>7, WithoutIdSkips
  <1>9. /\ tracked'[s] = rest /\ tracked' \in [Stream -> Seq([id : Ids, call : Nat])]
        /\ Elsewhere(s)
    <2> HIDE DEF rest
    <2>1. tracked'[s] = rest /\ tracked' \in [Stream -> Seq([id : Ids, call : Nat])]
      BY <1>2, <1>8 DEF StreamTypes, Pending
    <2>2. \A t \in Stream : t # s => tracked'[t] = tracked[t] /\ pc'[t] = pc[t]
      BY <1>2 DEF StreamTypes
    <2> QED BY <1>1, <1>2, <1>3, <2>1, <2>2 DEF Elsewhere
  <1>10. /\ pc' \in [Stream -> {"idle", "releasing", "closing", "detached", "closed"}]
         /\ \/ /\ replies' = replies \cup {[to |-> r, what |-> "refusal"] : r \in RequestsOf(n, m)}
               /\ pc'[s] = "idle"
            \/ pc'[s] = "closing" /\ replies' = replies
    BY <1>2, <1>3 DEF StreamTypes
  <1>11. finished' \in [1..MaxSent -> Seq({"answer", "error", "no_reply"})]
    <2>1. Pushed(s, queue) \in [1..MaxSent -> Seq({"answer", "error", "no_reply"})]
      BY FinishDoes DEF Pushed, StreamTypes
    <2> QED BY <1>2, <2>1, FinishDoes
  <1>12. Refuses(s, m, n)
    BY <1>2, <1>5, <1>6, <1>7, <1>9, <1>10 DEF Refuses, queue
  <1>13. StreamTypes'
    BY <1>1, <1>2, <1>3, <1>9, <1>10, <1>11 DEF StreamTypes, n
  <1> QED BY <1>1, <1>9, <1>12, <1>13 DEF n

LEMMA LeaseDoes ==
  ASSUME StreamTypes, Take \/ Grant \/ LeaseEnds
  PROVE  /\ inflight' = inflight /\ pc' = pc /\ held' = held /\ acting' = acting /\ lists' = lists
         /\ tracked' = tracked /\ finished' = finished /\ atCua' = atCua /\ msgs' = msgs
         /\ replies' = replies /\ lossy' = lossy /\ (lease' = "human" => inflight = 0)
         /\ StreamTypes'
  <1>1. /\ inflight' = inflight /\ pc' = pc /\ held' = held /\ acting' = acting /\ lists' = lists
        /\ tracked' = tracked /\ finished' = finished /\ atCua' = atCua /\ msgs' = msgs
        /\ replies' = replies /\ lossy' = lossy /\ (lease' = "human" => inflight = 0)
        /\ lease' \in {"agent", "taking", "human"}
    BY DEF Take, Grant, LeaseEnds, LeaseGoes, gateVars, callLogVars, clientVars
  <1> QED BY <1>1 DEF StreamTypes

-----------------------------------------------------------------------------
(* Each step keeps the invariant                                              *)

LEMMA LeaseKeeps ==
  ASSUME StreamInv, Take \/ Grant \/ LeaseEnds
  PROVE  StreamInv'
  <1>1. /\ inflight' = inflight /\ pc' = pc /\ held' = held /\ acting' = acting /\ lists' = lists
        /\ tracked' = tracked /\ finished' = finished /\ atCua' = atCua /\ msgs' = msgs
        /\ replies' = replies /\ lossy' = lossy /\ (lease' = "human" => inflight = 0)
        /\ StreamTypes'
    BY LeaseDoes DEF StreamInv
  <1>2. HeldIsOwn' /\ RequestsAreOwn' /\ RepliesAreOne'
    BY <1>1 DEF StreamInv, HeldIsOwn, RequestsAreOwn, RepliesAreOne, Awaited, StreamOf, Withheld, Live
  <1>3. TrackedAreOwn' /\ FinishedOnce'
    BY <1>1 DEF StreamInv, TrackedAreOwn, Own, FinishedOnce, Withheld
  <1>4. TrackedAreAsked' /\ HeldIsNew'
    BY <1>1 DEF StreamInv, TrackedAreAsked, HeldIsNew, Live, Neat
  <1>5. OutcomesAreTrue'
    BY <1>1 DEF StreamInv, OutcomesAreTrue, Outcomes, Neat
  <1>6. ListsAreNoted' /\ ActingAreNoted'
    BY <1>1 DEF StreamInv, ListsAreNoted, ActingAreNoted, Outstanding, Live, Neat, StreamOf, StreamOpen
  <1>7. Counted'
    BY <1>1 DEF StreamInv, Counted
  <1>8. HumanIsQuiet'
    BY <1>1 DEF StreamInv, HumanIsQuiet
  <1> QED BY <1>1, <1>2, <1>3, <1>4, <1>5, <1>6, <1>7, <1>8 DEF StreamInv

LEMMA EndsKeeps ==
  ASSUME StreamInv, NEW s \in Stream, StreamEnds(s)
  PROVE  StreamInv'
  <1>1. /\ pc[s] = "idle" /\ pc'[s] = "closing"
        /\ Elsewhere(s) /\ lossy' = lossy /\ lease' = lease /\ held' = held /\ msgs' = msgs
        /\ acting' = acting /\ lists' = lists /\ tracked' = tracked /\ finished' = finished
        /\ inflight' = inflight /\ atCua' = atCua /\ replies' = replies /\ StreamTypes'
    BY EndsDoes DEF StreamInv
  <1>2. \A t \in Stream : t # s => pc'[t] = pc[t]
    BY <1>1 DEF Elsewhere
  <1>3. HeldIsOwn'
    BY <1>1, <1>2 DEF StreamInv, HeldIsOwn
  <1>4. RequestsAreOwn' /\ TrackedAreOwn' /\ FinishedOnce'
    BY <1>1 DEF StreamInv, RequestsAreOwn, TrackedAreOwn, Own, FinishedOnce, Awaited, StreamOf, Withheld
  <1>5. \A t \in Stream : /\ (Live(t)' => Live(t)) /\ (StreamOpen(t)' => StreamOpen(t))
                          /\ (pc'[t] # "closed" => pc[t] # "closed")
                          /\ (pc'[t] = "releasing" => pc[t] = "releasing")
                          /\ Outstanding(t)' \subseteq Outstanding(t)
    BY <1>1, <1>2 DEF Live, StreamOpen, Outstanding
  <1>6. RepliesAreOne'
    <2>1. \A n \in DOMAIN msgs : Live(msgs[n].stream)' => Live(msgs[n].stream)
      BY <1>1, <1>5, TypesAt DEF StreamInv
    <2> QED BY <1>1, <1>5, <2>1 DEF StreamInv, RepliesAreOne, Withheld
  <1>7. TrackedAreAsked' /\ HeldIsNew'
    BY <1>1, <1>5 DEF StreamInv, TrackedAreAsked, HeldIsNew, Neat
  <1>8. OutcomesAreTrue'
    <2>1. \A n \in DOMAIN msgs : pc'[msgs[n].stream] # "closed" => pc[msgs[n].stream] # "closed"
      BY <1>1, <1>5, TypesAt DEF StreamInv
    <2> QED BY <1>1, <2>1 DEF StreamInv, OutcomesAreTrue, Outcomes, Neat
  <1>9. ListsAreNoted' /\ ActingAreNoted'
    BY <1>1, <1>5 DEF StreamInv, ListsAreNoted, ActingAreNoted, Neat, StreamOf
  <1>10. Counted' /\ HumanIsQuiet'
    BY <1>1 DEF StreamInv, Counted, HumanIsQuiet
  <1> QED BY <1>1, <1>3, <1>4, <1>6, <1>7, <1>8, <1>9, <1>10 DEF StreamInv

LEMMA FinishLogs ==
  ASSUME StreamTypes, NEW gone, NEW outcome \in {"answer", "error", "no_reply"},
         finished' = Finish(finished, gone, outcome)
  PROVE  /\ \A n \in 1..MaxSent : n \notin gone => finished'[n] = finished[n]
         /\ \A n \in gone : n \in 1..MaxSent /\ finished[n] = <<>> =>
               Len(finished'[n]) = 1 /\ finished'[n][1] = outcome
  <1>1. finished \in [1..MaxSent -> Seq({"answer", "error", "no_reply"})]
    BY DEF StreamTypes
  <1> QED BY <1>1 DEF Finish

LEMMA CloseKeeps ==
  ASSUME StreamInv, NEW s \in Stream, CloseAttachment(s)
  PROVE  StreamInv'
  <1>1. /\ pc[s] = "detached" /\ pc'[s] = "closed" /\ atCua'[s] = {}
        /\ replies' = {p \in replies : msgs[p.to.msg].stream # s}
        /\ Elsewhere(s) /\ lossy' = lossy /\ lease' = lease /\ held' = held /\ msgs' = msgs
        /\ acting' = acting /\ lists' = lists /\ tracked' = tracked /\ finished' = finished
        /\ inflight' = inflight /\ StreamTypes'
    BY CloseDoes DEF StreamInv
  <1>2. \A t \in Stream : t # s => pc'[t] = pc[t] /\ atCua'[t] = atCua[t]
    BY <1>1 DEF Elsewhere
  <1>3. HeldIsOwn'
    BY <1>1, <1>2 DEF StreamInv, HeldIsOwn
  <1>4. TrackedAreOwn' /\ FinishedOnce'
    BY <1>1 DEF StreamInv, TrackedAreOwn, Own, FinishedOnce, Withheld
  <1>5. RequestsAreOwn'
    BY <1>1, <1>2 DEF StreamInv, RequestsAreOwn, Awaited, StreamOf, Withheld
  <1>6. \A t \in Stream : /\ Live(t)' => Live(t) /\ t # s
                          /\ (StreamOpen(t)' => StreamOpen(t))
                          /\ (pc'[t] # "closed" => pc[t] # "closed" /\ t # s)
                          /\ (pc'[t] = "releasing" => pc[t] = "releasing")
                          /\ Outstanding(t)' \subseteq Outstanding(t)
                          /\ atCua'[t] \subseteq atCua[t]
    BY <1>1, <1>2 DEF Live, StreamOpen, Outstanding
  <1>7. \A n \in DOMAIN msgs : msgs[n].stream \in Stream
    BY TypesAt DEF StreamInv
  <1>8. RepliesAreOne'
    <2>1. ASSUME NEW n \in DOMAIN msgs, Live(msgs[n].stream)', ~Withheld(n)',
                 NEW r \in RequestsOf(n, msgs[n].body)
          PROVE  r \in atCua'[msgs[n].stream] \/ \E p \in replies' : p.to = r
      <3>1. Live(msgs[n].stream) /\ msgs[n].stream # s /\ r.msg = n
        BY <1>1, <1>6, <1>7, <2>1 DEF RequestsOf
      <3>2. r \in atCua[msgs[n].stream] \/ \E p \in replies : p.to = r
        BY <1>1, <2>1, <3>1 DEF StreamInv, RepliesAreOne, Withheld
      <3> QED BY <1>1, <1>2, <1>7, <3>1, <3>2
    <2>2. \A p, q \in replies' : p.to = q.to => p = q
      BY <1>1 DEF StreamInv, RepliesAreOne
    <2>3. \A t \in Stream : Live(t)' => \A r \in atCua'[t] : \A p \in replies' : p.to # r
      BY <1>1, <1>6 DEF StreamInv, RepliesAreOne
    <2> QED BY <1>1, <2>1, <2>2, <2>3 DEF RepliesAreOne
  <1>9. TrackedAreAsked' /\ HeldIsNew'
    BY <1>1, <1>2, <1>6 DEF StreamInv, TrackedAreAsked, HeldIsNew, Neat
  <1>10. OutcomesAreTrue'
    <2>1. ASSUME NEW n \in DOMAIN msgs, pc'[msgs[n].stream] # "closed"
          PROVE  Outcomes(n)' <=> Outcomes(n)
      <3>1. msgs[n].stream # s
        BY <1>6, <1>7, <2>1
      <3> QED BY <1>1, <3>1 DEF Outcomes
    <2>2. \A n \in DOMAIN msgs : pc'[msgs[n].stream] # "closed" => pc[msgs[n].stream] # "closed"
      BY <1>6, <1>7
    <2> QED BY <1>1, <2>1, <2>2 DEF StreamInv, OutcomesAreTrue, Neat
  <1>11. ListsAreNoted' /\ ActingAreNoted'
    BY <1>1, <1>6 DEF StreamInv, ListsAreNoted, ActingAreNoted, Neat, StreamOf
  <1>12. Counted' /\ HumanIsQuiet'
    BY <1>1 DEF StreamInv, Counted, HumanIsQuiet
  <1> QED BY <1>1, <1>3, <1>4, <1>5, <1>8, <1>9, <1>10, <1>11, <1>12 DEF StreamInv

\* A log entry without outcomes.
LEMMA NoOutcome ==
  ASSUME StreamTypes, NEW n \in 1..MaxSent
  PROVE  Len(finished[n]) \in Nat /\ (Len(finished[n]) = 0 <=> finished[n] = <<>>)
  <1>1. finished[n] \in Seq({"answer", "error", "no_reply"})
    BY DEF StreamTypes
  <1> QED BY <1>1

LEMMA DetachKeeps ==
  ASSUME StreamInv, NEW s \in Stream, Detach(s)
  PROVE  StreamInv'
  <1>1. /\ pc[s] = "closing" /\ pc'[s] = "detached"
        /\ acting'[s] = <<>> /\ lists'[s] = <<>> /\ tracked'[s] = <<>>
        /\ finished' = Finish(finished, CallsOf(tracked[s]), "no_reply")
        /\ Elsewhere(s) /\ lossy' = lossy /\ lease' = lease /\ held' = held /\ msgs' = msgs
        /\ atCua' = atCua /\ replies' = replies
        /\ inflight' \in Nat /\ inflight' + Len(acting[s]) = inflight + Len(acting'[s])
        /\ inflight' <= inflight
        /\ StreamTypes'
    BY DetachDoes DEF StreamInv
  <1>2. \A t \in Stream : t # s => /\ pc'[t] = pc[t] /\ tracked'[t] = tracked[t]
                                  /\ lists'[t] = lists[t] /\ acting'[t] = acting[t]
    BY <1>1 DEF Elsewhere
  <1>3. CallsOf(tracked'[s]) = {} /\ Len(tracked'[s]) = 0
    BY <1>1 DEF CallsOf
  <1>4. HeldIsOwn' /\ RequestsAreOwn'
    BY <1>1, <1>2 DEF StreamInv, HeldIsOwn, RequestsAreOwn, Awaited, StreamOf, Withheld
  <1>5. TrackedAreOwn'
    <2>1. ToSet(tracked'[s]) = {} /\ Apart(tracked'[s])
      BY <1>1 DEF ToSet, Apart
    <2>2. \A t \in Stream : tracked'[t] = tracked[t] \/ t = s
      BY <1>2
    <2>3. \A t \in Stream : \A p : Own(p, t)' <=> Own(p, t)
      BY <1>1 DEF Own, Withheld
    <2> QED BY <2>1, <2>2, <2>3 DEF StreamInv, TrackedAreOwn
  <1>6. \A t \in Stream : /\ Live(t)' => Live(t) /\ t # s
                          /\ (StreamOpen(t)' => StreamOpen(t) /\ t # s)
                          /\ (pc'[t] # "closed" => pc[t] # "closed")
                          /\ (pc'[t] = "releasing" => pc[t] = "releasing" /\ t # s)
                          /\ Outstanding(t)' \subseteq Outstanding(t)
    BY <1>1, <1>2 DEF Live, StreamOpen, Outstanding
  <1>7. \A n \in DOMAIN msgs : msgs[n].stream \in Stream /\ n \in 1..MaxSent
    BY TypesAt DEF StreamInv
  <1>8. /\ \A n \in 1..MaxSent : n \notin CallsOf(tracked[s]) => finished'[n] = finished[n]
        /\ \A n \in CallsOf(tracked[s]) : n \in 1..MaxSent /\ finished[n] = <<>> =>
              Len(finished'[n]) = 1 /\ finished'[n][1] = "no_reply"
    <2>1. StreamTypes /\ finished' = Finish(finished, CallsOf(tracked[s]), "no_reply")
      BY <1>1 DEF StreamInv
    <2> QED BY <2>1, FinishLogs
  <1>9. FinishedOnce'
    <2>1. finished \in [1..MaxSent -> Seq({"answer", "error", "no_reply"})] /\ FinishedOnce /\ StreamTypes
      BY DEF StreamInv, StreamTypes
    <2>2. \A n \in 1..MaxSent : n \notin CallsOf(tracked[s]) => finished'[n] = finished[n]
      BY <1>8
    <2>3. \A n \in CallsOf(tracked[s]) : n \in 1..MaxSent /\ finished[n] = <<>> => Len(finished'[n]) = 1
      BY <1>8
    <2>4. \A n \in CallsOf(tracked[s]) :
              n \in DOMAIN msgs /\ msgs[n].stream = s /\ ~Withheld(n) /\ Recorded(msgs[n].body)
      BY TrackedTypes DEF StreamInv
    <2>5. \A n \in CallsOf(tracked[s]) : finished[n] = <<>>
      BY <1>7, <2>1, <2>4, NoOutcome DEF FinishedOnce
    <2>6. ASSUME NEW n \in 1..MaxSent
          PROVE  IF n \in DOMAIN msgs /\ Recorded(msgs[n].body) /\ ~Withheld(n)
                 THEN Len(finished'[n]) = IF n \in CallsOf(tracked'[msgs[n].stream]) THEN 0 ELSE 1
                 ELSE finished'[n] = <<>>
      <3>1. CASE n \in CallsOf(tracked[s])
        BY <1>3, <1>7, <2>3, <2>4, <2>5, <3>1
      <3>2. CASE n \notin CallsOf(tracked[s])
        BY <1>2, <1>3, <1>7, <2>1, <2>2, <3>2 DEF FinishedOnce
      <3> QED BY <3>1, <3>2
    <2> QED BY <1>1, <2>6 DEF FinishedOnce, Withheld
  <1>10. RepliesAreOne'
    <2>1. \A n \in DOMAIN msgs : Live(msgs[n].stream)' => Live(msgs[n].stream)
      BY <1>1, <1>6, <1>7
    <2> QED BY <1>1, <1>6, <2>1 DEF StreamInv, RepliesAreOne, Withheld
  <1>11. TrackedAreAsked' /\ HeldIsNew'
    BY <1>1, <1>2, <1>6 DEF StreamInv, TrackedAreAsked, HeldIsNew, Neat
  <1>12. OutcomesAreTrue'
    <2>1. finished \in [1..MaxSent -> Seq({"answer", "error", "no_reply"})] /\ OutcomesAreTrue
      BY DEF StreamInv, StreamTypes
    <2>2. \A n \in 1..MaxSent : n \notin CallsOf(tracked[s]) => finished'[n] = finished[n]
      BY <1>8
    <2>3. ASSUME NEW n \in DOMAIN msgs, Neat(msgs[n].stream), pc[msgs[n].stream] # "closed",
                 n \in CallsOf(tracked[s])
          PROVE  finished'[n][1] # "answer" /\ ~Outcomes(n)
      <3>1. finished[n] = <<>>
        <4>1. n \in DOMAIN msgs /\ msgs[n].stream = s /\ ~Withheld(n) /\ Recorded(msgs[n].body)
          BY <2>3, TrackedTypes DEF StreamInv
        <4>2. FinishedOnce /\ StreamTypes /\ n \in 1..MaxSent
          BY <1>7 DEF StreamInv
        <4> QED BY <2>3, <4>1, <4>2, NoOutcome DEF FinishedOnce
      <3>2. finished'[n][1] = "no_reply"
        BY <1>7, <1>8, <2>3, <3>1
      <3>3. ~Outcomes(n)
        <4>1. msgs[n].stream = s
          BY <2>3, TrackedTypes DEF StreamInv
        <4> QED BY <2>1, <2>3, <4>1 DEF OutcomesAreTrue
      <3> QED BY <3>2, <3>3
    <2>4. \A n \in DOMAIN msgs : pc'[msgs[n].stream] # "closed" => pc[msgs[n].stream] # "closed"
      BY <1>6, <1>7
    <2>5. \A n \in DOMAIN msgs : Outcomes(n)' <=> Outcomes(n)
      BY <1>1 DEF Outcomes
    <2>6. ASSUME NEW n \in DOMAIN msgs, Neat(msgs[n].stream), pc'[msgs[n].stream] # "closed"
          PROVE  /\ finished'[n] # <<>> => (finished'[n][1] = "answer" <=> Outcomes(n))
                 /\ n \in CallsOf(tracked'[msgs[n].stream]) => ~Outcomes(n)
      <3>1. CASE n \in CallsOf(tracked[s])
        BY <2>3, <2>4, <2>6, <3>1
      <3>2. CASE n \notin CallsOf(tracked[s])
        <4>1. finished'[n] = finished[n]
          BY <1>7, <2>2, <3>2
        <4>2. CallsOf(tracked'[msgs[n].stream]) = CallsOf(tracked[msgs[n].stream])
              \/ CallsOf(tracked'[msgs[n].stream]) = {}
          BY <1>2, <1>3, <1>7
        <4> QED BY <2>1, <2>4, <2>6, <4>1, <4>2 DEF OutcomesAreTrue
      <3> QED BY <3>1, <3>2
    <2> QED BY <1>1, <2>5, <2>6 DEF OutcomesAreTrue, Neat
  <1>13. ListsAreNoted' /\ ActingAreNoted'
    BY <1>1, <1>2, <1>6 DEF StreamInv, ListsAreNoted, ActingAreNoted, Neat, StreamOf
  <1>14. Counted'
    BY <1>1, CountFollows DEF StreamInv
  <1>15. HumanIsQuiet'
    BY <1>1, CountsAreNat DEF StreamInv, HumanIsQuiet
  <1> QED BY <1>1, <1>4, <1>5, <1>9, <1>10, <1>11, <1>12, <1>13, <1>14, <1>15 DEF StreamInv

\* What is known of a call that is tracked.
LEMMA TrackedIsOpen ==
  ASSUME StreamTypes, TrackedAreOwn, FinishedOnce, NEW s \in Stream, NEW n \in CallsOf(tracked[s])
  PROVE  /\ n \in DOMAIN msgs /\ n \in 1..MaxSent /\ msgs[n].stream = s /\ ~Withheld(n)
         /\ Recorded(msgs[n].body) /\ finished[n] = <<>>
  <1>1. n \in DOMAIN msgs /\ msgs[n].stream = s /\ ~Withheld(n) /\ Recorded(msgs[n].body)
    BY TrackedTypes
  <1>2. n \in 1..MaxSent
    BY <1>1, TypesAt
  <1>3. Len(finished[n]) = 0
    BY <1>1, <1>2 DEF FinishedOnce
  <1> QED BY <1>1, <1>2, <1>3, NoOutcome

\* The only call that is new in the queue.
Comes(w, q, n, id) == \A p \in ToSet(w) : (p.id = id /\ p.call = n) \/ p \in ToSet(q)

LEMMA AddsCalls ==
  ASSUME NEW w, NEW q \in Seq(Pending), NEW n, NEW id, Adds(w, q, n, id)
  PROVE  /\ n \in CallsOf(w)
         /\ \A k \in CallsOf(w) : k = n \/ k \in CallsOf(q)
         /\ Comes(w, q, n, id)
  <1>1. /\ w \in Seq(Pending) /\ Len(w) \in Nat \ {0} /\ w[Len(w)] = [id |-> id, call |-> n]
        /\ \A j \in 1..(Len(w) - 1) : \E i \in 1..Len(q) : w[j] = q[i]
    BY DEF Adds
  <1>2. DOMAIN w = 1..Len(w) /\ DOMAIN q = 1..Len(q)
    BY <1>1
  <1>3. \A j \in 1..Len(w) : j = Len(w) \/ j \in 1..(Len(w) - 1)
    BY <1>1
  <1>4. Len(w) \in 1..Len(w)
    BY <1>1
  <1>5. w[Len(w)].id = id /\ w[Len(w)].call = n
    BY <1>1
  <1>6. \A j \in 1..Len(w) : (w[j].id = id /\ w[j].call = n) \/ \E i \in 1..Len(q) : w[j] = q[i]
    BY <1>1, <1>3, <1>5
  <1>7. n \in CallsOf(w)
    BY <1>2, <1>4, <1>5 DEF CallsOf
  <1>8. \A k \in CallsOf(w) : k = n \/ k \in CallsOf(q)
    BY <1>2, <1>6 DEF CallsOf
  <1>9. Comes(w, q, n, id)
    BY <1>2, <1>6 DEF Comes, ToSet
  <1> QED BY <1>7, <1>8, <1>9

LEMMA SendKeeps ==
  ASSUME StreamInv, NEW s \in Stream, SendToCua(s)
  PROVE  StreamInv'
  <1> DEFINE n == held[s]
             m == msgs[n].body
             queue == ObserveRequest(s, n, m)
  <1>1. /\ pc[s] = "releasing" /\ n \in DOMAIN msgs /\ n # 0 /\ msgs[n].stream = s /\ m \in Message
        /\ held'[s] = 0 /\ tracked'[s] = queue /\ finished' = Pushed(s, queue)
        /\ \/ pc'[s] = "idle" /\ atCua'[s] = atCua[s] \cup RequestsOf(n, m)
           \/ pc'[s] = "closing" /\ atCua'[s] = atCua[s]
        /\ Elsewhere(s) /\ acting' = acting /\ lists' = lists /\ lossy' = lossy
        /\ lease' = lease /\ inflight' = inflight /\ msgs' = msgs /\ replies' = replies
        /\ queue \in Seq(Pending) /\ (~Recorded(m) => queue = tracked[s])
        /\ (Recorded(m) => Adds(queue, tracked[s], n, m.calls[1].id))
        /\ StreamTypes'
    BY SendDoes DEF StreamInv
  <1> HIDE DEF queue
  <1>2. \A t \in Stream : t # s => /\ pc'[t] = pc[t] /\ held'[t] = held[t] /\ tracked'[t] = tracked[t]
                                  /\ atCua'[t] = atCua[t]
    BY <1>1 DEF Elsewhere
  <1>3. \A k \in DOMAIN msgs : k \in 1..MaxSent /\ k # 0 /\ msgs[k].stream \in Stream
    BY TypesAt DEF StreamInv
  <1>4. \A k \in DOMAIN msgs : Withheld(k)' <=> Withheld(k) /\ k # n
    BY <1>1, <1>2, <1>3 DEF Withheld
  <1>5. Withheld(n) /\ tracked[s] \in Seq(Pending)
    BY <1>1, TypesAt DEF Withheld, StreamInv
  <1>6. /\ Recorded(m) => n \in CallsOf(queue)
        /\ \A k \in CallsOf(queue) : (k = n /\ Recorded(m)) \/ k \in CallsOf(tracked[s])
    BY <1>1, <1>5, AddsCalls
  <1>7. \A r \in RequestsOf(n, m) : r.msg = n
    BY DEF RequestsOf
  <1>8. HeldIsOwn'
    BY <1>1, <1>2 DEF StreamInv, HeldIsOwn
  <1>9. RequestsAreOwn'
    <2>1. \A t \in Stream : \A r \in atCua'[t] : r \in atCua[t] \/ (t = s /\ r \in RequestsOf(n, m))
      BY <1>1, <1>2
    <2>2. \A t \in Stream : \A r \in atCua[t] : r.msg \in DOMAIN msgs /\ Awaited(r) /\ StreamOf(r) = t /\ ~Withheld(r.msg)
      BY DEF StreamInv, RequestsAreOwn
    <2>3. \A p \in replies : p.to.msg \in DOMAIN msgs /\ Awaited(p.to) /\ ~Withheld(p.to.msg)
      BY DEF StreamInv, RequestsAreOwn
    <2> QED BY <1>1, <1>4, <1>7, <2>1, <2>2, <2>3 DEF RequestsAreOwn, Awaited, StreamOf
  <1>10. RepliesAreOne'
    <2>1. RepliesAreOne
      BY DEF StreamInv
    <2>2. \A p \in replies : p.to \notin RequestsOf(n, m)
      BY <1>5, <1>7 DEF StreamInv, RequestsAreOwn
    <2>3. \A t \in Stream : Live(t)' => /\ Live(t)
                                        /\ atCua'[t] = atCua[t] \cup (IF t = s THEN RequestsOf(n, m) ELSE {})
      BY <1>1, <1>2 DEF Live
    <2>4. ASSUME NEW k \in DOMAIN msgs, Live(msgs[k].stream)', ~Withheld(k)', NEW r \in RequestsOf(k, msgs[k].body)
          PROVE  r \in atCua'[msgs[k].stream] \/ \E p \in replies : p.to = r
      <3>1. CASE k = n
        BY <1>1, <1>3, <2>3, <2>4, <3>1
      <3>2. CASE k # n
        <4>1. Live(msgs[k].stream) /\ ~Withheld(k) /\ atCua[msgs[k].stream] \subseteq atCua'[msgs[k].stream]
          BY <1>1, <1>3, <1>4, <2>3, <2>4, <3>2
        <4>2. r \in atCua[msgs[k].stream] \/ \E p \in replies : p.to = r
          BY <2>1, <2>4, <4>1 DEF RepliesAreOne
        <4> QED BY <4>1, <4>2
      <3> QED BY <3>1, <3>2
    <2>5. \A t \in Stream : Live(t)' => \A r \in atCua'[t] : \A p \in replies : p.to # r
      BY <2>1, <2>2, <2>3 DEF RepliesAreOne
    <2> QED BY <1>1, <2>1, <2>4, <2>5 DEF RepliesAreOne
  <1>11. TrackedAreOwn'
    <2>1. \A t \in Stream : Apart(tracked[t]) /\ \A p \in ToSet(tracked[t]) : Own(p, t)
      BY DEF StreamInv, TrackedAreOwn
    <2>2. \A t \in Stream : \A p : Own(p, t) => Own(p, t)'
      BY <1>1, <1>4 DEF Own
    <2>3. CASE ~Recorded(m)
      <3>1. \A t \in Stream : tracked'[t] = tracked[t]
        BY <1>1, <1>2, <2>3
      <3> QED BY <2>1, <2>2, <3>1 DEF TrackedAreOwn
    <2>4. CASE Recorded(m)
      <3>1. Comes(queue, tracked[s], n, m.calls[1].id) /\ Apart(queue)
        <4>1. Comes(queue, tracked[s], n, m.calls[1].id)
          BY <1>1, <1>5, <2>4, AddsCalls
        <4>2. Apart(queue)
          BY <1>1, <2>4 DEF Adds
        <4> QED BY <4>1, <4>2
      <3>2. \A p : p.id = m.calls[1].id /\ p.call = n => Own(p, s)'
        BY <1>1, <1>4, <2>4 DEF Own
      <3>3. \A p \in ToSet(queue) : Own(p, s)'
        BY <2>1, <2>2, <3>1, <3>2 DEF Comes
      <3>4. \A t \in Stream : tracked'[t] = IF t = s THEN queue ELSE tracked[t]
        BY <1>1, <1>2
      <3> QED BY <2>1, <2>2, <3>1, <3>3, <3>4 DEF TrackedAreOwn
    <2> QED BY <2>3, <2>4
  <1>12. /\ \A k \in 1..MaxSent : k \notin CallsOf(tracked[s]) \ CallsOf(queue) => finished'[k] = finished[k]
         /\ \A k \in CallsOf(tracked[s]) \ CallsOf(queue) : k \in 1..MaxSent /\ finished[k] = <<>> =>
               Len(finished'[k]) = 1 /\ finished'[k][1] = "no_reply"
    <2>1. StreamTypes /\ finished' = Finish(finished, CallsOf(tracked[s]) \ CallsOf(queue), "no_reply")
      BY <1>1 DEF StreamInv, Pushed
    <2> QED BY <2>1, FinishLogs
  <1>13. \A k \in CallsOf(tracked[s]) :
            /\ k \in DOMAIN msgs /\ k \in 1..MaxSent /\ msgs[k].stream = s /\ ~Withheld(k)
            /\ Recorded(msgs[k].body) /\ finished[k] = <<>>
    BY TrackedIsOpen DEF StreamInv
  <1>14. FinishedOnce'
    <2>1. FinishedOnce /\ StreamTypes
      BY DEF StreamInv
    <2>2. ASSUME NEW k \in 1..MaxSent
          PROVE  IF k \in DOMAIN msgs /\ Recorded(msgs[k].body) /\ ~Withheld(k)'
                 THEN Len(finished'[k]) = IF k \in CallsOf(tracked'[msgs[k].stream]) THEN 0 ELSE 1
                 ELSE finished'[k] = <<>>
      <3>1. CASE k \in CallsOf(tracked[s]) \ CallsOf(queue)
        BY <1>1, <1>4, <1>12, <1>13, <3>1
      <3>2. CASE k = n
        <4>1. finished'[k] = <<>>
          BY <1>5, <1>12, <1>13, <2>1, <3>2 DEF FinishedOnce
        <4>2. Len(finished'[k]) = 0
          BY <4>1
        <4> QED BY <1>1, <1>6, <3>2, <4>1, <4>2
      <3>3. CASE k \notin CallsOf(tracked[s]) \ CallsOf(queue) /\ k # n
        <4>1. finished'[k] = finished[k]
          BY <1>12, <3>3
        <4>2. k \in DOMAIN msgs => (k \in CallsOf(tracked'[msgs[k].stream]) <=> k \in CallsOf(tracked[msgs[k].stream]))
          BY <1>1, <1>2, <1>3, <1>6, <3>3
        <4> QED BY <1>4, <2>1, <3>3, <4>1, <4>2 DEF FinishedOnce
      <3> QED BY <3>1, <3>2, <3>3
    <2> QED BY <1>1, <2>2 DEF FinishedOnce
  <1>15. TrackedAreAsked'
    <2>1. TrackedAreAsked /\ HeldIsNew
      BY DEF StreamInv
    <2>2. ASSUME Neat(s), pc'[s] = "idle"
          PROVE  /\ \A r \in atCua'[s] : Recorded(msgs[r.msg].body) => r.msg \in CallsOf(queue)
                 /\ \A p \in ToSet(queue) : \E r \in atCua'[s] : r.msg = p.call /\ r.id = p.id
                 /\ \A q, r \in atCua'[s] : q.id = r.id => q = r
      <3>1. atCua'[s] = atCua[s] \cup RequestsOf(n, m)
        BY <1>1, <2>2
      <3>2. /\ \A r \in atCua[s] : Recorded(msgs[r.msg].body) => r.msg \in CallsOf(tracked[s])
            /\ \A p \in ToSet(tracked[s]) : \E r \in atCua[s] : r.msg = p.call /\ r.id = p.id
            /\ \A q, r \in atCua[s] : q.id = r.id => q = r
        BY <1>1, <2>1, <2>2 DEF TrackedAreAsked, Live
      <3>3. /\ \A r \in RequestsOf(n, m) : /\ \A q \in atCua[s] : q.id # r.id
                                           /\ \A q \in RequestsOf(n, m) : q.id = r.id => q = r
            /\ Recorded(m) => Len(tracked[s]) < PendingCap
        BY <1>1, <2>1, <2>2 DEF HeldIsNew
      <3>4. \A q, r \in atCua'[s] : q.id = r.id => q = r
        BY <3>1, <3>2, <3>3
      <3>5. CASE ~Recorded(m)
        BY <1>1, <1>7, <3>1, <3>2, <3>4, <3>5
      <3>6. CASE Recorded(m)
        <4>1. \E r \in RequestsOf(n, m) : r.msg = n /\ r.id = m.calls[1].id
          <5>1. 1 \in DOMAIN m.calls /\ m.calls[1].id # NoId
            BY <1>1, <3>6, CallPositions DEF Recorded
          <5> DEFINE r == [msg |-> n, nth |-> 1, kind |-> m.calls[1].kind, id |-> m.calls[1].id]
          <5>2. r \in RequestsOf(n, m)
            BY <5>1 DEF RequestsOf
          <5>3. r.msg = n /\ r.id = m.calls[1].id
            OBVIOUS
          <5> QED BY <5>2, <5>3
        <4>2. \A i \in 1..Len(tracked[s]) : tracked[s][i].id # m.calls[1].id
          <5>1. \A p \in ToSet(tracked[s]) : p.id # m.calls[1].id
            BY <3>2, <3>3, <4>1
          <5> QED BY <1>5, <5>1 DEF ToSet
        <4>3. \A i \in 1..Len(tracked[s]) : \E j \in 1..(Len(queue) - 1) : queue[j] = tracked[s][i]
          BY <1>1, <3>3, <3>6, <4>2 DEF Adds
        <4>4. Len(queue) \in Nat \ {0} /\ DOMAIN queue = 1..Len(queue)
          BY <1>1, <3>6 DEF Adds
        <4>5. CallsOf(tracked[s]) \subseteq CallsOf(queue)
          <5>1. ASSUME NEW i \in 1..Len(tracked[s]) PROVE tracked[s][i].call \in CallsOf(queue)
            <6>1. PICK j \in 1..(Len(queue) - 1) : queue[j] = tracked[s][i]
              BY <4>3
            <6>2. j \in DOMAIN queue
              BY <4>4
            <6> QED BY <6>1, <6>2 DEF CallsOf
          <5>2. DOMAIN tracked[s] = 1..Len(tracked[s])
            BY <1>5
          <5> QED BY <5>1, <5>2 DEF CallsOf
        <4>6. Comes(queue, tracked[s], n, m.calls[1].id)
          BY <1>1, <1>5, <3>6, AddsCalls
        <4>7. \A p \in ToSet(queue) : \E r \in atCua'[s] : r.msg = p.call /\ r.id = p.id
          BY <3>1, <3>2, <4>1, <4>6 DEF Comes
        <4>8. \A r \in atCua'[s] : Recorded(msgs[r.msg].body) => r.msg \in CallsOf(queue)
          BY <1>6, <1>7, <3>1, <3>2, <3>6, <4>5
        <4> QED BY <3>4, <4>7, <4>8
      <3> QED BY <3>5, <3>6
    <2>3. \A t \in Stream : Live(t)' => Live(t) /\ (t # s \/ pc'[s] = "idle")
      BY <1>1, <1>2 DEF Live
    <2> QED BY <1>1, <1>2, <2>1, <2>2, <2>3 DEF TrackedAreAsked, Neat
  <1>16. HeldIsNew'
    BY <1>1, <1>2 DEF StreamInv, HeldIsNew, Neat
  <1>17. OutcomesAreTrue'
    <2>1. OutcomesAreTrue
      BY DEF StreamInv
    <2>2. \A k \in DOMAIN msgs : /\ Outcomes(k)' <=> Outcomes(k)
                                 /\ pc'[msgs[k].stream] # "closed" => pc[msgs[k].stream] # "closed"
      BY <1>1, <1>2, <1>3 DEF Outcomes
    <2>3. ~Outcomes(n)
      BY <1>5 DEF Outcomes, StreamInv, RequestsAreOwn
    <2>4. ASSUME NEW k \in DOMAIN msgs, Neat(msgs[k].stream), pc[msgs[k].stream] # "closed"
          PROVE  /\ finished'[k] # <<>> => (finished'[k][1] = "answer" <=> Outcomes(k))
                 /\ k \in CallsOf(tracked'[msgs[k].stream]) => ~Outcomes(k)
      <3>1. CASE k \in CallsOf(tracked[s]) \ CallsOf(queue)
        <4>1. msgs[k].stream = s /\ finished'[k][1] = "no_reply"
          BY <1>12, <1>13, <3>1
        <4>2. ~Outcomes(k)
          BY <2>1, <2>4, <3>1, <4>1 DEF OutcomesAreTrue
        <4> QED BY <4>1, <4>2
      <3>2. CASE k = n
        <4>1. finished'[k] = finished[k] /\ finished[k] = <<>>
          <5>1. FinishedOnce /\ n \in 1..MaxSent /\ n \notin CallsOf(tracked[s])
            BY <1>1, <1>3, <1>5, <1>13 DEF StreamInv
          <5> QED BY <1>5, <1>12, <3>2, <5>1 DEF FinishedOnce
        <4> QED BY <2>3, <3>2, <4>1
      <3>3. CASE k \notin CallsOf(tracked[s]) \ CallsOf(queue) /\ k # n
        <4>1. finished'[k] = finished[k]
          BY <1>3, <1>12, <3>3
        <4>2. k \in CallsOf(tracked'[msgs[k].stream]) => k \in CallsOf(tracked[msgs[k].stream])
          BY <1>1, <1>2, <1>3, <1>6, <3>3
        <4> QED BY <2>1, <2>4, <4>1, <4>2 DEF OutcomesAreTrue
      <3> QED BY <3>1, <3>2, <3>3
    <2> QED BY <1>1, <2>2, <2>4 DEF OutcomesAreTrue, Neat
  <1>18. \A t \in Stream : /\ Outstanding(t)' \subseteq Outstanding(t)
                           /\ (Live(t)' => Live(t)) /\ (StreamOpen(t)' => StreamOpen(t))
    BY <1>1, <1>2 DEF Outstanding, Live, StreamOpen
  <1>19. ListsAreNoted' /\ ActingAreNoted'
    BY <1>1, <1>18 DEF StreamInv, ListsAreNoted, ActingAreNoted, Neat, StreamOf
  <1>20. Counted' /\ HumanIsQuiet'
    BY <1>1 DEF StreamInv, Counted, HumanIsQuiet
  <1> QED BY <1>1, <1>8, <1>9, <1>10, <1>11, <1>14, <1>15, <1>16, <1>17, <1>19, <1>20 DEF StreamInv

\* What is left of the tracker's queue when an id is answered.
Leaves(w, q, id) ==
    /\ ToSet(w) \subseteq ToSet(q) /\ Apart(w)
    /\ \A p \in ToSet(w) : p.id # id
    /\ \A p \in ToSet(q) : IF p.id = id THEN p.call \notin CallsOf(w) ELSE p \in ToSet(w)

LEMMA WithoutIdLeaves ==
  ASSUME NEW q \in Seq(Pending), NEW id, Apart(q)
  PROVE  Leaves(WithoutId(q, id), q, id) /\ WithoutId(q, id) \in Seq(Pending)
  <1> DEFINE w == WithoutId(q, id)
  <1>1. /\ w \in Seq(Pending) /\ Drawn(w, q) /\ Apart(w)
        /\ \A j \in 1..Len(w) : w[j].id # id
        /\ \A i \in 1..Len(q) : q[i].id # id => q[i].call \in CallsOf(w)
        /\ \A i \in 1..Len(q) : q[i].id = id => q[i].call \notin CallsOf(w)
    BY WithoutIdDraws
  <1> HIDE DEF w
  <1>2. DOMAIN w = 1..Len(w) /\ DOMAIN q = 1..Len(q)
    BY <1>1
  <1>3. ToSet(w) \subseteq ToSet(q)
    BY <1>1, <1>2 DEF Drawn, ToSet
  <1>4. \A p \in ToSet(w) : p.id # id
    BY <1>1, <1>2 DEF ToSet
  <1>5. ASSUME NEW i \in 1..Len(q), q[i].id # id PROVE q[i] \in ToSet(w)
    <2>1. PICK j \in 1..Len(w) : w[j].call = q[i].call
      BY <1>1, <1>2, <1>5 DEF CallsOf
    <2>2. PICK k \in 1..Len(q) : w[j] = q[k]
      BY <1>1 DEF Drawn
    <2>3. k = i
      BY <2>1, <2>2 DEF Apart
    <2> QED BY <1>2, <2>2, <2>3 DEF ToSet
  <1>6. ASSUME NEW p \in ToSet(q)
        PROVE  IF p.id = id THEN p.call \notin CallsOf(w) ELSE p \in ToSet(w)
    <2>1. PICK i \in 1..Len(q) : p = q[i]
      BY <1>2 DEF ToSet
    <2> QED BY <1>1, <1>5, <2>1
  <1>7. Leaves(w, q, id)
    BY <1>1, <1>3, <1>4, <1>6 DEF Leaves
  <1> QED BY <1>1, <1>7 DEF w

\* A message that is recorded has one request.
LEMMA RecordedIsOne ==
  ASSUME NEW m \in Message, Recorded(m), NEW n, NEW r \in RequestsOf(n, m)
  PROVE  r.id = m.calls[1].id
  <1>1. DOMAIN m.calls = 1..1
    BY MessageAssumption DEF Recorded
  <1>2. PICK i \in DOMAIN m.calls : r = [msg |-> n, nth |-> i, kind |-> m.calls[i].kind, id |-> m.calls[i].id]
    BY DEF RequestsOf
  <1>3. i = 1
    BY <1>1
  <1> QED BY <1>2, <1>3

LEMMA CallsAreEntries == ASSUME NEW q PROVE CallsOf(q) = {p.call : p \in ToSet(q)}
  BY DEF CallsOf, ToSet

LEMMA OutboundKeeps ==
  ASSUME StreamInv, NEW s \in Stream, NEW r \in atCua[s], Outbound(s, r)
  PROVE  StreamInv'
  <1> DEFINE rest == WithoutId(tracked[s], r.id)
             gone == CallsOf(tracked[s]) \ CallsOf(rest)
  <1>1. /\ pc[s] = "idle" /\ pc'[s] \in {"idle", "closing"}
        /\ atCua'[s] = atCua[s] \ {r} /\ tracked'[s] = rest
        /\ acting'[s] = RemoveFirst(acting[s], r.id) /\ lists'[s] = RemoveFirst(lists[s], r.id)
        /\ finished' = Finish(finished, gone, "answer")
        /\ Elsewhere(s) /\ lossy' = lossy /\ lease' = lease /\ held' = held /\ msgs' = msgs
        /\ inflight' \in Nat /\ inflight' + Len(acting[s]) = inflight + Len(acting'[s])
        /\ inflight' <= inflight
        /\ StreamTypes'
    BY OutboundDoes DEF StreamInv
  <1>2. PICK what \in {"patched", "answer", "lost"} :
            /\ replies' = replies \cup {[to |-> r, what |-> what]}
            /\ r.id \in ToSet(lists[s]) => what # "answer"
    BY OutboundDoes DEF StreamInv
  <1>3. Leaves(rest, tracked[s], r.id)
    <2>1. tracked[s] \in Seq(Pending) /\ Apart(tracked[s])
      BY TypesAt DEF StreamInv, TrackedAreOwn
    <2> QED BY <2>1, WithoutIdLeaves
  <1>4. CallsOf(tracked[s]) = {p.call : p \in ToSet(tracked[s])} /\ CallsOf(rest) = {p.call : p \in ToSet(rest)}
    BY CallsAreEntries
  <1> HIDE DEF rest
  <1>5. CallsOf(rest) \subseteq CallsOf(tracked[s])
    BY <1>3, <1>4 DEF Leaves
  <1>6. \A t \in Stream : t # s => /\ pc'[t] = pc[t] /\ tracked'[t] = tracked[t] /\ atCua'[t] = atCua[t]
                                  /\ lists'[t] = lists[t] /\ acting'[t] = acting[t]
    BY <1>1 DEF Elsewhere
  <1>7. \A k \in DOMAIN msgs : k \in 1..MaxSent /\ msgs[k].stream \in Stream /\ msgs[k].body \in Message
    BY TypesAt DEF StreamInv
  <1>8. /\ r.msg \in DOMAIN msgs /\ Awaited(r) /\ StreamOf(r) = s /\ msgs[r.msg].stream = s
        /\ r \in RequestsOf(r.msg, msgs[r.msg].body) /\ ~Withheld(r.msg)
    BY DEF StreamInv, RequestsAreOwn, Awaited, StreamOf
  <1>9. \A p \in replies' : p \in replies \/ (p.to = r /\ p.what = what)
    BY <1>2
  <1>10. HeldIsOwn'
    BY <1>1, <1>6 DEF StreamInv, HeldIsOwn
  <1>11. RequestsAreOwn'
    <2>1. \A q : (Withheld(q.msg)' <=> Withheld(q.msg)) /\ (Awaited(q)' <=> Awaited(q)) /\ StreamOf(q)' = StreamOf(q)
      BY <1>1 DEF Withheld, Awaited, StreamOf
    <2>2. \A t \in Stream : atCua'[t] \subseteq atCua[t]
      BY <1>1, <1>6
    <2>3. DOMAIN msgs' = DOMAIN msgs
      BY <1>1
    <2> QED BY <1>8, <1>9, <2>1, <2>2, <2>3 DEF StreamInv, RequestsAreOwn
  <1>12. RepliesAreOne'
    <2>1. RepliesAreOne
      BY DEF StreamInv
    <2>2. \A p \in replies : p.to # r
      BY <1>1, <2>1 DEF RepliesAreOne, Live
    <2>3. \A p, q \in replies' : p.to = q.to => p = q
      BY <1>2, <2>1, <2>2 DEF RepliesAreOne
    <2>4. \A t \in Stream : r \notin atCua'[t] /\ atCua'[t] \subseteq atCua[t] /\ (Live(t)' => Live(t))
      BY <1>1, <1>6, <1>8 DEF Live, StreamInv, RequestsAreOwn
    <2>5. \A t \in Stream : Live(t)' => \A q \in atCua'[t] : \A p \in replies' : p.to # q
      BY <1>9, <2>1, <2>4 DEF RepliesAreOne
    <2>6. ASSUME NEW k \in DOMAIN msgs, Live(msgs[k].stream)', ~Withheld(k)', NEW q \in RequestsOf(k, msgs[k].body)
          PROVE  q \in atCua'[msgs[k].stream] \/ \E p \in replies' : p.to = q
      <3>1. Live(msgs[k].stream) /\ ~Withheld(k)
        BY <1>1, <1>7, <2>4, <2>6 DEF Withheld
      <3>2. q \in atCua[msgs[k].stream] \/ \E p \in replies : p.to = q
        BY <2>1, <2>6, <3>1 DEF RepliesAreOne
      <3>3. [to |-> r, what |-> what] \in replies' /\ [to |-> r, what |-> what].to = r /\ replies \subseteq replies'
        BY <1>2
      <3>4. q \in atCua[msgs[k].stream] => q = r \/ q \in atCua'[msgs[k].stream]
        BY <1>1, <1>6, <1>7
      <3> QED BY <3>2, <3>3, <3>4
    <2> QED BY <1>1, <2>3, <2>5, <2>6 DEF RepliesAreOne
  <1>13. TrackedAreOwn'
    <2>1. \A t \in Stream : tracked'[t] = IF t = s THEN rest ELSE tracked[t]
      BY <1>1, <1>6
    <2>2. \A t \in Stream : \A p : Own(p, t)' <=> Own(p, t)
      BY <1>1 DEF Own, Withheld
    <2> QED BY <1>3, <2>1, <2>2 DEF StreamInv, TrackedAreOwn, Leaves
  <1>14. /\ \A k \in 1..MaxSent : k \notin gone => finished'[k] = finished[k]
         /\ \A k \in gone : k \in 1..MaxSent /\ finished[k] = <<>> =>
               Len(finished'[k]) = 1 /\ finished'[k][1] = "answer"
    <2>1. StreamTypes /\ finished' = Finish(finished, gone, "answer")
      BY <1>1 DEF StreamInv
    <2> QED BY <2>1, FinishLogs
  <1>15. \A k \in CallsOf(tracked[s]) :
            /\ k \in DOMAIN msgs /\ k \in 1..MaxSent /\ msgs[k].stream = s /\ ~Withheld(k)
            /\ Recorded(msgs[k].body) /\ finished[k] = <<>>
    BY TrackedIsOpen DEF StreamInv
  <1>16. FinishedOnce'
    <2>1. FinishedOnce
      BY DEF StreamInv
    <2>2. ASSUME NEW k \in 1..MaxSent
          PROVE  IF k \in DOMAIN msgs /\ Recorded(msgs[k].body) /\ ~Withheld(k)
                 THEN Len(finished'[k]) = IF k \in CallsOf(tracked'[msgs[k].stream]) THEN 0 ELSE 1
                 ELSE finished'[k] = <<>>
      <3>1. CASE k \in gone
        BY <1>1, <1>14, <1>15, <3>1
      <3>2. CASE k \notin gone
        <4>1. finished'[k] = finished[k]
          BY <1>14, <3>2
        <4>2. k \in DOMAIN msgs => (k \in CallsOf(tracked'[msgs[k].stream]) <=> k \in CallsOf(tracked[msgs[k].stream]))
          BY <1>1, <1>5, <1>6, <1>7, <3>2
        <4> QED BY <2>1, <4>1, <4>2 DEF FinishedOnce
      <3> QED BY <3>1, <3>2
    <2> QED BY <1>1, <2>2 DEF FinishedOnce, Withheld
  <1>17. ASSUME Neat(s)
         PROVE  /\ \A q \in atCua[s] : Recorded(msgs[q.msg].body) =>
                      \E p \in ToSet(tracked[s]) : p.call = q.msg /\ p.id = q.id
                /\ \A p \in ToSet(tracked[s]) : \E q \in atCua[s] : q.msg = p.call /\ q.id = p.id
                /\ \A q \in atCua[s] : q.id = r.id => q = r
    <2>1. /\ \A q \in atCua[s] : Recorded(msgs[q.msg].body) => q.msg \in CallsOf(tracked[s])
          /\ \A p \in ToSet(tracked[s]) : \E q \in atCua[s] : q.msg = p.call /\ q.id = p.id
          /\ \A q \in atCua[s] : q.id = r.id => q = r
      BY <1>1, <1>17 DEF StreamInv, TrackedAreAsked, Live
    <2>2. ASSUME NEW q \in atCua[s], Recorded(msgs[q.msg].body)
          PROVE  \E p \in ToSet(tracked[s]) : p.call = q.msg /\ p.id = q.id
      <3>1. PICK p \in ToSet(tracked[s]) : p.call = q.msg
        BY <1>4, <2>1, <2>2
      <3>2. p.id = msgs[q.msg].body.calls[1].id
        BY <3>1 DEF StreamInv, TrackedAreOwn, Own
      <3>3. q \in RequestsOf(q.msg, msgs[q.msg].body) /\ msgs[q.msg].body \in Message
        BY <1>7 DEF StreamInv, RequestsAreOwn, Awaited
      <3>4. q.id = msgs[q.msg].body.calls[1].id
        BY <2>2, <3>3, RecordedIsOne
      <3> QED BY <3>1, <3>2, <3>4
    <2> QED BY <2>1, <2>2
  <1>18. TrackedAreAsked'
    <2>1. TrackedAreAsked
      BY DEF StreamInv
    <2>2. ASSUME Neat(s)
          PROVE  /\ \A q \in atCua'[s] : Recorded(msgs[q.msg].body) => q.msg \in CallsOf(rest)
                 /\ \A p \in ToSet(rest) : \E q \in atCua'[s] : q.msg = p.call /\ q.id = p.id
                 /\ \A p, q \in atCua'[s] : p.id = q.id => p = q
      <3>1. ASSUME NEW q \in atCua'[s], Recorded(msgs[q.msg].body) PROVE q.msg \in CallsOf(rest)
        <4>1. q \in atCua[s] /\ q # r
          BY <1>1, <3>1
        <4>2. PICK p \in ToSet(tracked[s]) : p.call = q.msg /\ p.id = q.id
          BY <1>17, <2>2, <3>1, <4>1
        <4>3. p.id # r.id
          BY <1>17, <2>2, <4>1, <4>2
        <4> QED BY <1>3, <1>4, <4>2, <4>3 DEF Leaves
      <3>2. ASSUME NEW p \in ToSet(rest) PROVE \E q \in atCua'[s] : q.msg = p.call /\ q.id = p.id
        <4>1. p \in ToSet(tracked[s]) /\ p.id # r.id
          BY <1>3 DEF Leaves
        <4>2. PICK q \in atCua[s] : q.msg = p.call /\ q.id = p.id
          BY <1>17, <2>2, <4>1
        <4> QED BY <1>1, <4>1, <4>2
      <3>3. \A p, q \in atCua'[s] : p.id = q.id => p = q
        BY <1>1, <2>1, <2>2 DEF TrackedAreAsked, Live
      <3> QED BY <3>1, <3>2, <3>3
    <2>3. \A t \in Stream : Live(t)' => Live(t)
      BY <1>1, <1>6 DEF Live
    <2> QED BY <1>1, <1>6, <2>1, <2>2, <2>3 DEF TrackedAreAsked, Neat
  <1>19. HeldIsNew'
    BY <1>1, <1>6 DEF StreamInv, HeldIsNew, Neat
  <1>20. OutcomesAreTrue'
    <2>1. OutcomesAreTrue /\ FinishedOnce
      BY DEF StreamInv
    <2>2. \A k \in DOMAIN msgs : pc'[msgs[k].stream] # "closed" => pc[msgs[k].stream] # "closed"
      BY <1>1, <1>6, <1>7
    <2>3. /\ \A k : k # r.msg => (Outcomes(k)' <=> Outcomes(k))
          /\ Outcomes(r.msg)'
      <3>1. [to |-> r, what |-> what].to = r /\ [to |-> r, what |-> what].what = what /\ what # "refusal"
        BY <1>2
      <3>2. r.msg' = r.msg
        OBVIOUS
      <3> QED BY <1>2, <1>9, <3>1 DEF Outcomes
    <2>4. ASSUME NEW k \in DOMAIN msgs, Neat(msgs[k].stream), pc[msgs[k].stream] # "closed"
          PROVE  /\ finished'[k] # <<>> => (finished'[k][1] = "answer" <=> Outcomes(k)')
                 /\ k \in CallsOf(tracked'[msgs[k].stream]) => ~Outcomes(k)'
      <3>1. CASE k \in gone
        <4>1. msgs[k].stream = s /\ finished'[k][1] = "answer" /\ k \notin CallsOf(tracked'[msgs[k].stream])
          BY <1>1, <1>14, <1>15, <3>1
        <4>2. PICK p \in ToSet(tracked[s]) : p.call = k
          BY <1>4, <3>1
        <4>3. p.id = r.id
          <5>1. p.id # r.id => p.call \in CallsOf(rest)
            BY <1>3, <1>4 DEF Leaves
          <5> QED BY <3>1, <4>2, <5>1
        <4>4. PICK q \in atCua[s] : q.msg = k /\ q.id = r.id
          BY <1>17, <2>4, <4>1, <4>2, <4>3
        <4>5. q = r
          BY <1>17, <2>4, <4>1, <4>4
        <4> QED BY <2>3, <4>1, <4>4, <4>5
      <3>2. CASE k \notin gone /\ k = r.msg
        <4>1. msgs[k].stream = s
          BY <1>8, <3>2
        <4>2. ~Recorded(msgs[k].body)
          <5>1. SUFFICES ASSUME Recorded(msgs[k].body) PROVE FALSE
            OBVIOUS
          <5>2. PICK p \in ToSet(tracked[s]) : p.call = k /\ p.id = r.id
            BY <1>17, <2>4, <3>2, <4>1, <5>1
          <5>3. k \in CallsOf(tracked[s]) /\ k \notin CallsOf(rest)
            BY <1>3, <1>4, <5>2 DEF Leaves
          <5> QED BY <3>2, <5>3
        <4>3. finished[k] = <<>> /\ finished'[k] = finished[k]
          BY <1>7, <1>14, <2>1, <3>2, <4>2 DEF FinishedOnce
        <4>4. k \notin CallsOf(rest)
          BY <1>5, <1>15, <4>2
        <4> QED BY <1>1, <4>1, <4>3, <4>4
      <3>3. CASE k \notin gone /\ k # r.msg
        <4>1. finished'[k] = finished[k] /\ (Outcomes(k)' <=> Outcomes(k))
          BY <1>7, <1>14, <2>3, <3>3
        <4>2. k \in CallsOf(tracked'[msgs[k].stream]) => k \in CallsOf(tracked[msgs[k].stream])
          BY <1>1, <1>5, <1>6, <1>7
        <4> QED BY <2>1, <2>4, <4>1, <4>2 DEF OutcomesAreTrue
      <3> QED BY <3>1, <3>2, <3>3
    <2> QED BY <1>1, <2>2, <2>4 DEF OutcomesAreTrue, Neat
  <1>21. /\ acting[s] \in Seq(Ids) /\ lists[s] \in Seq(Ids)
         /\ \A e \in ToSet(acting[s]) : e # r.id => e \in ToSet(acting'[s])
         /\ \A e \in ToSet(lists[s]) : e # r.id => e \in ToSet(lists'[s])
    <2>1. acting[s] \in Seq(Ids) /\ lists[s] \in Seq(Ids)
      BY TypesAt DEF StreamInv
    <2> QED BY <1>1, <2>1, RemoveFirstKeeps
  <1>22. /\ Outstanding(s) = atCua[s] /\ Outstanding(s)' = atCua[s] \ {r}
         /\ \A t \in Stream : t # s => Outstanding(t)' = Outstanding(t)
         /\ \A t \in Stream : (Live(t)' => Live(t)) /\ (StreamOpen(t)' => StreamOpen(t))
    BY <1>1, <1>6 DEF Outstanding, Live, StreamOpen
  <1>23. Neat(s) => \A q \in Outstanding(s)' : q.id # r.id
    BY <1>17, <1>22
  <1>24. ListsAreNoted'
    <2>1. ListsAreNoted
      BY DEF StreamInv
    <2>2. ASSUME NEW t \in Stream, Neat(t), Live(t)', NEW q \in Outstanding(t)', q.kind = "list"
          PROVE  q.id \in ToSet(lists'[t])
      <3>1. CASE t = s
        BY <1>21, <1>22, <1>23, <2>1, <2>2, <3>1 DEF ListsAreNoted
      <3>2. CASE t # s
        BY <1>6, <1>22, <2>1, <2>2, <3>2 DEF ListsAreNoted
      <3> QED BY <3>1, <3>2
    <2>3. ASSUME NEW p \in replies', Neat(StreamOf(p.to)), p.to.kind = "list" PROVE p.what # "answer"
      <3>1. CASE p \in replies
        BY <2>1, <2>3, <3>1 DEF ListsAreNoted
      <3>2. CASE p.to = r /\ p.what = what
        <4>1. Neat(s) /\ Live(s) /\ r.kind = "list"
          BY <1>1, <1>8, <2>3, <3>2 DEF Live
        <4>2. r.id \in ToSet(lists[s])
          BY <1>22, <2>1, <4>1 DEF ListsAreNoted
        <4> QED BY <1>2, <3>2, <4>2
      <3> QED BY <1>9, <3>1, <3>2
    <2> QED BY <1>1, <2>2, <2>3 DEF ListsAreNoted, Neat, StreamOf
  <1>25. ActingAreNoted'
    <2>1. ActingAreNoted
      BY DEF StreamInv
    <2>2. ASSUME NEW t \in Stream, Neat(t), StreamOpen(t)', NEW q \in Outstanding(t)', q.kind = "acting"
          PROVE  q.id \in ToSet(acting'[t])
      <3>1. CASE t = s
        BY <1>21, <1>22, <1>23, <2>1, <2>2, <3>1 DEF ActingAreNoted
      <3>2. CASE t # s
        BY <1>6, <1>22, <2>1, <2>2, <3>2 DEF ActingAreNoted
      <3> QED BY <3>1, <3>2
    <2> QED BY <1>1, <2>2 DEF ActingAreNoted, Neat
  <1>26. Counted'
    BY <1>1, CountFollows DEF StreamInv
  <1>27. HumanIsQuiet'
    BY <1>1, CountsAreNat DEF StreamInv, HumanIsQuiet
  <1> QED BY <1>1, <1>10, <1>11, <1>12, <1>13, <1>16, <1>18, <1>19, <1>20, <1>24, <1>25, <1>26, <1>27 DEF StreamInv

\* What a message that comes in leaves as it was.
LEMMA BeginsLeaves ==
  ASSUME StreamInv, NEW s \in Stream, NEW m \in Message, NEW n, Arrives(s, m, n), Elsewhere(s), held'[s] \in {0, n}
  PROVE  /\ \A k \in DOMAIN msgs :
               /\ k \in 1..MaxSent /\ k # n /\ k # 0 /\ k \in DOMAIN msgs' /\ msgs'[k] = msgs[k]
               /\ msgs[k].stream \in Stream /\ msgs[k].body \in Message
               /\ (Withheld(k)' <=> Withheld(k))
         /\ \A k \in DOMAIN msgs' : k \in DOMAIN msgs \/ k = n
         /\ Withheld(n)' <=> held'[s] = n
         /\ \A t \in Stream : (Neat(t)' => Neat(t)) /\ n \notin CallsOf(tracked[t])
         /\ finished[n] = <<>> /\ ~Outcomes(n)
         /\ \A r \in RequestsOf(n, m) : r.msg = n
         /\ \A p, t : Own(p, t) => Own(p, t)'
         /\ \A r : r.msg \in DOMAIN msgs => (Awaited(r)' <=> Awaited(r)) /\ StreamOf(r)' = StreamOf(r)
  <1> USE DEF Arrives
  <1>1. \A k \in DOMAIN msgs :
            /\ k \in 1..MaxSent /\ k # n /\ k # 0 /\ k \in DOMAIN msgs' /\ msgs'[k] = msgs[k]
            /\ msgs[k].stream \in Stream /\ msgs[k].body \in Message
    BY TypesAt DEF StreamInv
  <1>2. \A k \in DOMAIN msgs : Withheld(k)' <=> Withheld(k)
    BY <1>1 DEF Withheld, Elsewhere
  <1>3. Withheld(n)' <=> held'[s] = n
    BY DEF Withheld
  <1>4. \A t \in Stream : Neat(t)' => Neat(t)
    BY DEF Neat
  <1>5. \A t \in Stream : n \notin CallsOf(tracked[t])
    BY <1>1, TrackedTypes DEF StreamInv
  <1>6. finished[n] = <<>>
    BY DEF StreamInv, FinishedOnce
  <1>7. ~Outcomes(n)
    BY <1>1 DEF StreamInv, RequestsAreOwn, Outcomes
  <1>8. \A r \in RequestsOf(n, m) : r.msg = n
    BY DEF RequestsOf
  <1>9. \A p, t : Own(p, t) => Own(p, t)'
    BY <1>1, <1>2 DEF Own
  <1>10. \A r : r.msg \in DOMAIN msgs => (Awaited(r)' <=> Awaited(r)) /\ StreamOf(r)' = StreamOf(r)
    BY <1>1 DEF Awaited, StreamOf
  <1>11. \A k \in DOMAIN msgs' : k \in DOMAIN msgs \/ k = n
    OBVIOUS
  <1> QED BY <1>1, <1>2, <1>3, <1>4, <1>5, <1>6, <1>7, <1>8, <1>9, <1>10, <1>11

LEMMA ForwardKeeps ==
  ASSUME StreamInv, NEW s \in Stream, NEW m \in Message, Receive(s, m),
         NEW n, n = Len(msgs'), Forward(s, m, n)
  PROVE  StreamInv'
  <1> DEFINE new == Remembered(s, m)
  <1>1. Arrives(s, m, n) /\ Passes(s, m, n) /\ Elsewhere(s) /\ StreamTypes'
    BY ForwardDoes DEF StreamInv
  <1>2. /\ pc[s] = "idle" /\ pc'[s] = "releasing" /\ held[s] = 0 /\ held'[s] = n /\ n # 0
        /\ tracked' = tracked /\ finished' = finished /\ replies' = replies /\ atCua' = atCua
        /\ DOMAIN msgs' = DOMAIN msgs \cup {n} /\ msgs'[n].stream = s /\ msgs'[n].body = m
        /\ n \in 1..MaxSent /\ n \notin DOMAIN msgs
        /\ lists'[s] = NotedLists(s, m) /\ acting'[s] = new.ids
        /\ inflight' = inflight + Cardinality(CountedCalls(m)) - new.freed
        /\ (ActingCalls(m) = {} /\ lease' = lease) \/ lease' # "human"
        /\ (Neat(s)' => Neat(s) /\ ~Overruns(s, m))
    BY <1>1 DEF Arrives, Passes
  <1>3. /\ \A k \in DOMAIN msgs :
               /\ k \in 1..MaxSent /\ k # n /\ k # 0 /\ k \in DOMAIN msgs' /\ msgs'[k] = msgs[k]
               /\ msgs[k].stream \in Stream /\ msgs[k].body \in Message
               /\ (Withheld(k)' <=> Withheld(k))
        /\ \A k \in DOMAIN msgs' : k \in DOMAIN msgs \/ k = n
        /\ Withheld(n)'
        /\ \A t \in Stream : (Neat(t)' => Neat(t)) /\ n \notin CallsOf(tracked[t])
        /\ finished[n] = <<>> /\ ~Outcomes(n)
        /\ \A r \in RequestsOf(n, m) : r.msg = n
        /\ \A p, t : Own(p, t) => Own(p, t)'
        /\ \A r : r.msg \in DOMAIN msgs => (Awaited(r)' <=> Awaited(r)) /\ StreamOf(r)' = StreamOf(r)
    <2>1. held'[s] \in {0, n} /\ (Withheld(n)' <=> held'[s] = n)
      BY <1>1, <1>2, BeginsLeaves
    <2> QED BY <1>1, <1>2, <2>1, BeginsLeaves
  <1>4. \A t \in Stream : t # s => /\ pc'[t] = pc[t] /\ held'[t] = held[t]
                                  /\ lists'[t] = lists[t] /\ acting'[t] = acting[t]
    BY <1>1 DEF Elsewhere
  <1>5. \A t \in Stream : \A r \in atCua[t] : r.msg \in DOMAIN msgs /\ Awaited(r) /\ StreamOf(r) = t /\ ~Withheld(r.msg)
    BY DEF StreamInv, RequestsAreOwn
  <1>6. \A p \in replies : p.to.msg \in DOMAIN msgs /\ Awaited(p.to) /\ ~Withheld(p.to.msg)
    BY DEF StreamInv, RequestsAreOwn
  <1>7. HeldIsOwn'
    BY <1>2, <1>3, <1>4 DEF StreamInv, HeldIsOwn
  <1>8. RequestsAreOwn'
    BY <1>2, <1>3, <1>5, <1>6 DEF RequestsAreOwn
  <1>9. \A t \in Stream : (Live(t)' <=> Live(t)) /\ (StreamOpen(t)' <=> StreamOpen(t)) /\ (pc'[t] = "closed" <=> pc[t] = "closed")
    BY <1>2, <1>4 DEF Live, StreamOpen
  <1>10. RepliesAreOne'
    <2>1. RepliesAreOne
      BY DEF StreamInv
    <2>2. ASSUME NEW k \in DOMAIN msgs', NEW t \in Stream, t = msgs'[k].stream, Live(t)', ~Withheld(k)',
                 NEW r \in RequestsOf(k, msgs'[k].body)
          PROVE  r \in atCua[t] \/ \E p \in replies : p.to = r
      <3>1. k \in DOMAIN msgs /\ t = msgs[k].stream /\ ~Withheld(k) /\ Live(t) /\ r \in RequestsOf(k, msgs[k].body)
        BY <1>3, <1>9, <2>2
      <3> QED BY <2>1, <3>1 DEF RepliesAreOne
    <2>3. \A k \in DOMAIN msgs' : msgs'[k].stream \in Stream
      BY <1>2, <1>3
    <2>4. \A t \in Stream : Live(t)' => \A r \in atCua[t] : \A p \in replies : p.to # r
      BY <1>9, <2>1 DEF RepliesAreOne
    <2>5. \A k \in DOMAIN msgs' : Live(msgs[k].stream)' /\ ~Withheld(k)' =>
              \A r \in RequestsOf(k, msgs'[k].body) : r \in atCua'[msgs'[k].stream] \/ \E p \in replies' : p.to = r
      BY <1>2, <2>2, <2>3 DEF Live
    <2> QED BY <1>2, <2>1, <2>4, <2>5 DEF RepliesAreOne
  <1>11. TrackedAreOwn'
    BY <1>2, <1>3 DEF StreamInv, TrackedAreOwn
  <1>12. FinishedOnce'
    BY <1>2, <1>3 DEF StreamInv, FinishedOnce
  <1>13. TrackedAreAsked'
    BY <1>2, <1>3, <1>5, <1>9 DEF StreamInv, TrackedAreAsked
  <1>14. HeldIsNew'
    <2>1. ASSUME NEW t \in Stream, Neat(t)', pc'[t] = "releasing", t # s
          PROVE  held'[t] = held[t] /\ held[t] \in DOMAIN msgs /\ Neat(t) /\ pc[t] = "releasing"
      BY <1>3, <1>4, <2>1 DEF StreamInv, HeldIsOwn
    <2>2. ASSUME Neat(s)'
          PROVE  /\ \A r \in RequestsOf(n, m) :
                       /\ \A q \in atCua[s] : q.id # r.id
                       /\ \A q \in RequestsOf(n, m) : q.id = r.id => q = r
                 /\ Recorded(m) => Len(tracked[s]) < PendingCap
      <3>1. ~Overruns(s, m)
        BY <1>2, <2>2
      <3>2. /\ \A i, j \in DOMAIN m.calls : i = j \/ m.calls[i].id # m.calls[j].id \/ m.calls[i].id = NoId
            /\ \A i \in DOMAIN m.calls : \A r \in atCua[s] : r.id # m.calls[i].id
            /\ Recorded(m) => ~(Len(tracked[s]) >= PendingCap)
        BY <3>1 DEF Overruns
      <3>3. Len(tracked[s]) \in Nat
        BY TypesAt DEF StreamInv
      <3>4. \A r \in RequestsOf(n, m) : \E i \in DOMAIN m.calls :
                /\ r = [msg |-> n, nth |-> i, kind |-> m.calls[i].kind, id |-> m.calls[i].id]
                /\ r.id = m.calls[i].id /\ r.id # NoId
        BY DEF RequestsOf
      <3>5. \A r \in RequestsOf(n, m) : \A q \in atCua[s] : q.id # r.id
        BY <3>2, <3>4
      <3>6. \A r, q \in RequestsOf(n, m) : q.id = r.id => q = r
        BY <3>2, <3>4
      <3>7. Recorded(m) => Len(tracked[s]) < PendingCap
        BY <3>2, <3>3, CuaStreamAssumption
      <3> QED BY <3>5, <3>6, <3>7
    <2> QED BY <1>2, <1>3, <2>1, <2>2 DEF StreamInv, HeldIsNew
  <1>15. OutcomesAreTrue'
    <2>1. \A k : Outcomes(k)' <=> Outcomes(k)
      BY <1>2 DEF Outcomes
    <2>2. OutcomesAreTrue
      BY DEF StreamInv
    <2>3. ASSUME NEW k \in DOMAIN msgs', NEW t \in Stream, t = msgs'[k].stream, Neat(t)', pc'[t] # "closed"
          PROVE  /\ finished[k] # <<>> => (finished[k][1] = "answer" <=> Outcomes(k))
                 /\ k \in CallsOf(tracked[t]) => ~Outcomes(k)
      <3>1. CASE k = n
        BY <1>3, <3>1
      <3>2. CASE k \in DOMAIN msgs
        <4>1. t = msgs[k].stream /\ Neat(t) /\ pc[t] # "closed"
          BY <1>3, <1>9, <2>3, <3>2
        <4> QED BY <2>2, <3>2, <4>1 DEF OutcomesAreTrue
      <3> QED BY <1>3, <3>1, <3>2
    <2>4. \A k \in DOMAIN msgs' : msgs'[k].stream \in Stream
      BY <1>2, <1>3
    <2> QED BY <1>2, <2>1, <2>3, <2>4 DEF OutcomesAreTrue, Neat
  <1>16. Outstanding(s) = atCua[s] /\ Outstanding(s)' = atCua[s] \cup RequestsOf(n, m)
    BY <1>2 DEF Outstanding
  <1>17. \A t \in Stream : t # s => Outstanding(t)' = Outstanding(t)
    <2>1. \A t \in Stream : t # s /\ pc[t] = "releasing" => msgs'[held[t]] = msgs[held[t]]
      BY <1>3 DEF StreamInv, HeldIsOwn
    <2> QED BY <1>2, <1>4, <2>1 DEF Outstanding
  <1>18. acting[s] \in Seq(Ids) /\ lists[s] \in Seq(Ids)
    BY TypesAt DEF StreamInv
  <1>19. \A r \in RequestsOf(n, m) : \E i \in DOMAIN m.calls :
            r.id = m.calls[i].id /\ r.kind = m.calls[i].kind /\ m.calls[i].id # NoId
    BY DEF RequestsOf
  <1>20. Neat(s)' => /\ ToSet(lists[s]) \subseteq ToSet(lists'[s]) /\ ToSet(acting[s]) \subseteq ToSet(acting'[s])
                     /\ \A i \in ListCalls(m) : m.calls[i].id \in ToSet(lists'[s])
                     /\ \A i \in CountedCalls(m) : m.calls[i].id \in ToSet(acting'[s])
    <2>1. SUFFICES ASSUME Neat(s)'
                   PROVE  /\ ToSet(lists[s]) \subseteq ToSet(lists'[s]) /\ ToSet(acting[s]) \subseteq ToSet(acting'[s])
                          /\ \A i \in ListCalls(m) : m.calls[i].id \in ToSet(lists'[s])
                          /\ \A i \in CountedCalls(m) : m.calls[i].id \in ToSet(acting'[s])
      OBVIOUS
    <2> DEFINE a == Len(acting[s]) + Cardinality(CountedCalls(m))
               l == Len(lists[s]) + Cardinality(ListCalls(m))
    <2>2. ~(a > PendingCap) /\ ~(l > PendingCap)
      BY <1>2, <2>1 DEF Overruns
    <2>3. a \in Nat /\ l \in Nat
      <3>1. Len(acting[s]) \in Nat /\ Len(lists[s]) \in Nat
        BY <1>18
      <3>2. Cardinality(CountedCalls(m)) \in Nat /\ Cardinality(ListCalls(m)) \in Nat
        BY CallPositions, AmongGrows DEF Counting
      <3> QED BY <3>1, <3>2
    <2> HIDE DEF a, l
    <2>4. a <= PendingCap /\ l <= PendingCap
      BY <2>2, <2>3, CuaStreamAssumption
    <2>5. ToSet(lists[s]) \subseteq ToSet(lists'[s]) /\ \A i \in ListCalls(m) : m.calls[i].id \in ToSet(lists'[s])
      BY <1>2, <1>18, <2>4, NotedListsKeeps DEF l
    <2>6. ToSet(acting[s]) \subseteq ToSet(acting'[s]) /\ \A i \in CountedCalls(m) : m.calls[i].id \in ToSet(acting'[s])
      BY <1>2, <1>18, <2>4, RememberedKeeps DEF a
    <2> QED BY <2>5, <2>6
  <1>21. ListsAreNoted'
    <2>1. ListsAreNoted
      BY DEF StreamInv
    <2>2. ASSUME NEW t \in Stream, Neat(t)', Live(t)', NEW q \in Outstanding(t)', q.kind = "list"
          PROVE  q.id \in ToSet(lists'[t])
      <3>1. Neat(t) /\ Live(t)
        BY <1>3, <1>9, <2>2
      <3>2. CASE t # s
        BY <1>4, <1>17, <2>1, <2>2, <3>1, <3>2 DEF ListsAreNoted
      <3>3. CASE t = s /\ q \in atCua[s]
        BY <1>16, <1>20, <2>1, <2>2, <3>1, <3>3 DEF ListsAreNoted
      <3>4. CASE t = s /\ q \in RequestsOf(n, m)
        <4>1. \E i \in ListCalls(m) : q.id = m.calls[i].id
          BY <1>19, <2>2, <3>4 DEF ListCalls
        <4> QED BY <1>20, <2>2, <3>4, <4>1
      <3> QED BY <1>16, <2>2, <3>2, <3>3, <3>4
    <2>3. ASSUME NEW p \in replies, NEW t, t = StreamOf(p.to), Neat(t)', p.to.kind = "list" PROVE p.what # "answer"
      <3>1. t \in Stream
        BY <1>3, <1>6, <2>3 DEF StreamOf
      <3>2. Neat(t)
        BY <1>3, <2>3, <3>1
      <3> QED BY <2>1, <2>3, <3>2 DEF ListsAreNoted
    <2>4. \A p \in replies : StreamOf(p.to)' = StreamOf(p.to)
      BY <1>3, <1>6
    <2> QED BY <1>2, <2>2, <2>3, <2>4 DEF ListsAreNoted, Neat
  <1>22. ActingAreNoted'
    <2>1. ActingAreNoted
      BY DEF StreamInv
    <2>2. ASSUME NEW t \in Stream, Neat(t)', StreamOpen(t)', NEW q \in Outstanding(t)', q.kind = "acting"
          PROVE  q.id \in ToSet(acting'[t])
      <3>1. Neat(t) /\ StreamOpen(t)
        BY <1>3, <1>9, <2>2
      <3>2. CASE t # s
        BY <1>4, <1>17, <2>1, <2>2, <3>1, <3>2 DEF ActingAreNoted
      <3>3. CASE t = s /\ q \in atCua[s]
        BY <1>16, <1>20, <2>1, <2>2, <3>1, <3>3 DEF ActingAreNoted
      <3>4. CASE t = s /\ q \in RequestsOf(n, m)
        <4>1. \E i \in CountedCalls(m) : q.id = m.calls[i].id
          BY <1>19, <2>2, <3>4 DEF CountedCalls, ActingCalls
        <4> QED BY <1>20, <2>2, <3>4, <4>1
      <3> QED BY <1>16, <2>2, <3>2, <3>3, <3>4
    <2> QED BY <2>2 DEF ActingAreNoted
  <1>23. /\ inflight' \in Nat /\ inflight' + Len(acting[s]) = inflight + Len(acting'[s])
         /\ (CountedCalls(m) = {} => inflight' = inflight)
    <2>1. /\ new.ids \in Seq(Ids) /\ new.freed \in Nat
          /\ Len(new.ids) + new.freed = Len(acting[s]) + Cardinality(CountedCalls(m))
          /\ CountedCalls(m) = {} => new.ids = acting[s] /\ new.freed = 0
      BY <1>18, RememberedKeeps
    <2>2. inflight \in Nat /\ Len(acting[s]) \in Nat /\ Len(acting[s]) <= inflight
      BY CountsAreNat DEF StreamInv
    <2>3. Cardinality(CountedCalls(m)) \in Nat /\ (CountedCalls(m) = {} => Cardinality(CountedCalls(m)) = 0)
      BY CallPositions, AmongGrows, FS_EmptySet DEF Counting
    <2> DEFINE a == Len(acting[s])
               b == Len(new.ids)
               f == new.freed
               c == Cardinality(CountedCalls(m))
               x == inflight'
    <2>4. a \in Nat /\ b \in Nat /\ f \in Nat /\ c \in Nat /\ b + f = a + c /\ a <= inflight /\ x = inflight + c - f
      BY <1>2, <2>1, <2>2, <2>3
    <2>5. CountedCalls(m) = {} => c = 0 /\ f = 0
      BY <2>1, <2>3
    <2>6. Len(acting'[s]) = b
      BY <1>2
    <2> HIDE DEF a, b, f, c, x, new
    <2>7. x \in Nat /\ x + a = inflight + b /\ (CountedCalls(m) = {} => x = inflight)
      BY <2>2, <2>4, <2>5
    <2> QED BY <2>6, <2>7 DEF a, x
  <1>24. Counted'
    BY <1>1, <1>23, CountFollows DEF StreamInv
  <1>25. HumanIsQuiet'
    <2>1. ActingCalls(m) = {} => CountedCalls(m) = {}
      BY DEF CountedCalls
    <2> QED BY <1>2, <1>23, <2>1 DEF StreamInv, HumanIsQuiet
  <1> QED BY <1>1, <1>7, <1>8, <1>10, <1>11, <1>12, <1>13, <1>14, <1>15, <1>21, <1>22, <1>24, <1>25 DEF StreamInv

\* The log after a refusal: what is pushed out gets no reply, and the refused
\* call itself an error.
LEMMA RefuseLogs ==
  ASSUME StreamTypes, NEW s \in Stream, NEW queue, NEW gone, NEW n,
         n \notin CallsOf(tracked[s]), gone \subseteq {n}, n \in 1..MaxSent,
         finished' = Finish(Pushed(s, queue), gone, "error")
  PROVE  /\ \A k \in 1..MaxSent : k \notin CallsOf(tracked[s]) \ CallsOf(queue) /\ k \notin gone =>
               finished'[k] = finished[k]
         /\ \A k \in CallsOf(tracked[s]) \ CallsOf(queue) : k \in 1..MaxSent /\ finished[k] = <<>> =>
               Len(finished'[k]) = 1 /\ finished'[k][1] = "no_reply"
         /\ n \in gone /\ finished[n] = <<>> => Len(finished'[n]) = 1 /\ finished'[n][1] = "error"
  <1> DEFINE over == CallsOf(tracked[s]) \ CallsOf(queue)
  <1>1. finished \in [1..MaxSent -> Seq({"answer", "error", "no_reply"})]
    BY DEF StreamTypes
  <1>2. n \notin over
    OBVIOUS
  <1> HIDE DEF over
  <1> DEFINE first == Finish(finished, over, "no_reply")
  <1>3. finished' = Finish(first, gone, "error")
    BY DEF Pushed, over
  <1>4. /\ first \in [1..MaxSent -> Seq({"answer", "error", "no_reply"})]
        /\ \A k \in 1..MaxSent : k \notin over => first[k] = finished[k]
        /\ \A k \in over : k \in 1..MaxSent /\ finished[k] = <<>> => Len(first[k]) = 1 /\ first[k][1] = "no_reply"
    BY <1>1 DEF Finish
  <1> HIDE DEF first
  <1>5. \A k \in 1..MaxSent : k \notin gone => finished'[k] = first[k]
    BY <1>3, <1>4 DEF Finish
  <1>6. n \in gone /\ first[n] = <<>> => Len(finished'[n]) = 1 /\ finished'[n][1] = "error"
    BY <1>3, <1>4 DEF Finish
  <1>7. \A k \in over : k \notin gone
    BY <1>2
  <1> QED BY <1>2, <1>4, <1>5, <1>6, <1>7 DEF over

\* The refused call is in the tracker's queue and out of it again: what is left
\* was there before.
LEMMA RefuseLeaves ==
  ASSUME NEW q \in Seq(Pending), NEW queue, NEW n, NEW id, Adds(queue, q, n, id), n \notin CallsOf(q)
  PROVE  LET rest == WithoutId(queue, id)
         IN /\ Apart(rest) /\ ToSet(rest) \subseteq ToSet(q)
            /\ CallsOf(queue) \ CallsOf(rest) = {n}
            /\ \A k \in CallsOf(q) : k \in CallsOf(queue) <=> k \in CallsOf(rest)
            /\ (\A p \in ToSet(q) : p.id # id) /\ Len(q) < PendingCap => CallsOf(q) \subseteq CallsOf(queue)
  <1> DEFINE rest == WithoutId(queue, id)
  <1>1. /\ queue \in Seq(Pending) /\ Apart(queue) /\ Len(queue) \in Nat \ {0}
        /\ queue[Len(queue)] = [id |-> id, call |-> n]
        /\ \A j \in 1..(Len(queue) - 1) : queue[j].id # id /\ \E i \in 1..Len(q) : queue[j] = q[i]
        /\ (\A i \in 1..Len(q) : q[i].id # id) /\ Len(q) < PendingCap =>
              \A i \in 1..Len(q) : \E j \in 1..(Len(queue) - 1) : queue[j] = q[i]
    BY DEF Adds
  <1>2. Leaves(rest, queue, id)
    BY <1>1, WithoutIdLeaves
  <1>3. CallsOf(queue) = {p.call : p \in ToSet(queue)} /\ CallsOf(rest) = {p.call : p \in ToSet(rest)}
        /\ CallsOf(q) = {p.call : p \in ToSet(q)}
    BY CallsAreEntries
  <1> HIDE DEF rest
  <1>4. /\ DOMAIN queue = 1..Len(queue) /\ DOMAIN q = 1..Len(q)
        /\ \A j \in 1..Len(queue) : j = Len(queue) \/ j \in 1..(Len(queue) - 1)
        /\ Len(queue) \in 1..Len(queue)
        /\ \A j \in 1..(Len(queue) - 1) : j \in 1..Len(queue)
    BY <1>1
  <1>5. \A p \in ToSet(queue) : (p.id = id /\ p.call = n) \/ (p.id # id /\ p \in ToSet(q))
    <2>1. ASSUME NEW j \in 1..Len(queue)
          PROVE  (queue[j].id = id /\ queue[j].call = n) \/ (queue[j].id # id /\ \E i \in 1..Len(q) : queue[j] = q[i])
      <3>1. CASE j = Len(queue)
        <4>1. queue[j].id = id /\ queue[j].call = n
          BY <1>1, <3>1
        <4> QED BY <4>1
      <3>2. CASE j \in 1..(Len(queue) - 1)
        <4>1. queue[j].id # id /\ \E i \in 1..Len(q) : queue[j] = q[i]
          BY <1>1, <3>2
        <4> QED BY <4>1
      <3> QED BY <1>4, <3>1, <3>2
    <2> TAKE p \in ToSet(queue)
    <2>2. PICK j \in 1..Len(queue) : p = queue[j]
      BY <1>4 DEF ToSet
    <2>3. \A i \in 1..Len(q) : q[i] \in ToSet(q)
      BY <1>4 DEF ToSet
    <2> QED BY <2>1, <2>2, <2>3
  <1>6. \E p \in ToSet(queue) : p.id = id /\ p.call = n
    <2>1. queue[Len(queue)].id = id /\ queue[Len(queue)].call = n
      BY <1>1
    <2> QED BY <1>4, <2>1 DEF ToSet
  <1>7. ToSet(rest) \subseteq ToSet(q)
    BY <1>2, <1>5 DEF Leaves
  <1>8. n \in CallsOf(queue) /\ n \notin CallsOf(rest)
    BY <1>2, <1>3, <1>6 DEF Leaves
  <1>9. \A k \in CallsOf(queue) : k = n \/ k \in CallsOf(rest)
    BY <1>2, <1>3, <1>5 DEF Leaves
  <1>10. \A k \in CallsOf(rest) : k \in CallsOf(queue)
    BY <1>2, <1>3 DEF Leaves
  <1>11. (\A p \in ToSet(q) : p.id # id) /\ Len(q) < PendingCap => CallsOf(q) \subseteq CallsOf(queue)
    <2>1. SUFFICES ASSUME \A p \in ToSet(q) : p.id # id, Len(q) < PendingCap
                   PROVE  CallsOf(q) \subseteq CallsOf(queue)
      OBVIOUS
    <2>2. \A i \in 1..Len(q) : q[i].id # id
      BY <1>4, <2>1 DEF ToSet
    <2>3. \A i \in 1..Len(q) : \E j \in 1..Len(queue) : queue[j] = q[i]
      BY <1>1, <1>4, <2>1, <2>2
    <2> QED BY <1>4, <2>3 DEF CallsOf
  <1>12. Apart(rest)
    BY <1>2 DEF Leaves
  <1> QED BY <1>7, <1>8, <1>9, <1>10, <1>11, <1>12 DEF rest

\* What a refusal does to the tracker and its log.
TurnedAway(s, m, n) ==
    \E over \in SUBSET CallsOf(tracked[s]) :
        /\ Apart(tracked'[s]) /\ ToSet(tracked'[s]) \subseteq ToSet(tracked[s])
        /\ CallsOf(tracked'[s]) = CallsOf(tracked[s]) \ over
        /\ \A k \in 1..MaxSent : k \notin over /\ (k # n \/ ~Recorded(m)) => finished'[k] = finished[k]
        /\ \A k \in over : k \in 1..MaxSent /\ finished[k] = <<>> =>
               Len(finished'[k]) = 1 /\ finished'[k][1] = "no_reply"
        /\ Recorded(m) => Len(finished'[n]) = 1 /\ finished'[n][1] = "error"
        /\ Recorded(m) /\ (\A p \in ToSet(tracked[s]) : p.id # m.calls[1].id) /\ Len(tracked[s]) < PendingCap =>
               over = {}
        /\ ~Recorded(m) => over = {}

LEMMA RefusesRefused ==
  ASSUME StreamTypes, TrackedAreOwn, NEW s \in Stream, NEW m \in Message, NEW n \in 1..MaxSent,
         Refuses(s, m, n), n \notin CallsOf(tracked[s]), finished[n] = <<>>
  PROVE  TurnedAway(s, m, n)
  <1> DEFINE id == m.calls[1].id
             queue == ObserveRequest(s, n, m)
             rest == IF Recorded(m) THEN WithoutId(queue, id) ELSE queue
             over == CallsOf(tracked[s]) \ CallsOf(queue)
             gone == CallsOf(queue) \ CallsOf(rest)
  <1>1. /\ tracked'[s] = rest /\ finished' = Finish(Pushed(s, queue), gone, "error")
        /\ (Recorded(m) => Adds(queue, tracked[s], n, id))
        /\ (~Recorded(m) => queue = tracked[s])
    BY DEF Refuses
  <1>2. tracked[s] \in Seq(Pending) /\ Apart(tracked[s])
    BY TypesAt DEF TrackedAreOwn
  <1>3. CASE ~Recorded(m)
    <2>1. queue = tracked[s] /\ rest = tracked[s]
      BY <1>1, <1>3
    <2>2. gone = {} /\ over = {}
      BY <2>1
    <2> HIDE DEF queue, rest, gone, over, id
    <2>3. finished' = Finish(Pushed(s, queue), gone, "error") /\ gone \subseteq {n}
      BY <1>1, <2>2
    <2>4. \A k \in 1..MaxSent : finished'[k] = finished[k]
      <3>1. /\ \A k \in 1..MaxSent : k \notin CallsOf(tracked[s]) \ CallsOf(queue) /\ k \notin gone =>
                 finished'[k] = finished[k]
            /\ \A k \in CallsOf(tracked[s]) \ CallsOf(queue) : k \in 1..MaxSent /\ finished[k] = <<>> =>
                 Len(finished'[k]) = 1 /\ finished'[k][1] = "no_reply"
            /\ n \in gone /\ finished[n] = <<>> => Len(finished'[n]) = 1 /\ finished'[n][1] = "error"
        BY <2>3, RefuseLogs
      <3> QED BY <2>1, <2>2, <3>1
    <2>5. tracked'[s] = tracked[s]
      BY <1>1, <2>1
    <2>6. {} \in SUBSET CallsOf(tracked[s])
      OBVIOUS
    <2> QED BY <1>2, <1>3, <2>4, <2>5, <2>6 DEF TurnedAway
  <1>4. CASE Recorded(m)
    <2> DEFINE left == WithoutId(queue, id)
    <2>1. rest = left
      BY <1>4
    <2> HIDE DEF queue, rest, id
    <2>2. /\ Apart(left) /\ ToSet(left) \subseteq ToSet(tracked[s])
          /\ CallsOf(queue) \ CallsOf(left) = {n}
          /\ \A k \in CallsOf(tracked[s]) : k \in CallsOf(queue) <=> k \in CallsOf(left)
          /\ (\A p \in ToSet(tracked[s]) : p.id # id) /\ Len(tracked[s]) < PendingCap =>
                CallsOf(tracked[s]) \subseteq CallsOf(queue)
      BY <1>1, <1>2, <1>4, RefuseLeaves
    <2> HIDE DEF left
    <2>3. gone = {n} /\ tracked'[s] = left
      BY <1>1, <2>1, <2>2
    <2> HIDE DEF gone
    <2>4. /\ \A k \in 1..MaxSent : k \notin CallsOf(tracked[s]) \ CallsOf(queue) /\ k \notin gone =>
               finished'[k] = finished[k]
          /\ \A k \in CallsOf(tracked[s]) \ CallsOf(queue) : k \in 1..MaxSent /\ finished[k] = <<>> =>
               Len(finished'[k]) = 1 /\ finished'[k][1] = "no_reply"
          /\ n \in gone /\ finished[n] = <<>> => Len(finished'[n]) = 1 /\ finished'[n][1] = "error"
      <3>1. gone \subseteq {n} /\ finished' = Finish(Pushed(s, queue), gone, "error")
        BY <1>1, <2>3
      <3> QED BY <3>1, RefuseLogs
    <2>5. CallsOf(left) = CallsOf(tracked[s]) \ over
      <3>1. CallsOf(left) \subseteq CallsOf(tracked[s])
        BY <2>2, CallsAreEntries
      <3> QED BY <2>2, <3>1
    <2>6. over \in SUBSET CallsOf(tracked[s])
      OBVIOUS
    <2>7. (\A p \in ToSet(tracked[s]) : p.id # id) /\ Len(tracked[s]) < PendingCap => over = {}
      BY <2>2
    <2>8. /\ \A k \in 1..MaxSent : k \notin over /\ k # n => finished'[k] = finished[k]
          /\ \A k \in over : k \in 1..MaxSent /\ finished[k] = <<>> =>
                Len(finished'[k]) = 1 /\ finished'[k][1] = "no_reply"
          /\ Len(finished'[n]) = 1 /\ finished'[n][1] = "error"
      BY <2>3, <2>4
    <2> HIDE DEF over
    <2> QED BY <1>4, <2>2, <2>3, <2>5, <2>6, <2>7, <2>8 DEF TurnedAway, id
  <1> QED BY <1>3, <1>4

LEMMA RefuseKeeps ==
  ASSUME StreamInv, NEW s \in Stream, NEW m \in Message, Receive(s, m),
         NEW n, n = Len(msgs'), GateRefuse(s, m, n)
  PROVE  StreamInv'
  <1>1. Arrives(s, m, n) /\ Refuses(s, m, n) /\ Elsewhere(s) /\ StreamTypes'
    BY RefuseDoes DEF StreamInv
  <1>2. /\ pc[s] = "idle" /\ held' = held /\ held[s] = 0 /\ n # 0
        /\ acting' = acting /\ inflight' = inflight /\ lease' = lease /\ atCua' = atCua
        /\ DOMAIN msgs' = DOMAIN msgs \cup {n} /\ msgs'[n].stream = s /\ msgs'[n].body = m
        /\ n \in 1..MaxSent /\ n \notin DOMAIN msgs
        /\ lists'[s] = NotedLists(s, m)
        /\ (Neat(s)' => Neat(s) /\ ~Overruns(s, m))
        /\ \/ /\ replies' = replies \cup {[to |-> r, what |-> "refusal"] : r \in RequestsOf(n, m)}
              /\ pc'[s] = "idle"
           \/ pc'[s] = "closing" /\ replies' = replies
    BY <1>1 DEF Arrives, Refuses
  <1>3. /\ \A k \in DOMAIN msgs :
               /\ k \in 1..MaxSent /\ k # n /\ k # 0 /\ k \in DOMAIN msgs' /\ msgs'[k] = msgs[k]
               /\ msgs[k].stream \in Stream /\ msgs[k].body \in Message
               /\ (Withheld(k)' <=> Withheld(k))
        /\ \A k \in DOMAIN msgs' : k \in DOMAIN msgs \/ k = n
        /\ ~Withheld(n)'
        /\ \A t \in Stream : (Neat(t)' => Neat(t)) /\ n \notin CallsOf(tracked[t])
        /\ finished[n] = <<>> /\ ~Outcomes(n)
        /\ \A r \in RequestsOf(n, m) : r.msg = n
        /\ \A p, t : Own(p, t) => Own(p, t)'
        /\ \A r : r.msg \in DOMAIN msgs => (Awaited(r)' <=> Awaited(r)) /\ StreamOf(r)' = StreamOf(r)
    <2>1. held'[s] \in {0, n} /\ held'[s] # n
      BY <1>2
    <2> QED BY <1>1, <2>1, BeginsLeaves
  <1>4. TurnedAway(s, m, n)
    <2>1. StreamTypes /\ TrackedAreOwn
      BY DEF StreamInv
    <2> QED BY <1>1, <1>2, <1>3, <2>1, RefusesRefused
  <1>5. PICK over \in SUBSET CallsOf(tracked[s]) :
            /\ Apart(tracked'[s]) /\ ToSet(tracked'[s]) \subseteq ToSet(tracked[s])
            /\ CallsOf(tracked'[s]) = CallsOf(tracked[s]) \ over
            /\ \A k \in 1..MaxSent : k \notin over /\ (k # n \/ ~Recorded(m)) => finished'[k] = finished[k]
            /\ \A k \in over : k \in 1..MaxSent /\ finished[k] = <<>> =>
                   Len(finished'[k]) = 1 /\ finished'[k][1] = "no_reply"
            /\ Recorded(m) => Len(finished'[n]) = 1 /\ finished'[n][1] = "error"
            /\ Recorded(m) /\ (\A p \in ToSet(tracked[s]) : p.id # m.calls[1].id) /\ Len(tracked[s]) < PendingCap =>
                   over = {}
            /\ ~Recorded(m) => over = {}
    BY <1>4 DEF TurnedAway
  <1>6. \A t \in Stream : t # s => /\ pc'[t] = pc[t] /\ lists'[t] = lists[t] /\ tracked'[t] = tracked[t]
    BY <1>1 DEF Elsewhere
  <1>7. \A t \in Stream : \A r \in atCua[t] : r.msg \in DOMAIN msgs /\ Awaited(r) /\ StreamOf(r) = t /\ ~Withheld(r.msg)
    BY DEF StreamInv, RequestsAreOwn
  <1>8. \A p \in replies : p.to.msg \in DOMAIN msgs /\ Awaited(p.to) /\ ~Withheld(p.to.msg)
    BY DEF StreamInv, RequestsAreOwn
  <1>9. \A p \in replies' : p \in replies \/ (p.to \in RequestsOf(n, m) /\ p.to.msg = n /\ p = [to |-> p.to, what |-> "refusal"])
    <2>1. \A r \in RequestsOf(n, m) : LET p == [to |-> r, what |-> "refusal"]
                                     IN p.to \in RequestsOf(n, m) /\ p.to.msg = n /\ p = [to |-> p.to, what |-> "refusal"]
      BY <1>3
    <2> QED BY <1>2, <2>1
  <1>10. HeldIsOwn'
    BY <1>2, <1>3, <1>6 DEF StreamInv, HeldIsOwn
  <1>11. RequestsAreOwn'
    <2>1. \A r \in RequestsOf(n, m) : Awaited(r)'
      BY <1>2, <1>3 DEF Awaited
    <2>2. ASSUME NEW p \in replies' PROVE p.to.msg \in DOMAIN msgs' /\ Awaited(p.to)' /\ ~Withheld(p.to.msg)'
      <3>1. CASE p \in replies
        <4> DEFINE r == p.to
        <4>1. r.msg \in DOMAIN msgs /\ Awaited(r) /\ ~Withheld(r.msg)
          BY <1>8, <3>1
        <4> HIDE DEF r
        <4>2. r.msg \in DOMAIN msgs' /\ Awaited(r)' /\ ~Withheld(r.msg)'
          BY <1>3, <4>1
        <4> QED BY <4>2 DEF r
      <3>2. CASE p.to \in RequestsOf(n, m) /\ p.to.msg = n
        BY <1>2, <1>3, <2>1, <3>2
      <3> QED BY <1>9, <3>1, <3>2
    <2>3. \A t \in Stream : \A r \in atCua[t] : r.msg \in DOMAIN msgs' /\ Awaited(r)' /\ StreamOf(r)' = t /\ ~Withheld(r.msg)'
      BY <1>3, <1>7
    <2> QED BY <1>2, <2>2, <2>3 DEF RequestsAreOwn
  <1>12. \A t \in Stream : (Live(t)' => Live(t)) /\ (StreamOpen(t)' => StreamOpen(t)) /\ (pc'[t] # "closed" => pc[t] # "closed")
    BY <1>2, <1>6 DEF Live, StreamOpen
  <1>13. RepliesAreOne'
    <2>1. RepliesAreOne
      BY DEF StreamInv
    <2>2. \A p, q \in replies' : p.to = q.to => p = q
      <3>1. \A p, q \in replies : p.to = q.to => p = q
        BY <2>1 DEF RepliesAreOne
      <3>2. \A p \in replies : p.to.msg # n
        BY <1>3, <1>8
      <3> QED BY <1>9, <3>1, <3>2
    <2>3. \A t \in Stream : Live(t)' => \A r \in atCua[t] : \A p \in replies' : p.to # r
      <3>1. \A t \in Stream : Live(t)' => \A r \in atCua[t] : r.msg # n /\ \A p \in replies : p.to # r
        BY <1>3, <1>7, <1>12, <2>1 DEF RepliesAreOne
      <3> QED BY <1>9, <3>1
    <2>4. ASSUME NEW k \in DOMAIN msgs', NEW t \in Stream, t = msgs'[k].stream, Live(t)', ~Withheld(k)',
                 NEW r \in RequestsOf(k, msgs'[k].body)
          PROVE  r \in atCua[t] \/ \E p \in replies' : p.to = r
      <3>1. CASE k = n
        <4>1. t = s /\ r \in RequestsOf(n, m)
          BY <1>2, <2>4, <3>1
        <4>2. pc'[s] # "closing"
          BY <2>4, <4>1 DEF Live
        <4>3. [to |-> r, what |-> "refusal"] \in replies'
          BY <1>2, <4>1, <4>2
        <4> QED BY <4>3
      <3>2. CASE k # n
        <4>1. k \in DOMAIN msgs /\ t = msgs[k].stream /\ ~Withheld(k) /\ Live(t) /\ r \in RequestsOf(k, msgs[k].body)
          BY <1>3, <1>12, <2>4, <3>2
        <4>2. r \in atCua[t] \/ \E p \in replies : p.to = r
          BY <2>1, <4>1 DEF RepliesAreOne
        <4>3. replies \subseteq replies'
          BY <1>2
        <4> QED BY <4>2, <4>3
      <3> QED BY <3>1, <3>2
    <2>5. \A k \in DOMAIN msgs' : msgs'[k].stream \in Stream
      BY <1>2, <1>3
    <2>6. \A k \in DOMAIN msgs' : Live(msgs[k].stream)' /\ ~Withheld(k)' =>
              \A r \in RequestsOf(k, msgs'[k].body) : r \in atCua'[msgs'[k].stream] \/ \E p \in replies' : p.to = r
      BY <1>2, <2>4, <2>5 DEF Live
    <2> QED BY <1>2, <2>2, <2>3, <2>6 DEF RepliesAreOne
  <1>14. TrackedAreOwn'
    <2>1. \A t \in Stream : Apart(tracked'[t]) /\ ToSet(tracked'[t]) \subseteq ToSet(tracked[t])
      BY <1>5, <1>6 DEF StreamInv, TrackedAreOwn
    <2> QED BY <1>3, <2>1 DEF StreamInv, TrackedAreOwn
  <1>15. \A k \in CallsOf(tracked[s]) :
            /\ k \in DOMAIN msgs /\ k \in 1..MaxSent /\ msgs[k].stream = s /\ ~Withheld(k)
            /\ Recorded(msgs[k].body) /\ finished[k] = <<>>
    BY TrackedIsOpen DEF StreamInv
  <1>16. FinishedOnce'
    <2>1. FinishedOnce
      BY DEF StreamInv
    <2>2. ASSUME NEW k \in 1..MaxSent
          PROVE  IF k \in DOMAIN msgs' /\ Recorded(msgs'[k].body) /\ ~Withheld(k)'
                 THEN Len(finished'[k]) = IF k \in CallsOf(tracked'[msgs'[k].stream]) THEN 0 ELSE 1
                 ELSE finished'[k] = <<>>
      <3>1. CASE k \in over
        <4>1. k \in CallsOf(tracked[s])
          BY <1>5, <3>1
        <4>2. /\ k \in DOMAIN msgs' /\ Recorded(msgs'[k].body) /\ ~Withheld(k)' /\ msgs'[k].stream = s
              /\ finished[k] = <<>>
          BY <1>3, <1>15, <4>1
        <4> QED BY <1>5, <3>1, <4>2
      <3>2. CASE k = n
        <4>1. k \notin over /\ k \notin CallsOf(tracked'[s])
          BY <1>3, <1>5, <3>2
        <4>2. CASE Recorded(m)
          BY <1>2, <1>3, <1>5, <3>2, <4>1, <4>2
        <4>3. CASE ~Recorded(m)
          BY <1>2, <1>3, <1>5, <3>2, <4>1, <4>3
        <4> QED BY <4>2, <4>3
      <3>3. CASE k \notin over /\ k # n
        <4>1. finished'[k] = finished[k]
          BY <1>5, <3>3
        <4>2. k \in DOMAIN msgs' <=> k \in DOMAIN msgs
          BY <1>2, <3>3
        <4>3. CASE k \in DOMAIN msgs
          <5>1. k \in CallsOf(tracked'[msgs[k].stream]) <=> k \in CallsOf(tracked[msgs[k].stream])
            BY <1>3, <1>5, <1>6, <3>3, <4>3
          <5> QED BY <1>3, <2>1, <4>1, <4>2, <4>3, <5>1 DEF FinishedOnce
        <4>4. CASE k \notin DOMAIN msgs
          BY <2>1, <4>1, <4>2, <4>4 DEF FinishedOnce
        <4> QED BY <4>3, <4>4
      <3> QED BY <3>1, <3>2, <3>3
    <2> QED BY <2>2 DEF FinishedOnce
  <1>17. TrackedAreAsked'
    <2>1. TrackedAreAsked
      BY DEF StreamInv
    <2>2. ASSUME Neat(s)' PROVE over = {}
      <3>1. ~Overruns(s, m) /\ Neat(s) /\ Live(s)
        BY <1>2, <2>2 DEF Live
      <3>2. CASE Recorded(m)
        <4>1. 1 \in DOMAIN m.calls
          BY CallPositions
        <4>2. \A r \in atCua[s] : r.id # m.calls[1].id
          BY <3>1, <4>1 DEF Overruns
        <4>3. ~(Len(tracked[s]) >= PendingCap)
          BY <3>1, <3>2 DEF Overruns
        <4>4. Len(tracked[s]) < PendingCap
          <5>1. Len(tracked[s]) \in Nat
            BY TypesAt DEF StreamInv
          <5> QED BY <4>3, <5>1, CuaStreamAssumption
        <4>5. \A p \in ToSet(tracked[s]) : p.id # m.calls[1].id
          BY <2>1, <3>1, <4>2 DEF TrackedAreAsked
        <4> QED BY <1>5, <3>2, <4>4, <4>5
      <3> QED BY <1>5, <3>2
    <2>3. \A t \in Stream : Neat(t)' => CallsOf(tracked'[t]) = CallsOf(tracked[t]) /\ ToSet(tracked'[t]) \subseteq ToSet(tracked[t])
      BY <1>5, <1>6, <2>2
    <2>4. \A t \in Stream : \A r \in atCua[t] : msgs'[r.msg] = msgs[r.msg]
      BY <1>3, <1>7
    <2>5. \A t \in Stream : Neat(t)' /\ Live(t)' => Neat(t) /\ Live(t)
      BY <1>3, <1>12
    <2>6. atCua' = atCua
      BY <1>2
    <2> QED BY <2>1, <2>3, <2>4, <2>5, <2>6 DEF TrackedAreAsked
  <1>18. HeldIsNew'
    <2>1. ASSUME NEW t \in Stream, Neat(t)', pc'[t] = "releasing"
          PROVE  t # s /\ held[t] \in DOMAIN msgs /\ Neat(t) /\ pc[t] = "releasing"
      BY <1>2, <1>3, <1>6, <2>1 DEF StreamInv, HeldIsOwn
    <2> QED BY <1>2, <1>3, <1>6, <2>1 DEF StreamInv, HeldIsNew
  <1>19. OutcomesAreTrue'
    <2>1. \A k : Outcomes(k)' <=> Outcomes(k)
      <3>1. \A p \in replies' : p \in replies \/ p.what = "refusal"
        <4>1. \A r : [to |-> r, what |-> "refusal"].what = "refusal"
          OBVIOUS
        <4> QED BY <1>9, <4>1
      <3>2. replies \subseteq replies'
        BY <1>2
      <3> QED BY <3>1, <3>2 DEF Outcomes
    <2>2. OutcomesAreTrue
      BY DEF StreamInv
    <2>3. ASSUME NEW k \in DOMAIN msgs', NEW t \in Stream, t = msgs'[k].stream, Neat(t)', pc'[t] # "closed"
          PROVE  /\ finished'[k] # <<>> => (finished'[k][1] = "answer" <=> Outcomes(k))
                 /\ k \in CallsOf(tracked'[t]) => ~Outcomes(k)
      <3>1. CASE k = n
        <4>1. ~Outcomes(k)
          BY <1>3, <3>1
        <4>2. CASE Recorded(m)
          BY <1>5, <3>1, <4>1, <4>2
        <4>3. CASE ~Recorded(m)
          <5>1. finished'[k] = <<>>
            BY <1>2, <1>3, <1>5, <3>1, <4>3
          <5> QED BY <4>1, <5>1
        <4> QED BY <4>2, <4>3
      <3>2. CASE k # n
        <4>1. k \in DOMAIN msgs /\ t = msgs[k].stream /\ Neat(t) /\ pc[t] # "closed" /\ k \in 1..MaxSent
          BY <1>3, <1>12, <2>3, <3>2
        <4>2. CASE k \in over
          <5>1. k \in CallsOf(tracked[s]) /\ t = s
            BY <1>5, <1>15, <4>1, <4>2
          <5>2. finished'[k][1] = "no_reply" /\ k \notin CallsOf(tracked'[t])
            BY <1>5, <1>15, <4>2, <5>1
          <5>3. ~Outcomes(k)
            BY <2>2, <4>1, <5>1 DEF OutcomesAreTrue
          <5> QED BY <5>2, <5>3
        <4>3. CASE k \notin over
          <5>1. finished'[k] = finished[k]
            BY <1>5, <3>2, <4>1, <4>3
          <5>2. k \in CallsOf(tracked'[t]) => k \in CallsOf(tracked[t])
            BY <1>5, <1>6
          <5> QED BY <2>2, <4>1, <5>1, <5>2 DEF OutcomesAreTrue
        <4> QED BY <4>2, <4>3
      <3> QED BY <3>1, <3>2
    <2>4. \A k \in DOMAIN msgs' : msgs'[k].stream \in Stream
      BY <1>2, <1>3
    <2> QED BY <2>1, <2>3, <2>4 DEF OutcomesAreTrue, Neat
  <1>20. \A t \in Stream : Outstanding(t)' = Outstanding(t)
    <2>1. \A t \in Stream : pc[t] = "releasing" => msgs'[held[t]] = msgs[held[t]]
      BY <1>3 DEF StreamInv, HeldIsOwn
    <2>2. \A t \in Stream : pc'[t] = "releasing" <=> pc[t] = "releasing"
      BY <1>2, <1>6
    <2> QED BY <1>2, <2>1, <2>2 DEF Outstanding
  <1>21. ListsAreNoted'
    <2>1. ListsAreNoted
      BY DEF StreamInv
    <2>2. Neat(s)' => ToSet(lists[s]) \subseteq ToSet(lists'[s])
      <3>1. SUFFICES ASSUME Neat(s)' PROVE ToSet(lists[s]) \subseteq ToSet(lists'[s])
        OBVIOUS
      <3> DEFINE l == Len(lists[s]) + Cardinality(ListCalls(m))
      <3>2. ~(l > PendingCap)
        BY <1>2, <3>1 DEF Overruns
      <3>3. lists[s] \in Seq(Ids)
        BY TypesAt DEF StreamInv
      <3>4. l \in Nat
        <4>1. Len(lists[s]) \in Nat
          BY <3>3
        <4>2. Cardinality(ListCalls(m)) \in Nat
          BY CallPositions, AmongGrows DEF Counting
        <4> QED BY <4>1, <4>2
      <3> HIDE DEF l
      <3>5. l <= PendingCap
        BY <3>2, <3>4, CuaStreamAssumption
      <3> QED BY <1>2, <3>3, <3>5, NotedListsKeeps DEF l
    <2>3. ASSUME NEW t \in Stream, Neat(t)', Live(t)', NEW q \in Outstanding(t)', q.kind = "list"
          PROVE  q.id \in ToSet(lists'[t])
      <3>1. Neat(t) /\ Live(t) /\ q \in Outstanding(t)
        BY <1>3, <1>12, <1>20, <2>3
      <3>2. q.id \in ToSet(lists[t])
        BY <2>1, <2>3, <3>1 DEF ListsAreNoted
      <3> QED BY <1>6, <2>2, <2>3, <3>2
    <2>4. ASSUME NEW p \in replies', NEW t, t = StreamOf(p.to)', Neat(t)', p.to.kind = "list" PROVE p.what # "answer"
      <3>1. CASE p \in replies
        <4> DEFINE r == p.to
        <4>1. r.msg \in DOMAIN msgs
          BY <1>8, <3>1
        <4> HIDE DEF r
        <4>2. StreamOf(r)' = StreamOf(r) /\ StreamOf(r) \in Stream
          BY <1>3, <4>1 DEF StreamOf
        <4>3. t = StreamOf(r)
          BY <2>4, <3>1, <4>2 DEF r, StreamOf
        <4>4. Neat(t)
          BY <1>3, <2>4, <4>2, <4>3
        <4> QED BY <2>1, <2>4, <3>1, <4>3, <4>4 DEF ListsAreNoted, r
      <3>2. CASE p = [to |-> p.to, what |-> "refusal"]
        <4>1. p.what = "refusal"
          BY <3>2
        <4> QED BY <4>1
      <3> QED BY <1>9, <3>1, <3>2
    <2>5. \A p \in replies' : Neat(StreamOf(p.to))' /\ p.to.kind = "list" => p.what # "answer"
      BY <2>4 DEF Neat, StreamOf
    <2> QED BY <2>3, <2>5 DEF ListsAreNoted
  <1>22. ActingAreNoted'
    <2>1. \A t \in Stream : Neat(t)' /\ StreamOpen(t)' => Neat(t) /\ StreamOpen(t)
      BY <1>3, <1>12
    <2> QED BY <1>2, <1>20, <2>1 DEF StreamInv, ActingAreNoted
  <1>23. Counted' /\ HumanIsQuiet'
    BY <1>2 DEF StreamInv, Counted, HumanIsQuiet
  <1> QED BY <1>1, <1>10, <1>11, <1>13, <1>14, <1>16, <1>17, <1>18, <1>19, <1>21, <1>22, <1>23 DEF StreamInv

LEMMA StreamInvInit == ASSUME StreamInit PROVE StreamInv
  <1>1. /\ lease = "agent" /\ inflight = 0
        /\ pc = [s \in Stream |-> "idle"]
        /\ held = [s \in Stream |-> 0]
        /\ acting = [s \in Stream |-> <<>>] /\ lists = [s \in Stream |-> <<>>]
        /\ tracked = [s \in Stream |-> <<>>]
        /\ atCua = [s \in Stream |-> {}]
        /\ msgs = <<>>
        /\ finished = [n \in 1..MaxSent |-> <<>>]
        /\ replies = {}
        /\ lossy = {}
    BY DEF StreamInit
  <1>2. DOMAIN msgs = {} /\ Len(msgs) = 0 /\ Len(msgs) <= MaxSent
    BY <1>1, CuaStreamAssumption
  <1>3. \A s \in Stream : /\ pc[s] = "idle" /\ held[s] = 0 /\ acting[s] = <<>> /\ tracked[s] = <<>>
                          /\ atCua[s] = {}
    BY <1>1
  <1>4. StreamTypes
    <2> DEFINE none == <<>>
               Ending == {"answer", "error", "no_reply"}
               Posted == [stream : Stream, body : Message]
    <2>1. none \in Seq(Ids) /\ none \in Seq(Pending) /\ none \in Seq(Posted) /\ none \in Seq(Ending)
      <3> HIDE DEF Posted, Ending
      <3> QED OBVIOUS
    <2>2. /\ acting = [s \in Stream |-> none] /\ lists = [s \in Stream |-> none] /\ tracked = [s \in Stream |-> none]
          /\ msgs = none /\ finished = [n \in 1..MaxSent |-> none]
      BY <1>1
    <2> HIDE DEF none, Posted, Ending
    <2>3. /\ acting \in [Stream -> Seq(Ids)] /\ lists \in [Stream -> Seq(Ids)]
          /\ tracked \in [Stream -> Seq(Pending)] /\ msgs \in Seq(Posted) /\ finished \in [1..MaxSent -> Seq(Ending)]
      BY <2>1, <2>2
    <2>4. /\ lease \in {"agent", "taking", "human"}
          /\ pc \in [Stream -> {"idle", "releasing", "closing", "detached", "closed"}]
          /\ held \in [Stream -> Nat] /\ DOMAIN atCua = Stream /\ lossy \subseteq Stream
      BY <1>1
    <2> QED BY <1>2, <2>3, <2>4 DEF StreamTypes, Pending, Posted, Ending
  <1>5. HeldIsOwn /\ RequestsAreOwn /\ RepliesAreOne
    BY <1>1, <1>2, <1>3 DEF HeldIsOwn, RequestsAreOwn, RepliesAreOne
  <1>6. \A s \in Stream : ToSet(tracked[s]) = {} /\ CallsOf(tracked[s]) = {} /\ Len(tracked[s]) = 0
    BY <1>3 DEF ToSet, CallsOf
  <1>7. TrackedAreOwn
    BY <1>6 DEF TrackedAreOwn, Apart
  <1>8. FinishedOnce
    BY <1>1, <1>2 DEF FinishedOnce
  <1>9. TrackedAreAsked /\ HeldIsNew
    BY <1>3, <1>6 DEF TrackedAreAsked, HeldIsNew
  <1>10. OutcomesAreTrue
    BY <1>2 DEF OutcomesAreTrue
  <1>11. ListsAreNoted /\ ActingAreNoted
    BY <1>1, <1>3 DEF ListsAreNoted, ActingAreNoted, Outstanding
  <1>12. Counted
    <2>1. Lengths(acting) \in [Stream -> Nat] /\ \A s \in Stream : Lengths(acting)[s] = 0
      BY <1>3 DEF Lengths
    <2>2. SumFunction(Lengths(acting)) = 0
      BY <2>1, CuaStreamAssumption, SumOfNothing
    <2> QED BY <1>1, <2>2 DEF Counted
  <1>13. HumanIsQuiet
    BY <1>1 DEF HumanIsQuiet
  <1> QED BY <1>4, <1>5, <1>7, <1>8, <1>9, <1>10, <1>11, <1>12, <1>13 DEF StreamInv

LEMMA StreamInvStutters == ASSUME StreamInv, UNCHANGED streamVars PROVE StreamInv'
  <1>1. /\ lease' = lease /\ inflight' = inflight /\ pc' = pc /\ held' = held /\ acting' = acting /\ lists' = lists
        /\ tracked' = tracked /\ finished' = finished /\ atCua' = atCua /\ msgs' = msgs
        /\ replies' = replies /\ lossy' = lossy
    BY DEF streamVars, leaseVars, gateVars, callLogVars, clientVars
  <1>8. StreamTypes'
    BY <1>1 DEF StreamInv, StreamTypes
  <1>2. HeldIsOwn' /\ RequestsAreOwn' /\ RepliesAreOne'
    BY <1>1 DEF StreamInv, HeldIsOwn, RequestsAreOwn, RepliesAreOne, Awaited, StreamOf, Withheld, Live
  <1>3. TrackedAreOwn' /\ FinishedOnce'
    BY <1>1 DEF StreamInv, TrackedAreOwn, Own, FinishedOnce, Withheld
  <1>4. TrackedAreAsked' /\ HeldIsNew'
    BY <1>1 DEF StreamInv, TrackedAreAsked, HeldIsNew, Live, Neat
  <1>5. OutcomesAreTrue'
    BY <1>1 DEF StreamInv, OutcomesAreTrue, Outcomes, Neat
  <1>6. ListsAreNoted' /\ ActingAreNoted'
    BY <1>1 DEF StreamInv, ListsAreNoted, ActingAreNoted, Outstanding, Live, Neat, StreamOf, StreamOpen
  <1>7. Counted' /\ HumanIsQuiet'
    BY <1>1 DEF StreamInv, Counted, HumanIsQuiet
  <1> QED BY <1>2, <1>3, <1>4, <1>5, <1>6, <1>7, <1>8 DEF StreamInv

LEMMA MessagesAre ==
  ASSUME StreamTypes
  PROVE  \A n \in DOMAIN msgs : n \in 1..MaxSent /\ n # 0 /\ msgs[n].stream \in Stream
  <1> DEFINE Posted == [stream : Stream, body : Message]
  <1>1. msgs \in Seq(Posted) /\ Len(msgs) <= MaxSent
    BY DEF StreamTypes
  <1>2. \A x \in Posted : x.stream \in Stream
    OBVIOUS
  <1> HIDE DEF Posted
  <1>3. ASSUME NEW n \in DOMAIN msgs PROVE n \in 1..MaxSent /\ n # 0 /\ msgs[n] \in Posted
    <2>1. Len(msgs) \in Nat /\ n \in 1..Len(msgs) /\ msgs[n] \in Posted
      BY <1>1
    <2> QED BY <1>1, <2>1, CuaStreamAssumption
  <1> QED BY <1>2, <1>3

LEMMA StreamInvEver == StreamSpec => []StreamInv
  <1>1. StreamInit => StreamInv
    BY StreamInvInit
  <1>2. StreamInv /\ [StreamNext]_streamVars => StreamInv'
    <2> SUFFICES ASSUME StreamInv, [StreamNext]_streamVars PROVE StreamInv'
      OBVIOUS
    <2>1. ASSUME NEW s \in Stream, NEW m \in Message, Receive(s, m) PROVE StreamInv'
      <3> DEFINE n == Len(msgs')
      <3>1. Forward(s, m, n) \/ GateRefuse(s, m, n)
        BY <2>1 DEF Receive
      <3>2. CASE Forward(s, m, n)
        BY <2>1, <3>2, ForwardKeeps
      <3>3. CASE GateRefuse(s, m, n)
        BY <2>1, <3>3, RefuseKeeps
      <3> QED BY <3>1, <3>2, <3>3
    <2>2. ASSUME NEW s \in Stream, NEW r \in atCua[s], Outbound(s, r) PROVE StreamInv'
      BY <2>2, OutboundKeeps
    <2>3. ASSUME NEW s \in Stream, SendToCua(s) PROVE StreamInv'
      BY <2>3, SendKeeps
    <2>4. ASSUME NEW s \in Stream, StreamEnds(s) PROVE StreamInv'
      BY <2>4, EndsKeeps
    <2>5. ASSUME NEW s \in Stream, Detach(s) PROVE StreamInv'
      BY <2>5, DetachKeeps
    <2>6. ASSUME NEW s \in Stream, CloseAttachment(s) PROVE StreamInv'
      BY <2>6, CloseKeeps
    <2>7. CASE Take \/ Grant \/ LeaseEnds
      BY <2>7, LeaseKeeps
    <2>8. CASE UNCHANGED streamVars
      BY <2>8, StreamInvStutters
    <2> QED BY <2>1, <2>2, <2>3, <2>4, <2>5, <2>6, <2>7, <2>8 DEF StreamNext
  <1> QED BY <1>1, <1>2, PTL DEF StreamSpec

-----------------------------------------------------------------------------
(* The theorems                                                               *)

\* However clients send, batch and reuse ids, are refused and end, the control
\* counts the calls that the gates remember, and the human who was granted the
\* lease meets no acting call of a client that keeps ids apart (cua_gate.rs,
\* control.rs wait_settled).
THEOREM GrantedIsQuietEver == StreamSpec => []GrantedIsQuiet
  <1>1. ASSUME StreamInv PROVE GrantedIsQuiet
    <2>1. inflight = SumFunction([s \in Stream |-> Len(acting[s])])
      BY <1>1 DEF StreamInv, Counted, Lengths
    <2>2. ASSUME lease = "human", NEW s \in Stream, StreamOpen(s), s \notin lossy
          PROVE  /\ \A r \in atCua[s] : r.kind # "acting"
                 /\ pc[s] = "releasing" => \A r \in RequestsOf(held[s], msgs[held[s]].body) : r.kind # "acting"
      <3>1. acting[s] \in Seq(Ids) /\ Len(acting[s]) \in Nat /\ Len(acting[s]) <= inflight
        BY <1>1, TypesAt, CountsAreNat DEF StreamInv
      <3>2. inflight = 0
        BY <1>1, <2>2 DEF StreamInv, HumanIsQuiet
      <3>3. Len(acting[s]) = 0
        BY <3>1, <3>2
      <3>4. ToSet(acting[s]) = {}
        <4>1. DOMAIN acting[s] = {}
          BY <3>1, <3>3
        <4> QED BY <4>1 DEF ToSet
      <3>5. \A r \in Outstanding(s) : r.kind # "acting"
        BY <1>1, <2>2, <3>4 DEF StreamInv, ActingAreNoted, Neat
      <3> QED BY <3>5 DEF Outstanding
    <2> QED BY <2>1, <2>2 DEF GrantedIsQuiet
  <1> QED BY <1>1, StreamInvEver, PTL

\* A call that was logged as begun is finished once, when it leaves the tracker,
\* and as an answer only when Cua answered it (events.rs, CallTracker).
THEOREM CallsAreFinishedEver == StreamSpec => []CallsAreFinished
  <1>1. ASSUME StreamInv PROVE CallsAreFinished
    <2>1. ASSUME NEW n \in DOMAIN msgs
          PROVE  LET s == msgs[n].stream
                     begun == Recorded(msgs[n].body) /\ held[s] # n
                 IN /\ begun => Len(finished[n]) = IF n \in CallsOf(tracked[s]) THEN 0 ELSE 1
                    /\ s \notin lossy /\ pc[s] # "closed" /\ finished[n] # <<>> =>
                           (finished[n][1] = "answer" <=> \E p \in replies : p.to.msg = n /\ p.what # "refusal")
      <3>1. n \in 1..MaxSent
        BY <1>1, MessagesAre DEF StreamInv
      <3>2. FinishedOnce /\ OutcomesAreTrue
        BY <1>1 DEF StreamInv
      <3> QED BY <3>1, <3>2 DEF FinishedOnce, OutcomesAreTrue, Withheld, Outcomes, Neat
    <2> QED BY <2>1 DEF CallsAreFinished
  <1> QED BY <1>1, StreamInvEver, PTL

\* Each request of an open stream is with Cua or has one reply, and a client that
\* keeps ids apart never gets a list of tools without the takeover argument
\* (forward_cua, cua_gate.rs response).
THEOREM AnsweredOnceEver == StreamSpec => []AnsweredOnce
  <1>1. ASSUME StreamInv PROVE AnsweredOnce
    <2>1. ASSUME NEW n \in DOMAIN msgs, pc[msgs[n].stream] = "idle", NEW r \in RequestsOf(n, msgs[n].body)
          PROVE  LET s == msgs[n].stream
                 IN /\ Cardinality({p \in replies : p.to = r}) = IF r \in atCua[s] THEN 0 ELSE 1
                    /\ s \notin lossy /\ r.kind = "list" => [to |-> r, what |-> "answer"] \notin replies
      <3> DEFINE s == msgs[n].stream
                 Got == {p \in replies : p.to = r}
      <3>1. s \in Stream /\ Live(s) /\ n # 0 /\ r.msg = n
        <4>1. s \in Stream /\ n # 0
          BY <1>1, MessagesAre DEF StreamInv
        <4>2. Live(s)
          BY <2>1 DEF Live
        <4>3. r.msg = n
          BY <2>1 DEF RequestsOf
        <4> QED BY <4>1, <4>2, <4>3
      <3>2. ~Withheld(n)
        BY <1>1, <2>1, <3>1 DEF StreamInv, HeldIsOwn, Withheld
      <3>3. RepliesAreOne
        BY <1>1 DEF StreamInv
      <3>4. ASSUME r \in atCua[s] PROVE Cardinality(Got) = 0
        <4>1. Got = {}
          BY <3>1, <3>3, <3>4 DEF RepliesAreOne
        <4>2. Cardinality(Got) = 0
          BY <4>1, FS_EmptySet
        <4> QED BY <4>2
      <3>5. ASSUME r \notin atCua[s] PROVE Cardinality(Got) = 1
        <4>1. PICK p \in replies : p.to = r
          BY <2>1, <3>1, <3>2, <3>3, <3>5 DEF RepliesAreOne
        <4>2. Got = {p}
          BY <3>3, <4>1 DEF RepliesAreOne
        <4>3. Cardinality({p}) = 1
          BY FS_Singleton
        <4> QED BY <4>2, <4>3
      <3>6. s \notin lossy /\ r.kind = "list" => [to |-> r, what |-> "answer"] \notin replies
        <4>1. SUFFICES ASSUME s \notin lossy, r.kind = "list", NEW p \in replies, p = [to |-> r, what |-> "answer"]
                       PROVE  FALSE
          OBVIOUS
        <4>2. p.to = r /\ p.what = "answer"
          BY <4>1
        <4>3. Neat(StreamOf(p.to)) /\ p.to.kind = "list"
          BY <3>1, <4>1, <4>2 DEF Neat, StreamOf
        <4> QED BY <1>1, <4>2, <4>3 DEF StreamInv, ListsAreNoted
      <3>7. Cardinality(Got) = IF r \in atCua[s] THEN 0 ELSE 1
        BY <3>4, <3>5
      <3> QED BY <3>6, <3>7
    <2> QED BY <2>1 DEF AnsweredOnce
  <1> QED BY <1>1, StreamInvEver, PTL

====
