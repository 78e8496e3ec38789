-------------------------------- MODULE MCCua --------------------------------
(* Small instances of the path of a call, side by side: a behaviour is one of   *)
(* the client program and its daemon process ("client"), of the acquisition of  *)
(* bundles (two connects, or more that all want the same: "bundle" and "same    *)
(* bundle"), of the Cua streams of clients ("stream") or of the carrier between *)
(* daemon and guest ("carrier"); the parts share no state, so their state       *)
(* graphs add up.                                                               *)
EXTENDS MCCarrier, CuaStream, BundleCache, ClientCall

CONSTANTS
    FirstHandle,    \* handles are interchangeable: the one that draws the first number
    Id,             \* JSON-RPC ids
    LateConnect     \* the connects that are left out unless all want the same bundle

Call(kind, id, takeover) == [kind |-> kind, id |-> id, takeover |-> takeover]
Single(c) == [batch |-> FALSE, calls |-> <<c>>]
Batch(c, d) == [batch |-> TRUE, calls |-> <<c, d>>]

SmallMessages ==
    UNION {
        {Single(Call("acting", i, FALSE)) : i \in Id},
        {Single(Call("reading", i, FALSE)) : i \in Id},
        {Single(Call("acting", NoId, TRUE))},
        {Batch(Call("acting", i, FALSE), Call("acting", j, FALSE)) :
            <<i, j>> \in {p \in Id \X Id : p[1] # p[2]}},
        {Batch(Call("list", i, FALSE), Call("acting", j, FALSE)) :
            <<i, j>> \in {p \in Id \X Id : p[1] # p[2]}}}

SmallPublished == [cua |-> {1, 2}, bridge |-> {1}]
Ask(channel, tag, auto, local) == [channel |-> channel, tag |-> tag, auto |-> auto, local |-> local]
SmallRequests ==
    {Ask("latest", 0, TRUE, {}), Ask("latest", 0, FALSE, {}),
     Ask("tag", 2, TRUE, {"bridge"}), Ask("tag", 2, FALSE, {"bridge"}),
     Ask("tag", 1, TRUE, {"two archives"}), Ask("unknown", 0, TRUE, {"cua"})}

VARIABLE part

cuaPathVars == <<part, carrierVars, streamVars, bundleVars, callVars>>

PathInit ==
    /\ part \in {"carrier", "stream", "bundle", "same bundle", "client"}
    /\ Init /\ StreamInit /\ BundleInit /\ ClientInit
    /\ part # "client" => platform = "unix" /\ name = 0

\* Connects that all want the same driver, and have a bridge.
SameBundle ==
    \A c \in Connect : conn[c].pc # "idle" =>
        conn[c].channel = "tag" /\ conn[c].auto /\ conn[c].local = {"bridge"}

FirstAttaches == (\E h \in Handle : hs[h].id # 0) => hs[FirstHandle].id # 0

PathNext ==
    /\ UNCHANGED part
    /\ \/ part = "carrier" /\ CarrierNext /\ FirstAttaches' /\ UNCHANGED <<streamVars, bundleVars, callVars>>
       \/ part = "stream" /\ StreamNext /\ UNCHANGED <<carrierVars, bundleVars, callVars>>
       \/ part = "bundle" /\ BundleNext /\ (\A c \in LateConnect : conn'[c].pc = "idle")
          /\ UNCHANGED <<carrierVars, streamVars, callVars>>
       \/ part = "same bundle" /\ BundleNext /\ SameBundle'
          /\ UNCHANGED <<carrierVars, streamVars, callVars>>
       \/ part = "client" /\ ClientNext /\ UNCHANGED <<carrierVars, streamVars, bundleVars>>

PathSpec == PathInit /\ [][PathNext]_cuaPathVars
=============================================================================
