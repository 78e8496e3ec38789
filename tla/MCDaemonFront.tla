---------------------------- MODULE MCDaemonFront ----------------------------
(* Small instances of the daemon's records and of what stands in front of it,   *)
(* side by side: a behaviour is one of the registry with its record book or of  *)
(* the viewer ("viewer"); the parts share no state, so their state graphs add   *)
(* up.  The registry has two parts: all but the bootstrap ("records"), and the  *)
(* bootstrap without failing writes and without the idle reaper ("bootstrap").  *)
EXTENDS Daemon, ViewerGuard, TLC

Asked(bind, override, read_only) == [bind |-> bind, override |-> override, read_only |-> read_only]
SmallParams ==
    {Asked("auto", "none", FALSE), Asked("auto", "lan", TRUE), Asked("auto", "ts", FALSE),
     Asked("loopback", "none", FALSE)}

Interface(tailscale, addr) == [tailscale |-> tailscale, addr |-> addr]
SmallInterfaces ==
    {{Interface(TRUE, "ts"), Interface(FALSE, "lan"), Interface(FALSE, "cgnat")},
     {Interface(TRUE, "lan"), Interface(FALSE, "cgnat")},
     {Interface(TRUE, "ts"), Interface(TRUE, "ts2")}}

Ask(host, origin, site, navigation, token, method, path) ==
    [host |-> host, origin |-> origin, site |-> site, navigation |-> navigation,
     token |-> token, method |-> method, path |-> path]

\* The page from every kind of address and site, reads and writes from every
\* kind of origin, and one request for each of the other routes.
SmallHttp ==
    {Ask("ts", o, "cross-site", n, t, "GET", "/") :
        o \in {"absent", "localhost", "other"}, n \in BOOLEAN, t \in {"query", "bearer"}}
    \cup {Ask(h, "absent", "same-origin", FALSE, t, "GET", "/") :
        h \in {"ts", "other"}, t \in {"query", "bearer"}}
    \cup {Ask("localhost", o, s, FALSE, "bearer", m, p) :
        o \in {"absent", "lo", "other"}, s \in {"absent", "cross-site"},
        m \in {"GET", "POST"}, p \in {"frame", "control", "record"}}
    \cup {Ask("localhost", o, "absent", FALSE, "none", "POST", p) :
        o \in {"absent", "lo"}, p \in {"control", "record"}}
    \cup {Ask("lo", o, "same-origin", FALSE, "bearer", "POST", "input") : o \in {"absent", "lo"}}
    \cup {Ask("lo", "absent", "absent", FALSE, "bearer", "GET", p) :
        p \in {"sessions", "events", "recordings", "recording", "segment", "bad id", "nothing"}}
    \cup {Ask("lo", "absent", "absent", FALSE, "bearer", "POST", p) : p \in {"annotate", "keep", "bad id"}}

\* Connects and names are model values that no definition tells apart.
Symmetry == Permutations(Conn) \cup Permutations(Name)

VARIABLE part

frontVars == <<part, allVars, guardVars>>

FrontInit == part \in {"records", "bootstrap", "viewer"} /\ Init /\ ViewerInit

FrontNext ==
    /\ UNCHANGED part
    /\ \/ part = "records" /\ Next /\ UNCHANGED guardVars
          /\ \A g \in Gen : ~mark'[g]
       \/ part = "bootstrap" /\ Next /\ UNCHANGED guardVars
          /\ disk.ok' /\ stale' = NothingStale
       \/ part = "viewer" /\ ViewerNext /\ UNCHANGED allVars

FrontSpec == FrontInit /\ [][FrontNext]_frontVars
=============================================================================
