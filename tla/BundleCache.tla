----------------------------- MODULE BundleCache -----------------------------
(* The acquisition of a Cua bundle (rdpilot-daemon/bundle): connects find,      *)
(* download, verify and cache the Cua driver and the bridge and assemble the     *)
(* directory that the drive of their session serves.  Connects run side by side *)
(* on one cache; what is on the disk changes under a connect between its steps.  *)
(*                                                                              *)
(* - An entry of the cache and an assembled bundle are absent, good (their files *)
(*   have the recorded checksums) or bad.  Only a crash makes one bad: a rename  *)
(*   may reach the disk before the data.                                        *)
(* - A directory is renamed onto its name only while nothing has that name.     *)
(* - Versions are numbers in their order; version 0 is a file of bundle_path.   *)
(*                                                                              *)
(* Left out: HTTP and the forms of tags, checksum files and archives (a fetch    *)
(* may find nothing, fail or yield a wrong file), the update that is lost when   *)
(* two connects remember an answer at once.                                     *)
EXTENDS Naturals, FiniteSets, FiniteSetsExt

CONSTANTS
    Connect,        \* connects that need a bundle
    Version,        \* versions of both components
    StableVersion,  \* the ones of the channel "latest"
    Published,      \* component -> versions with a release
    OwnVersion,     \* the version of the daemon
    Request,        \* what connects ask for: [channel, tag, auto, local]
    CrashMax        \* bound on crashes of the daemon

\* A release that is asked for by its tag is a version too, published or not.
ASSUME BundleAssumption ==
    /\ Version \subseteq Nat \ {0} /\ IsFiniteSet(Version)
    /\ StableVersion \subseteq Version /\ OwnVersion \in Version
    /\ \A k \in {"cua", "bridge"} : Published[k] \subseteq Version
    /\ Request \subseteq [channel : STRING, tag : Version \cup {0}, auto : BOOLEAN,
                         local : SUBSET {"cua", "bridge", "two archives"}]
    /\ \A r \in Request : r.channel = "tag" => r.tag # 0
    /\ CrashMax \in Nat

VARIABLES
    entry,          \* component -> version -> "absent", "good" or "bad"
    bundle,         \* <<Cua version, bridge version>> -> the same
    resolved,       \* key -> version remembered, 0 for none
    litter,         \* temporary files and directories, by the connect that made them
    conn,           \* per connect: its state
    crashes

bundleVars == <<entry, bundle, resolved, litter, conn, crashes>>

Component == {"cua", "bridge"}
Channels == {"latest-dev", "latest"}
NoConn == [pc |-> "idle", part |-> "cua", channel |-> "tag", tag |-> 0, auto |-> TRUE, local |-> {},
           ver |-> [k \in Component |-> 0], todo |-> {}, back |-> "none", staged |-> "good"]

\* parse_wanted: a channel or a tag.
ParseWanted(cn) == cn.channel \in Channels \cup {"tag"}

accepts(channel) == IF channel = "latest" THEN StableVersion ELSE Version

\* select, newest: the highest of the versions, if any.
Newest(vs) == IF vs = {} THEN 0 ELSE Max(vs)

BundleInit ==
    /\ entry = [k \in Component |-> [v \in Version |-> "absent"]]
    /\ bundle = [id \in (Version \cup {0}) \X (Version \cup {0}) |-> "absent"]
    /\ resolved = [key \in Channels \cup {"bridge/newest"} |-> 0]
    /\ litter = {}
    /\ conn = [c \in Connect |-> NoConn]
    /\ crashes = 0

-----------------------------------------------------------------------------
ConnGoes(c, pc) == conn' = [conn EXCEPT ![c].pc = pc]
ConnFails(c) == ConnGoes(c, "failed")
diskVars == <<entry, bundle, litter>>

Here(c) == entry[conn[c].part][conn[c].ver[conn[c].part]]
BundleId(c) == <<conn[c].ver["cua"], conn[c].ver["bridge"]>>

\* A component is at hand: the driver, then the bridge, then the assembly.
Obtained(cn, version) ==
    IF cn.part = "cua"
    THEN [cn EXCEPT !.ver["cua"] = version, !.part = "bridge", !.pc = "bridge"]
    ELSE [cn EXCEPT !.ver["bridge"] = version, !.pc = "assemble"]

\* scan_local: bundle_path may hold either component, at most one archive.
ScanLocal(local) == "two archives" \notin local

Prepare(c, channel, tag, auto, local) ==
    /\ conn[c].pc = "idle"
    /\ conn' = [conn EXCEPT ![c] = [NoConn EXCEPT !.pc = IF ScanLocal(local) THEN "cua" ELSE "failed",
                                                  !.channel = channel, !.tag = tag,
                                                  !.auto = auto, !.local = local]]
    /\ UNCHANGED <<diskVars, resolved, crashes>>

\* cua: an archive of bundle_path, a tag, or a channel to resolve.
Cua(c) ==
    /\ conn[c].pc = "cua"
    /\ conn' = [conn EXCEPT ![c] =
          IF ~ParseWanted(@) THEN [@ EXCEPT !.pc = "failed"]
          ELSE IF "cua" \in @.local THEN Obtained(@, 0)
          ELSE IF @.channel \in Channels THEN [@ EXCEPT !.pc = "channel"]
          ELSE [@ EXCEPT !.ver["cua"] = conn[c].tag, !.pc = "lookup", !.back = "miss"]]
    /\ UNCHANGED <<diskVars, resolved, crashes>>

\* resolved, remember: a remembered answer may be too old to be used.
RememberedTag(key) == {0, resolved[key]}
Remember(key, v) == resolved' = [resolved EXCEPT ![key] = v]

\* versions: what has a directory in the cache, unverified.
Cached(c) == {v \in accepts(conn[c].channel) : entry["cua"][v] # "absent"}

\* resolve_channel: without downloads the newest of the cache; else the remembered
\* answer unless it is too old, the list of releases, and offline the newest of the
\* cache.
ResolveChannel(c) ==
    /\ conn[c].pc = "channel"
    /\ LET found == Newest(Published["cua"] \cap accepts(conn[c].channel))
           to(v) == [conn EXCEPT ![c].ver["cua"] = v, ![c].pc = "lookup", ![c].back = "miss"]
           cached == [conn EXCEPT ![c].pc = "cached", ![c].todo = Cached(c)]
       IN  \/ /\ ~conn[c].auto
              /\ conn' = cached
              /\ UNCHANGED resolved
           \/ /\ conn[c].auto
              /\ \E v \in RememberedTag(conn[c].channel) \ {0} : conn' = to(v)
              /\ UNCHANGED resolved
           \/ /\ conn[c].auto
              /\ \/ /\ found # 0
                    /\ conn' = to(found)
                    /\ Remember(conn[c].channel, found)
                 \/ /\ found = 0
                    /\ ConnFails(c)
                    /\ UNCHANGED resolved
                 \/ /\ conn' = cached
                    /\ UNCHANGED resolved
    /\ UNCHANGED <<diskVars, crashes>>

\* newest_cached_cua: the cached versions are verified, the newest first.
NewestCached(c) ==
    /\ conn[c].pc = "cached"
    /\ LET newest == Max(conn[c].todo) IN
       conn' = [conn EXCEPT ![c] =
          IF @.todo = {} THEN [@ EXCEPT !.pc = "failed"]
          ELSE [@ EXCEPT !.ver["cua"] = newest, !.todo = conn[c].todo \ {newest},
                         !.pc = "lookup", !.back = "cached"]]
    /\ UNCHANGED <<diskVars, resolved, crashes>>

-----------------------------------------------------------------------------
(* Cache::lookup: the entry is read and hashed, and removed in a step of its own *)

\* Mutant: a damaged entry is used.
LookupTrusts(c) ==
    /\ conn[c].pc = "lookup"
    /\ conn' = [conn EXCEPT ![c] =
          IF Here(c) = "absent" THEN [@ EXCEPT !.pc = conn[c].back]
          ELSE IF @.back = "cached" THEN [@ EXCEPT !.back = "miss"]
          ELSE Obtained(@, @.ver[@.part])]
    /\ UNCHANGED <<diskVars, resolved, crashes>>

Lookup(c) ==
    /\ conn[c].pc = "lookup"
    /\ conn' = [conn EXCEPT ![c] =
          CASE Here(c) = "good" ->
                  IF @.back = "cached" THEN [@ EXCEPT !.back = "miss"]
                  ELSE Obtained(@, @.ver[@.part])
            [] Here(c) = "bad" -> [@ EXCEPT !.pc = "discard"]
            [] Here(c) = "absent" -> [@ EXCEPT !.pc = conn[c].back]]
    /\ UNCHANGED <<diskVars, resolved, crashes>>

EntryBecomes(c, what) == entry' = [entry EXCEPT ![conn[c].part][conn[c].ver[conn[c].part]] = what]

Discard(c) ==
    /\ conn[c].pc = "discard"
    /\ EntryBecomes(c, "absent")
    /\ ConnGoes(c, conn[c].back)
    /\ UNCHANGED <<bundle, litter, resolved, crashes>>

-----------------------------------------------------------------------------
(* The bridge *)

\* bridge: a file of bundle_path, or the release of the daemon's own version.
BridgeOwn(c) ==
    /\ conn[c].pc = "bridge"
    /\ conn' = [conn EXCEPT ![c] =
          IF "bridge" \in @.local THEN Obtained(@, 0)
          ELSE [@ EXCEPT !.ver["bridge"] = OwnVersion, !.pc = "lookup", !.back = "miss"]]
    /\ UNCHANGED <<diskVars, resolved, crashes>>

\* newest_bridge_version, for a build that has no release.
BridgeNewest(c) ==
    /\ conn[c].pc = "newest"
    /\ \E v \in RememberedTag("bridge/newest") \cup {Newest(Published["bridge"] \cap StableVersion)} :
           \/ /\ v # 0
              /\ conn' = [conn EXCEPT ![c].ver["bridge"] = v, ![c].pc = "lookup", ![c].back = "miss"]
              /\ Remember("bridge/newest", v)
           \/ /\ ConnFails(c)
              /\ UNCHANGED resolved
    /\ UNCHANGED <<diskVars, crashes>>

-----------------------------------------------------------------------------
(* A download, and Cache::publish *)

\* How a request to GitHub ends: only a 404 says that there is no such release.
Answers(there) == {"unavailable", IF there THEN "ok" ELSE "not found"}

\* The checksum file lists the asset once or not, the asset has that checksum or
\* not, the archive has the expected layout or not; a failure leaves no file.
DownloadVerified(c) ==
    \/ ConnGoes(c, "fetched") /\ litter' = litter \cup {c}
    \/ ConnFails(c) /\ UNCHANGED litter

FetchDriver(c) ==
    /\ conn[c].pc = "miss" /\ conn[c].part = "cua"
    /\ \/ /\ conn[c].auto
          /\ \E a \in Answers(conn[c].ver["cua"] \in Published["cua"]) :
                IF a = "ok" THEN DownloadVerified(c) ELSE ConnFails(c) /\ UNCHANGED litter
       \/ ~conn[c].auto /\ ConnFails(c) /\ UNCHANGED litter
    /\ UNCHANGED <<entry, bundle, resolved, crashes>>

\* Only a definite "no such release" of the daemon's own version makes this a
\* development build; a network failure picks no other version.
FetchBridge(c) ==
    /\ conn[c].pc = "miss" /\ conn[c].part = "bridge"
    /\ \/ /\ conn[c].auto
          /\ \E a \in Answers(conn[c].ver["bridge"] \in Published["bridge"]) :
                \/ a = "ok" /\ DownloadVerified(c)
                \/ /\ a = "not found" /\ conn[c].ver["bridge"] = OwnVersion
                   /\ ConnGoes(c, "newest") /\ UNCHANGED litter
                \/ /\ a # "ok" /\ ~(a = "not found" /\ conn[c].ver["bridge"] = OwnVersion)
                   /\ ConnFails(c) /\ UNCHANGED litter
       \/ ~conn[c].auto /\ ConnFails(c) /\ UNCHANGED litter
    /\ UNCHANGED <<entry, bundle, resolved, crashes>>

\* The rename; a name that is taken is verified, and a second rename is tried.
Publish(c) ==
    /\ conn[c].pc \in {"fetched", "retry"}
    /\ IF Here(c) = "absent"
       THEN /\ EntryBecomes(c, "good")
            /\ litter' = litter \ {c}
            /\ conn' = [conn EXCEPT ![c] = Obtained(@, @.ver[@.part])]
       ELSE /\ conn' = [conn EXCEPT ![c].pc = IF @ = "fetched" THEN "taken" ELSE "last"]
            /\ UNCHANGED <<entry, litter>>
    /\ UNCHANGED <<bundle, resolved, crashes>>

\* The lookup of publish: a good winner is kept.
PublishLooks(c) ==
    /\ conn[c].pc \in {"taken", "last"}
    /\ \/ /\ Here(c) = "good"
          /\ conn' = [conn EXCEPT ![c] = Obtained(@, @.ver[@.part])]
          /\ litter' = litter \ {c}
       \/ /\ Here(c) # "good" /\ conn[c].pc = "taken"
          /\ conn' = [conn EXCEPT ![c].pc = IF Here(c) = "bad" THEN "discard" ELSE "retry",
                                  ![c].back = "retry"]
          /\ UNCHANGED litter
       \/ /\ Here(c) # "good" /\ conn[c].pc = "last"
          /\ ConnFails(c)
          /\ litter' = litter \ {c}
    /\ UNCHANGED <<entry, bundle, resolved, crashes>>

-----------------------------------------------------------------------------
(* assemble: verify_bundle reads, then removes what is damaged; the new directory *)
(* is staged from the cached files and renamed                                  *)

BundleBecomes(c, what) == bundle' = [bundle EXCEPT ![BundleId(c)] = what]

AsmGoes(c, pc, left) == ConnGoes(c, pc) /\ litter' = left

\* Where a verification that found nothing good leads, per place it is made at:
\* a damaged directory is removed first, and after a lost rename whatever is there.
AfterMiss == [assemble |-> "stage", lost |-> "remove", final |-> "failed"]
AfterBad == [assemble |-> "clean", lost |-> "clean lost", final |-> "clean final"]

Verify(c) ==
    /\ conn[c].pc \in DOMAIN AfterMiss
    /\ LET how == bundle[BundleId(c)] IN
          \/ how = "good" /\ AsmGoes(c, "ready", litter \ {c})
          \/ how = "bad" /\ AsmGoes(c, AfterBad[conn[c].pc], litter)
          \/ how = "absent" /\ AsmGoes(c, AfterMiss[conn[c].pc], litter)
    /\ UNCHANGED <<entry, bundle, resolved, crashes>>

AfterRemoval(pc) ==
    CASE pc = "clean" -> "stage" [] pc = "clean lost" -> "remove"
      [] pc = "clean final" -> "failed" [] pc = "remove" -> "again"

RemoveBundle(c) ==
    /\ conn[c].pc \in {"clean", "clean lost", "clean final", "remove"}
    /\ BundleBecomes(c, "absent")
    /\ ConnGoes(c, AfterRemoval(conn[c].pc))
    /\ UNCHANGED <<entry, litter, resolved, crashes>>

\* The cached files are linked as they are now; one that is gone fails the connect.
Stage(c) ==
    /\ conn[c].pc = "stage"
    /\ LET files == {entry[k][conn[c].ver[k]] : k \in {m \in Component : conn[c].ver[m] # 0}} IN
          IF "absent" \in files
          THEN AsmGoes(c, "failed", litter \ {c})
          ELSE /\ conn' = [conn EXCEPT ![c].pc = "rename", ![c].staged = IF "bad" \in files THEN "bad" ELSE "good"]
               /\ litter' = litter \cup {c}
    /\ UNCHANGED <<entry, bundle, resolved, crashes>>

RenameBundle(c) ==
    /\ conn[c].pc \in {"rename", "again"}
    /\ IF bundle[BundleId(c)] = "absent"
       THEN BundleBecomes(c, conn[c].staged) /\ AsmGoes(c, "ready", litter \ {c})
       ELSE /\ AsmGoes(c, IF conn[c].pc = "rename" THEN "lost" ELSE "final",
                       IF conn[c].pc = "again" THEN litter \ {c} ELSE litter)
            /\ UNCHANGED bundle
    /\ UNCHANGED <<entry, resolved, crashes>>

-----------------------------------------------------------------------------
\* The daemon dies, any published directory may be damaged, and the next daemon
\* sweeps what is temporary.
CrashAndSweep ==
    /\ crashes < CrashMax
    /\ crashes' = crashes + 1
    /\ conn' = [c \in Connect |-> NoConn]
    /\ litter' = {}
    /\ \/ /\ \E k \in Component : \E v \in {u \in Version : entry[k][u] = "good"} :
                entry' = [entry EXCEPT ![k][v] = "bad"]
          /\ UNCHANGED bundle
       \/ /\ \E id \in {i \in DOMAIN bundle : bundle[i] = "good"} :
                bundle' = [bundle EXCEPT ![id] = "bad"]
          /\ UNCHANGED entry
       \/ UNCHANGED <<entry, bundle>>
    /\ UNCHANGED resolved

ConnectStep(c) ==
    \/ \E r \in Request : Prepare(c, r.channel, r.tag, r.auto, r.local)
    \/ Cua(c) \/ ResolveChannel(c) \/ NewestCached(c) \/ Lookup(c) \/ Discard(c)
    \/ BridgeOwn(c) \/ BridgeNewest(c) \/ FetchDriver(c) \/ FetchBridge(c) \/ Publish(c) \/ PublishLooks(c)
    \/ Verify(c) \/ RemoveBundle(c) \/ Stage(c) \/ RenameBundle(c)

BundleNext ==
    \/ \E c \in Connect : ConnectStep(c)
    \/ CrashAndSweep

BundleSpec == BundleInit /\ [][BundleNext]_bundleVars

-----------------------------------------------------------------------------
\* What a connect is given, whatever other connects do to the cache meanwhile:
\* - the directory it serves holds the files of its manifest, and is there, unless
\*   a connect that had seen a damaged one removed the new one too;
\* - the driver is the one asked for: the tag, or one of the channel;
\* - another bridge than the daemon's own only when that has no release;
\* - a connect that ended leaves nothing temporary.
BundleIsAsAsked ==
    \A c \in Connect :
       /\ conn[c].pc = "ready" =>
             LET v == conn[c].ver IN
             /\ bundle[BundleId(c)] = "good" \/ (bundle[BundleId(c)] = "absent" /\ crashes > 0)
             /\ \/ "cua" \in conn[c].local
                \/ conn[c].channel = "tag" /\ v["cua"] = conn[c].tag
                \/ conn[c].channel \in Channels /\ v["cua"] \in accepts(conn[c].channel)
             /\ v["bridge"] \in {0, OwnVersion} \/ OwnVersion \notin Published["bridge"]
       /\ conn[c].pc \in {"ready", "failed", "idle"} => c \notin litter

=============================================================================
