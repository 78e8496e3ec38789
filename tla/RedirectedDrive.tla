--------------------------- MODULE RedirectedDrive ---------------------------
(* The drive a session redirects into its guest (rdpilot/rdpdr_backend.rs) and  *)
(* the file transfers that go over it: upload_file and download_file of         *)
(* rdpilot/session.rs at the host, the copy thread of rdpilot-bridge/transfer.rs *)
(* at the guest.                                                                *)
(*                                                                              *)
(* - A wire path is its sequence of components after normalize and the change of *)
(*   \ to /.  A host path is a canonical sequence of components.                *)
(* - A file's content is the sequence of its chunks; 0 is a hole.               *)
(* - "Explorer" is any other program of the guest that opens the drive.         *)
(*                                                                              *)
(* Left out: links, times, volume figures and the shapes of the information     *)
(* classes; the wrap of the u32 file ids.                                       *)
EXTENDS Naturals, Sequences, FiniteSets, SequencesExt

CONSTANTS
    BundleFile,     \* the sequence of file names of the served bundle, sorted
    ShareName,      \* the names of the transfers (unique_share_name)
    StagingName,    \* the names of the staged files, in the order of their ids
    FileChunks,     \* the length of the file a transfer copies
    WirePath,       \* the paths an explorer opens
    MaxFileId       \* bound on the file ids granted

ASSUME DriveAssumption == FileChunks \in Nat \ {0} /\ MaxFileId \in Nat

VARIABLES
    openFiles,      \* file id -> OpenEntry
    listings,       \* file id -> the names still to be returned
    nextFileId,
    nextStagingId,
    disk,           \* host path -> content
    stages,         \* BootstrapProgress
    fetch,          \* per transfer: [op, pc] of its future at the host
    asked,          \* transfers whose request is on its way to the guest
    result,         \* per transfer: the guest's answer
    copying,        \* the guest's copy thread
    guestFile,      \* per transfer: the file at the guest after an upload
    linked          \* the connection stands

ioVars == <<openFiles, listings, nextFileId, nextStagingId, disk, stages>>
copyVars == <<fetch, asked, result, copying, guestFile, linked>>
driveVars == <<ioVars, copyVars>>

Whole == [i \in 1..FileChunks |-> i]
NoCopy == [share |-> "none", op |-> "none", id |-> 0, todo |-> {}, sum |-> <<>>, failed |-> FALSE]
NoResult == [ok |-> FALSE, known |-> FALSE, sum |-> <<>>]

-----------------------------------------------------------------------------
(* Paths *)

ShareRoot == <<"host", "share">>
StagingLeaf == ".rdpilot-staging"
StagingDir == Append(ShareRoot, StagingLeaf)
BundleDir == <<"host", "bundle">>
Directory == {<<>>, <<"host">>, ShareRoot, StagingDir, BundleDir}
NoPath == <<"none">>
ToParent == ".."

\* fs::canonicalize of a directory.
Canonicalize(path) ==
    LET walk[i \in 0..Len(path)] ==
            IF i = 0 THEN <<>>
            ELSE IF walk[i - 1] \notin Directory THEN NoPath
            ELSE IF path[i] # ToParent THEN Append(walk[i - 1], path[i])
            ELSE IF walk[i - 1] = <<>> THEN <<>> ELSE Front(walk[i - 1])
    IN  IF walk[Len(path)] \in Directory THEN walk[Len(path)] ELSE NoPath

RootMark == {"/", "C:"}
looks_rooted(wire) == wire[1] \in RootMark

resolve_under_root(wire) ==
    LET parent == Canonicalize(Front(ShareRoot \o wire))
    IN  IF \/ looks_rooted(wire) \/ ~IsPrefix(ShareRoot, parent) \/ Last(wire) = ToParent
        THEN NoPath
        ELSE Append(parent, Last(wire))

Shared(n) == Append(ShareRoot, n)
Staged(k) == Append(StagingDir, StagingName[k])

\* The names carry counters and the time: a transfer's differs from all others and
\* from what the drive knows, a staged file's from all others.
ASSUME NameAssumption ==
    /\ ShareName \cap ({"bundle", ToParent} \cup RootMark) = {}
    /\ \A j, k \in 1..MaxFileId : StagingName[j] = StagingName[k] => j = k
\* No other program opens a transfer's file or a staged one by its name.
ASSUME ExplorerAssumption ==
    \A wire \in WirePath :
       wire # <<>> => resolve_under_root(wire) \notin {Shared(n) : n \in ShareName} \cup {Staged(k) : k \in 1..MaxFileId}

-----------------------------------------------------------------------------
(* The requests of the guest's redirector *)

Entry(kind, path) == [kind |-> kind, path |-> path, staging |-> NoPath, expected |-> {}]
NoEntry == Entry("none", NoPath)

is_write_disposition(d) == d \in {"FILE_CREATE", "FILE_OPEN_IF", "FILE_OVERWRITE_IF", "FILE_SUPERSEDE"}

\* What a path is granted; the bridge path is the directory of the bundle.
Granted(wire, d) ==
    LET file == IF wire = <<>> THEN NoPath ELSE resolve_under_root(wire) IN
    CASE wire = <<>> -> Entry("Root", <<>>)
      [] wire = <<"bundle">> -> Entry("BundleRoot", BundleDir)
      [] Len(wire) > 1 /\ wire[1] = "bundle" ->
            IF Len(wire) = 2 /\ \E i \in DOMAIN BundleFile : BundleFile[i] = wire[2]
            THEN Entry("File", Append(BundleDir, wire[2])) ELSE NoEntry
      [] OTHER ->
            IF file = NoPath THEN NoEntry
            ELSE IF is_write_disposition(d)
            THEN [Entry("WriteFile", file) EXCEPT !.staging = Staged(nextStagingId)]
            ELSE Entry("File", file)

\* handle_create: a write disposition gets an empty staged file.
CreateFile(wire, d) ==
    LET entry == Granted(wire, d) IN
    /\ nextFileId <= MaxFileId
    /\ entry.kind # "none"
    /\ nextFileId' = nextFileId + 1
    /\ openFiles' = [i \in DOMAIN openFiles \cup {nextFileId} |->
                        IF i = nextFileId THEN entry ELSE openFiles[i]]
    /\ IF entry.kind = "WriteFile"
       THEN /\ nextStagingId' = nextStagingId + 1
            /\ disk' = [p \in DOMAIN disk \cup {entry.staging} |->
                           IF p = entry.staging THEN <<>> ELSE disk[p]]
       ELSE UNCHANGED <<nextStagingId, disk>>
    /\ stages' = IF wire # <<>> /\ wire[1] = "bundle" THEN stages \cup {"RdpdrFileAccess"} ELSE stages
    /\ UNCHANGED listings

Without(f, x) == [i \in DOMAIN f \ {x} |-> f[i]]

\* The staged file is renamed, unless it lacks the length announced for it.
finalize_write(e) ==
    IF /\ e.staging \in DOMAIN disk
       /\ e.expected \subseteq {Len(disk[e.staging])}
    THEN disk' = [p \in (DOMAIN disk \ {e.staging}) \cup {e.path} |->
                     IF p = e.path THEN disk[e.staging] ELSE disk[p]]
    ELSE UNCHANGED disk

CloseFile(id) ==
    /\ IF openFiles[id].kind = "WriteFile" THEN finalize_write(openFiles[id]) ELSE UNCHANGED disk
    /\ openFiles' = Without(openFiles, id)
    /\ listings' = Without(listings, id)
    /\ UNCHANGED <<nextFileId, nextStagingId, stages>>

\* The status each request is answered with.
DriveStatus(request, id) ==
    LET kind == IF id \in DOMAIN openFiles THEN openFiles[id].kind ELSE "none" IN
    CASE request = "Close" -> "SUCCESS"
      [] request = "Read" ->
            IF kind # "File" THEN "ACCESS_DENIED"
            ELSE IF openFiles[id].path \in DOMAIN disk THEN "SUCCESS" ELSE "UNSUCCESSFUL"
      [] request = "Write" ->
            IF kind # "WriteFile" THEN "ACCESS_DENIED"
            ELSE IF openFiles[id].staging \in DOMAIN disk THEN "SUCCESS" ELSE "UNSUCCESSFUL"
      [] request = "SetInformation" -> IF kind = "WriteFile" THEN "SUCCESS" ELSE "ACCESS_DENIED"
      [] request \in {"QueryInformation", "QueryVolumeInformation"} ->
            IF kind = "none" THEN "ACCESS_DENIED" ELSE "SUCCESS"
      [] request = "QueryDirectory" ->
            IF id \in DOMAIN listings /\ listings[id] # <<>> THEN "SUCCESS" ELSE "NO_MORE_FILES"
      [] OTHER -> "NOT_SUPPORTED"

read_bytes_at(path, offset) == disk[path][offset]

\* The size a handle reports; a file that is not there has none.
FileSize(id) ==
    LET e == openFiles[id]
        path == IF e.kind = "WriteFile" THEN e.staging ELSE e.path
    IN  IF path \in DOMAIN disk THEN Len(disk[path]) ELSE 0

\* Mutant: a write lands at the end of the file.
write_appends(path, offset, c) == [disk EXCEPT ![path] = Append(@, c)]

write_bytes_at(path, offset, c) ==
    [disk EXCEPT ![path] = [i \in 1..(IF offset > Len(@) THEN offset ELSE Len(@)) |->
                               IF i = offset THEN c ELSE IF i <= Len(@) THEN @[i] ELSE 0]]

WriteFile(id, offset, c) ==
    /\ DriveStatus("Write", id) = "SUCCESS"
    /\ disk' = write_bytes_at(openFiles[id].staging, offset, c)
    /\ UNCHANGED <<openFiles, listings, nextFileId, nextStagingId, stages>>

\* Of the information classes only EndOfFile is kept.
SetEndOfFile(id, len) ==
    /\ DriveStatus("SetInformation", id) = "SUCCESS"
    /\ openFiles' = [openFiles EXCEPT ![id].expected = {len}]
    /\ UNCHANGED <<listings, nextFileId, nextStagingId, disk, stages>>

\* The names a directory handle lists; a file lists itself.
Listed(e) ==
    CASE e.kind = "BundleRoot" -> BundleFile
      [] e.kind = "Root" -> <<"bundle">>
      [] e.kind = "File" -> <<Last(e.path)>>
      [] OTHER -> <<>>

QueryDirectory(id, initial, pattern) ==
    LET matches(name) == pattern \in {"*", name}
        left == IF initial THEN SelectSeq(Listed(openFiles[id]), matches)
                ELSE IF id \in DOMAIN listings THEN listings[id] ELSE <<>>
    IN  /\ initial \/ DriveStatus("QueryDirectory", id) = "SUCCESS"
        /\ listings' = [i \in DOMAIN listings \cup {id} |->
                           IF i # id THEN listings[i] ELSE IF left = <<>> THEN left ELSE Tail(left)]
        /\ UNCHANGED <<openFiles, nextFileId, nextStagingId, disk, stages>>

\* Reading the bundle is a stage of the bootstrap.
ReadBundle(id) ==
    /\ openFiles[id].kind = "File" /\ IsPrefix(BundleDir, openFiles[id].path)
    /\ stages' = stages \cup {"RdpdrFileRead"}
    /\ UNCHANGED <<openFiles, listings, nextFileId, nextStagingId, disk>>

-----------------------------------------------------------------------------
(* upload_file and download_file at the host *)

HostGoes(n, pc) == fetch' = [fetch EXCEPT ![n].pc = pc]

\* StagedFile::drop
Unstage(n) == disk' = Without(disk, Shared(n))

\* An upload puts the file under its name; then the guest is asked.
HostBegins(n, op) ==
    /\ fetch[n].pc = "idle" /\ linked
    /\ fetch' = [fetch EXCEPT ![n] = [op |-> op, pc |-> "asked"]]
    /\ asked' = asked \cup {n}
    /\ disk' = IF op = "Upload"
               THEN [p \in DOMAIN disk \cup {Shared(n)} |-> IF p = Shared(n) THEN Whole ELSE disk[p]]
               ELSE disk
    /\ UNCHANGED <<openFiles, listings, nextFileId, nextStagingId, stages, result, copying, guestFile, linked>>

\* The guest has answered: the staged file must have the guest's checksum.
HostEnds(n) ==
    /\ fetch[n].pc = "asked" /\ result[n].known
    /\ HostGoes(n, IF result[n].ok /\ Shared(n) \in DOMAIN disk /\ disk[Shared(n)] = result[n].sum
                   THEN "ok" ELSE "failed")
    /\ Unstage(n)
    /\ UNCHANGED <<openFiles, listings, nextFileId, nextStagingId, stages, asked, result, copying, guestFile, linked>>

\* The job is stopped, its deadline passes or the bridge is gone.
HostStops(n) ==
    /\ fetch[n].pc = "asked"
    /\ HostGoes(n, "stopped")
    /\ Unstage(n)
    /\ UNCHANGED <<openFiles, listings, nextFileId, nextStagingId, stages, asked, result, copying, guestFile, linked>>

-----------------------------------------------------------------------------
(* execute and copy at the guest; its redirector sends writes in any order and *)
(* all of them before the close                                                *)

CopyResult(n, ok, sum) ==
    result' = [result EXCEPT ![n] = [ok |-> ok, known |-> TRUE, sum |-> sum]]

\* A request while a copy runs is refused as busy.
CopyBusy(n) ==
    /\ linked /\ n \in asked /\ copying # NoCopy
    /\ asked' = asked \ {n}
    /\ CopyResult(n, FALSE, <<>>)
    /\ UNCHANGED <<ioVars, fetch, copying, guestFile, linked>>

\* The file of the drive is opened: created for a download, read for an upload,
\* and then its size is asked.
CopyOpens(n) ==
    /\ linked /\ n \in asked /\ copying = NoCopy
    /\ asked' = asked \ {n}
    /\ CreateFile(<<n>>, IF fetch[n].op = "Download" THEN "FILE_CREATE" ELSE "FILE_OPEN")
    /\ copying' = [share |-> n, op |-> fetch[n].op, id |-> nextFileId,
                   todo |-> 1..(IF fetch[n].op = "Download" THEN FileChunks
                                ELSE IF Shared(n) \in DOMAIN disk THEN Len(disk[Shared(n)]) ELSE 0),
                   sum |-> <<>>, failed |-> FALSE]
    /\ UNCHANGED <<fetch, result, guestFile, linked>>

\* A write of the redirector, which may announce the length first.
CopyWrites ==
    /\ linked /\ copying # NoCopy /\ copying.op = "Download" /\ ~copying.failed
    /\ \E k \in copying.todo :
          /\ WriteFile(copying.id, k, Whole[k])
          /\ copying' = [copying EXCEPT !.todo = @ \ {k}]
    /\ UNCHANGED <<fetch, asked, result, guestFile, linked>>

CopyAnnounces ==
    /\ linked /\ copying # NoCopy /\ copying.op = "Download"
    /\ openFiles[copying.id].expected = {}
    /\ SetEndOfFile(copying.id, FileChunks)
    /\ UNCHANGED copyVars

\* The next chunk of an upload; a read that fails ends the copy.
CopyReadsChunk ==
    /\ linked /\ copying # NoCopy /\ copying.op = "Upload" /\ ~copying.failed
    /\ copying.todo # {}
    /\ LET k == CHOOSE i \in copying.todo : \A j \in copying.todo : i <= j IN
          copying' = IF DriveStatus("Read", copying.id) = "SUCCESS"
                     THEN [copying EXCEPT !.todo = @ \ {k},
                                          !.sum = Append(@, read_bytes_at(Shared(copying.share), k))]
                     ELSE [copying EXCEPT !.failed = TRUE]
    /\ UNCHANGED <<ioVars, fetch, asked, result, guestFile, linked>>

\* An I/O error at the guest, or the copy is cancelled.
CopyFails ==
    /\ linked /\ copying # NoCopy /\ ~copying.failed
    /\ copying' = [copying EXCEPT !.failed = TRUE]
    /\ UNCHANGED <<ioVars, fetch, asked, result, guestFile, linked>>

\* The handle is closed, then the request is answered; the guest's own partial
\* file is removed.
CopyCloses ==
    /\ linked /\ copying # NoCopy
    /\ copying.todo = {} \/ copying.failed
    /\ CloseFile(copying.id)
    /\ CopyResult(copying.share, ~copying.failed,
                   IF copying.op = "Download" THEN Whole ELSE copying.sum)
    /\ guestFile' = IF copying.op = "Upload" /\ ~copying.failed
                    THEN [guestFile EXCEPT ![copying.share] = copying.sum] ELSE guestFile
    /\ copying' = NoCopy
    /\ UNCHANGED <<fetch, asked, linked>>

-----------------------------------------------------------------------------
(* Other programs of the guest, and the end of the connection *)

Foreign(id) == copying.id # id

ExplorerOpens(wire, d) ==
    /\ linked
    /\ CreateFile(wire, d)
    /\ UNCHANGED copyVars

ExplorerActs(id) ==
    /\ linked /\ Foreign(id)
    /\ \/ CloseFile(id)
       \/ ReadBundle(id)
       \/ \E initial \in BOOLEAN, pattern \in {"*", Last(BundleFile)} : QueryDirectory(id, initial, pattern)
    /\ UNCHANGED copyVars

\* No close arrives for the handles of a connection that is lost.
LinkLost ==
    /\ linked
    /\ linked' = FALSE
    /\ openFiles' = <<>> /\ listings' = <<>>
    /\ UNCHANGED <<nextFileId, nextStagingId, disk, stages, fetch, asked, result, copying, guestFile>>

-----------------------------------------------------------------------------
DriveInit ==
    /\ openFiles = <<>> /\ listings = <<>>
    /\ nextFileId = 1 /\ nextStagingId = 1
    /\ disk = [p \in {Append(BundleDir, BundleFile[i]) : i \in DOMAIN BundleFile} |-> <<>>]
    /\ stages = {}
    /\ fetch = [n \in ShareName |-> [op |-> "none", pc |-> "idle"]]
    /\ asked = {}
    /\ result = [n \in ShareName |-> NoResult]
    /\ copying = NoCopy
    /\ guestFile = [n \in ShareName |-> <<>>]
    /\ linked = TRUE

DriveNext ==
    \/ \E n \in ShareName :
          \/ \E op \in {"Upload", "Download"} : HostBegins(n, op)
          \/ HostEnds(n) \/ HostStops(n) \/ CopyBusy(n) \/ CopyOpens(n)
    \/ CopyWrites \/ CopyAnnounces \/ CopyReadsChunk \/ CopyFails \/ CopyCloses
    \/ \E wire \in WirePath, d \in {"FILE_OPEN", "FILE_CREATE"} : ExplorerOpens(wire, d)
    \/ \E id \in DOMAIN openFiles : ExplorerActs(id)
    \/ LinkLost

DriveSpec == DriveInit /\ [][DriveNext]_driveVars

-----------------------------------------------------------------------------
\* The drive and the transfers over it, whatever order the redirector's requests
\* take, whoever gives up first and whatever other programs open under other names:
\* - a transfer the host reports as done has moved the whole file;
\* - while the guest reports success and the host still looks, the file under the
\*   transfer's name is the whole one, and no partial file has a name in the share
\*   unless the guest's copy failed;
\* - a file stays in the share only after a transfer was stopped before the guest
\*   closed it;
\* - no handle reaches outside the share and the bundle.
TransfersAreWhole ==
    /\ \A n \in ShareName :
          /\ fetch[n].pc = "ok" /\ fetch[n].op = "Upload" => guestFile[n] = Whole
          /\ fetch[n].pc = "ok" => result[n].sum = Whole
          /\ fetch[n].pc = "asked" /\ result[n].ok => disk[Shared(n)] = Whole
          /\ Shared(n) \in DOMAIN disk =>
                /\ fetch[n].pc \in {"asked", "stopped"}
                /\ disk[Shared(n)] = Whole \/ (result[n].known /\ ~result[n].ok)
    /\ \A id \in DOMAIN openFiles :
          openFiles[id].kind \in {"File", "WriteFile"} =>
             \/ IsPrefix(ShareRoot, openFiles[id].path)
             \/ IsPrefix(BundleDir, openFiles[id].path) /\ openFiles[id].kind = "File"

=============================================================================
