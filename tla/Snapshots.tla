----------------------------- MODULE Snapshots -----------------------------
(***************************************************************************)
(* Snapshots of a namespace: the handlers that export and import its       *)
(* volumes under snapshotMu, the workers they leave behind, the commands   *)
(* `citeck snapshot export` and `import` that stop the namespace around    *)
(* them, and the resumable download of an archive.                         *)
(*                                                                         *)
(* An archive is "whole" or "partial".  The data of a volume is "old"      *)
(* (what the operator had), "new" (the archive's), "torn" (an extraction   *)
(* that has not ended) or "none".                                          *)
(***************************************************************************)
EXTENDS Integers, Sequences, FiniteSets, SequencesExt

CONSTANTS
  Volumes,      \* the volumes of the namespace
  Chunks,       \* the length of an archive, in reads of the network
  MaxTries,     \* retriesLimitTotal
  MaxStalled,   \* retriesLimitWithoutProgress
  MaxOps,       \* bound: operations started
  MaxCrashes    \* bound: restarts of the daemon

VARIABLES
  desktop,      \* config.IsDesktopMode(): named volumes, else bind directories
  status,       \* of the namespace
  mu,           \* snapshotMu is held
  op,           \* the operation that holds it: [kind, phase, todo]
  vols,         \* the data of each volume, as containers mount it
  aside,        \* the directories volumes.bak-*
  zip,          \* the archive in the snapshots directory
  news,         \* first snapshot_complete / snapshot_error the command has seen
  cli,          \* the command: [phase, kind, wasRunning]
  remote,       \* the version of the archive that the server offers
  part, dest,   \* the files <name>.zip.part and <name>.zip, chunk by chunk
  dl,           \* the download: [phase, sha, from, tries, stalled, size]
  ops, crashes

opVars == <<mu, op, vols, aside, zip>>
cliVars == <<news, cli>>
dlVars == <<remote, part, dest, dl>>
vars == <<desktop, status, opVars, cliVars, dlVars, ops, crashes>>

NoOp == [kind |-> "none", phase |-> "none", todo |-> {}]
NoDownload == [phase |-> "none", sha |-> 0, from |-> 0, tries |-> 0, stalled |-> 0, size |-> 0]
NoCommand == [phase |-> "none", kind |-> "none", wasRunning |-> FALSE]
Archive(v) == [i \in 1 .. Chunks |-> v]

Init ==
  /\ desktop \in BOOLEAN /\ status = "running" /\ mu = FALSE /\ op = NoOp
  /\ vols = [v \in Volumes |-> "old"] /\ aside = {} /\ zip = "absent"
  /\ news = "none" /\ cli = NoCommand
  /\ remote = 1 /\ part = <<>> /\ dest = <<>> /\ dl = NoDownload
  /\ ops = 0 /\ crashes = 0

\* snapshot_complete and snapshot_error reach a command that has subscribed.
Broadcast(e) == news' = IF cli.phase = "waiting" /\ news = "none" THEN e ELSE news

\* The deferred Unlock of a worker, after its last event.
EndOp(e) == mu' = FALSE /\ op' = NoOp /\ Broadcast(e)

-----------------------------------------------------------------------------
(* The handlers: TryLock, then the checks, each of which unlocks.          *)

Requested(kind) ==
  /\ ~mu /\ mu' = TRUE
  /\ op' = [kind |-> kind, phase |-> "locked", todo |-> {}]
  /\ UNCHANGED <<vols, aside, zip>>

\* An early return of handleExportSnapshot or handleImportSnapshot.
Refused(kind) ==
  /\ op.kind = kind /\ op.phase = "locked"
  /\ mu' = FALSE /\ op' = NoOp
  /\ UNCHANGED <<desktop, status, vols, aside, zip, cli, dlVars, ops, crashes>>
  \* the answer is an error, which snapshotAndWait returns
  /\ news' = IF cli.phase = "waiting" THEN "error" ELSE news

HandleExportSnapshot ==
  /\ op.kind = "export" /\ op.phase = "locked" /\ status = "stopped"
  /\ op' = [op EXCEPT !.phase = "volumes", !.todo = {v \in Volumes : vols[v] # "none"}]
  /\ UNCHANGED <<desktop, status, mu, vols, aside, zip, cliVars, dlVars, ops, crashes>>

HandleImportSnapshot ==
  /\ op.kind = "import" /\ op.phase = "locked" /\ status = "stopped" /\ zip # "absent"
  /\ op' = [op EXCEPT !.phase = "unpacked"]
  /\ UNCHANGED <<desktop, status, mu, vols, aside, zip, cliVars, dlVars, ops, crashes>>

\* Volume by volume into a temporary directory, then the zip, written where
\* it is read from: a failure leaves a partial one.
ExportVolume ==
  /\ op.kind = "export" /\ op.phase = "volumes"
  /\ \E v \in op.todo : op' = [op EXCEPT !.todo = @ \ {v}]
  /\ UNCHANGED <<desktop, status, mu, vols, aside, zip, cliVars, dlVars, ops, crashes>>
Export(ok) ==
  /\ op.kind = "export" /\ op.phase = "volumes" /\ (ok => op.todo = {})
  /\ EndOp(IF ok THEN "complete" ELSE "error")
  /\ zip' = IF op.todo # {} THEN zip ELSE IF ok THEN "whole" ELSE "partial"
  /\ UNCHANGED <<desktop, status, vols, aside, cli, dlVars, ops, crashes>>

\* backupServerVolumesDir: what is there moves aside as a whole.
NoBackup == UNCHANGED <<vols, aside>>
BackupServerVolumesDir ==
  IF desktop \/ \A v \in Volumes : vols[v] = "none" THEN UNCHANGED <<vols, aside>>
  ELSE aside' = aside \cup {vols} /\ vols' = [v \in Volumes |-> "none"]

\* Import: the archive is unpacked and checked before any volume is touched.
Import ==
  /\ op.kind = "import" /\ op.phase = "unpacked" /\ zip = "whole"
  /\ op' = [op EXCEPT !.phase = "volumes", !.todo = Volumes]
  /\ BackupServerVolumesDir
  /\ UNCHANGED <<desktop, status, mu, zip, cliVars, dlVars, ops, crashes>>
ImportFails ==
  /\ op.kind = "import" /\ op.phase \in {"unpacked", "volumes"}
  /\ EndOp("error")
  /\ UNCHANGED <<desktop, status, vols, aside, zip, cli, dlVars, ops, crashes>>

\* importVolume clears a named volume, then extracts into it.
ImportVolume ==
  /\ op.kind = "import" /\ op.phase = "volumes"
  /\ \E v \in op.todo :
       \/ vols[v] # "torn" /\ vols' = [vols EXCEPT ![v] = "torn"] /\ UNCHANGED op
       \/ vols[v] = "torn" /\ vols' = [vols EXCEPT ![v] = "new"] /\ op' = [op EXCEPT !.todo = @ \ {v}]
  /\ UNCHANGED <<desktop, status, mu, aside, zip, cliVars, dlVars, ops, crashes>>
ImportEnds ==
  /\ op.kind = "import" /\ op.phase = "volumes" /\ op.todo = {}
  /\ EndOp("complete")
  /\ UNCHANGED <<desktop, status, vols, aside, zip, cli, dlVars, ops, crashes>>

HandleDeleteSnapshot ==
  /\ zip # "absent" /\ zip' = "absent"
  /\ UNCHANGED <<desktop, status, mu, op, vols, aside, cliVars, dlVars, ops, crashes>>

-----------------------------------------------------------------------------
(* The commands: stop the namespace, subscribe, ask, wait, start it back.  *)

Command(kind) ==
  /\ cli = NoCommand /\ ops < MaxOps /\ ops' = ops + 1
  /\ kind = "import" => zip # "absent"  \* the pre-flight check
  /\ cli' = [phase |-> "stopping", kind |-> kind, wasRunning |-> status # "stopped"]
  /\ status' = IF status = "running" THEN "stopping" ELSE status
  /\ UNCHANGED <<desktop, opVars, news, dlVars, crashes>>

\* waitForStopped: the namespace stops, or the command gives up.
WaitForStopped ==
  /\ cli.phase = "stopping"
  /\ \/ status = "stopped" /\ cli' = [cli EXCEPT !.phase = "subscribed"]
     \/ status # "stopped" /\ cli' = NoCommand
  /\ news' = "none"
  /\ UNCHANGED <<desktop, status, opVars, dlVars, ops, crashes>>

SnapshotAndWait ==
  /\ cli.phase = "subscribed"
  /\ cli' = [cli EXCEPT !.phase = "waiting"]
  /\ IF mu THEN UNCHANGED opVars /\ news' = "error" ELSE Requested(cli.kind) /\ UNCHANGED news
  /\ UNCHANGED <<desktop, status, dlVars, ops, crashes>>

\* The first event decides; an error, and the end of the stream after 300 s,
\* are failures, and the namespace is started back after each of them.
Waited(answer) ==
  /\ cli.phase = "waiting" /\ (news = "none" => answer = "timeout") /\ (news # "none" => answer = news)
  /\ cli' = IF cli.wasRunning THEN [cli EXCEPT !.phase = "restart"] ELSE NoCommand
  /\ UNCHANGED <<desktop, status, opVars, news, dlVars, ops, crashes>>
StartBack ==
  /\ cli.phase = "restart" /\ cli' = NoCommand
  /\ status' = IF status = "stopped" THEN "running" ELSE status
  /\ UNCHANGED <<desktop, opVars, news, dlVars, ops, crashes>>

Stopped ==
  /\ status = "stopping" /\ status' = "stopped"
  /\ UNCHANGED <<desktop, opVars, cliVars, dlVars, ops, crashes>>

-----------------------------------------------------------------------------
(* DownloadWithRetry                                                       *)

\* A download starts unless the file is there; a cached one whose hash is
\* another is set aside first (downloadAndImportSnapshot).
HandleDownloadSnapshot(sha) ==
  /\ dl.phase = "none" /\ ops < MaxOps /\ ops' = ops + 1
  /\ dest = <<>> \/ (sha # 0 /\ dest # Archive(sha))
  /\ dl' = [NoDownload EXCEPT !.phase = "get", !.sha = sha, !.size = Len(part)]
  /\ dest' = <<>>
  /\ UNCHANGED <<desktop, status, opVars, cliVars, remote, part, crashes>>

\* doGet resumes at the end of the part; a server that ignores the range,
\* or a range past the end, starts from the beginning.
DoGet ==
  /\ dl.phase = "get"
  /\ \/ part # <<>> /\ Len(part) < Chunks /\ UNCHANGED part
     \/ part' = <<>>
  /\ dl' = [dl EXCEPT !.phase = "read", !.from = remote]
  /\ UNCHANGED <<desktop, status, opVars, cliVars, remote, dest, ops, crashes>>

Read ==
  /\ dl.phase = "read"
  /\ IF Len(part) < Chunks THEN part' = Append(part, dl.from) /\ UNCHANGED dl
     ELSE dl' = [dl EXCEPT !.phase = "check"] /\ UNCHANGED part
  /\ UNCHANGED <<desktop, status, opVars, cliVars, remote, dest, ops, crashes>>

\* The hash is that of the part; a mismatch sets the part aside for good.
Check ==
  /\ dl.phase = "check"
  /\ dest' = IF dl.sha = 0 \/ part = Archive(dl.sha) THEN part ELSE dest
  /\ part' = <<>> /\ dl' = NoDownload
  /\ UNCHANGED <<desktop, status, opVars, cliVars, remote, ops, crashes>>

\* A failed attempt: it counts, and a part that has grown forgives stalling.
Retry ==
  /\ dl.phase \in {"get", "read"}
  /\ LET grown == Len(part) > dl.size
         stalled == IF grown THEN 0 ELSE dl.stalled + 1
         next == [dl EXCEPT !.tries = @ + 1, !.stalled = stalled, !.phase = "get",
                            !.size = IF grown THEN Len(part) ELSE @]
     IN dl' = IF next.tries >= MaxTries \/ next.stalled >= MaxStalled THEN NoDownload ELSE next
  /\ UNCHANGED <<desktop, status, opVars, cliVars, remote, part, dest, ops, crashes>>

NewVersion ==
  /\ remote = 1 /\ remote' = 2
  /\ UNCHANGED <<desktop, status, opVars, cliVars, part, dest, dl, ops, crashes>>

-----------------------------------------------------------------------------
Crash ==
  /\ crashes < MaxCrashes /\ crashes' = crashes + 1
  /\ mu' = FALSE /\ op' = NoOp /\ dl' = NoDownload /\ cli' = NoCommand /\ news' = "none"
  /\ zip' \in IF op.kind = "export" /\ op.phase = "volumes" /\ op.todo = {} THEN {zip, "partial"} ELSE {zip}
  /\ UNCHANGED <<desktop, status, vols, aside, remote, part, dest, ops>>

Worker ==
  \/ \E kind \in {"export", "import"} : Refused(kind)
  \/ HandleExportSnapshot \/ HandleImportSnapshot
  \/ ExportVolume \/ \E ok \in BOOLEAN : Export(ok)
  \/ Import \/ ImportFails \/ ImportVolume \/ ImportEnds

Next ==
  \/ Worker
  \/ HandleDeleteSnapshot \/ WaitForStopped \/ SnapshotAndWait \/ StartBack \/ Stopped
  \/ \E kind \in {"export", "import"} : Command(kind)
  \/ \E answer \in {"complete", "error", "timeout"} : Waited(answer)
  \/ \E sha \in 0 .. 2 : HandleDownloadSnapshot(sha)
  \/ DoGet \/ Read \/ Check \/ Retry \/ NewVersion
  \/ Crash

Spec == Init /\ [][Next]_vars
-----------------------------------------------------------------------------
\* The operator's data outlives every import on a server: while a volume is
\* being replaced, after a failure between two volumes, after a crash, and
\* after an import on top of a failed one.
DataIsKept == [v \in Volumes |-> "old"] \in {vols} \cup aside

\* A file under its final name is one version of the archive, whole, when a
\* hash was given, however often the download was resumed and whatever
\* the server changed meanwhile.
CachedIsGenuine ==
  [][dest' # dest /\ dl.sha # 0 => dest' \in {<<>>, Archive(dl.sha)}]_vars
\* Both.
SnapshotsAreSafe == [](~desktop => DataIsKept) /\ CachedIsGenuine
=============================================================================
