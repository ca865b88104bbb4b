------------------------------ MODULE Staging ------------------------------
(***************************************************************************)
(* An update of the desktop launcher on its way from the releases to the   *)
(* manifest: the daemon looks for the latest release, downloads it piece   *)
(* by piece, verifies and unpacks it, and offers it to the wrapper, which  *)
(* judges it when it runs.                                                 *)
(*                                                                         *)
(* A release is published asset by asset and may be published again.  The  *)
(* manifest is one file that two processes read, change and write.         *)
(***************************************************************************)
EXTENDS Naturals

CONSTANTS
  MaxRelease,     \* bound: releases after the launcher's own, which is 0
  MaxUploads,     \* bound: assets that are published
  StagingFaults   \* subset of {"again", "race"}

VARIABLES
  release,   \* of each version, whose asset, sum and signature there are
  newest,    \* the version that is the latest
  uploads,
  svc,       \* the service: the latest it knows, why an update is manual, of which version
  stage,     \* where Stage is, with which version, archive and copy of the manifest
  bin,       \* the binary of each version that was unpacked
  manifest,
  current    \* the version the daemon is

vars == <<release, newest, uploads, svc, stage, bin, manifest, current>>

Versions == 1 .. MaxRelease
Missing == "missing"
\* What we published and signed, and anything else.
Contents == {"ours", "other"}
Idle == [pc |-> "idle", v |-> 0, tar |-> Missing, copy |-> [v \in Versions |-> "none"]]

Init ==
  /\ release = [v \in Versions |-> [asset |-> Missing, sum |-> Missing, sig |-> Missing]]
  /\ newest = 0 /\ uploads = 0
  /\ svc = [latest |-> 0, reason |-> "none", version |-> 0]
  /\ stage = Idle
  /\ bin = [v \in Versions |-> Missing]
  /\ manifest = [v \in Versions |-> "none"]
  /\ current = 0

\* A release becomes the latest with its assets in whatever state they are.
Upload(v, part, content) ==
  /\ uploads < MaxUploads /\ uploads' = uploads + 1
  /\ release[v][part] # content
  /\ release' = [release EXCEPT ![v][part] = content]
  /\ newest' \in {newest, IF v > newest THEN v ELSE newest}
  /\ UNCHANGED <<svc, stage, bin, manifest, current>>
-----------------------------------------------------------------------------
(* The daemon.                                                             *)

\* CheckLatest: a notice about another version than the latest is taken back.
Checked(v) ==
  IF svc.version \notin {0, v} THEN [latest |-> v, reason |-> "none", version |-> 0]
                               ELSE [svc EXCEPT !.latest = v]
CheckLatest ==
  /\ svc' = Checked(newest)
  /\ UNCHANGED <<release, newest, uploads, stage, bin, manifest, current>>

Go(next) == stage' = [stage EXCEPT !.pc = next]
Refused == stage' = Idle

\* Stage: one at a time, of a later version that has not failed.  A version that
\* is pending already may be staged again, when the wrapper could not be asked.
Stage ==
  /\ stage.pc = "idle" /\ svc' = Checked(newest)
  /\ newest > current /\ manifest[newest] # "failed"
  /\ "again" \in StagingFaults \/ manifest[newest] \in {"none", "staged"}
  /\ stage' = [Idle EXCEPT !.pc = "download", !.v = newest]
  /\ UNCHANGED <<release, newest, uploads, bin, manifest, current>>

\* downloadFile: into a file of its own, and only then under its name.
DownloadFile ==
  /\ stage.pc = "download"
  /\ IF release[stage.v].asset = Missing THEN Refused
     ELSE stage' = [stage EXCEPT !.pc = "sum", !.tar = release[stage.v].asset]
  /\ UNCHANGED <<release, newest, uploads, svc, bin, manifest, current>>

\* fetchExpectedSHA and verifySHA256: the sum as it is published now.
VerifySHA256 ==
  /\ stage.pc = "sum"
  /\ IF release[stage.v].sum = stage.tar THEN Go("signature") ELSE Refused
  /\ UNCHANGED <<release, newest, uploads, svc, bin, manifest, current>>

\* Mutation of Genuine: the sum is enough.
GenuineBySum(tar, sig) == TRUE
\* verifyFileSignature: only a signature of ours fits, and only what is ours.
Genuine(tar, sig) == tar = "ours" /\ sig = "ours"

\* verifyReleaseSignature and recordSignatureOutcome: a signature that is missing
\* or does not fit makes the update manual, a failure on the way changes nothing.
VerifyReleaseSignature ==
  LET sig == release[stage.v].sig
      reason == IF sig = Missing THEN "signature_missing" ELSE "signature_mismatch"
  IN /\ stage.pc = "signature"
     /\ \/ Genuine(stage.tar, sig) /\ Go("unpack")
           /\ svc' = [svc EXCEPT !.reason = "none", !.version = 0]
        \/ ~Genuine(stage.tar, sig) /\ Refused
           /\ svc' = [svc EXCEPT !.reason = reason, !.version = stage.v]
        \/ Refused /\ UNCHANGED svc
     /\ UNCHANGED <<release, newest, uploads, bin, manifest, current>>

\* extractDaemonBinary: onto the binary, which is not whole until the end.
ExtractDaemonBinary ==
  /\ \/ stage.pc = "unpack" /\ Go("unpacking") /\ bin' = [bin EXCEPT ![stage.v] = "part"]
     \/ stage.pc = "unpacking" /\ bin' = [bin EXCEPT ![stage.v] = stage.tar]
        /\ stage' = [stage EXCEPT !.pc = "stage", !.copy = manifest]
  /\ UNCHANGED <<release, newest, uploads, svc, manifest, current>>

\* AddStaged and MarkState: each loads the manifest, changes it and saves it.
AddStaged ==
  /\ stage.pc = "stage"
  /\ manifest' = [stage.copy EXCEPT ![stage.v] = "staged"]
  /\ stage' = [stage EXCEPT !.pc = "mark", !.copy = manifest']
  /\ UNCHANGED <<release, newest, uploads, svc, bin, current>>
MarkPending ==
  /\ stage.pc = "mark" /\ manifest' = [stage.copy EXCEPT ![stage.v] = "pending"]
  /\ Refused
  /\ UNCHANGED <<release, newest, uploads, svc, bin, current>>
-----------------------------------------------------------------------------
(* The wrapper.                                                            *)

\* SelectBestEntry: the latest that is good or pending, and is there.
Selected(v) ==
  /\ manifest[v] \in {"good", "pending"} /\ bin[v] # Missing /\ v > current
  /\ \A w \in Versions : w > v => manifest[w] \notin {"good", "pending"} \/ bin[w] = Missing

\* The daemon is replaced, at the request of Stage or at a boot, whatever it is
\* about; what is pending is judged by whether it answers, and one that is ours
\* may fail as well.
Judge(v, answers) ==
  /\ Selected(v)
  /\ stage.pc \notin {"stage", "mark"} \/ "race" \in StagingFaults
  /\ answers => bin[v] \in Contents
  /\ manifest' = [manifest EXCEPT ![v] = IF answers THEN "good" ELSE "failed"]
  /\ current' = IF answers THEN v ELSE current
  /\ IF stage.pc \in {"stage", "mark"} THEN UNCHANGED stage ELSE Refused
  /\ svc' = [latest |-> 0, reason |-> "none", version |-> 0]
  /\ UNCHANGED <<release, newest, uploads, bin>>

\* The daemon ends, wherever it is.
Exit ==
  /\ stage.pc # "idle" /\ Refused
  /\ svc' = [latest |-> 0, reason |-> "none", version |-> 0]
  /\ UNCHANGED <<release, newest, uploads, bin, manifest, current>>

Next ==
  \/ \E v \in Versions, part \in {"asset", "sum", "sig"}, content \in Contents : Upload(v, part, content)
  \/ CheckLatest \/ Stage \/ DownloadFile \/ VerifySHA256 \/ VerifyReleaseSignature
  \/ ExtractDaemonBinary \/ AddStaged \/ MarkPending
  \/ \E v \in Versions, answers \in BOOLEAN : Judge(v, answers)
  \/ Exit

Spec == Init /\ [][Next]_vars
-----------------------------------------------------------------------------
\* What the manifest lets the wrapper run is ours and whole, wherever the daemon
\* ended and whatever was published meanwhile.
PendingIsWhole(v) == manifest[v] \in {"pending", "good"} => bin[v] = "ours"

\* A version that failed is never selected again.
FailedStaysFailed ==
  [][\A v \in Versions : manifest[v] = "failed" => manifest'[v] = "failed"]_vars

StagingIsSafe == [](\A v \in Versions : PendingIsWhole(v)) /\ FailedStaysFailed
=============================================================================
