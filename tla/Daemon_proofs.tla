---------------------------- MODULE Daemon_proofs ----------------------------
(***************************************************************************)
(* Proofs about what the daemon does beside its namespaces, for any        *)
(* releases, rotations, commands and containers.                           *)
(*                                                                         *)
(* Staging: what the manifest lets the wrapper run is ours and whole, and  *)
(* what failed stays failed.  The pieces of a release may be published     *)
(* again between any two steps, so the argument is about the archive that  *)
(* was downloaded: once its signature fits it is ours, and the binary      *)
(* unpacked from it is.  A binary is only ever overwritten for a version   *)
(* the wrapper may not run.                                                *)
(*                                                                         *)
(* Rotation: it knows at every step by which login kcadm lets it in, and   *)
(* gives up, or leaves the recovery user behind, only where something has  *)
(* failed; so what has no failure has changed every copy.                  *)
(*                                                                         *)
(* Diagnostics: the world is stopped by who writes the last dump, and only *)
(* that one is not whole; triggers and attach clients belong to commands   *)
(* at work; and failures are counted while no command suspends the probe.  *)
(***************************************************************************)
EXTENDS MCNamespaces, Namespaces_proofs, Sequences, TLAPS, FiniteSetTheorems

-----------------------------------------------------------------------------
(* Staging                                                                 *)

StageFields == {"pc", "v", "tar", "copy"}
StageShape ==
  /\ DOMAIN bin = U!Versions /\ DOMAIN manifest = U!Versions
  /\ DOMAIN stage = StageFields
  /\ newest \in U!Versions \cup {0} /\ current \in Nat

\* Past the signature the archive is ours.
Verified == stage.pc \in {"unpack", "unpacking", "stage", "mark"} => stage.tar = "ours"

\* What is on its way is a version the wrapper may not run, and has not failed.
Unjudged == stage.pc # "idle" => stage.v \in U!Versions /\ manifest[stage.v] \in {"none", "staged"}

\* Once it is unpacked its binary is ours, and the manifest as it was read.
Unpacked == stage.pc \in {"stage", "mark"} => bin[stage.v] = "ours" /\ stage.copy = manifest

AllWhole == \A v \in U!Versions : U!PendingIsWhole(v)

StageInv == StageShape /\ Verified /\ Unjudged /\ Unpacked /\ AllWhole

\* What failed has failed after the step.
FailedKept == \A v \in U!Versions : manifest[v] = "failed" => manifest'[v] = "failed"

-----------------------------------------------------------------------------
\* 0 is the launcher's own version.
LEMMA VersionsArePositive == \A v \in U!Versions : v \in Nat /\ v > 0
BY DEF U!Versions

\* Stage ends or goes on, with what it has.
LEMMA StageIdle == ASSUME U!Refused PROVE DOMAIN stage' = StageFields /\ stage'.pc = "idle"
BY DEF U!Refused, U!Idle, StageFields

\* Nothing of it but where it is.
LEMMA StageGoes ==
    ASSUME StageShape, NEW next, U!Go(next)
    PROVE  /\ DOMAIN stage' = StageFields /\ stage'.pc = next /\ stage'.v = stage.v
           /\ stage'.tar = stage.tar /\ stage'.copy = stage.copy
BY DEF U!Go, StageShape, StageFields

\* A stage that is idle promises nothing.
LEMMA RefusedOK ==
    ASSUME StageInv, U!Refused, UNCHANGED <<bin, manifest, newest, current>>
    PROVE  StageInv' /\ FailedKept
<1>1. StageShape'
    BY StageIdle DEF StageInv, StageShape
<1>2. Verified' /\ Unjudged' /\ Unpacked'
    BY StageIdle DEF Verified, Unjudged, Unpacked
<1>3. AllWhole'
    BY DEF StageInv, AllWhole, U!PendingIsWhole
<1> QED
    BY <1>1, <1>2, <1>3 DEF StageInv, FailedKept

\* A step that touches neither the staging nor the manifest.
LEMMA AsideOK ==
    ASSUME StageInv, UNCHANGED <<stage, bin, manifest, current>>, newest' \in U!Versions \cup {0}
    PROVE  StageInv' /\ FailedKept
BY DEF StageInv, StageShape, Verified, Unjudged, Unpacked, AllWhole, U!PendingIsWhole, FailedKept

\* The latest, when it has not failed and may not run yet.
LEMMA StageOK == ASSUME StagingFaults = {}, StageInv, U!Stage PROVE StageInv' /\ FailedKept
<1>1. /\ UNCHANGED <<newest, bin, manifest, current>> /\ newest > current
      /\ manifest[newest] \in {"none", "staged"}
      /\ stage' = [U!Idle EXCEPT !.pc = "download", !.v = newest]
    BY DEF U!Stage
<1>2. DOMAIN stage' = StageFields /\ stage'.pc = "download" /\ stage'.v = newest
    BY <1>1 DEF U!Idle, StageFields
<1>3. newest \in U!Versions
    BY <1>1 DEF StageInv, StageShape
<1>4. StageShape'
    BY <1>1, <1>2 DEF StageInv, StageShape
<1>5. Verified' /\ Unjudged' /\ Unpacked'
    BY <1>1, <1>2, <1>3 DEF Verified, Unjudged, Unpacked
<1>6. AllWhole'
    BY <1>1 DEF StageInv, AllWhole, U!PendingIsWhole
<1> QED
    BY <1>1, <1>4, <1>5, <1>6 DEF StageInv, FailedKept

\* The archive comes, of the same version.
LEMMA DownloadOK == ASSUME StageInv, U!DownloadFile PROVE StageInv' /\ FailedKept
<1>1. UNCHANGED <<newest, bin, manifest, current>> /\ stage.pc = "download"
    BY DEF U!DownloadFile
<1>2. CASE U!Refused
    BY <1>1, <1>2, RefusedOK
<1>3. CASE ~U!Refused
  <2>1. stage' = [stage EXCEPT !.pc = "sum", !.tar = release[stage.v].asset]
      BY <1>3 DEF U!DownloadFile
  <2>2. DOMAIN stage' = StageFields /\ stage'.pc = "sum" /\ stage'.v = stage.v
      BY <2>1 DEF StageInv, StageShape, StageFields
  <2> QED
      BY <1>1, <2>2
         DEF StageInv, StageShape, Verified, Unjudged, Unpacked, AllWhole, U!PendingIsWhole,
             FailedKept
<1> QED
    BY <1>2, <1>3

\* Its sum fits: nothing is ours by that.
LEMMA SumOK == ASSUME StageInv, U!VerifySHA256 PROVE StageInv' /\ FailedKept
<1>1. UNCHANGED <<newest, bin, manifest, current>> /\ stage.pc = "sum" /\ StageShape
    BY DEF U!VerifySHA256, StageInv
<1>2. CASE U!Refused
    BY <1>1, <1>2, RefusedOK
<1>3. CASE ~U!Refused
  <2>1. U!Go("signature")
      BY <1>3 DEF U!VerifySHA256
  <2>2. DOMAIN stage' = StageFields /\ stage'.pc = "signature" /\ stage'.v = stage.v
      BY <1>1, <2>1, StageGoes
  <2> QED
      BY <1>1, <2>2
         DEF StageInv, StageShape, Verified, Unjudged, Unpacked, AllWhole, U!PendingIsWhole,
             FailedKept
<1> QED
    BY <1>2, <1>3

\* Its signature fits: it is ours.
LEMMA SignatureOK == ASSUME StageInv, U!VerifyReleaseSignature PROVE StageInv' /\ FailedKept
<1>1. UNCHANGED <<newest, bin, manifest, current>> /\ stage.pc = "signature" /\ StageShape
    BY DEF U!VerifyReleaseSignature, StageInv
<1>2. CASE U!Refused
    BY <1>1, <1>2, RefusedOK
<1>3. CASE ~U!Refused
  <2>1. U!Go("unpack") /\ stage.tar = "ours"
      BY <1>3 DEF U!VerifyReleaseSignature, U!Genuine
  <2>2. /\ DOMAIN stage' = StageFields /\ stage'.pc = "unpack" /\ stage'.v = stage.v
        /\ stage'.tar = "ours"
      BY <1>1, <2>1, StageGoes
  <2> QED
      BY <1>1, <2>2
         DEF StageInv, StageShape, Verified, Unjudged, Unpacked, AllWhole, U!PendingIsWhole,
             FailedKept
<1> QED
    BY <1>2, <1>3

\* The binary is overwritten, of a version that may not run.
LEMMA ExtractOK == ASSUME StageInv, U!ExtractDaemonBinary PROVE StageInv' /\ FailedKept
<1>1. UNCHANGED <<newest, manifest, current>> /\ StageShape /\ stage.pc \in {"unpack", "unpacking"}
    BY DEF U!ExtractDaemonBinary, StageInv
<1>2. stage.v \in U!Versions /\ manifest[stage.v] \in {"none", "staged"} /\ stage.tar = "ours"
    BY <1>1 DEF StageInv, Unjudged, Verified
<1>3. /\ DOMAIN bin' = U!Versions /\ \A w \in U!Versions : w # stage.v => bin'[w] = bin[w]
      /\ DOMAIN stage' = StageFields /\ stage'.v = stage.v /\ stage'.tar = stage.tar
      /\ \/ stage'.pc = "unpacking"
         \/ stage'.pc = "stage" /\ bin'[stage.v] = "ours" /\ stage'.copy = manifest
  <2>1. CASE stage.pc = "unpack" /\ U!Go("unpacking") /\ bin' = [bin EXCEPT ![stage.v] = "part"]
      BY <1>1, <2>1, StageGoes DEF StageShape
  <2>2. CASE /\ stage.pc = "unpacking" /\ bin' = [bin EXCEPT ![stage.v] = stage.tar]
             /\ stage' = [stage EXCEPT !.pc = "stage", !.copy = manifest]
      BY <1>1, <1>2, <2>2 DEF StageShape, StageFields
  <2> QED
      BY <2>1, <2>2 DEF U!ExtractDaemonBinary
<1>4. StageShape'
    BY <1>1, <1>3 DEF StageShape
<1>5. Verified' /\ Unjudged' /\ Unpacked'
    BY <1>1, <1>2, <1>3 DEF Verified, Unjudged, Unpacked
<1>6. AllWhole'
  <2> SUFFICES ASSUME NEW w \in U!Versions, manifest'[w] \in {"pending", "good"} PROVE bin'[w] = "ours"
      BY DEF AllWhole, U!PendingIsWhole
  <2>1. w # stage.v /\ manifest[w] \in {"pending", "good"}
      BY <1>1, <1>2
  <2> QED
      BY <1>3, <2>1 DEF StageInv, AllWhole, U!PendingIsWhole
<1> QED
    BY <1>1, <1>4, <1>5, <1>6 DEF StageInv, FailedKept

\* The version becomes known: the manifest that is saved is the one that was read.
LEMMA AddStagedOK == ASSUME StageInv, U!AddStaged PROVE StageInv' /\ FailedKept
<1>1. UNCHANGED <<newest, bin, current>> /\ StageShape /\ stage.pc = "stage"
    BY DEF U!AddStaged, StageInv
<1>2. /\ stage.v \in U!Versions /\ manifest[stage.v] \in {"none", "staged"} /\ stage.tar = "ours"
      /\ bin[stage.v] = "ours" /\ stage.copy = manifest
    BY <1>1 DEF StageInv, Unjudged, Verified, Unpacked
<1>3. manifest' = [manifest EXCEPT ![stage.v] = "staged"]
    BY <1>2 DEF U!AddStaged
<1>4. stage' = [stage EXCEPT !.pc = "mark", !.copy = manifest']
    BY DEF U!AddStaged
<1>5. /\ DOMAIN stage' = StageFields /\ stage'.pc = "mark" /\ stage'.v = stage.v
      /\ stage'.tar = stage.tar /\ stage'.copy = manifest'
    BY <1>1, <1>4 DEF StageShape, StageFields
<1>6. /\ DOMAIN manifest' = U!Versions /\ manifest'[stage.v] = "staged"
      /\ \A w \in U!Versions : w # stage.v => manifest'[w] = manifest[w]
    BY <1>1, <1>2, <1>3 DEF StageShape
<1>7. StageShape'
    BY <1>1, <1>5, <1>6 DEF StageShape
<1>8. Verified' /\ Unjudged' /\ Unpacked'
    BY <1>1, <1>2, <1>5, <1>6 DEF Verified, Unjudged, Unpacked
<1>9. AllWhole'
    BY <1>1, <1>2, <1>6 DEF StageInv, AllWhole, U!PendingIsWhole
<1>10. FailedKept
    BY <1>2, <1>6 DEF FailedKept
<1> QED
    BY <1>7, <1>8, <1>9, <1>10 DEF StageInv

\* The last write: the wrapper may run it from here on.
LEMMA MarkPendingOK == ASSUME StageInv, U!MarkPending PROVE StageInv' /\ FailedKept
<1>1. UNCHANGED <<newest, bin, current>> /\ StageShape /\ stage.pc = "mark" /\ U!Refused
    BY DEF U!MarkPending, StageInv
<1>2. /\ stage.v \in U!Versions /\ manifest[stage.v] \in {"none", "staged"}
      /\ bin[stage.v] = "ours" /\ stage.copy = manifest
    BY <1>1 DEF StageInv, Unjudged, Unpacked
<1>3. manifest' = [manifest EXCEPT ![stage.v] = "pending"]
    BY <1>2 DEF U!MarkPending
<1>4. /\ DOMAIN manifest' = U!Versions /\ manifest'[stage.v] = "pending"
      /\ \A w \in U!Versions : w # stage.v => manifest'[w] = manifest[w]
    BY <1>1, <1>2, <1>3 DEF StageShape
<1>5. StageShape'
    BY <1>1, <1>4, StageIdle DEF StageShape
<1>6. Verified' /\ Unjudged' /\ Unpacked'
    BY <1>1, StageIdle DEF Verified, Unjudged, Unpacked
<1>7. AllWhole'
    BY <1>1, <1>2, <1>4 DEF StageInv, AllWhole, U!PendingIsWhole
<1>8. FailedKept
    BY <1>2, <1>4 DEF FailedKept
<1> QED
    BY <1>5, <1>6, <1>7, <1>8 DEF StageInv

\* The wrapper judges what it may run, and never between the two writes of the
\* daemon, as long as StagingFaults has no "race".
LEMMA JudgeOK ==
    ASSUME StagingFaults = {}, StageInv, NEW v \in U!Versions, NEW answers \in BOOLEAN, U!Judge(v, answers)
    PROVE  StageInv' /\ FailedKept
<1>1. /\ UNCHANGED <<newest, bin>> /\ StageShape /\ manifest[v] \in {"good", "pending"}
      /\ stage.pc \notin {"stage", "mark"} /\ U!Refused
      /\ current' = IF answers THEN v ELSE current
    BY DEF U!Judge, U!Selected, StageInv
<1>2. manifest' = [manifest EXCEPT ![v] = IF answers THEN "good" ELSE "failed"]
    BY DEF U!Judge
<1>3. /\ DOMAIN manifest' = U!Versions /\ manifest'[v] \in {"good", "failed"}
      /\ \A w \in U!Versions : w # v => manifest'[w] = manifest[w]
    BY <1>1, <1>2 DEF StageShape
<1>4. StageShape'
    BY <1>1, <1>3, StageIdle, VersionsArePositive DEF StageShape
<1>5. Verified' /\ Unjudged' /\ Unpacked'
    BY <1>1, StageIdle DEF Verified, Unjudged, Unpacked
<1>6. AllWhole'
    BY <1>1, <1>3 DEF StageInv, AllWhole, U!PendingIsWhole
<1>7. FailedKept
    BY <1>1, <1>3 DEF FailedKept
<1> QED
    BY <1>4, <1>5, <1>6, <1>7 DEF StageInv

\* Every step keeps the invariant, and what failed.
LEMMA StageStep == StagingFaults = {} /\ StageInv /\ [U!Next]_stageVars => StageInv' /\ FailedKept
<1> SUFFICES ASSUME StagingFaults = {}, StageInv, [U!Next]_stageVars PROVE StageInv' /\ FailedKept
    OBVIOUS
<1>1. ASSUME NEW v \in U!Versions, NEW piece, NEW content, U!Upload(v, piece, content)
      PROVE  StageInv' /\ FailedKept
  <2>1. newest' \in U!Versions \cup {0} /\ UNCHANGED <<stage, bin, manifest, current>>
      BY <1>1 DEF U!Upload, StageInv, StageShape
  <2> QED
      BY <2>1, AsideOK
<1>2. CASE U!CheckLatest
  <2>1. newest' \in U!Versions \cup {0} /\ UNCHANGED <<stage, bin, manifest, current>>
      BY <1>2 DEF U!CheckLatest, StageInv, StageShape
  <2> QED
      BY <2>1, AsideOK
<1>3. CASE U!Stage
    BY <1>3, StageOK
<1>4. CASE U!DownloadFile
    BY <1>4, DownloadOK
<1>5. CASE U!VerifySHA256
    BY <1>5, SumOK
<1>6. CASE U!VerifyReleaseSignature
    BY <1>6, SignatureOK
<1>7. CASE U!ExtractDaemonBinary
    BY <1>7, ExtractOK
<1>8. CASE U!AddStaged
    BY <1>8, AddStagedOK
<1>9. CASE U!MarkPending
    BY <1>9, MarkPendingOK
<1>10. ASSUME NEW v \in U!Versions, NEW answers \in BOOLEAN, U!Judge(v, answers)
       PROVE  StageInv' /\ FailedKept
    BY <1>10, JudgeOK
<1>11. CASE U!Exit
    BY <1>11, RefusedOK DEF U!Exit
<1>12. CASE UNCHANGED stageVars
  <2>1. newest' \in U!Versions \cup {0} /\ UNCHANGED <<stage, bin, manifest, current>>
      BY <1>12 DEF stageVars, StageInv, StageShape
  <2> QED
      BY <2>1, AsideOK
<1> QED
    BY <1>1, <1>2, <1>3, <1>4, <1>5, <1>6, <1>7, <1>8, <1>9, <1>10, <1>11, <1>12 DEF U!Next

LEMMA StageInit == U!Init => StageInv
BY DEF U!Init, U!Idle, StageInv, StageShape, StageFields, Verified, Unjudged, Unpacked, AllWhole,
       U!PendingIsWhole

\* An update the wrapper may run is a whole binary of ours, wherever the daemon
\* ended and however often a release was published (selfupdate.Stage), and a
\* version that failed is not offered again, while only one of the two processes
\* writes the manifest at a time and nothing pending is staged again.
THEOREM StagingKeepsItsPromises == StagingFaults = {} => (DaemonSpec => StagingIsSafe)
<1> SUFFICES ASSUME StagingFaults = {} PROVE DaemonSpec => StagingIsSafe
    OBVIOUS
<1>1. DaemonInit => StageInv
    BY StageInit DEF DaemonInit
<1>2. StageInv /\ [DaemonNext]_daemonVars => StageInv' /\ FailedKept
  <2>1. [DaemonNext]_daemonVars => [U!Next]_stageVars
      BY DEF DaemonNext, daemonVars
  <2> QED
      BY <2>1, StageStep
<1>3. StageInv => \A v \in U!Versions : U!PendingIsWhole(v)
    BY DEF StageInv, AllWhole
<1>4. FailedKept => [\A v \in U!Versions : manifest[v] = "failed" => manifest'[v] = "failed"]_(U!vars)
    BY DEF FailedKept
<1> QED
    BY <1>1, <1>2, <1>3, <1>4, PTL
       DEF DaemonSpec, StagingIsSafe, U!StagingIsSafe, U!FailedStaysFailed

-----------------------------------------------------------------------------
(* The rotation of the administrator's password                            *)

\* Where a rotation is while the recovery user may be there: with the login of
\* that user, and after it.
AsRecovery == {"ensure", "role", "sapassword", "relogin"}
AsCiteck == {"clean", "realm", "master"}
Changed == {"rabbitmq", "pgadmin", "store", "memory", "done"}
RotPcs ==
  {"new", "login", "bootstrap", "recover", "undo", "refused"} \cup AsRecovery \cup AsCiteck \cup Changed

\* The password that a rotation has given to what it has passed.
SetBy(r, a, pcs) == rot[r] \in pcs /\ a \in DOMAIN others => others[a] = r

AdminShape ==
  /\ DOMAIN kc = {"realm", "master", "sa", "role", "temp"}
  /\ DOMAIN launcher = {"store", "memory"} /\ DOMAIN others \subseteq A!Apps
  /\ rot \in [Requests -> RotPcs]
  /\ kc.sa = "ok" => kc.role

\* One rotation at a time, the last that was asked for.
OneRotates ==
  \A r \in Requests :
    rot[r] \notin A!Ended => last = r /\ \A q \in Requests : rot[q] \notin A!Ended => q = r

\* kcadm may administer wherever a rotation needs it to: as the recovery user
\* until citeck is restored, and as citeck from then on.
LetIn(r) ==
  /\ rot[r] \in AsRecovery \cup {"recover"} => r \in kc.temp
  /\ rot[r] \in AsRecovery => session = r
  /\ rot[r] \in {"sapassword", "relogin"} => kc.role
  /\ rot[r] = "relogin" => kc.sa = "ok"
  /\ rot[r] \in AsCiteck => session = "sa" /\ kc.role

\* Who gives up has met a failure, and so has who leaves the recovery user.
GivesUpForCause(r) ==
  /\ rot[r] \in {"undo", "refused"} => r \in failed
  /\ r \in kc.temp => rot[r] \notin {"new", "login", "bootstrap"}
  /\ r \in kc.temp /\ rot[r] \in {"realm", "master"} \cup Changed => r \in failed

\* What the rotation asked for last has changed so far.
ChangedSoFar(r) ==
  last = r =>
    /\ rot[r] \in {"master"} \cup Changed => kc.realm = r
    /\ rot[r] \in Changed => kc.master = r
    /\ r \notin failed =>
         /\ SetBy(r, "rabbitmq", Changed \ {"rabbitmq"})
         /\ SetBy(r, "pgadmin", Changed \ {"rabbitmq", "pgadmin"})
         /\ rot[r] \in {"memory", "done"} => launcher.store = r
         /\ rot[r] = "done" => launcher.memory = r

RotationOf(r) == LetIn(r) /\ GivesUpForCause(r) /\ ChangedSoFar(r)
AdminInv == AdminShape /\ OneRotates /\ \A r \in Requests : RotationOf(r)

\* A step of one rotation: the others have ended, and stay as they are.
LEMMA OthersEnded ==
    ASSUME AdminInv, NEW r \in Requests, rot[r] \notin A!Ended, NEW pc \in RotPcs, A!Go(r, pc), last' = r,
           failed \subseteq failed', kc'.temp \in {kc.temp, kc.temp \cup {r}, kc.temp \ {r}},
           \A q \in Requests \ {r} : q \in failed' => q \in failed
    PROVE  /\ rot' \in [Requests -> RotPcs] /\ rot'[r] = pc /\ last = r /\ OneRotates'
           /\ \A q \in Requests \ {r} : RotationOf(q)'
<1>1. rot' \in [Requests -> RotPcs] /\ rot'[r] = pc /\ \A q \in Requests \ {r} : rot'[q] = rot[q]
    BY DEF A!Go, AdminInv, AdminShape
<1>2. last = r /\ \A q \in Requests \ {r} : rot[q] \in A!Ended
    BY DEF AdminInv, OneRotates
<1>3. OneRotates'
    BY <1>1, <1>2 DEF OneRotates, A!Ended
<1>4. ASSUME NEW q \in Requests \ {r} PROVE RotationOf(q)'
  <2>1. rot'[q] = rot[q] /\ rot[q] \in A!Ended /\ last' # q /\ RotationOf(q)
      BY <1>1, <1>2 DEF AdminInv
  <2>2. LetIn(q)' /\ ChangedSoFar(q)'
      BY <2>1 DEF LetIn, ChangedSoFar, AsRecovery, AsCiteck, A!Ended
  <2>3. (q \in kc'.temp <=> q \in kc.temp) /\ (q \in failed' <=> q \in failed)
      OBVIOUS
  <2>4. GivesUpForCause(q)'
      BY <2>1, <2>3 DEF RotationOf, GivesUpForCause
  <2> QED
      BY <2>2, <2>4 DEF RotationOf
<1> QED
    BY <1>1, <1>2, <1>3, <1>4

LEMMA EnsureOK ==
    ASSUME AdminInv, NEW r \in Requests, A!EnsureCiteckSaUsable(r) PROVE AdminInv'
<1>1. rot[r] = "login" /\ rot[r] \notin A!Ended /\ AdminShape /\ RotationOf(r) /\ last = r
    BY DEF A!EnsureCiteckSaUsable, A!Ended, AdminInv, OneRotates
<1>2. PICK pc \in RotPcs :
        /\ A!Go(r, pc) /\ UNCHANGED <<kc, others, launcher, last>>
        /\ \/ pc = "realm" /\ session' = "sa" /\ kc.sa = "ok" /\ failed' = failed
           \/ pc = "bootstrap" /\ failed' \in {failed, failed \cup {r}}
    BY <1>1 DEF A!EnsureCiteckSaUsable, A!KcadmLogin, A!Exec, RotPcs, AsRecovery, AsCiteck, Changed
<1>3. /\ rot' \in [Requests -> RotPcs] /\ rot'[r] = pc /\ OneRotates'
      /\ \A q \in Requests \ {r} : RotationOf(q)'
    BY <1>1, <1>2, OthersEnded DEF AdminShape
<1>4. AdminShape'
    BY <1>1, <1>2, <1>3 DEF AdminShape, RotationOf, LetIn
<1>5. LetIn(r)' /\ GivesUpForCause(r)'
    BY <1>1, <1>2, <1>3
       DEF AdminShape, RotationOf, LetIn, GivesUpForCause, AsRecovery, AsCiteck, Changed
<1>6. ChangedSoFar(r)'
    BY <1>1, <1>2, <1>3
       DEF AdminShape, RotationOf, ChangedSoFar, SetBy, AsRecovery, AsCiteck, Changed
<1> QED
    BY <1>3, <1>4, <1>5, <1>6 DEF AdminInv, RotationOf

LEMMA BootstrapOK ==
    ASSUME AdminInv, NEW r \in Requests, A!BootstrapKeycloakRecovery(r) PROVE AdminInv'
<1>1. rot[r] = "bootstrap" /\ rot[r] \notin A!Ended /\ AdminShape /\ RotationOf(r) /\ last = r
    BY DEF A!BootstrapKeycloakRecovery, A!Ended, AdminInv, OneRotates
<1>2. PICK pc \in RotPcs :
        /\ A!Go(r, pc) /\ UNCHANGED <<session, others, launcher, last>>
        /\ \/ pc = "recover" /\ kc' = [kc EXCEPT !.temp = @ \cup {r}] /\ failed' = failed
           \/ /\ pc = "refused" /\ kc' \in {kc, [kc EXCEPT !.temp = @ \cup {r}]}
              /\ failed' = failed \cup {r}
    BY <1>1
       DEF A!BootstrapKeycloakRecovery, A!Exec, A!ExecLost, A!Refuse, RotPcs, AsRecovery, AsCiteck,
           Changed
<1>3. /\ rot' \in [Requests -> RotPcs] /\ rot'[r] = pc /\ OneRotates'
      /\ \A q \in Requests \ {r} : RotationOf(q)'
    BY <1>1, <1>2, OthersEnded DEF AdminShape
<1>4. AdminShape'
    BY <1>1, <1>2, <1>3 DEF AdminShape, RotationOf, LetIn
<1>5. LetIn(r)' /\ GivesUpForCause(r)'
    BY <1>1, <1>2, <1>3
       DEF AdminShape, RotationOf, LetIn, GivesUpForCause, AsRecovery, AsCiteck, Changed
<1>6. ChangedSoFar(r)'
    BY <1>1, <1>2, <1>3
       DEF AdminShape, RotationOf, ChangedSoFar, SetBy, AsRecovery, AsCiteck, Changed
<1> QED
    BY <1>3, <1>4, <1>5, <1>6 DEF AdminInv, RotationOf

LEMMA RecoveryOK ==
    ASSUME AdminInv, NEW r \in Requests, A!LoginAsRecovery(r) PROVE AdminInv'
<1>1. rot[r] = "recover" /\ rot[r] \notin A!Ended /\ AdminShape /\ RotationOf(r) /\ last = r
    BY DEF A!LoginAsRecovery, A!Ended, AdminInv, OneRotates
<1>2. PICK pc \in RotPcs :
        /\ A!Go(r, pc) /\ UNCHANGED <<kc, others, launcher, last>>
        /\ \/ pc = "ensure" /\ session' = r /\ failed' = failed
           \/ pc = "undo" /\ failed' = failed \cup {r}
    BY <1>1 DEF A!LoginAsRecovery, A!KcadmLogin, A!Exec, RotPcs, AsRecovery, AsCiteck, Changed
<1>3. /\ rot' \in [Requests -> RotPcs] /\ rot'[r] = pc /\ OneRotates'
      /\ \A q \in Requests \ {r} : RotationOf(q)'
    BY <1>1, <1>2, OthersEnded DEF AdminShape
<1>4. AdminShape'
    BY <1>1, <1>2, <1>3 DEF AdminShape, RotationOf, LetIn
<1>5. LetIn(r)' /\ GivesUpForCause(r)'
    BY <1>1, <1>2, <1>3
       DEF AdminShape, RotationOf, LetIn, GivesUpForCause, AsRecovery, AsCiteck, Changed
<1>6. ChangedSoFar(r)'
    BY <1>1, <1>2, <1>3
       DEF AdminShape, RotationOf, ChangedSoFar, SetBy, AsRecovery, AsCiteck, Changed
<1> QED
    BY <1>3, <1>4, <1>5, <1>6 DEF AdminInv, RotationOf

LEMMA UserOK ==
    ASSUME AdminInv, NEW r \in Requests, A!KcadmEnsureUser(r) PROVE AdminInv'
<1>1. rot[r] = "ensure" /\ rot[r] \notin A!Ended /\ AdminShape /\ RotationOf(r) /\ last = r
    BY DEF A!KcadmEnsureUser, A!Ended, AdminInv, OneRotates
<1>2. A!Authorized /\ session = r /\ r \in kc.temp
    BY <1>1 DEF A!Authorized, RotationOf, LetIn, AsRecovery, AsCiteck, AdminShape
<1>3. PICK pc \in RotPcs :
        /\ A!Go(r, pc) /\ UNCHANGED <<session, others, launcher, last>>
        /\ kc' \in {kc, [kc EXCEPT !.sa = "off"]}
        /\ \/ pc = "role" /\ failed' = failed
           \/ pc = "undo" /\ failed' = failed \cup {r}
    BY <1>1, <1>2
       DEF A!KcadmEnsureUser, A!Exec, A!ExecLost, A!Refuse, RotPcs, AsRecovery, AsCiteck, Changed
<1>4. /\ rot' \in [Requests -> RotPcs] /\ rot'[r] = pc /\ OneRotates'
      /\ \A q \in Requests \ {r} : RotationOf(q)'
    BY <1>1, <1>3, OthersEnded DEF AdminShape
<1>5. AdminShape'
    BY <1>1, <1>2, <1>3, <1>4 DEF AdminShape, RotationOf, LetIn
<1>6. LetIn(r)' /\ GivesUpForCause(r)'
    BY <1>1, <1>2, <1>3, <1>4
       DEF AdminShape, RotationOf, LetIn, GivesUpForCause, AsRecovery, AsCiteck, Changed
<1>7. ChangedSoFar(r)'
    BY <1>1, <1>2, <1>3, <1>4
       DEF AdminShape, RotationOf, ChangedSoFar, SetBy, AsRecovery, AsCiteck, Changed
<1> QED
    BY <1>4, <1>5, <1>6, <1>7 DEF AdminInv, RotationOf

LEMMA RoleOK ==
    ASSUME AdminFaults = {}, AdminInv, NEW r \in Requests, A!KcadmAddRole(r) PROVE AdminInv'
<1>1. rot[r] = "role" /\ rot[r] \notin A!Ended /\ AdminShape /\ RotationOf(r) /\ last = r
    BY DEF A!KcadmAddRole, A!Ended, AdminInv, OneRotates
<1>2. A!Authorized
    BY <1>1 DEF A!Authorized, RotationOf, LetIn, AsRecovery, AsCiteck, AdminShape
<1>3. PICK pc \in RotPcs :
        /\ A!Go(r, pc) /\ UNCHANGED <<session, others, launcher, last>>
        /\ pc = "sapassword" /\ failed' \in {failed, failed \cup {r}} /\ kc'.role
        /\ kc' \in {kc, [kc EXCEPT !.role = TRUE]}
    BY <1>1, <1>2 DEF A!KcadmAddRole, A!RoleLost, AdminShape, RotPcs, AsRecovery, AsCiteck, Changed
<1>4. /\ rot' \in [Requests -> RotPcs] /\ rot'[r] = pc /\ OneRotates'
      /\ \A q \in Requests \ {r} : RotationOf(q)'
    BY <1>1, <1>3, OthersEnded DEF AdminShape
<1>5. AdminShape'
    BY <1>1, <1>2, <1>3, <1>4 DEF AdminShape, RotationOf, LetIn
<1>6. LetIn(r)' /\ GivesUpForCause(r)'
    BY <1>1, <1>2, <1>3, <1>4
       DEF AdminShape, RotationOf, LetIn, GivesUpForCause, AsRecovery, AsCiteck, Changed
<1>7. ChangedSoFar(r)'
    BY <1>1, <1>2, <1>3, <1>4
       DEF AdminShape, RotationOf, ChangedSoFar, SetBy, AsRecovery, AsCiteck, Changed
<1> QED
    BY <1>4, <1>5, <1>6, <1>7 DEF AdminInv, RotationOf

LEMMA SaPasswordOK ==
    ASSUME AdminInv, NEW r \in Requests, A!KcadmSetUserPassword(r) PROVE AdminInv'
<1>1. rot[r] = "sapassword" /\ rot[r] \notin A!Ended /\ AdminShape /\ RotationOf(r) /\ last = r
    BY DEF A!KcadmSetUserPassword, A!Ended, AdminInv, OneRotates
<1>2. A!Authorized
    BY <1>1 DEF A!Authorized, RotationOf, LetIn, AsRecovery, AsCiteck, AdminShape
<1>3. PICK pc \in RotPcs :
        /\ A!Go(r, pc) /\ UNCHANGED <<session, others, launcher, last>>
        /\ \/ pc = "relogin" /\ failed' = failed /\ kc' = [kc EXCEPT !.sa = "ok"]
           \/ pc = "undo" /\ failed' = failed \cup {r} /\ kc' \in {kc, [kc EXCEPT !.sa = "ok"]}
    BY <1>1, <1>2
       DEF A!KcadmSetUserPassword, A!Exec, A!ExecLost, A!Refuse, RotPcs, AsRecovery, AsCiteck,
           Changed
<1>4. /\ rot' \in [Requests -> RotPcs] /\ rot'[r] = pc /\ OneRotates'
      /\ \A q \in Requests \ {r} : RotationOf(q)'
    BY <1>1, <1>3, OthersEnded DEF AdminShape
<1>5. AdminShape'
    BY <1>1, <1>2, <1>3, <1>4 DEF AdminShape, RotationOf, LetIn
<1>6. LetIn(r)' /\ GivesUpForCause(r)'
    BY <1>1, <1>2, <1>3, <1>4
       DEF AdminShape, RotationOf, LetIn, GivesUpForCause, AsRecovery, AsCiteck, Changed
<1>7. ChangedSoFar(r)'
    BY <1>1, <1>2, <1>3, <1>4
       DEF AdminShape, RotationOf, ChangedSoFar, SetBy, AsRecovery, AsCiteck, Changed
<1> QED
    BY <1>4, <1>5, <1>6, <1>7 DEF AdminInv, RotationOf

LEMMA ReloginOK ==
    ASSUME AdminInv, NEW r \in Requests, A!Relogin(r) PROVE AdminInv'
<1>1. rot[r] = "relogin" /\ rot[r] \notin A!Ended /\ AdminShape /\ RotationOf(r) /\ last = r
    BY DEF A!Relogin, A!Ended, AdminInv, OneRotates
<1>2. kc.sa = "ok" /\ kc.role
    BY <1>1 DEF A!Authorized, RotationOf, LetIn, AsRecovery, AsCiteck, AdminShape
<1>3. PICK pc \in RotPcs :
        /\ A!Go(r, pc) /\ UNCHANGED <<kc, others, launcher, last>>
        /\ \/ pc = "clean" /\ session' = "sa" /\ failed' = failed
           \/ pc = "undo" /\ failed' = failed \cup {r}
    BY <1>1, <1>2 DEF A!Relogin, A!KcadmLogin, A!Exec, RotPcs, AsRecovery, AsCiteck, Changed
<1>4. /\ rot' \in [Requests -> RotPcs] /\ rot'[r] = pc /\ OneRotates'
      /\ \A q \in Requests \ {r} : RotationOf(q)'
    BY <1>1, <1>3, OthersEnded DEF AdminShape
<1>5. AdminShape'
    BY <1>1, <1>2, <1>3, <1>4 DEF AdminShape, RotationOf, LetIn
<1>6. LetIn(r)' /\ GivesUpForCause(r)'
    BY <1>1, <1>2, <1>3, <1>4
       DEF AdminShape, RotationOf, LetIn, GivesUpForCause, AsRecovery, AsCiteck, Changed
<1>7. ChangedSoFar(r)'
    BY <1>1, <1>2, <1>3, <1>4
       DEF AdminShape, RotationOf, ChangedSoFar, SetBy, AsRecovery, AsCiteck, Changed
<1> QED
    BY <1>4, <1>5, <1>6, <1>7 DEF AdminInv, RotationOf

LEMMA DeleteUserOK ==
    ASSUME AdminInv, NEW r \in Requests, A!KcadmDeleteUser(r) PROVE AdminInv'
<1>1. /\ rot[r] \in {"undo", "clean"} /\ rot[r] \notin A!Ended /\ AdminShape /\ RotationOf(r)
      /\ last = r
    BY DEF A!KcadmDeleteUser, A!Ended, AdminInv, OneRotates
<1>2. rot[r] = "clean" => A!Authorized
    BY <1>1 DEF A!Authorized, RotationOf, LetIn, AsRecovery, AsCiteck, AdminShape
<1>3. PICK pc \in RotPcs :
        /\ A!Go(r, pc) /\ UNCHANGED <<session, others, launcher, last>>
        /\ \/ /\ pc = "realm" /\ rot[r] = "clean" /\ kc' = [kc EXCEPT !.temp = @ \ {r}]
              /\ failed' = failed
           \/ pc = "realm" /\ rot[r] = "clean" /\ kc' = kc /\ failed' = failed \cup {r}
           \/ /\ pc = "refused" /\ rot[r] = "undo" /\ kc' \in {kc, [kc EXCEPT !.temp = @ \ {r}]}
              /\ failed' \in {failed, failed \cup {r}}
    BY <1>1, <1>2 DEF A!KcadmDeleteUser, A!Exec, RotPcs, AsRecovery, AsCiteck, Changed
<1>4. /\ rot' \in [Requests -> RotPcs] /\ rot'[r] = pc /\ OneRotates'
      /\ \A q \in Requests \ {r} : RotationOf(q)'
    BY <1>1, <1>3, OthersEnded DEF AdminShape
<1>5. AdminShape'
    BY <1>1, <1>2, <1>3, <1>4 DEF AdminShape, RotationOf, LetIn
<1>6. LetIn(r)' /\ GivesUpForCause(r)'
    BY <1>1, <1>2, <1>3, <1>4
       DEF AdminShape, RotationOf, LetIn, GivesUpForCause, AsRecovery, AsCiteck, Changed
<1>7. ChangedSoFar(r)'
    BY <1>1, <1>2, <1>3, <1>4
       DEF AdminShape, RotationOf, ChangedSoFar, SetBy, AsRecovery, AsCiteck, Changed
<1> QED
    BY <1>4, <1>5, <1>6, <1>7 DEF AdminInv, RotationOf

LEMMA RealmOK ==
    ASSUME AdminInv, NEW r \in Requests, A!SetRealm(r) PROVE AdminInv'
<1>1. rot[r] = "realm" /\ rot[r] \notin A!Ended /\ AdminShape /\ RotationOf(r) /\ last = r
    BY DEF A!SetRealm, A!Ended, AdminInv, OneRotates
<1>2. A!Authorized
    BY <1>1 DEF A!Authorized, RotationOf, LetIn, AsRecovery, AsCiteck, AdminShape
<1>3. PICK pc \in RotPcs :
        /\ A!Go(r, pc) /\ UNCHANGED <<session, others, launcher, last>>
        /\ \/ pc = "master" /\ failed' = failed /\ kc' = [kc EXCEPT !.realm = r]
           \/ pc = "refused" /\ failed' = failed \cup {r} /\ kc' \in {kc, [kc EXCEPT !.realm = r]}
    BY <1>1, <1>2
       DEF A!SetRealm, A!Exec, A!ExecLost, A!Refuse, RotPcs, AsRecovery, AsCiteck, Changed
<1>4. /\ rot' \in [Requests -> RotPcs] /\ rot'[r] = pc /\ OneRotates'
      /\ \A q \in Requests \ {r} : RotationOf(q)'
    BY <1>1, <1>3, OthersEnded DEF AdminShape
<1>5. AdminShape'
    BY <1>1, <1>2, <1>3, <1>4 DEF AdminShape, RotationOf, LetIn
<1>6. LetIn(r)' /\ GivesUpForCause(r)'
    BY <1>1, <1>2, <1>3, <1>4
       DEF AdminShape, RotationOf, LetIn, GivesUpForCause, AsRecovery, AsCiteck, Changed
<1>7. ChangedSoFar(r)'
    BY <1>1, <1>2, <1>3, <1>4
       DEF AdminShape, RotationOf, ChangedSoFar, SetBy, AsRecovery, AsCiteck, Changed
<1> QED
    BY <1>4, <1>5, <1>6, <1>7 DEF AdminInv, RotationOf

LEMMA MasterOK ==
    ASSUME AdminInv, NEW r \in Requests, A!SetMaster(r) PROVE AdminInv'
<1>1. rot[r] = "master" /\ rot[r] \notin A!Ended /\ AdminShape /\ RotationOf(r) /\ last = r
    BY DEF A!SetMaster, A!Ended, AdminInv, OneRotates
<1>2. A!Authorized
    BY <1>1 DEF A!Authorized, RotationOf, LetIn, AsRecovery, AsCiteck, AdminShape
<1>3. PICK pc \in RotPcs :
        /\ A!Go(r, pc) /\ UNCHANGED <<session, others, launcher, last>>
        /\ \/ pc = "rabbitmq" /\ failed' = failed /\ kc' = [kc EXCEPT !.master = r]
           \/ pc = "refused" /\ failed' = failed \cup {r} /\ kc' \in {kc, [kc EXCEPT !.master = r]}
    BY <1>1, <1>2
       DEF A!SetMaster, A!Exec, A!ExecLost, A!Refuse, RotPcs, AsRecovery, AsCiteck, Changed
<1>4. /\ rot' \in [Requests -> RotPcs] /\ rot'[r] = pc /\ OneRotates'
      /\ \A q \in Requests \ {r} : RotationOf(q)'
    BY <1>1, <1>3, OthersEnded DEF AdminShape
<1>5. AdminShape'
    BY <1>1, <1>2, <1>3, <1>4 DEF AdminShape, RotationOf, LetIn
<1>6. LetIn(r)' /\ GivesUpForCause(r)'
    BY <1>1, <1>2, <1>3, <1>4
       DEF AdminShape, RotationOf, LetIn, GivesUpForCause, AsRecovery, AsCiteck, Changed
<1>7. ChangedSoFar(r)'
    BY <1>1, <1>2, <1>3, <1>4
       DEF AdminShape, RotationOf, ChangedSoFar, SetBy, AsRecovery, AsCiteck, Changed
<1> QED
    BY <1>4, <1>5, <1>6, <1>7 DEF AdminInv, RotationOf

LEMMA RabbitOK ==
    ASSUME AdminInv, NEW r \in Requests, A!ChangeOther(r, "rabbitmq", "pgadmin") PROVE AdminInv'
<1>1. rot[r] = "rabbitmq" /\ rot[r] \notin A!Ended /\ AdminShape /\ RotationOf(r) /\ last = r
    BY DEF A!ChangeOther, A!Ended, AdminInv, OneRotates
<1>2. PICK pc \in RotPcs :
        /\ A!Go(r, pc) /\ UNCHANGED <<kc, session, launcher, last>>
        /\ \/ /\ pc = "pgadmin" /\ failed' = failed /\ "rabbitmq" \notin DOMAIN others
              /\ others' = others
           \/ /\ pc = "pgadmin" /\ failed' \in {failed, failed \cup {r}}
              /\ others' = [others EXCEPT !["rabbitmq"] = r]
           \/ pc = "pgadmin" /\ failed' = failed \cup {r} /\ others' = others
    BY <1>1 DEF A!ChangeOther, RotPcs, AsRecovery, AsCiteck, Changed
<1>3. /\ rot' \in [Requests -> RotPcs] /\ rot'[r] = pc /\ OneRotates'
      /\ \A q \in Requests \ {r} : RotationOf(q)'
    BY <1>1, <1>2, OthersEnded DEF AdminShape
<1>4. AdminShape'
    BY <1>1, <1>2, <1>3 DEF AdminShape, RotationOf, LetIn
<1>5. LetIn(r)' /\ GivesUpForCause(r)'
    BY <1>1, <1>2, <1>3
       DEF AdminShape, RotationOf, LetIn, GivesUpForCause, AsRecovery, AsCiteck, Changed
<1>6. ChangedSoFar(r)'
    BY <1>1, <1>2, <1>3
       DEF AdminShape, RotationOf, ChangedSoFar, SetBy, AsRecovery, AsCiteck, Changed
<1> QED
    BY <1>3, <1>4, <1>5, <1>6 DEF AdminInv, RotationOf

LEMMA PgAdminOK ==
    ASSUME AdminInv, NEW r \in Requests, A!ChangeOther(r, "pgadmin", "store") PROVE AdminInv'
<1>1. rot[r] = "pgadmin" /\ rot[r] \notin A!Ended /\ AdminShape /\ RotationOf(r) /\ last = r
    BY DEF A!ChangeOther, A!Ended, AdminInv, OneRotates
<1>2. PICK pc \in RotPcs :
        /\ A!Go(r, pc) /\ UNCHANGED <<kc, session, launcher, last>>
        /\ \/ pc = "store" /\ failed' = failed /\ "pgadmin" \notin DOMAIN others /\ others' = others
           \/ /\ pc = "store" /\ failed' \in {failed, failed \cup {r}}
              /\ others' = [others EXCEPT !["pgadmin"] = r]
           \/ pc = "store" /\ failed' = failed \cup {r} /\ others' = others
    BY <1>1 DEF A!ChangeOther, RotPcs, AsRecovery, AsCiteck, Changed
<1>3. /\ rot' \in [Requests -> RotPcs] /\ rot'[r] = pc /\ OneRotates'
      /\ \A q \in Requests \ {r} : RotationOf(q)'
    BY <1>1, <1>2, OthersEnded DEF AdminShape
<1>4. AdminShape'
    BY <1>1, <1>2, <1>3 DEF AdminShape, RotationOf, LetIn
<1>5. LetIn(r)' /\ GivesUpForCause(r)'
    BY <1>1, <1>2, <1>3
       DEF AdminShape, RotationOf, LetIn, GivesUpForCause, AsRecovery, AsCiteck, Changed
<1>6. ChangedSoFar(r)'
    BY <1>1, <1>2, <1>3
       DEF AdminShape, RotationOf, ChangedSoFar, SetBy, AsRecovery, AsCiteck, Changed
<1> QED
    BY <1>3, <1>4, <1>5, <1>6 DEF AdminInv, RotationOf

LEMMA PersistOK ==
    ASSUME AdminInv, NEW r \in Requests, A!Persist(r) PROVE AdminInv'
<1>1. rot[r] = "store" /\ rot[r] \notin A!Ended /\ AdminShape /\ RotationOf(r) /\ last = r
    BY DEF A!Persist, A!Ended, AdminInv, OneRotates
<1>2. PICK pc \in RotPcs :
        /\ A!Go(r, pc) /\ UNCHANGED <<kc, session, others, last>>
        /\ \/ pc = "memory" /\ failed' = failed /\ launcher' = [launcher EXCEPT !.store = r]
           \/ pc = "memory" /\ failed' = failed \cup {r} /\ launcher' = launcher
    BY <1>1 DEF A!Persist, RotPcs, AsRecovery, AsCiteck, Changed
<1>3. /\ rot' \in [Requests -> RotPcs] /\ rot'[r] = pc /\ OneRotates'
      /\ \A q \in Requests \ {r} : RotationOf(q)'
    BY <1>1, <1>2, OthersEnded DEF AdminShape
<1>4. AdminShape'
    BY <1>1, <1>2, <1>3 DEF AdminShape, RotationOf, LetIn
<1>5. LetIn(r)' /\ GivesUpForCause(r)'
    BY <1>1, <1>2, <1>3
       DEF AdminShape, RotationOf, LetIn, GivesUpForCause, AsRecovery, AsCiteck, Changed
<1>6. ChangedSoFar(r)'
    BY <1>1, <1>2, <1>3
       DEF AdminShape, RotationOf, ChangedSoFar, SetBy, AsRecovery, AsCiteck, Changed
<1> QED
    BY <1>3, <1>4, <1>5, <1>6 DEF AdminInv, RotationOf

LEMMA RememberOK ==
    ASSUME AdminInv, NEW r \in Requests, A!Remember(r) PROVE AdminInv'
<1>1. rot[r] = "memory" /\ rot[r] \notin A!Ended /\ AdminShape /\ RotationOf(r) /\ last = r
    BY DEF A!Remember, A!Ended, AdminInv, OneRotates
<1>2. PICK pc \in RotPcs :
        /\ A!Go(r, pc) /\ UNCHANGED <<kc, session, others, failed, last>>
        /\ pc = "done" /\ launcher' = [launcher EXCEPT !.memory = r]
    BY <1>1 DEF A!Remember, RotPcs, AsRecovery, AsCiteck, Changed
<1>3. /\ rot' \in [Requests -> RotPcs] /\ rot'[r] = pc /\ OneRotates'
      /\ \A q \in Requests \ {r} : RotationOf(q)'
    BY <1>1, <1>2, OthersEnded DEF AdminShape
<1>4. AdminShape'
    BY <1>1, <1>2, <1>3 DEF AdminShape, RotationOf, LetIn
<1>5. LetIn(r)' /\ GivesUpForCause(r)'
    BY <1>1, <1>2, <1>3
       DEF AdminShape, RotationOf, LetIn, GivesUpForCause, AsRecovery, AsCiteck, Changed
<1>6. ChangedSoFar(r)'
    BY <1>1, <1>2, <1>3
       DEF AdminShape, RotationOf, ChangedSoFar, SetBy, AsRecovery, AsCiteck, Changed
<1> QED
    BY <1>3, <1>4, <1>5, <1>6 DEF AdminInv, RotationOf

LEMMA RotateOK ==
    ASSUME AdminFaults = {}, AdminInv, NEW r \in Requests, A!HandleSetAdminPassword(r) PROVE AdminInv'
<1>1. /\ rot[r] = "new" /\ A!Go(r, "login") /\ last' = r
      /\ UNCHANGED <<kc, session, others, launcher, failed>>
      /\ \A q \in Requests : rot[q] \in A!Ended
    BY DEF A!HandleSetAdminPassword, A!Quiet, A!Concurrent
<1>2. /\ rot' \in [Requests -> RotPcs] /\ rot'[r] = "login"
      /\ \A q \in Requests \ {r} : rot'[q] = rot[q] /\ rot[q] \in A!Ended
    BY <1>1 DEF A!Go, AdminInv, AdminShape, RotPcs
<1>3. AdminShape' /\ OneRotates'
    BY <1>1, <1>2 DEF AdminInv, AdminShape, OneRotates, A!Ended
<1>4. RotationOf(r)'
    BY <1>1, <1>2
       DEF AdminInv, RotationOf, LetIn, GivesUpForCause, ChangedSoFar, SetBy, AsRecovery, AsCiteck,
           Changed
<1>5. ASSUME NEW q \in Requests \ {r} PROVE RotationOf(q)'
    BY <1>1, <1>2
       DEF AdminInv, RotationOf, LetIn, GivesUpForCause, ChangedSoFar, AsRecovery, AsCiteck, A!Ended
<1> QED
    BY <1>3, <1>4, <1>5 DEF AdminInv

LEMMA DiesOK == ASSUME AdminInv, A!Crash PROVE AdminInv'
<1>1. /\ UNCHANGED <<kc, session, others, last>> /\ DOMAIN launcher' = {"store", "memory"}
      /\ rot' = [r \in Requests |-> IF rot[r] \in A!Ended THEN rot[r] ELSE "refused"]
      /\ failed' = failed \cup {r \in Requests : rot[r] \notin A!Ended}
    BY DEF A!Crash, AdminInv, AdminShape
<1>2. /\ rot' \in [Requests -> RotPcs] /\ \A r \in Requests : rot'[r] \in A!Ended
      /\ \A r \in Requests : rot'[r] = rot[r] \/ (rot'[r] = "refused" /\ r \in failed')
    BY <1>1 DEF AdminInv, AdminShape, RotPcs, A!Ended
<1>3. AdminShape' /\ OneRotates'
    BY <1>1, <1>2 DEF AdminInv, AdminShape, OneRotates
<1>4. ASSUME NEW r \in Requests PROVE RotationOf(r)'
  <2>1. last = r => rot'[r] # "done"
      BY <1>1 DEF A!Crash, A!Quiet, AdminInv, OneRotates, A!Ended
  <2>2. rot'[r] = rot[r] \/ (rot'[r] = "refused" /\ r \in failed')
      BY <1>2
  <2>3. LetIn(r)' /\ GivesUpForCause(r)'
      BY <1>1, <1>2, <2>2
         DEF AdminInv, RotationOf, LetIn, GivesUpForCause, AsRecovery, AsCiteck, Changed, A!Ended
  <2>4. ChangedSoFar(r)'
      BY <1>1, <1>2, <2>1, <2>2 DEF AdminInv, RotationOf, ChangedSoFar, SetBy, Changed, A!Ended
  <2> QED
      BY <2>3, <2>4 DEF RotationOf
<1> QED
    BY <1>3, <1>4 DEF AdminInv

LEMMA AdminInit == A!Init => AdminInv
<1> SUFFICES ASSUME A!Init PROVE AdminInv
    OBVIOUS
<1>1. AdminShape
    BY DEF A!Init, AdminShape, RotPcs
<1>2. OneRotates /\ \A r \in Requests : RotationOf(r)
    BY DEF A!Init, OneRotates, A!Ended, RotationOf, LetIn, GivesUpForCause, ChangedSoFar, SetBy,
       AsRecovery, AsCiteck, Changed
<1> QED
    BY <1>1, <1>2 DEF AdminInv

LEMMA AdminStep == AdminFaults = {} /\ AdminInv /\ [A!Next]_adminVars => AdminInv'
<1> SUFFICES ASSUME AdminFaults = {}, AdminInv, [A!Next]_adminVars PROVE AdminInv'
    OBVIOUS
<1>1. CASE A!Next
    BY <1>1, RotateOK, EnsureOK, BootstrapOK, RecoveryOK, UserOK, RoleOK, SaPasswordOK, ReloginOK,
       DeleteUserOK, RealmOK,
       MasterOK, RabbitOK, PgAdminOK, PersistOK, RememberOK, DiesOK DEF A!Next
<1>2. CASE UNCHANGED adminVars
    BY <1>2
       DEF adminVars, AdminInv, AdminShape, OneRotates, RotationOf, LetIn, GivesUpForCause,
           ChangedSoFar, SetBy
<1> QED
    BY <1>1, <1>2

LEMMA AdminWhole == AdminInv => A!RotationIsWhole
BY DEF AdminInv, AdminShape, RotationOf, GivesUpForCause, ChangedSoFar, SetBy, Changed, A!Apps,
   A!Ended, A!RotationIsWhole, A!CleanSucceeds, A!OnePassword, A!RecoveryIsOver

\* What the daemon does with its namespaces is a behaviour of Namespaces.
LEMMA NamespacesBehave == DaemonSpec => Spec
<1>1. DaemonInit => Init
    BY DEF DaemonInit
<1>2. [DaemonNext]_daemonVars => [Next]_vars
    BY DEF DaemonNext, daemonVars, namespaceVars
<1> QED
    BY <1>1, <1>2, PTL DEF DaemonSpec, Spec

\* "The rotation always lands on the live struct", and on everything else that
\* holds a copy: a rotation that ends without a failure leaves one password, and
\* nobody but citeck and the new password in Keycloak; one that gives up has met
\* a failure, while the daemon's commands end as they are answered (AdminFaults
\* empty).
THEOREM RotationsLand ==
    Distinct /\ ~StaleCreate /\ ~RotateUnlocked /\ AdminFaults = {} =>
      (DaemonSpec => []RotationLands)
<1> SUFFICES ASSUME Distinct, ~StaleCreate, ~RotateUnlocked, AdminFaults = {}
             PROVE  DaemonSpec => []RotationLands
    OBVIOUS
<1>1. DaemonInit => AdminInv
    BY AdminInit DEF DaemonInit
<1>2. AdminInv /\ [DaemonNext]_daemonVars => AdminInv'
  <2>1. [DaemonNext]_daemonVars => [A!Next]_adminVars
      BY DEF DaemonNext, daemonVars
  <2> QED
      BY <2>1, AdminStep
<1>3. DaemonSpec => []MemoryHasPassword
    BY NamespacesBehave, RotationIsKnown, PTL
<1>4. AdminInv /\ MemoryHasPassword => RotationLands
    BY AdminWhole DEF RotationLands
<1> QED
    BY <1>1, <1>2, <1>3, <1>4, PTL DEF DaemonSpec

-----------------------------------------------------------------------------
(* Diagnostics                                                             *)

\* What the commands are called is not what the module calls something else;
\* they are finitely many, and a probe may fail before it restarts anything.
DiagNames ==
  /\ Requests \cap {"none", "loop", "oom", "kept"} = {}
  /\ IsFiniteSet(Requests) /\ Threshold \in Nat \ {0}

JobPcs == {"idle", "suspend", "attach", "wait", "send", "answer", "copy", "exec", "rm", "quit", "release",
           "verdict", "done", "failed"}
Jobs == Requests \cup {"loop"}
JobType ==
  [pc : JobPcs, heap : BOOLEAN, gen : Nat, made : BOOLEAN, inside : BOOLEAN, ok : BOOLEAN]
JvmType ==
  [pause : SUBSET (Requests \cup {"oom"}), quit : BOOLEAN, listener : BOOLEAN,
   trigger : Jobs \cup {"none"}, class : BOOLEAN]
DumpType == [name : Requests \cup {"oom", "kept"}, gen : Nat, whole : BOOLEAN, nr : Nat]
DiagTypeOK ==
  /\ app \in [status : {"running", "updating", "starting", "stopping", "absent"}, gen : Nat]
  /\ held \in Nat /\ watch \in [fails : Nat, ours : Nat, ticked : BOOLEAN]
  /\ probe \in {"none", "out", "well", "ill", "ours"} /\ loop \in {"select", "diag"}
  /\ jvm \in JvmType /\ job \in [Jobs -> JobType] /\ dumps \in Seq(DumpType)

\* The loop's command neither writes a heap dump nor suspends the probe.
RolesOK ==
  /\ job["loop"].pc \in {"idle", "attach", "wait", "send", "copy", "exec", "rm", "quit"}
  /\ \A j \in Requests : job[j].pc # "quit"
  /\ \A j \in Jobs : job[j].inside => job[j].pc \in {"attach", "wait", "send", "answer", "rm"}

\* The world is stopped by who writes the dump that came last, and that one
\* alone is not whole; the dumps are numbered as they came.
Pausing(d) ==
  /\ jvm.pause = {d} /\ D!HasContainer /\ dumps # <<>> /\ dumps[Len(dumps)].name = d
  /\ d \in Requests => job[d].pc = "answer" /\ D!Alive(d)
DumpsOK ==
  /\ jvm.pause # {} => \E d \in Requests \cup {"oom"} : Pausing(d)
  /\ \A i \in 1 .. Len(dumps) : dumps[i].whole \/ (i = Len(dumps) /\ dumps[i].name \in jvm.pause)
  /\ \A i \in 1 .. Len(dumps) : dumps[i].nr <= dumps[Len(dumps)].nr
  /\ D!PathIsFree

\* A trigger is that of who waits for the listener and has made it.
TriggerOK ==
  /\ \A j \in Jobs : job[j].pc = "wait" /\ D!Alive(j) /\ job[j].made => jvm.trigger = j
  /\ jvm.trigger # "none" =>
       /\ jvm.trigger \in Jobs /\ job[jvm.trigger].pc = "wait" /\ job[jvm.trigger].made
       /\ D!Alive(jvm.trigger)

\* The attach client is that of the one command that uses it.
ClassOK ==
  /\ \A j \in Jobs : job[j].pc = "exec" /\ D!Alive(j) => jvm.class
  /\ jvm.class => \E j \in Jobs : D!UsesClass(j)
  /\ \A j, k \in Jobs : D!UsesClass(j) /\ D!UsesClass(k) => j = k

\* Nothing outlives its container, and no command precedes it.
GoneOK ==
  /\ \A j \in Jobs : job[j].gen <= app.gen
  /\ ~D!HasContainer => jvm.trigger = "none" /\ ~jvm.class /\ jvm.pause = {}

\* The loop restarts what has failed often enough while no command was at work.
LoopOK ==
  /\ loop = "select" => job["loop"].pc = "idle" /\ watch.fails < Threshold
  /\ loop = "diag" => held = 0
  /\ app.status # "running" => watch.fails = 0

\* A probe that a command has spoiled counts after the command, once: the ticks
\* meanwhile have forgotten what was counted before.
OursOK ==
  /\ watch.ours <= 1 /\ (watch.ticked => jvm.pause # {})
  /\ watch.ticked /\ jvm.pause \cap Requests # {} => watch.ours = 0
  /\ probe = "ours" => watch.ours = 0

HeldOK == held = Cardinality(D!Suspended)

DiagInv ==
  DiagTypeOK /\ RolesOK /\ DumpsOK /\ TriggerOK /\ ClassOK /\ GoneOK /\ LoopOK /\ OursOK /\ HeldOK
Kept == D!RestartSpares /\ D!EvidenceIsKept

\* The module's own names.
LEMMA Names == D!All = Jobs /\ D!Loop = "loop" /\ D!Oom = "oom" /\ D!Absent = "none"
BY DEF D!All, D!Loop, D!Oom, D!Absent, Jobs

LEMMA SameCardinality == ASSUME NEW S PROVE D!Cardinality(S) = Cardinality(S)
BY DEF D!Cardinality, Cardinality

LEMMA SuspendedFinite ==
    ASSUME DiagNames PROVE IsFiniteSet(D!Suspended) /\ Cardinality(D!Suspended) \in Nat
<1>1. D!Suspended \subseteq Requests
    BY DEF D!Suspended
<1> QED
    BY <1>1, FS_Subset, FS_CardinalityType DEF DiagNames

\* While a command stops the world the probe is suspended.
LEMMA PauseIsHeld ==
    ASSUME DiagNames, DiagInv, jvm.pause \cap Requests # {}
    PROVE  held > 0
<1>1. PICK d \in Requests : Pausing(d)
    BY DEF DiagInv, DumpsOK, Pausing
<1>2. d \in D!Suspended
    BY <1>1 DEF Pausing, D!Suspended
<1>3. Cardinality(D!Suspended) # 0
    BY <1>2, SuspendedFinite, FS_EmptySet
<1> QED
    BY <1>3, SuspendedFinite DEF DiagInv, HeldOK

\* The directory, entry by entry.
LEMMA DumpFacts ==
    ASSUME DiagTypeOK
    PROVE  /\ Len(dumps) \in Nat /\ DOMAIN dumps = 1 .. Len(dumps) /\ (dumps # <<>> => Len(dumps) > 0)
           /\ \A i \in 1 .. Len(dumps) : dumps[i] \in DumpType /\ dumps[i].nr \in Nat
<1>1. dumps \in Seq(DumpType)
    BY DEF DiagTypeOK
<1>2. \A i \in 1 .. Len(dumps) : dumps[i] \in DumpType
    BY <1>1
<1>3. \A d \in DumpType : d.nr \in Nat
    BY DEF DumpType
<1> QED
    BY <1>1, <1>2, <1>3

\* The numbers of the dumps that are whole.
LEMMA WholeFacts ==
    ASSUME DiagTypeOK, NEW n \in D!Whole(dumps)
    PROVE  n \in Nat /\ \E i \in 1 .. Len(dumps) : dumps[i].whole /\ n = dumps[i].nr
<1>1. PICK i \in DOMAIN dumps : dumps[i].whole /\ n = dumps[i].nr
    BY DEF D!Whole
<1> QED
    BY <1>1, DumpFacts

\* What is on disk stays there.
LEMMA SameDumps == ASSUME DiagTypeOK, dumps' = dumps PROVE D!EvidenceIsKept
<1> SUFFICES ASSUME NEW n \in D!Whole(dumps) PROVE \E m \in D!Whole(dumps) : m >= n
    BY DEF D!EvidenceIsKept, D!Whole
<1>1. n \in Nat
    BY WholeFacts
<1> QED
    BY <1>1

\* One more dump that is not whole yet.
LEMMA BegunFacts ==
    ASSUME DiagInv, D!HasContainer, jvm.pause = {}, NEW d \in Requests \cup {"oom"}, dumps' = D!Begun(d)
    PROVE  /\ dumps' \in Seq(DumpType) /\ Len(dumps') = Len(dumps) + 1
           /\ \A i \in 1 .. Len(dumps) : dumps'[i] = dumps[i] /\ dumps[i].whole
           /\ dumps'[Len(dumps')].name = d /\ dumps'[Len(dumps')].gen = app.gen
           /\ \A i \in 1 .. Len(dumps') : dumps'[i].nr <= dumps'[Len(dumps')].nr
           /\ D!EvidenceIsKept
<1> DEFINE nr == IF dumps = <<>> THEN 1 ELSE dumps[Len(dumps)].nr + 1
           new == [name |-> d, gen |-> app.gen, whole |-> FALSE, nr |-> nr]
<1>0. DiagTypeOK /\ dumps \in Seq(DumpType) /\ app.gen \in Nat
    BY DEF DiagInv, DiagTypeOK
<1>1. nr \in Nat /\ \A i \in 1 .. Len(dumps) : dumps[i].nr < nr
  <2>1. CASE dumps = <<>>
      BY <2>1
  <2>2. CASE dumps # <<>>
    <3>1. \A i \in 1 .. Len(dumps) : dumps[i].nr \in Nat /\ dumps[i].nr <= dumps[Len(dumps)].nr
        BY <1>0, DumpFacts DEF DiagInv, DumpsOK
    <3>2. Len(dumps) \in 1 .. Len(dumps)
        BY <1>0, <2>2, DumpFacts
    <3> QED
        BY <2>2, <3>1, <3>2
  <2> QED
      BY <2>1, <2>2
<1>2. dumps' = Append(dumps, new)
    BY DEF D!Begun, D!Last
<1> HIDE DEF nr
<1>3. new \in DumpType
    BY <1>0, <1>1 DEF DumpType
<1>4. /\ dumps' \in Seq(DumpType) /\ Len(dumps') = Len(dumps) + 1 /\ dumps'[Len(dumps) + 1] = new
      /\ \A i \in 1 .. Len(dumps) : dumps'[i] = dumps[i]
    BY <1>0, <1>2, <1>3
<1>5. \A i \in 1 .. Len(dumps) : dumps[i].whole
    BY DEF DiagInv, DumpsOK
<1>6. \A i \in 1 .. Len(dumps') : dumps'[i].nr <= nr
    BY <1>0, <1>1, <1>4, DumpFacts
<1>7. D!EvidenceIsKept
  <2> SUFFICES ASSUME NEW n \in D!Whole(dumps) PROVE n \in D!Whole(dumps') /\ n \in Nat
      BY DEF D!EvidenceIsKept
  <2>1. n \in Nat /\ \E i \in 1 .. Len(dumps) : dumps[i].whole /\ n = dumps[i].nr
      BY <1>0, WholeFacts
  <2>2. PICK i \in 1 .. Len(dumps) : dumps[i].whole /\ n = dumps[i].nr
      BY <2>1
  <2>3. i \in DOMAIN dumps' /\ dumps'[i].whole /\ n = dumps'[i].nr
      BY <1>0, <1>4, <2>2, DumpFacts
  <2> QED
      BY <2>1, <2>3 DEF D!Whole
<1> QED
    BY <1>4, <1>5, <1>6, <1>7

-----------------------------------------------------------------------------
\* No command begins or ends its work.
LEMMA HeldStays ==
    ASSUME DiagInv, held' = held, loop' = loop, D!Suspended' = D!Suspended
    PROVE  HeldOK' /\ held' \in Nat /\ (loop = "diag" => held' = 0)
BY DEF DiagInv, DiagTypeOK, LoopOK, HeldOK

\* A step of one command, that stops no world.
LEMMA CommandStep ==
    ASSUME DiagInv, NEW j \in Jobs, UNCHANGED <<app, watch, probe, loop, dumps>>,
           jvm' \in JvmType, jvm'.pause = jvm.pause, ~D!HasContainer => jvm' = jvm,
           job' \in [Jobs -> JobType], \A k \in Jobs : k # j => job'[k] = job[k],
           job'[j].gen <= app.gen, job[j].pc = "answer" => j \notin jvm.pause,
           j = "loop" => job[j].pc # "idle",
           HeldOK', held' \in Nat, loop = "diag" => held' = 0
    PROVE  DiagTypeOK' /\ DumpsOK' /\ GoneOK' /\ LoopOK' /\ OursOK' /\ Kept
<1>1. DiagTypeOK'
    BY DEF DiagInv, DiagTypeOK
<1>2. DumpsOK'
  <2>1. ASSUME jvm'.pause # {} PROVE \E d \in Requests \cup {"oom"} : Pausing(d)'
    <3>1. PICK d \in Requests \cup {"oom"} : Pausing(d)
        BY <2>1 DEF DiagInv, DumpsOK
    <3>2. Pausing(d)'
        BY <3>1 DEF Pausing, Jobs, D!HasContainer, D!Alive
    <3> QED
        BY <3>2
  <2> QED
      BY <2>1 DEF DiagInv, DumpsOK, D!PathIsFree, D!HasContainer
<1>3. GoneOK' /\ OursOK'
    BY DEF DiagInv, GoneOK, OursOK, D!HasContainer
<1>4. LoopOK'
    BY DEF DiagInv, LoopOK, Jobs
<1>5. Kept
    BY SameDumps DEF DiagInv, Kept, D!RestartSpares
<1> QED
    BY <1>1, <1>2, <1>3, <1>4, <1>5

\* A step that leaves the commands alone, and what they have made.
LEMMA CommandsStay ==
    ASSUME DiagInv, job' = job, jvm' \in JvmType, jvm'.trigger = jvm.trigger, jvm'.class = jvm.class,
           D!HasContainer' = D!HasContainer, app'.gen = app.gen, ~D!HasContainer => jvm'.pause = {},
           held' = held
    PROVE  RolesOK' /\ TriggerOK' /\ ClassOK' /\ GoneOK' /\ HeldOK'
<1>1. RolesOK' /\ HeldOK'
    BY DEF DiagInv, RolesOK, HeldOK, D!Suspended
<1>2. TriggerOK' /\ GoneOK'
    BY DEF DiagInv, TriggerOK, GoneOK, D!Alive
<1>3. ClassOK'
    BY DEF DiagInv, ClassOK, D!Alive, D!UsesClass
<1> QED
    BY <1>1, <1>2, <1>3

\* A command goes on to something else.
LEMMA JobGoFacts ==
    ASSUME job \in [Jobs -> JobType], NEW j \in Jobs, NEW pc \in JobPcs, D!Go(j, pc)
    PROVE  /\ job' \in [Jobs -> JobType] /\ \A k \in Jobs : k # j => job'[k] = job[k]
           /\ job'[j].pc = pc /\ job'[j].made = job[j].made /\ job'[j].gen = job[j].gen
           /\ job'[j].inside = job[j].inside
BY DEF D!Go, JobType

LEMMA AttachOK ==
    ASSUME DiagNames, DiagFaults = {}, DiagInv, NEW j \in Jobs, D!Attach(j)
    PROVE  DiagInv' /\ Kept
<1>1. /\ job[j].pc = "attach" /\ UNCHANGED <<app, watch, probe, loop, dumps, held>>
      /\ DiagTypeOK /\ RolesOK /\ TriggerOK /\ ClassOK /\ GoneOK /\ job \in [Jobs -> JobType]
      /\ jvm \in JvmType
      /\ j \in Jobs /\ job[j] \in JobType /\ app.gen \in Nat
    BY DEF D!Attach, D!At, DiagInv, DiagTypeOK, Jobs
<1>2. /\ job' \in [Jobs -> JobType] /\ \A k \in Jobs : k # j => job'[k] = job[k]
      /\ jvm' \in JvmType /\ jvm'.pause = jvm.pause /\ (~D!HasContainer => jvm' = jvm)
      /\ \/ /\ job'[j].pc = (IF job[j].inside THEN "rm" ELSE "copy") /\ job'[j].made = job[j].made
            /\ job'[j].gen = job[j].gen /\ job'[j].inside = job[j].inside
            /\ jvm'.trigger = jvm.trigger /\ jvm'.class = jvm.class
         \/ /\ job'[j].pc = "send" /\ job'[j].made = job[j].made /\ job'[j].gen = job[j].gen
            /\ job'[j].inside = job[j].inside /\ jvm'.trigger = jvm.trigger
            /\ jvm'.class = jvm.class
         \/ /\ job'[j].pc = "wait" /\ (job'[j].made <=> jvm.trigger = "none") /\ D!Alive(j)
            /\ job'[j].gen = job[j].gen /\ job'[j].inside = job[j].inside
            /\ jvm'.trigger = (IF jvm.trigger = "none" THEN j ELSE jvm.trigger)
            /\ jvm'.class = jvm.class
  <2>1. CASE \E pc \in {"send", D!Otherwise(j)} : D!Go(j, pc) /\ UNCHANGED jvm
      BY <1>1, <2>1, JobGoFacts DEF D!Otherwise, JobPcs
  <2>2. CASE /\ D!Alive(j)
             /\ job' = [job EXCEPT ![j].pc = "wait", ![j].made = (jvm.trigger = "none")]
             /\ jvm' = [jvm EXCEPT !.quit = TRUE, !.trigger = IF @ = "none" THEN j ELSE @]
    <3>1. /\ job' \in [Jobs -> JobType] /\ \A k \in Jobs : k # j => job'[k] = job[k]
          /\ job'[j].pc = "wait" /\ (job'[j].made <=> jvm.trigger = "none")
          /\ job'[j].gen = job[j].gen /\ job'[j].inside = job[j].inside
        BY <1>1, <2>2 DEF JobType, JobPcs
    <3>2. /\ jvm' \in JvmType /\ jvm'.pause = jvm.pause /\ jvm'.class = jvm.class
          /\ jvm'.trigger = (IF jvm.trigger = "none" THEN j ELSE jvm.trigger)
        BY <1>1, <2>2 DEF JvmType
    <3> QED
        BY <2>2, <3>1, <3>2 DEF D!Alive
  <2> QED
      BY <2>1, <2>2, Names DEF D!Attach
<1>3. D!Suspended' = D!Suspended
    BY <1>1, <1>2 DEF D!Suspended, Jobs, DiagNames
<1>4. DiagTypeOK' /\ DumpsOK' /\ GoneOK' /\ LoopOK' /\ OursOK' /\ HeldOK' /\ Kept
    BY <1>1, <1>2, <1>3, HeldStays, CommandStep DEF GoneOK, JobType, DiagNames
<1>5. RolesOK'
    BY <1>1, <1>2 DEF RolesOK, Jobs, DiagNames
<1>6. TriggerOK'
    BY <1>1, <1>2 DEF TriggerOK, D!Alive, D!HasContainer, Jobs, DiagNames
<1>7. ClassOK'
    BY <1>1, <1>2 DEF ClassOK, RolesOK, D!UsesClass, D!Alive, D!HasContainer
<1> QED
    BY <1>4, <1>5, <1>6, <1>7 DEF DiagInv

LEMMA WaitOK ==
    ASSUME DiagNames, DiagFaults = {}, DiagInv, NEW j \in Jobs, D!Wait(j)
    PROVE  DiagInv' /\ Kept
<1>1. /\ job[j].pc = "wait" /\ UNCHANGED <<app, watch, probe, loop, dumps, held>>
      /\ DiagTypeOK /\ RolesOK /\ TriggerOK /\ ClassOK /\ GoneOK /\ job \in [Jobs -> JobType]
      /\ jvm \in JvmType
      /\ j \in Jobs /\ job[j] \in JobType /\ app.gen \in Nat
    BY DEF D!Wait, D!At, DiagInv, DiagTypeOK, Jobs
<1>2. /\ job' \in [Jobs -> JobType] /\ \A k \in Jobs : k # j => job'[k] = job[k]
      /\ jvm' \in JvmType /\ jvm'.pause = jvm.pause /\ (~D!HasContainer => jvm' = jvm)
      /\ (job'[j].pc = (IF job[j].inside THEN "rm" ELSE "copy") \/ job'[j].pc = "send")
      /\ ~job'[j].made /\ job'[j].gen = job[j].gen /\ job'[j].inside = job[j].inside
      /\ jvm'.trigger = (IF D!Alive(j) /\ job[j].made THEN "none" ELSE jvm.trigger)
      /\ jvm'.class = jvm.class
  <2>1. PICK pc \in {"send", D!Otherwise(j)} : job' = [job EXCEPT ![j].pc = pc, ![j].made = FALSE]
      BY DEF D!Wait
  <2>2. /\ job' \in [Jobs -> JobType] /\ \A k \in Jobs : k # j => job'[k] = job[k]
        /\ job'[j].pc = pc /\ ~job'[j].made /\ job'[j].gen = job[j].gen
        /\ job'[j].inside = job[j].inside
      BY <1>1, <2>1 DEF JobType, JobPcs, D!Otherwise
  <2>3. jvm' = IF D!Alive(j) /\ job[j].made THEN [jvm EXCEPT !.trigger = "none"] ELSE jvm
      BY Names DEF D!Wait
  <2>4. /\ jvm' \in JvmType /\ jvm'.pause = jvm.pause /\ jvm'.class = jvm.class
        /\ jvm'.trigger = (IF D!Alive(j) /\ job[j].made THEN "none" ELSE jvm.trigger)
      BY <1>1, <2>3 DEF JvmType
  <2> QED
      BY <2>1, <2>2, <2>3, <2>4 DEF D!Alive, D!Otherwise
<1>3. D!Suspended' = D!Suspended
    BY <1>1, <1>2 DEF D!Suspended, Jobs, DiagNames
<1>4. DiagTypeOK' /\ DumpsOK' /\ GoneOK' /\ LoopOK' /\ OursOK' /\ HeldOK' /\ Kept
    BY <1>1, <1>2, <1>3, HeldStays, CommandStep DEF GoneOK, JobType, DiagNames
<1>5. RolesOK'
    BY <1>1, <1>2 DEF RolesOK, Jobs, DiagNames
<1>6. TriggerOK'
  <2>1. CASE D!Alive(j) /\ job[j].made
    <3>1. jvm.trigger = j /\ jvm'.trigger = "none"
        BY <1>1, <1>2, <2>1 DEF TriggerOK
    <3>2. \A k \in Jobs : k # j => ~(job[k].pc = "wait" /\ D!Alive(k) /\ job[k].made)
        BY <1>1, <3>1 DEF TriggerOK
    <3> QED
        BY <1>1, <1>2, <3>1, <3>2 DEF TriggerOK, D!Alive, D!HasContainer
  <2>2. CASE ~(D!Alive(j) /\ job[j].made)
      BY <1>1, <1>2, <2>2 DEF TriggerOK, D!Alive, D!HasContainer
  <2> QED
      BY <2>1, <2>2
<1>7. ClassOK'
    BY <1>1, <1>2 DEF ClassOK, RolesOK, D!UsesClass, D!Alive, D!HasContainer
<1> QED
    BY <1>4, <1>5, <1>6, <1>7 DEF DiagInv

\* An exchange that is over, and one that begins a heap dump.
ExchangeOver(j) ==
  /\ job[j].pc = "send" /\ UNCHANGED <<app, held, watch, probe, loop, dumps, jvm>>
  /\ job' \in [Jobs -> JobType] /\ \A k \in Jobs : k # j => job'[k] = job[k]
  /\ job'[j].pc \in (IF job[j].inside THEN {"rm"}
                      ELSE IF j = "loop" THEN {"idle", "copy"} ELSE {"release", "copy"})
  /\ job'[j].gen = job[j].gen /\ job'[j].inside = job[j].inside
ExchangeBegins(j) ==
  /\ job[j].pc = "send" /\ UNCHANGED <<app, held, watch, probe, loop>>
  /\ D!Alive(j) /\ jvm.pause = {}
  /\ job' = [job EXCEPT ![j].pc = "answer", ![j].heap = TRUE, ![j].ok = TRUE]
  /\ jvm' = [jvm EXCEPT !.pause = {j}] /\ dumps' = D!Begun(j)

LEMMA ExchangeFacts ==
    ASSUME DiagNames, DiagFaults = {}, DiagInv, NEW j \in Jobs, D!Exchange(j)
    PROVE  ExchangeOver(j) \/ (j \in Requests /\ ExchangeBegins(j))
<1>1. job \in [Jobs -> JobType] /\ jvm \in JvmType /\ job[j] \in JobType
    BY DEF DiagInv, DiagTypeOK
<1>2. job[j].pc = "send" /\ UNCHANGED <<app, held, watch, probe, loop>>
    BY DEF D!Exchange, D!At
<1>3. CASE D!Alive(j) /\ jvm.pause = {} /\ \E heap \in IF j \in Requests THEN {job[j].heap, TRUE} ELSE {FALSE} :
             LET begins == heap /\ D!File(j) \notin D!Written
             IN /\ job' = [job EXCEPT ![j].pc = IF begins THEN "answer" ELSE D!Answered(j),
                                      ![j].heap = heap, ![j].ok = TRUE]
                /\ jvm' = [jvm EXCEPT !.pause = IF begins THEN {j} ELSE {}]
                /\ dumps' = IF begins THEN D!Begun(D!File(j)) ELSE dumps
  <2>1. PICK heap \in IF j \in Requests THEN {job[j].heap, TRUE} ELSE {FALSE} :
          LET begins == heap /\ D!File(j) \notin D!Written
          IN /\ job' = [job EXCEPT ![j].pc = IF begins THEN "answer" ELSE D!Answered(j),
                                   ![j].heap = heap, ![j].ok = TRUE]
             /\ jvm' = [jvm EXCEPT !.pause = IF begins THEN {j} ELSE {}]
             /\ dumps' = IF begins THEN D!Begun(D!File(j)) ELSE dumps
      BY <1>3
  <2>2. heap \in BOOLEAN
      BY <1>1, <2>1 DEF JobType
  <2>3. CASE heap /\ D!File(j) \notin D!Written
    <3>1. j \in Requests /\ heap = TRUE
        BY <2>1, <2>2, <2>3
    <3>2. /\ job' = [job EXCEPT ![j].pc = "answer", ![j].heap = TRUE, ![j].ok = TRUE]
          /\ jvm' = [jvm EXCEPT !.pause = {j}] /\ dumps' = D!Begun(j)
        BY <2>1, <2>3, <3>1 DEF D!File, D!SameSecond
    <3> QED
        BY <1>2, <1>3, <3>1, <3>2 DEF ExchangeBegins
  <2>4. CASE ~(heap /\ D!File(j) \notin D!Written)
    <3>1. /\ job' = [job EXCEPT ![j].pc = D!Answered(j), ![j].heap = heap, ![j].ok = TRUE]
          /\ dumps' = dumps
        BY <2>1, <2>4
    <3>2. jvm' = jvm
        BY <1>1, <1>3, <2>1, <2>4 DEF JvmType
    <3>3. D!Answered(j) = IF job[j].inside THEN "rm" ELSE IF j = "loop" THEN "idle" ELSE "release"
        BY DEF D!Answered, D!Loop
    <3>4. /\ job' \in [Jobs -> JobType] /\ \A k \in Jobs : k # j => job'[k] = job[k]
          /\ job'[j].pc \in (IF job[j].inside THEN {"rm"}
                              ELSE IF j = "loop" THEN {"idle", "copy"} ELSE {"release", "copy"})
          /\ job'[j].gen = job[j].gen /\ job'[j].inside = job[j].inside
        BY <1>1, <2>2, <3>1, <3>3 DEF JobType, JobPcs
    <3> QED
        BY <1>2, <3>1, <3>2, <3>4 DEF ExchangeOver
  <2> QED
      BY <2>3, <2>4
<1>4. CASE D!Go(j, D!Otherwise(j)) /\ UNCHANGED <<jvm, dumps>>
  <2>1. /\ job' \in [Jobs -> JobType] /\ \A k \in Jobs : k # j => job'[k] = job[k]
        /\ job'[j].pc = (IF job[j].inside THEN "rm" ELSE "copy")
        /\ job'[j].gen = job[j].gen /\ job'[j].inside = job[j].inside
      BY <1>1, <1>4 DEF D!Go, D!Otherwise, JobType, JobPcs
  <2> QED
      BY <1>2, <1>4, <2>1 DEF ExchangeOver
<1> QED
    BY <1>3, <1>4 DEF D!Exchange

LEMMA OverOK ==
    ASSUME DiagNames, DiagFaults = {}, DiagInv, NEW j \in Jobs, ExchangeOver(j)
    PROVE  DiagInv' /\ Kept
<1>1. /\ job[j].pc = "send" /\ UNCHANGED <<app, watch, probe, loop, dumps, held>>
      /\ DiagTypeOK /\ RolesOK /\ TriggerOK /\ ClassOK /\ GoneOK /\ job \in [Jobs -> JobType]
      /\ jvm \in JvmType
      /\ j \in Jobs /\ job[j] \in JobType /\ app.gen \in Nat
    BY DEF ExchangeOver, D!At, DiagInv, DiagTypeOK, Jobs
<1>2. /\ job' \in [Jobs -> JobType] /\ \A k \in Jobs : k # j => job'[k] = job[k]
      /\ jvm' \in JvmType /\ jvm'.pause = jvm.pause /\ (~D!HasContainer => jvm' = jvm)
      /\ job'[j].pc \in (IF job[j].inside THEN {"rm"}
                          ELSE IF j = "loop" THEN {"idle", "copy"} ELSE {"release", "copy"})
      /\ job'[j].gen = job[j].gen /\ job'[j].inside = job[j].inside /\ jvm'.trigger = jvm.trigger
      /\ jvm'.class = jvm.class
    BY <1>1, Names DEF ExchangeOver, D!At, D!Alive, JobType, JobPcs, JvmType, Jobs, DiagNames
<1>3. D!Suspended' = D!Suspended
    BY <1>1, <1>2 DEF D!Suspended, Jobs, DiagNames
<1>4. DiagTypeOK' /\ DumpsOK' /\ GoneOK' /\ LoopOK' /\ OursOK' /\ HeldOK' /\ Kept
    BY <1>1, <1>2, <1>3, HeldStays, CommandStep DEF GoneOK, JobType, DiagNames
<1>5. RolesOK'
    BY <1>1, <1>2 DEF RolesOK, Jobs, DiagNames
<1>6. TriggerOK'
    BY <1>1, <1>2 DEF TriggerOK, D!Alive, D!HasContainer, Jobs, DiagNames
<1>7. ClassOK'
    BY <1>1, <1>2 DEF ClassOK, RolesOK, D!UsesClass, D!Alive, D!HasContainer
<1> QED
    BY <1>4, <1>5, <1>6, <1>7 DEF DiagInv

LEMMA AnswerOK ==
    ASSUME DiagNames, DiagFaults = {}, DiagInv, NEW j \in Jobs, D!Answer(j)
    PROVE  DiagInv' /\ Kept
<1>1. /\ job[j].pc = "answer" /\ UNCHANGED <<app, watch, probe, loop, dumps, held>>
      /\ DiagTypeOK /\ RolesOK /\ TriggerOK /\ ClassOK /\ GoneOK /\ job \in [Jobs -> JobType]
      /\ jvm \in JvmType
      /\ j \in Jobs /\ job[j] \in JobType /\ app.gen \in Nat
    BY DEF D!Answer, D!At, DiagInv, DiagTypeOK, Jobs
<1>2. j \notin jvm.pause
    BY <1>1 DEF D!Answer, D!Cancelled, DiagInv, DumpsOK, Pausing, RolesOK, Jobs
<1>3. /\ job' \in [Jobs -> JobType] /\ \A k \in Jobs : k # j => job'[k] = job[k]
      /\ jvm' \in JvmType /\ jvm'.pause = jvm.pause /\ (~D!HasContainer => jvm' = jvm)
      /\ \/ /\ job'[j].pc = (IF job[j].inside THEN "rm" ELSE IF j = "loop" THEN "idle" ELSE "release")
            /\ job'[j].gen = job[j].gen /\ job'[j].inside = job[j].inside
            /\ jvm'.trigger = jvm.trigger /\ jvm'.class = jvm.class
         \/ /\ job'[j].pc = (IF job[j].inside THEN "rm" ELSE "copy") /\ job'[j].gen = job[j].gen
            /\ job'[j].inside = job[j].inside /\ jvm'.trigger = jvm.trigger
            /\ jvm'.class = jvm.class
    BY <1>1, <1>2, Names
       DEF D!Answer, D!Go, D!Otherwise, D!Answered, D!At, D!Alive, JobType, JobPcs, JvmType, Jobs,
           DiagNames
<1>4. D!Suspended' = D!Suspended
    BY <1>1, <1>2, <1>3 DEF D!Suspended, Jobs, DiagNames
<1>5. DiagTypeOK' /\ DumpsOK' /\ GoneOK' /\ LoopOK' /\ OursOK' /\ HeldOK' /\ Kept
    BY <1>1, <1>2, <1>3, <1>4, HeldStays, CommandStep DEF GoneOK, JobType, DiagNames
<1>6. RolesOK'
    BY <1>1, <1>2, <1>3 DEF RolesOK, Jobs, DiagNames
<1>7. TriggerOK'
    BY <1>1, <1>2, <1>3 DEF TriggerOK, D!Alive, D!HasContainer, Jobs, DiagNames
<1>8. ClassOK'
    BY <1>1, <1>2, <1>3 DEF ClassOK, RolesOK, D!UsesClass, D!Alive, D!HasContainer
<1> QED
    BY <1>5, <1>6, <1>7, <1>8 DEF DiagInv

LEMMA CopyOK ==
    ASSUME DiagNames, DiagFaults = {}, DiagInv, NEW j \in Jobs, D!Copy(j)
    PROVE  DiagInv' /\ Kept
<1>1. /\ job[j].pc = "copy" /\ UNCHANGED <<app, watch, probe, loop, dumps, held>>
      /\ DiagTypeOK /\ RolesOK /\ TriggerOK /\ ClassOK /\ GoneOK /\ job \in [Jobs -> JobType]
      /\ jvm \in JvmType
      /\ j \in Jobs /\ job[j] \in JobType /\ app.gen \in Nat
    BY DEF D!Copy, D!At, DiagInv, DiagTypeOK, Jobs
<1>2. /\ job' \in [Jobs -> JobType] /\ \A k \in Jobs : k # j => job'[k] = job[k]
      /\ jvm' \in JvmType /\ jvm'.pause = jvm.pause /\ (~D!HasContainer => jvm' = jvm)
      /\ \/ /\ job'[j].pc = "exec" /\ job'[j].gen = job[j].gen /\ job'[j].inside = job[j].inside
            /\ D!Alive(j) /\ jvm'.class /\ jvm'.trigger = jvm.trigger
            /\ \A k \in Jobs : k # j => ~D!UsesClass(k)
         \/ /\ job'[j].pc = (IF j = "loop" THEN "quit" ELSE "release") /\ job'[j].gen = job[j].gen
            /\ job'[j].inside = job[j].inside /\ jvm'.trigger = jvm.trigger
            /\ jvm'.class = jvm.class
  <2>1. CASE D!Alive(j) /\ D!Go(j, "exec") /\ jvm' = [jvm EXCEPT !.class = TRUE]
    <3>1. /\ job' \in [Jobs -> JobType] /\ \A k \in Jobs : k # j => job'[k] = job[k]
          /\ job'[j].pc = "exec" /\ job'[j].gen = job[j].gen /\ job'[j].inside = job[j].inside
        BY <1>1, <2>1, JobGoFacts DEF JobPcs
    <3>2. jvm' \in JvmType /\ jvm'.pause = jvm.pause /\ jvm'.class /\ jvm'.trigger = jvm.trigger
        BY <1>1, <2>1 DEF JvmType
    <3>3. \A k \in Jobs : k # j => ~D!UsesClass(k)
        BY Names DEF D!Copy, D!SharedClass
    <3> QED
        BY <2>1, <3>1, <3>2, <3>3 DEF D!Alive
  <2>2. CASE D!Go(j, D!NoClass(j)) /\ UNCHANGED jvm
      BY <1>1, <2>2, JobGoFacts, Names DEF D!NoClass, JobPcs
  <2> QED
      BY <2>1, <2>2 DEF D!Copy
<1>3. D!Suspended' = D!Suspended
    BY <1>1, <1>2 DEF D!Suspended, Jobs, DiagNames
<1>4. DiagTypeOK' /\ DumpsOK' /\ GoneOK' /\ LoopOK' /\ OursOK' /\ HeldOK' /\ Kept
    BY <1>1, <1>2, <1>3, HeldStays, CommandStep DEF GoneOK, JobType, DiagNames
<1>5. RolesOK'
    BY <1>1, <1>2 DEF RolesOK, Jobs, DiagNames
<1>6. TriggerOK'
    BY <1>1, <1>2 DEF TriggerOK, D!Alive, D!HasContainer, Jobs, DiagNames
<1>7. ClassOK'
    BY <1>1, <1>2 DEF ClassOK, RolesOK, D!UsesClass, D!Alive, D!HasContainer
<1> QED
    BY <1>4, <1>5, <1>6, <1>7 DEF DiagInv

LEMMA ExecOK ==
    ASSUME DiagNames, DiagFaults = {}, DiagInv, NEW j \in Jobs, D!Exec(j)
    PROVE  DiagInv' /\ Kept
<1>1. /\ job[j].pc = "exec" /\ UNCHANGED <<app, watch, probe, loop, dumps, held>>
      /\ DiagTypeOK /\ RolesOK /\ TriggerOK /\ ClassOK /\ GoneOK /\ job \in [Jobs -> JobType]
      /\ jvm \in JvmType
      /\ j \in Jobs /\ job[j] \in JobType /\ app.gen \in Nat
    BY DEF D!Exec, D!At, DiagInv, DiagTypeOK, Jobs
<1>2. /\ job' \in [Jobs -> JobType] /\ \A k \in Jobs : k # j => job'[k] = job[k]
      /\ jvm' \in JvmType /\ jvm'.pause = jvm.pause /\ (~D!HasContainer => jvm' = jvm)
      /\ \/ /\ job'[j].pc = "attach" /\ job'[j].inside /\ job'[j].gen = job[j].gen /\ D!Alive(j)
            /\ jvm'.trigger = jvm.trigger /\ jvm'.class = jvm.class
         \/ /\ job'[j].pc = "rm" /\ job'[j].inside = job[j].inside /\ job'[j].gen = job[j].gen
            /\ jvm'.trigger = jvm.trigger /\ jvm'.class = jvm.class
    BY <1>1, Names DEF D!Exec, D!Go, D!At, D!Alive, JobType, JobPcs, JvmType, Jobs, DiagNames
<1>3. D!Suspended' = D!Suspended
    BY <1>1, <1>2 DEF D!Suspended, Jobs, DiagNames
<1>4. DiagTypeOK' /\ DumpsOK' /\ GoneOK' /\ LoopOK' /\ OursOK' /\ HeldOK' /\ Kept
    BY <1>1, <1>2, <1>3, HeldStays, CommandStep DEF GoneOK, JobType, DiagNames
<1>5. RolesOK'
    BY <1>1, <1>2 DEF RolesOK, Jobs, DiagNames
<1>6. TriggerOK'
    BY <1>1, <1>2 DEF TriggerOK, D!Alive, D!HasContainer, Jobs, DiagNames
<1>7. ClassOK'
    BY <1>1, <1>2 DEF ClassOK, RolesOK, D!UsesClass, D!Alive, D!HasContainer
<1> QED
    BY <1>4, <1>5, <1>6, <1>7 DEF DiagInv

LEMMA RmOK ==
    ASSUME DiagNames, DiagFaults = {}, DiagInv, NEW j \in Jobs, D!Rm(j)
    PROVE  DiagInv' /\ Kept
<1>1. /\ job[j].pc = "rm" /\ UNCHANGED <<app, watch, probe, loop, dumps, held>>
      /\ DiagTypeOK /\ RolesOK /\ TriggerOK /\ ClassOK /\ GoneOK /\ job \in [Jobs -> JobType]
      /\ jvm \in JvmType
      /\ j \in Jobs /\ job[j] \in JobType /\ app.gen \in Nat
    BY DEF D!Rm, D!At, DiagInv, DiagTypeOK, Jobs
<1>2. /\ job' \in [Jobs -> JobType] /\ \A k \in Jobs : k # j => job'[k] = job[k]
      /\ jvm' \in JvmType /\ jvm'.pause = jvm.pause /\ (~D!HasContainer => jvm' = jvm)
      /\ \/ job'[j].pc = (IF j = "loop" THEN "quit" ELSE "release")
         \/ job'[j].pc = "idle" /\ j = "loop"
      /\ ~job'[j].inside /\ job'[j].gen = job[j].gen
      /\ jvm'.class = (~D!Alive(j) /\ jvm.class) /\ jvm'.trigger = jvm.trigger
    BY <1>1, Names
       DEF D!Rm, D!NoClass, D!RmFails, D!At, D!Alive, JobType, JobPcs, JvmType, Jobs, DiagNames
<1>3. D!Suspended' = D!Suspended
    BY <1>1, <1>2 DEF D!Suspended, Jobs, DiagNames
<1>4. DiagTypeOK' /\ DumpsOK' /\ GoneOK' /\ LoopOK' /\ OursOK' /\ HeldOK' /\ Kept
    BY <1>1, <1>2, <1>3, HeldStays, CommandStep DEF GoneOK, JobType, DiagNames
<1>5. RolesOK'
    BY <1>1, <1>2 DEF RolesOK, Jobs, DiagNames
<1>6. TriggerOK'
    BY <1>1, <1>2 DEF TriggerOK, D!Alive, D!HasContainer, Jobs, DiagNames
<1>7. ClassOK'
  <2>1. CASE D!Alive(j)
    <3>1. \A k \in Jobs : k # j => ~D!UsesClass(k)
        BY <1>1, <2>1 DEF ClassOK, D!UsesClass
    <3> QED
        BY <1>1, <1>2, <2>1, <3>1 DEF ClassOK, D!UsesClass, D!Alive, D!HasContainer
  <2>2. CASE ~D!Alive(j)
    <3>1. \A k \in Jobs : (D!Alive(k)' <=> D!Alive(k)) /\ (D!UsesClass(k)' <=> D!UsesClass(k))
        BY <1>1, <1>2, <2>2 DEF D!UsesClass, D!Alive, D!HasContainer
    <3>2. \A k \in Jobs : job'[k].pc = "exec" => job[k].pc = "exec"
        BY <1>1, <1>2
    <3>3. jvm'.class = jvm.class
        BY <1>2, <2>2, <1>1 DEF JvmType
    <3> QED
        BY <1>1, <3>1, <3>2, <3>3 DEF ClassOK
  <2> QED
      BY <2>1, <2>2
<1> QED
    BY <1>4, <1>5, <1>6, <1>7 DEF DiagInv

LEMMA SignalOK ==
    ASSUME DiagNames, DiagFaults = {}, DiagInv, D!SignalThreadDump
    PROVE  DiagInv' /\ Kept
<1>1. /\ job["loop"].pc = "quit" /\ UNCHANGED <<app, watch, probe, loop, dumps, held>>
      /\ DiagTypeOK /\ RolesOK /\ TriggerOK /\ ClassOK /\ GoneOK /\ job \in [Jobs -> JobType]
      /\ jvm \in JvmType
      /\ "loop" \in Jobs /\ job["loop"] \in JobType /\ app.gen \in Nat
    BY DEF D!SignalThreadDump, D!At, D!Loop, DiagInv, DiagTypeOK, Jobs
<1>2. /\ job' \in [Jobs -> JobType] /\ \A k \in Jobs : k # "loop" => job'[k] = job[k]
      /\ jvm' \in JvmType /\ jvm'.pause = jvm.pause /\ (~D!HasContainer => jvm' = jvm)
      /\ job'["loop"].pc = "idle" /\ job'["loop"].gen = job["loop"].gen
      /\ job'["loop"].inside = job["loop"].inside
      /\ jvm'.trigger = jvm.trigger /\ jvm'.class = jvm.class
    BY <1>1, Names
       DEF D!SignalThreadDump, D!Go, D!At, D!Alive, JobType, JobPcs, JvmType, Jobs, DiagNames
<1>3. D!Suspended' = D!Suspended
    BY <1>1, <1>2 DEF D!Suspended, Jobs, DiagNames
<1>4. DiagTypeOK' /\ DumpsOK' /\ GoneOK' /\ LoopOK' /\ OursOK' /\ HeldOK' /\ Kept
    BY <1>1, <1>2, <1>3, HeldStays, CommandStep DEF GoneOK, JobType, DiagNames
<1>5. RolesOK'
    BY <1>1, <1>2 DEF RolesOK, Jobs, DiagNames
<1>6. TriggerOK'
    BY <1>1, <1>2 DEF TriggerOK, D!Alive, D!HasContainer, Jobs, DiagNames
<1>7. ClassOK'
    BY <1>1, <1>2 DEF ClassOK, RolesOK, D!UsesClass, D!Alive, D!HasContainer
<1> QED
    BY <1>4, <1>5, <1>6, <1>7 DEF DiagInv

LEMMA VerdictOK ==
    ASSUME DiagNames, DiagFaults = {}, DiagInv, NEW j \in Requests, D!Verdict(j)
    PROVE  DiagInv' /\ Kept
<1>1. /\ job[j].pc = "verdict" /\ UNCHANGED <<app, watch, probe, loop, dumps, held>>
      /\ DiagTypeOK /\ RolesOK /\ TriggerOK /\ ClassOK /\ GoneOK /\ job \in [Jobs -> JobType]
      /\ jvm \in JvmType
      /\ j \in Jobs /\ job[j] \in JobType /\ app.gen \in Nat
    BY DEF D!Verdict, D!At, DiagInv, DiagTypeOK, Jobs
<1>2. /\ job' \in [Jobs -> JobType] /\ \A k \in Jobs : k # j => job'[k] = job[k]
      /\ jvm' \in JvmType /\ jvm'.pause = jvm.pause /\ (~D!HasContainer => jvm' = jvm)
      /\ job'[j].pc \in {"done", "failed"} /\ ~job'[j].inside /\ job'[j].gen = 0
      /\ jvm'.trigger = jvm.trigger /\ jvm'.class = jvm.class
    BY <1>1, Names
       DEF D!Verdict, D!Over, D!Idle, D!At, D!Alive, JobType, JobPcs, JvmType, Jobs, DiagNames
<1>3. D!Suspended' = D!Suspended
    BY <1>1, <1>2 DEF D!Suspended, Jobs, DiagNames
<1>4. DiagTypeOK' /\ DumpsOK' /\ GoneOK' /\ LoopOK' /\ OursOK' /\ HeldOK' /\ Kept
    BY <1>1, <1>2, <1>3, HeldStays, CommandStep DEF GoneOK, JobType, DiagNames
<1>5. RolesOK'
    BY <1>1, <1>2 DEF RolesOK, Jobs, DiagNames
<1>6. TriggerOK'
    BY <1>1, <1>2 DEF TriggerOK, D!Alive, D!HasContainer, Jobs, DiagNames
<1>7. ClassOK'
    BY <1>1, <1>2 DEF ClassOK, RolesOK, D!UsesClass, D!Alive, D!HasContainer
<1> QED
    BY <1>4, <1>5, <1>6, <1>7 DEF DiagInv

LEMMA AskOK ==
    ASSUME DiagNames, DiagFaults = {}, DiagInv, NEW j \in Requests, D!Ask(j)
    PROVE  DiagInv' /\ Kept
<1>1. /\ job[j].pc = "idle" /\ UNCHANGED <<app, watch, probe, loop, dumps, held>>
      /\ DiagTypeOK /\ RolesOK /\ TriggerOK /\ ClassOK /\ GoneOK /\ job \in [Jobs -> JobType]
      /\ jvm \in JvmType
      /\ j \in Jobs /\ job[j] \in JobType /\ app.gen \in Nat
    BY DEF D!Ask, D!At, DiagInv, DiagTypeOK, Jobs
<1>2. /\ job' \in [Jobs -> JobType] /\ \A k \in Jobs : k # j => job'[k] = job[k]
      /\ jvm' \in JvmType /\ jvm'.pause = jvm.pause /\ (~D!HasContainer => jvm' = jvm)
      /\ job'[j].pc = "suspend" /\ job'[j].inside = job[j].inside /\ job'[j].gen = app.gen
      /\ jvm'.trigger = jvm.trigger /\ jvm'.class = jvm.class
    BY <1>1, Names DEF D!Ask, DiagTypeOK, D!At, D!Alive, JobType, JobPcs, JvmType, Jobs, DiagNames
<1>3. D!Suspended' = D!Suspended
    BY <1>1, <1>2 DEF D!Suspended, Jobs, DiagNames
<1>4. DiagTypeOK' /\ DumpsOK' /\ GoneOK' /\ LoopOK' /\ OursOK' /\ HeldOK' /\ Kept
    BY <1>1, <1>2, <1>3, HeldStays, CommandStep DEF GoneOK, JobType, DiagNames
<1>5. RolesOK'
    BY <1>1, <1>2 DEF RolesOK, Jobs, DiagNames
<1>6. TriggerOK'
    BY <1>1, <1>2 DEF TriggerOK, D!Alive, D!HasContainer, Jobs, DiagNames
<1>7. ClassOK'
    BY <1>1, <1>2 DEF ClassOK, RolesOK, D!UsesClass, D!Alive, D!HasContainer
<1> QED
    BY <1>4, <1>5, <1>6, <1>7 DEF DiagInv

LEMMA SuspendOK ==
    ASSUME DiagNames, DiagFaults = {}, DiagInv, NEW j \in Requests, D!Suspend(j)
    PROVE  DiagInv' /\ Kept
<1>1. /\ job[j].pc = "suspend" /\ UNCHANGED <<app, watch, probe, loop, dumps>>
      /\ DiagTypeOK /\ RolesOK /\ TriggerOK /\ ClassOK /\ GoneOK /\ job \in [Jobs -> JobType]
      /\ jvm \in JvmType
      /\ j \in Jobs /\ job[j] \in JobType /\ app.gen \in Nat
    BY DEF D!Suspend, D!At, DiagInv, DiagTypeOK, Jobs
<1>2. /\ job' \in [Jobs -> JobType] /\ \A k \in Jobs : k # j => job'[k] = job[k]
      /\ jvm' \in JvmType /\ jvm'.pause = jvm.pause /\ (~D!HasContainer => jvm' = jvm)
      /\ job'[j].pc \in {"attach", "copy"} /\ job'[j].inside = job[j].inside
      /\ job'[j].gen = job[j].gen /\ jvm'.trigger = jvm.trigger /\ jvm'.class = jvm.class
    BY <1>1, Names DEF D!Suspend, D!Go, D!At, D!Alive, JobType, JobPcs, JvmType, Jobs, DiagNames
<1>3. HeldOK' /\ held' \in Nat /\ (loop = "diag" => held' = 0)
  <2>1. D!Suspended' = D!Suspended \cup {j} /\ j \notin D!Suspended
      BY <1>1, <1>2 DEF D!Suspended, Jobs
  <2>2. Cardinality(D!Suspended') = Cardinality(D!Suspended) + 1
      BY <2>1, SuspendedFinite, FS_AddElement
  <2>3. loop = "select" /\ held' = held + 1
      BY DEF D!Suspend, D!Gap
  <2> QED
      BY <2>2, <2>3 DEF DiagInv, DiagTypeOK, HeldOK
<1>4. DiagTypeOK' /\ DumpsOK' /\ GoneOK' /\ LoopOK' /\ OursOK' /\ HeldOK' /\ Kept
    BY <1>1, <1>2, <1>3, CommandStep DEF GoneOK, JobType
<1>5. RolesOK'
    BY <1>1, <1>2 DEF RolesOK, Jobs, DiagNames
<1>6. TriggerOK'
    BY <1>1, <1>2 DEF TriggerOK, D!Alive, D!HasContainer, Jobs, DiagNames
<1>7. ClassOK'
    BY <1>1, <1>2 DEF ClassOK, RolesOK, D!UsesClass, D!Alive, D!HasContainer
<1> QED
    BY <1>4, <1>5, <1>6, <1>7 DEF DiagInv

LEMMA ReleaseOK ==
    ASSUME DiagNames, DiagFaults = {}, DiagInv, NEW j \in Requests, D!Release(j)
    PROVE  DiagInv' /\ Kept
<1>1. /\ job[j].pc = "release" /\ UNCHANGED <<app, watch, probe, loop, dumps>>
      /\ DiagTypeOK /\ RolesOK /\ TriggerOK /\ ClassOK /\ GoneOK /\ job \in [Jobs -> JobType]
      /\ jvm \in JvmType
      /\ j \in Jobs /\ job[j] \in JobType /\ app.gen \in Nat
    BY DEF D!Release, D!At, DiagInv, DiagTypeOK, Jobs
<1>2. /\ job' \in [Jobs -> JobType] /\ \A k \in Jobs : k # j => job'[k] = job[k]
      /\ jvm' \in JvmType /\ jvm'.pause = jvm.pause /\ (~D!HasContainer => jvm' = jvm)
      /\ job'[j].pc \in {"verdict", "failed"} /\ ~job'[j].inside /\ job'[j].gen \in {job[j].gen, 0}
      /\ jvm'.trigger = jvm.trigger /\ jvm'.class = jvm.class
  <2>1. CASE D!Go(j, "verdict")
      BY <1>1, <2>1, JobGoFacts DEF D!Release, RolesOK, JobPcs
  <2>2. CASE D!Over(j, "failed")
      BY <1>1, <2>2 DEF D!Release, D!Over, D!Idle, JobType, JobPcs
  <2> QED
      BY <2>1, <2>2 DEF D!Release
<1>3. HeldOK' /\ held' \in Nat /\ (loop = "diag" => held' = 0)
  <2>1. D!Suspended' = D!Suspended \ {j} /\ j \in D!Suspended
      BY <1>1, <1>2 DEF D!Suspended, Jobs
  <2>2. IsFiniteSet(D!Suspended') /\ Cardinality(D!Suspended') = Cardinality(D!Suspended) - 1
      BY <2>1, SuspendedFinite, FS_RemoveElement
  <2>3. Cardinality(D!Suspended') \in Nat
      BY <2>2, FS_CardinalityType
  <2>4. held' = held - 1
      BY DEF D!Release
  <2> QED
      BY <2>2, <2>3, <2>4, SuspendedFinite DEF DiagInv, DiagTypeOK, LoopOK, HeldOK
<1>4. DiagTypeOK' /\ DumpsOK' /\ GoneOK' /\ LoopOK' /\ OursOK' /\ HeldOK' /\ Kept
    BY <1>1, <1>2, <1>3, CommandStep DEF GoneOK, JobType
<1>5. RolesOK'
    BY <1>1, <1>2 DEF RolesOK, Jobs, DiagNames
<1>6. TriggerOK'
    BY <1>1, <1>2 DEF TriggerOK, D!Alive, D!HasContainer, Jobs, DiagNames
<1>7. ClassOK'
    BY <1>1, <1>2 DEF ClassOK, RolesOK, D!UsesClass, D!Alive, D!HasContainer
<1> QED
    BY <1>4, <1>5, <1>6, <1>7 DEF DiagInv

-----------------------------------------------------------------------------
\* A dump that begins stops the world until it is whole.
LEMMA BegunOK ==
    ASSUME DiagNames, DiagInv, D!HasContainer, jvm.pause = {}, NEW d \in Requests \cup {"oom"},
           dumps' = D!Begun(d), app' = app, jvm'.pause = {d},
           d \in Requests => job'[d].pc = "answer" /\ D!Alive(d)'
    PROVE  DumpsOK' /\ dumps' \in Seq(DumpType) /\ D!EvidenceIsKept
<1>1. /\ dumps' \in Seq(DumpType) /\ Len(dumps') = Len(dumps) + 1
      /\ \A i \in 1 .. Len(dumps) : dumps'[i] = dumps[i] /\ dumps[i].whole
      /\ dumps'[Len(dumps')].name = d /\ dumps'[Len(dumps')].gen = app.gen
      /\ \A i \in 1 .. Len(dumps') : dumps'[i].nr <= dumps'[Len(dumps')].nr
      /\ D!EvidenceIsKept
    BY BegunFacts
<1>2. Len(dumps) \in Nat /\ DOMAIN dumps = 1 .. Len(dumps) /\ DOMAIN dumps' = 1 .. Len(dumps')
    BY <1>1, DumpFacts DEF DiagInv
<1>3. \A i \in 1 .. Len(dumps') : i \in 1 .. Len(dumps) \/ i = Len(dumps')
    BY <1>1, <1>2
<1>4. Pausing(d)'
    BY <1>1, <1>2 DEF Pausing, D!HasContainer
<1>5. \A i \in 1 .. Len(dumps') : dumps'[i].whole \/ (i = Len(dumps') /\ dumps'[i].name \in jvm'.pause)
    BY <1>1, <1>3
<1>6. D!PathIsFree'
    BY <1>1, <1>2, <1>3 DEF DiagInv, DumpsOK, D!PathIsFree, D!HasContainer
<1> QED
    BY <1>1, <1>4, <1>5, <1>6 DEF DumpsOK

\* Nothing of the dumps and of who writes them changes.
LEMMA DumpsStay ==
    ASSUME DiagInv, dumps' = dumps, jvm'.pause = jvm.pause, D!HasContainer' = D!HasContainer,
           app'.gen = app.gen, \A d \in Requests : job'[d] = job[d]
    PROVE  DumpsOK' /\ D!EvidenceIsKept
<1>1. ASSUME jvm'.pause # {} PROVE \E d \in Requests \cup {"oom"} : Pausing(d)'
  <2>1. PICK d \in Requests \cup {"oom"} : Pausing(d)
      BY <1>1 DEF DiagInv, DumpsOK
  <2>2. Pausing(d)'
      BY <2>1 DEF Pausing, D!Alive
  <2> QED
      BY <2>2
<1>2. D!PathIsFree'
    BY DEF DiagInv, DumpsOK, D!PathIsFree
<1> QED
    BY <1>1, <1>2, SameDumps DEF DiagInv, DumpsOK

LEMMA DumpBeginsOK ==
    ASSUME DiagNames, DiagInv, NEW j \in Requests, ExchangeBegins(j)
    PROVE  DiagInv' /\ Kept
<1>1. /\ job[j].pc = "send" /\ UNCHANGED <<app, held, watch, probe, loop>> /\ D!Alive(j)
      /\ jvm.pause = {}
      /\ DiagTypeOK /\ RolesOK /\ TriggerOK /\ ClassOK /\ GoneOK /\ job \in [Jobs -> JobType]
      /\ jvm \in JvmType
      /\ j \in Jobs /\ job[j] \in JobType /\ D!HasContainer /\ dumps' = D!Begun(j)
    BY DEF ExchangeBegins, DiagInv, DiagTypeOK, Jobs, D!Alive
<1>2. /\ job' \in [Jobs -> JobType] /\ \A k \in Jobs : k # j => job'[k] = job[k]
      /\ job'[j].pc = "answer" /\ job'[j].gen = job[j].gen /\ job'[j].inside = job[j].inside
  <2> DEFINE e == [job[j] EXCEPT !.pc = "answer", !.heap = TRUE, !.ok = TRUE]
  <2>1. job' = [job EXCEPT ![j] = e]
      BY <1>1 DEF ExchangeBegins
  <2>2. e \in JobType /\ e.pc = "answer" /\ e.gen = job[j].gen /\ e.inside = job[j].inside
      BY <1>1 DEF JobType, JobPcs
  <2> HIDE DEF e
  <2> QED
      BY <1>1, <2>1, <2>2
<1>3. jvm' \in JvmType /\ jvm'.pause = {j} /\ jvm'.trigger = jvm.trigger /\ jvm'.class = jvm.class
    BY <1>1 DEF ExchangeBegins, JvmType
<1>4. DumpsOK' /\ dumps' \in Seq(DumpType) /\ D!EvidenceIsKept
    BY <1>1, <1>2, <1>3, BegunOK DEF D!Alive, D!HasContainer
<1>5. DiagTypeOK' /\ GoneOK' /\ RolesOK'
  <2>1. DiagTypeOK'
      BY <1>1, <1>2, <1>3, <1>4 DEF DiagTypeOK
  <2>2. GoneOK'
      BY <1>1, <1>2, <1>3 DEF GoneOK, D!HasContainer
  <2>3. RolesOK'
      BY <1>1, <1>2 DEF RolesOK, Jobs, DiagNames
  <2> QED
      BY <2>1, <2>2, <2>3
<1>6. TriggerOK' /\ ClassOK'
    BY <1>1, <1>2, <1>3 DEF TriggerOK, ClassOK, D!UsesClass, D!Alive, D!HasContainer
<1>7. LoopOK' /\ OursOK'
    BY <1>1, <1>2, <1>3 DEF DiagInv, LoopOK, OursOK, Jobs, DiagNames
<1>8. HeldOK'
  <2>1. D!Suspended' = D!Suspended
      BY <1>1, <1>2 DEF D!Suspended, Jobs
  <2> QED
      BY <1>1, <2>1, HeldStays
<1> QED
    BY <1>1, <1>4, <1>5, <1>6, <1>7, <1>8 DEF DiagInv, Kept, D!RestartSpares

LEMMA ExchangeOK ==
    ASSUME DiagNames, DiagFaults = {}, DiagInv, NEW j \in Jobs, D!Exchange(j)
    PROVE  DiagInv' /\ Kept
BY ExchangeFacts, OverOK, DumpBeginsOK

LEMMA OutOfMemoryOK ==
    ASSUME DiagNames, DiagInv, D!OutOfMemory PROVE DiagInv' /\ Kept
<1>1. /\ UNCHANGED <<app, held, watch, probe, loop, job>> /\ D!HasContainer /\ jvm.pause = {}
      /\ DiagTypeOK /\ jvm \in JvmType /\ dumps' = D!Begun("oom")
    BY DEF D!OutOfMemory, D!Oom, DiagInv, DiagTypeOK
<1>2. /\ jvm' \in JvmType /\ jvm'.pause = {"oom"} /\ jvm'.trigger = jvm.trigger
      /\ jvm'.class = jvm.class
    BY <1>1 DEF D!OutOfMemory, D!Oom, JvmType
<1>3. DumpsOK' /\ dumps' \in Seq(DumpType) /\ D!EvidenceIsKept
    BY <1>1, <1>2, BegunOK DEF DiagNames
<1>4. DiagTypeOK'
    BY <1>1, <1>2, <1>3 DEF DiagTypeOK
<1>5. RolesOK' /\ TriggerOK' /\ ClassOK' /\ GoneOK' /\ HeldOK'
    BY <1>1, <1>2, CommandsStay DEF D!HasContainer
<1>6. LoopOK' /\ OursOK'
    BY <1>1, <1>2 DEF DiagInv, LoopOK, OursOK, DiagNames
<1> QED
    BY <1>1, <1>3, <1>4, <1>5, <1>6 DEF DiagInv, Kept, D!RestartSpares

\* A directory in which one dump is replaced.
LEMMA OneDump ==
    ASSUME NEW T, NEW s \in Seq(T), NEW k \in 1 .. Len(s), NEW e \in T, NEW t, t = [s EXCEPT ![k] = e]
    PROVE  /\ t \in Seq(T) /\ Len(t) = Len(s) /\ DOMAIN t = DOMAIN s
           /\ \A i \in 1 .. Len(s) : t[i] = IF i = k THEN e ELSE s[i]
<1>1. /\ Len(s) \in Nat /\ DOMAIN s = 1 .. Len(s) /\ s \in [1 .. Len(s) -> T]
    OBVIOUS
<1>2. t \in [1 .. Len(s) -> T] /\ \A i \in 1 .. Len(s) : t[i] = IF i = k THEN e ELSE s[i]
    BY <1>1
<1>3. t \in Seq(T)
    BY <1>1, <1>2
<1>4. Len(t) = Len(s)
   BY <1>1, <1>2, <1>3
<1> QED
    BY <1>1, <1>2, <1>3, <1>4

LEMMA DumpEndsOK ==
    ASSUME DiagNames, DiagFaults = {}, DiagInv, NEW d \in Requests \cup {"oom"}, D!DumpEnds(d)
    PROVE  DiagInv' /\ Kept
<1>1. /\ UNCHANGED <<app, held, probe, loop, job>> /\ d \in jvm.pause
      /\ DiagTypeOK /\ jvm \in JvmType /\ watch \in [fails : Nat, ours : Nat, ticked : BOOLEAN]
      /\ dumps' = [dumps EXCEPT ![Len(dumps)].whole = TRUE] /\ dumps \in Seq(DumpType)
    BY DEF D!DumpEnds, D!DiskFull, DiagInv, DiagTypeOK
<1>2. jvm' \in JvmType /\ jvm'.pause = {} /\ jvm'.trigger = jvm.trigger /\ jvm'.class = jvm.class
    BY <1>1 DEF D!DumpEnds, JvmType
<1>3. /\ watch' \in [fails : Nat, ours : Nat, ticked : BOOLEAN]
      /\ watch'.fails = watch.fails /\ watch'.ours = watch.ours /\ ~watch'.ticked
    BY <1>1 DEF D!DumpEnds
<1>4. Len(dumps) \in 1 .. Len(dumps)
    BY <1>1, DumpFacts DEF DiagInv, DumpsOK, Pausing
<1>5. /\ dumps' \in Seq(DumpType) /\ Len(dumps') = Len(dumps) /\ DOMAIN dumps' = DOMAIN dumps
      /\ \A i \in 1 .. Len(dumps) : /\ dumps'[i].name = dumps[i].name /\ dumps'[i].gen = dumps[i].gen
                                    /\ dumps'[i].nr = dumps[i].nr
                                    /\ dumps'[i].whole = (dumps[i].whole \/ i = Len(dumps))
  <2>1. dumps[Len(dumps)] \in DumpType
      BY <1>1, <1>4, DumpFacts
  <2> DEFINE e == [dumps[Len(dumps)] EXCEPT !.whole = TRUE]
  <2>2. /\ e \in DumpType /\ e.whole /\ e.name = dumps[Len(dumps)].name
        /\ e.gen = dumps[Len(dumps)].gen /\ e.nr = dumps[Len(dumps)].nr
      BY <2>1 DEF DumpType
  <2>3. dumps' = [dumps EXCEPT ![Len(dumps)] = e]
      BY <1>1
  <2> HIDE DEF e
  <2>4. /\ dumps' \in Seq(DumpType) /\ Len(dumps') = Len(dumps) /\ DOMAIN dumps' = DOMAIN dumps
        /\ \A i \in 1 .. Len(dumps) : dumps'[i] = IF i = Len(dumps) THEN e ELSE dumps[i]
    <3>1. dumps \in Seq(DumpType) /\ e \in DumpType
        BY <1>1, <2>2
    <3> QED
        BY <1>4, <2>3, <3>1, OneDump
  <2>5. \A i \in 1 .. Len(dumps) : dumps[i].whole \in BOOLEAN
      BY <1>1, DumpFacts DEF DumpType
  <2> QED
      BY <2>2, <2>4, <2>5
<1>6. DumpsOK'
    BY <1>1, <1>2, <1>5, DumpFacts DEF DiagInv, DumpsOK, D!PathIsFree, D!HasContainer
<1>7. D!EvidenceIsKept
  <2> SUFFICES ASSUME NEW n \in D!Whole(dumps) PROVE n \in D!Whole(dumps') /\ n \in Nat
      BY DEF D!EvidenceIsKept
  <2>1. n \in Nat /\ \E i \in 1 .. Len(dumps) : dumps[i].whole /\ n = dumps[i].nr
      BY <1>1, WholeFacts
  <2>2. PICK i \in 1 .. Len(dumps) : dumps[i].whole /\ n = dumps[i].nr
      BY <2>1
  <2>3. i \in DOMAIN dumps' /\ dumps'[i].whole /\ n = dumps'[i].nr
      BY <1>1, <1>5, <2>2, DumpFacts
  <2> QED
      BY <2>1, <2>3 DEF D!Whole
<1>8. DiagTypeOK'
    BY <1>1, <1>2, <1>3, <1>5 DEF DiagTypeOK
<1>9. RolesOK' /\ TriggerOK' /\ ClassOK' /\ GoneOK' /\ HeldOK'
    BY <1>1, <1>2, CommandsStay DEF D!HasContainer
<1>10. LoopOK' /\ OursOK'
    BY <1>1, <1>2, <1>3 DEF DiagInv, LoopOK, OursOK
<1> QED
    BY <1>1, <1>6, <1>7, <1>8, <1>9, <1>10 DEF DiagInv, Kept, D!RestartSpares

LEMMA TickOK == ASSUME DiagNames, DiagInv, D!Tick PROVE DiagInv' /\ Kept
<1>1. /\ UNCHANGED <<app, held, loop, jvm, job, dumps>> /\ DiagTypeOK /\ jvm \in JvmType
      /\ loop \in {"select", "diag"} /\ app.status = "running"
    BY DEF D!Tick, DiagInv, DiagTypeOK
<1>2. /\ watch' \in [fails : Nat, ours : Nat, ticked : BOOLEAN]
      /\ probe' \in {"none", "out", "well", "ill", "ours"}
      /\ \/ /\ watch'.fails = 0 /\ watch'.ours = 0 /\ (watch'.ticked => jvm.pause # {})
            /\ probe' = probe
         \/ watch' = watch /\ probe' = "out"
  <2>1. /\ watch \in [fails : Nat, ours : Nat, ticked : BOOLEAN]
        /\ probe \in {"none", "out", "well", "ill", "ours"}
      BY <1>1 DEF DiagTypeOK
  <2>2. CASE watch' = [D!Unwatched EXCEPT !.ticked = (jvm.pause # {})] /\ probe' = probe
    <3>1. watch' = [fails |-> 0, ours |-> 0, ticked |-> (jvm.pause # {})]
        BY <2>2 DEF D!Unwatched
    <3>2. watch' \in [fails : Nat, ours : Nat, ticked : BOOLEAN]
        BY <3>1
    <3>3. watch'.fails = 0 /\ watch'.ours = 0 /\ (watch'.ticked <=> jvm.pause # {})
        BY <3>1
    <3> QED
        BY <2>1, <2>2, <3>2, <3>3
  <2>3. CASE watch' = watch /\ probe' = "out"
      BY <2>1, <2>3
  <2> QED
      BY <2>2, <2>3 DEF D!Tick
<1>3. DiagTypeOK' /\ DumpsOK' /\ D!EvidenceIsKept
    BY <1>1, <1>2, DumpsStay DEF DiagTypeOK, D!HasContainer
<1>4. RolesOK' /\ TriggerOK' /\ ClassOK' /\ GoneOK' /\ HeldOK'
    BY <1>1, CommandsStay DEF D!HasContainer, DiagInv, GoneOK
<1>5. LoopOK' /\ OursOK'
    BY <1>1, <1>2 DEF DiagInv, LoopOK, OursOK, DiagNames
<1> QED
    BY <1>1, <1>3, <1>4, <1>5 DEF DiagInv, Kept, D!RestartSpares

LEMMA ProbeEndsOK == ASSUME DiagFaults = {}, DiagInv, D!ProbeEnds PROVE DiagInv' /\ Kept
<1>1. UNCHANGED <<app, held, watch, loop, jvm, job, dumps>> /\ DiagTypeOK /\ jvm \in JvmType
    BY DEF D!ProbeEnds, DiagInv, DiagTypeOK
<1>2. /\ probe' \in {"none", "out", "well", "ill", "ours"}
      /\ probe' = "ours" => jvm.pause \cap Requests # {} /\ watch.ticked
    BY DEF D!ProbeEnds, D!Blocked
<1>3. DiagTypeOK' /\ DumpsOK' /\ D!EvidenceIsKept
    BY <1>1, <1>2, DumpsStay DEF DiagTypeOK, D!HasContainer
<1>4. RolesOK' /\ TriggerOK' /\ ClassOK' /\ GoneOK' /\ HeldOK'
    BY <1>1, CommandsStay DEF D!HasContainer, DiagInv, GoneOK
<1>5. LoopOK' /\ OursOK'
    BY <1>1, <1>2 DEF DiagInv, LoopOK, OursOK
<1> QED
    BY <1>1, <1>3, <1>4, <1>5 DEF DiagInv, Kept, D!RestartSpares

\* The loop's own command begins, or is over: it has used nothing.
LEMMA LoopCommand ==
    ASSUME DiagNames, DiagInv, job["loop"].pc = "idle", D!HasContainer' = D!HasContainer, app'.gen = app.gen,
           job' \in [Jobs -> JobType], \A k \in Requests : job'[k] = job[k],
           job'["loop"].pc \in {"idle", "attach", "copy"}, ~job'["loop"].inside, job'["loop"].gen <= app.gen,
           held' = held, jvm' = jvm
    PROVE  RolesOK' /\ TriggerOK' /\ ClassOK' /\ GoneOK' /\ HeldOK'
<1>1. app.gen \in Nat /\ RolesOK /\ TriggerOK /\ ClassOK /\ GoneOK /\ HeldOK
    BY DEF DiagInv, DiagTypeOK
<1>2. RolesOK'
    BY <1>1 DEF RolesOK, Jobs
<1>3. \A k \in Jobs : k # "loop" => job'[k] = job[k]
    BY DEF Jobs
<1>4. TriggerOK'
    BY <1>1, <1>3 DEF TriggerOK, D!Alive
<1>5. ~D!UsesClass("loop") /\ ~D!UsesClass("loop")'
    BY <1>1 DEF RolesOK, D!UsesClass, Jobs
<1>6. ClassOK'
    BY <1>1, <1>3, <1>5 DEF ClassOK, D!UsesClass, D!Alive
<1>7. GoneOK'
    BY <1>1, <1>3 DEF GoneOK
<1>8. D!Suspended' = D!Suspended
    BY DEF D!Suspended
<1> QED
    BY <1>1, <1>2, <1>4, <1>6, <1>7, <1>8 DEF HeldOK

LEMMA LivenessResultOK == ASSUME DiagNames, DiagInv, D!LivenessResult PROVE DiagInv' /\ Kept
<1>1. /\ UNCHANGED <<app, held, jvm, dumps>> /\ DiagTypeOK /\ jvm \in JvmType /\ loop = "select"
      /\ probe' = "none"
      /\ watch \in [fails : Nat, ours : Nat, ticked : BOOLEAN] /\ job \in [Jobs -> JobType]
      /\ job["loop"].pc = "idle" /\ watch.fails < Threshold /\ app.gen \in Nat
    BY DEF D!LivenessResult, D!Absent, DiagInv, DiagTypeOK, LoopOK
<1>2. /\ watch' \in [fails : Nat, ours : Nat, ticked : BOOLEAN] /\ watch'.ticked = watch.ticked
      /\ \/ watch' = watch
         \/ watch'.fails = 0 /\ watch'.ours = 0 /\ app.status = "running" /\ held = 0
         \/ /\ watch'.fails = watch.fails + 1 /\ watch'.ours = watch.ours /\ app.status = "running"
            /\ held = 0
         \/ /\ watch'.fails = watch.fails + 1 /\ watch'.ours = watch.ours + 1 /\ probe = "ours"
            /\ app.status = "running" /\ held = 0
  <2>1. probe \in {"well", "ill", "ours"}
      BY DEF D!LivenessResult
  <2>2. CASE ~D!Watched
      BY <1>1, <2>2 DEF D!LivenessResult
  <2>3. CASE D!Watched /\ probe = "well"
    <3>1. watch' = [watch EXCEPT !.fails = 0, !.ours = 0]
        BY <2>3 DEF D!LivenessResult
    <3> QED
        BY <1>1, <2>3, <3>1 DEF D!Watched
  <2>4. CASE D!Watched /\ probe = "ill"
    <3>1. watch' = [watch EXCEPT !.fails = @ + 1]
        BY <2>4 DEF D!LivenessResult
    <3> QED
        BY <1>1, <2>4, <3>1 DEF D!Watched
  <2>5. CASE D!Watched /\ probe = "ours"
    <3>1. watch' = [watch EXCEPT !.fails = @ + 1, !.ours = @ + 1]
        BY <2>5 DEF D!LivenessResult
    <3>2. watch \in [fails : Nat, ours : Nat, ticked : BOOLEAN]
        BY <1>1
    <3>3. watch.fails \in Nat /\ watch.ours \in Nat /\ watch.ticked \in BOOLEAN
        BY <3>2
    <3>4. watch' = [fails |-> watch.fails + 1, ours |-> watch.ours + 1, ticked |-> watch.ticked]
        BY <3>1, <3>2
    <3>5. watch.fails + 1 \in Nat /\ watch.ours + 1 \in Nat
        BY <3>3
    <3>6. /\ watch' \in [fails : Nat, ours : Nat, ticked : BOOLEAN] /\ watch'.ticked = watch.ticked
          /\ watch'.fails = watch.fails + 1 /\ watch'.ours = watch.ours + 1
        BY <3>3, <3>4, <3>5
    <3> QED
        BY <2>5, <3>6 DEF D!Watched
  <2> QED
      BY <2>1, <2>2, <2>3, <2>4, <2>5
<1>3. \/ watch'.fails < Threshold /\ UNCHANGED <<loop, job>>
      \/ /\ watch'.fails >= Threshold /\ loop' = "diag"
         /\ \E pc \in {"attach", "copy"} :
              job' = [job EXCEPT !["loop"] = [D!Idle EXCEPT !.pc = pc, !.gen = app.gen]]
    BY DEF D!LivenessResult, D!Loop
<1>4. /\ job' \in [Jobs -> JobType] /\ \A k \in Requests : job'[k] = job[k]
      /\ loop' \in {"select", "diag"} /\ (loop' = "select" => job' = job)
      /\ job'["loop"].pc \in {"idle", "attach", "copy"} /\ ~job'["loop"].inside
      /\ job'["loop"].gen <= app.gen
  <2>0. job["loop"] \in JobType /\ ~job["loop"].inside /\ job["loop"].gen <= app.gen
        /\ "loop" \in Jobs /\ "loop" \notin Requests
      BY <1>1 DEF Jobs, DiagNames, DiagInv, RolesOK, LoopOK, GoneOK
  <2>1. CASE UNCHANGED <<loop, job>>
      BY <1>1, <2>0, <2>1
  <2>2. CASE loop' = "diag" /\ \E pc \in {"attach", "copy"} :
                job' = [job EXCEPT !["loop"] = [D!Idle EXCEPT !.pc = pc, !.gen = app.gen]]
    <3>1. PICK pc \in {"attach", "copy"} :
                job' = [job EXCEPT !["loop"] = [D!Idle EXCEPT !.pc = pc, !.gen = app.gen]]
        BY <2>2
    <3> DEFINE e == [D!Idle EXCEPT !.pc = pc, !.gen = app.gen]
    <3>2. e \in JobType /\ e.pc = pc /\ ~e.inside /\ e.gen = app.gen
        BY <1>1 DEF D!Idle, JobType, JobPcs
    <3>3. job' = [job EXCEPT !["loop"] = e]
        BY <3>1
    <3> HIDE DEF e
    <3>4. job' \in [Jobs -> JobType] /\ job'["loop"] = e /\ \A k \in Requests : job'[k] = job[k]
        BY <1>1, <2>0, <3>2, <3>3 DEF Jobs
    <3>5. loop' = "diag" /\ app.gen \in Nat
        BY <1>1, <2>2
    <3>6. /\ job'["loop"].pc \in {"attach", "copy"} /\ ~job'["loop"].inside
          /\ job'["loop"].gen = app.gen
        BY <3>2, <3>4
    <3> QED
        BY <3>4, <3>5, <3>6
  <2> QED
      BY <1>3, <2>1, <2>2
<1>5. DiagTypeOK' /\ DumpsOK' /\ D!EvidenceIsKept
    BY <1>1, <1>2, <1>4, DumpsStay DEF DiagTypeOK, D!HasContainer
<1>6. RolesOK' /\ TriggerOK' /\ ClassOK' /\ GoneOK' /\ HeldOK'
    BY <1>1, <1>4, LoopCommand, CommandsStay DEF D!HasContainer, DiagInv, GoneOK
<1>7. LoopOK'
    BY <1>1, <1>2, <1>3, <1>4 DEF DiagInv, LoopOK, DiagNames
<1>8. held = 0 => jvm.pause \cap Requests = {}
    BY PauseIsHeld
<1>9. OursOK'
    BY <1>1, <1>2, <1>8 DEF DiagInv, OursOK
<1> QED
    BY <1>1, <1>5, <1>6, <1>7, <1>9 DEF DiagInv, Kept, D!RestartSpares

\* An application takes another status and keeps its container.
LEMMA BecomesFacts ==
    ASSUME DiagTypeOK, D!HasContainer, NEW status \in {"running", "updating", "starting", "stopping"},
           D!Becomes(status)
    PROVE  /\ app' \in [status : {"running", "updating", "starting", "stopping", "absent"}, gen : Nat]
           /\ app'.status = status /\ app'.gen = app.gen /\ D!HasContainer'
           /\ watch' \in [fails : Nat, ours : Nat, ticked : BOOLEAN]
           /\ watch'.fails = 0 /\ watch'.ours = 0 /\ watch'.ticked = watch.ticked
BY DEF D!Becomes, DiagTypeOK, D!HasContainer

LEMMA LivenessRestartOK == ASSUME DiagNames, DiagInv, D!LivenessRestart PROVE DiagInv' /\ Kept
<1>1. /\ UNCHANGED <<held, probe, jvm, dumps>> /\ DiagTypeOK /\ jvm \in JvmType /\ loop = "diag"
      /\ loop' = "select"
      /\ job \in [Jobs -> JobType] /\ job["loop"].pc = "idle" /\ app.gen \in Nat /\ held = 0
    BY DEF D!LivenessRestart, D!At, D!Loop, DiagInv, DiagTypeOK, LoopOK
<1>2. job' = [job EXCEPT !["loop"] = [D!Idle EXCEPT !.pc = "idle", !.heap = FALSE]]
    BY DEF D!LivenessRestart, D!Over, D!Loop
<1>3. /\ job' \in [Jobs -> JobType] /\ \A k \in Requests : job'[k] = job[k]
      /\ job'["loop"].pc = "idle" /\ ~job'["loop"].inside /\ job'["loop"].gen = 0
    BY <1>1, <1>2 DEF D!Idle, JobType, JobPcs, Jobs, DiagNames
<1>4. \/ app.status = "running" /\ D!Becomes("updating")
      \/ app.status # "running" /\ UNCHANGED <<app, watch>>
    BY DEF D!LivenessRestart
<1>5. /\ app' \in [status : {"running", "updating", "starting", "stopping", "absent"}, gen : Nat]
      /\ app'.gen = app.gen /\ D!HasContainer' = D!HasContainer
      /\ watch' \in [fails : Nat, ours : Nat, ticked : BOOLEAN]
      /\ watch'.fails = 0 /\ watch'.ours \in {0, watch.ours} /\ watch'.ticked = watch.ticked
  <2>1. CASE app.status = "running" /\ D!Becomes("updating")
      BY <1>1, <2>1, BecomesFacts DEF D!HasContainer
  <2>2. CASE app.status # "running" /\ UNCHANGED <<app, watch>>
      BY <2>2 DEF DiagInv, DiagTypeOK, LoopOK, D!HasContainer
  <2> QED
      BY <1>4, <2>1, <2>2
<1>6. DiagTypeOK' /\ DumpsOK' /\ D!EvidenceIsKept
    BY <1>1, <1>3, <1>5, DumpsStay DEF DiagTypeOK
<1>7. RolesOK' /\ TriggerOK' /\ ClassOK' /\ GoneOK' /\ HeldOK'
    BY <1>1, <1>3, <1>5, LoopCommand
<1>8. LoopOK' /\ OursOK'
    BY <1>1, <1>3, <1>5 DEF DiagInv, LoopOK, OursOK, DiagNames
<1> QED
    BY <1>1, <1>6, <1>7, <1>8 DEF DiagInv, Kept, D!RestartSpares

LEMMA JvmHandlesQuitOK == ASSUME DiagInv, D!JvmHandlesQuit PROVE DiagInv' /\ Kept
<1>1. UNCHANGED <<app, held, watch, probe, loop, job, dumps>> /\ DiagTypeOK /\ jvm \in JvmType
    BY DEF D!JvmHandlesQuit, DiagInv, DiagTypeOK
<1>2. /\ jvm' \in JvmType /\ jvm'.pause = jvm.pause /\ jvm'.trigger = jvm.trigger
      /\ jvm'.class = jvm.class
    BY <1>1 DEF D!JvmHandlesQuit, JvmType
<1>3. DiagTypeOK' /\ DumpsOK' /\ D!EvidenceIsKept
    BY <1>1, <1>2, DumpsStay DEF DiagTypeOK, D!HasContainer
<1>4. RolesOK' /\ TriggerOK' /\ ClassOK' /\ GoneOK' /\ HeldOK'
    BY <1>1, <1>2, CommandsStay DEF D!HasContainer, DiagInv, GoneOK
<1>5. LoopOK' /\ OursOK'
    BY <1>1, <1>2 DEF DiagInv, LoopOK, OursOK
<1> QED
    BY <1>1, <1>3, <1>4, <1>5 DEF DiagInv, Kept, D!RestartSpares

\* StopApp and Started.
LEMMA BecomesOK ==
    ASSUME DiagNames, DiagInv, D!HasContainer, NEW status \in {"running", "stopping"}, D!Becomes(status),
           UNCHANGED <<held, probe, loop, jvm, job, dumps>>
    PROVE  DiagInv' /\ Kept
<1>1. DiagTypeOK /\ jvm \in JvmType
    BY DEF DiagInv, DiagTypeOK
<1>2. /\ app' \in [status : {"running", "updating", "starting", "stopping", "absent"}, gen : Nat]
      /\ app'.status = status /\ app'.gen = app.gen /\ D!HasContainer'
      /\ watch' \in [fails : Nat, ours : Nat, ticked : BOOLEAN]
      /\ watch'.fails = 0 /\ watch'.ours = 0 /\ watch'.ticked = watch.ticked
    BY <1>1, BecomesFacts
<1>3. DiagTypeOK' /\ DumpsOK' /\ D!EvidenceIsKept
    BY <1>1, <1>2, DumpsStay DEF DiagTypeOK
<1>4. RolesOK' /\ TriggerOK' /\ ClassOK' /\ GoneOK' /\ HeldOK'
    BY <1>1, <1>2, CommandsStay
<1>5. LoopOK' /\ OursOK'
    BY <1>1, <1>2 DEF DiagInv, LoopOK, OursOK, DiagNames
<1> QED
    BY <1>1, <1>3, <1>4, <1>5 DEF DiagInv, Kept, D!RestartSpares

LEMMA ContainerEndsOK ==
    ASSUME DiagNames, DiagFaults = {}, DiagInv, D!ContainerEnds PROVE DiagInv' /\ Kept
<1>1. /\ UNCHANGED <<held, probe, loop, job, dumps>> /\ DiagTypeOK /\ jvm.pause = {}
      /\ jvm' = D!FreshJvm /\ watch' = D!Unwatched
    BY DEF D!ContainerEnds, D!CutDump, DiagInv
<1>2. /\ app' \in [status : {"running", "updating", "starting", "stopping", "absent"}, gen : Nat]
      /\ app'.gen = app.gen /\ ~D!HasContainer' /\ app'.status = "absent"
    BY <1>1 DEF D!ContainerEnds, DiagTypeOK, D!HasContainer
<1>3. jvm' \in JvmType /\ jvm'.pause = {} /\ jvm'.trigger = "none" /\ ~jvm'.class
    BY <1>1 DEF D!FreshJvm, D!Absent, JvmType
<1>4. /\ watch' \in [fails : Nat, ours : Nat, ticked : BOOLEAN]
      /\ watch'.fails = 0 /\ watch'.ours = 0 /\ ~watch'.ticked
    BY <1>1 DEF D!Unwatched
<1>5. DiagTypeOK' /\ D!EvidenceIsKept
    BY <1>1, <1>2, <1>3, <1>4, SameDumps DEF DiagTypeOK
<1>6. DumpsOK'
    BY <1>1, <1>2, <1>3 DEF DiagInv, DumpsOK, D!PathIsFree
<1>7. RolesOK' /\ TriggerOK' /\ ClassOK' /\ GoneOK'
    BY <1>1, <1>2, <1>3 DEF DiagInv, RolesOK, TriggerOK, ClassOK, GoneOK, D!Alive, D!UsesClass
<1>8. D!Suspended' = D!Suspended
    BY <1>1 DEF D!Suspended
<1>9. LoopOK' /\ OursOK' /\ HeldOK'
    BY <1>1, <1>2, <1>3, <1>4, <1>8 DEF DiagInv, LoopOK, OursOK, HeldOK, DiagNames
<1> QED
    BY <1>1, <1>5, <1>6, <1>7, <1>9 DEF DiagInv, Kept, D!RestartSpares

\* The newest dump is whole when the container is gone, and stays.
LEMMA RotateFacts ==
    ASSUME DiagNames, DiagInv, ~D!HasContainer, D!RotateHeapDumps
    PROVE  /\ dumps' \in Seq(DumpType) /\ Len(dumps') \in {0, 1} /\ D!EvidenceIsKept
           /\ \A i \in 1 .. Len(dumps') : i = 1 /\ dumps'[i].whole /\ dumps'[i].name # "oom"
<1>1. DiagTypeOK /\ jvm.pause = {} /\ \A i \in 1 .. Len(dumps) : dumps[i].whole
    BY DEF DiagInv, GoneOK, DumpsOK
<1>2. CASE dumps = <<>>
  <2>1. dumps' = <<>> /\ dumps' = dumps
      BY <1>2 DEF D!RotateHeapDumps
  <2> QED
      BY <1>1, <2>1, SameDumps
<1>3. CASE dumps # <<>>
  <2>1. Len(dumps) \in 1 .. Len(dumps) /\ dumps[Len(dumps)] \in DumpType
      BY <1>1, <1>3, DumpFacts
  <2> DEFINE e == [dumps[Len(dumps)] EXCEPT !.name = IF @ = "oom" THEN "kept" ELSE @]
  <2>2. dumps' = <<e>>
      BY <1>3 DEF D!RotateHeapDumps, D!Last, D!Oom
  <2>3. /\ e \in DumpType /\ e.nr = dumps[Len(dumps)].nr /\ e.whole = dumps[Len(dumps)].whole
        /\ e.name # "oom"
      BY <2>1 DEF DumpType
  <2> HIDE DEF e
  <2>4. e.whole
      BY <1>1, <2>1, <2>3
  <2>5. dumps' \in Seq(DumpType) /\ Len(dumps') = 1 /\ dumps'[1] = e /\ DOMAIN dumps' = {1}
      BY <2>2, <2>3
  <2>6. D!EvidenceIsKept
    <3> SUFFICES ASSUME NEW n \in D!Whole(dumps) PROVE e.nr \in D!Whole(dumps') /\ e.nr >= n
        BY DEF D!EvidenceIsKept
    <3>1. n \in Nat /\ \E i \in 1 .. Len(dumps) : dumps[i].whole /\ n = dumps[i].nr
        BY <1>1, WholeFacts
    <3>2. PICK i \in 1 .. Len(dumps) : n = dumps[i].nr
        BY <3>1
    <3>3. dumps[i].nr <= dumps[Len(dumps)].nr
        BY <3>2 DEF DiagInv, DumpsOK
    <3>4. e.nr >= n
        BY <2>1, <2>3, <3>1, <3>2, <3>3 DEF DumpType
    <3> QED
        BY <2>4, <2>5, <3>4 DEF D!Whole
  <2> QED
      BY <2>3, <2>4, <2>5, <2>6
<1> QED
    BY <1>2, <1>3

LEMMA RunStartTaskOK == ASSUME DiagNames, DiagInv, D!RunStartTask PROVE DiagInv' /\ Kept
<1>1. /\ UNCHANGED <<held, watch, probe, loop, jvm, job>> /\ DiagTypeOK /\ ~D!HasContainer
      /\ D!RotateHeapDumps /\ app.status # "running" /\ app.gen \in Nat
      /\ jvm.trigger = "none" /\ ~jvm.class /\ jvm.pause = {} /\ job \in [Jobs -> JobType]
    BY DEF D!RunStartTask, D!HasContainer, DiagInv, DiagTypeOK, GoneOK
<1>2. /\ app' \in [status : {"running", "updating", "starting", "stopping", "absent"}, gen : Nat]
      /\ app'.gen = app.gen + 1 /\ app'.status = "starting"
    BY <1>1 DEF D!RunStartTask
<1>3. /\ dumps' \in Seq(DumpType) /\ Len(dumps') \in {0, 1} /\ D!EvidenceIsKept
      /\ \A i \in 1 .. Len(dumps') : i = 1 /\ dumps'[i].whole /\ dumps'[i].name # "oom"
    BY <1>1, RotateFacts
<1>4. \A j \in Jobs : job[j].gen \in Nat /\ job[j].gen <= app.gen
    BY <1>1 DEF DiagInv, GoneOK, JobType
<1>5. \A j \in Jobs : ~D!Alive(j)' /\ job'[j].gen <= app'.gen
    BY <1>1, <1>2, <1>4 DEF D!Alive
<1>6. DiagTypeOK'
    BY <1>1, <1>2, <1>3 DEF DiagTypeOK
<1>7. DumpsOK'
  <2>1. \A i \in 1 .. Len(dumps') : dumps'[i].nr <= dumps'[Len(dumps')].nr
    <3> SUFFICES ASSUME NEW i \in 1 .. Len(dumps') PROVE dumps'[i].nr <= dumps'[Len(dumps')].nr
        OBVIOUS
    <3>1. i = 1 /\ Len(dumps') = 1 /\ dumps'[1] \in DumpType
        BY <1>3
    <3>2. dumps'[1].nr \in Nat
        BY <3>1 DEF DumpType
    <3> QED
        BY <3>1, <3>2
  <2>2. D!PathIsFree'
      BY <1>3 DEF D!PathIsFree, D!Oom
  <2> QED
      BY <1>1, <1>3, <2>1, <2>2 DEF DumpsOK
<1>8. RolesOK' /\ TriggerOK' /\ ClassOK' /\ GoneOK'
    BY <1>1, <1>5 DEF DiagInv, RolesOK, TriggerOK, ClassOK, GoneOK, D!UsesClass
<1>9. D!Suspended' = D!Suspended
    BY <1>1 DEF D!Suspended
<1>10. LoopOK' /\ OursOK' /\ HeldOK'
    BY <1>1, <1>2, <1>9 DEF DiagInv, LoopOK, OursOK, HeldOK
<1> QED
    BY <1>1, <1>3, <1>6, <1>7, <1>8, <1>10 DEF DiagInv, Kept, D!RestartSpares

LEMMA DiagStutter == ASSUME DiagInv, UNCHANGED jvmVars PROVE DiagInv' /\ Kept
<1> USE DEF jvmVars
<1>1. DiagTypeOK' /\ RolesOK' /\ LoopOK' /\ OursOK'
    BY DEF DiagInv, DiagTypeOK, RolesOK, LoopOK, OursOK
<1>2. DumpsOK' /\ D!EvidenceIsKept
    BY DumpsStay DEF D!HasContainer
<1>3. RolesOK' /\ TriggerOK' /\ ClassOK' /\ GoneOK' /\ HeldOK'
    BY CommandsStay DEF D!HasContainer, DiagInv, DiagTypeOK, GoneOK
<1> QED
    BY <1>1, <1>2, <1>3 DEF DiagInv, Kept, D!RestartSpares

LEMMA DiagStep ==
    ASSUME DiagNames, DiagFaults = {}, DiagInv, [D!Next]_jvmVars PROVE DiagInv' /\ Kept
<1>1. ASSUME NEW j \in Jobs,
             D!Attach(j) \/ D!Wait(j) \/ D!Exchange(j) \/ D!Answer(j) \/ D!Copy(j) \/ D!Exec(j) \/ D!Rm(j)
      PROVE  DiagInv' /\ Kept
    BY <1>1, AttachOK, WaitOK, ExchangeOK, AnswerOK, CopyOK, ExecOK, RmOK
<1>2. ASSUME NEW j \in Requests, D!Ask(j) \/ D!Suspend(j) \/ D!Release(j) \/ D!Verdict(j)
      PROVE  DiagInv' /\ Kept
    BY <1>2, AskOK, SuspendOK, ReleaseOK, VerdictOK
<1>3. ASSUME D!StopApp \/ D!Started PROVE DiagInv' /\ Kept
    BY <1>3, BecomesOK DEF D!StopApp, D!Started, D!HasContainer
<1>4. CASE D!Next
    BY <1>1, <1>2, <1>3, <1>4, Names, TickOK, ProbeEndsOK, LivenessResultOK, SignalOK,
       LivenessRestartOK,
       DumpEndsOK, JvmHandlesQuitOK, ContainerEndsOK, OutOfMemoryOK, RunStartTaskOK DEF D!Next
<1> QED
    BY <1>4, DiagStutter

LEMMA DiagInit == ASSUME DiagNames, D!Init PROVE DiagInv
<1>1. /\ app = [status |-> "running", gen |-> 1] /\ held = 0 /\ watch = D!Unwatched
      /\ probe = "none"
      /\ loop = "select" /\ jvm = D!FreshJvm /\ job = [j \in Jobs |-> D!Idle] /\ dumps = <<>>
    BY Names DEF D!Init
<1>2. DiagTypeOK
    BY <1>1 DEF DiagTypeOK, D!Unwatched, D!FreshJvm, D!Absent, D!Idle, JvmType, JobType, JobPcs
<1>3. RolesOK /\ TriggerOK /\ ClassOK /\ GoneOK
    BY <1>1 DEF RolesOK, TriggerOK, ClassOK, GoneOK, D!FreshJvm, D!Absent, D!Idle, Jobs, D!Alive,
                D!HasContainer, D!UsesClass
<1>4. DumpsOK
    BY <1>1 DEF DumpsOK, D!FreshJvm, D!PathIsFree
<1>5. LoopOK /\ OursOK
    BY <1>1 DEF LoopOK, OursOK, D!Unwatched, D!FreshJvm, D!Idle, Jobs, DiagNames
<1>6. D!Suspended = {}
    BY <1>1 DEF D!Suspended, D!Idle, Jobs
<1>7. HeldOK
    BY <1>1, <1>6, FS_EmptySet DEF HeldOK
<1> QED
    BY <1>2, <1>3, <1>4, <1>5, <1>7 DEF DiagInv

LEMMA DiagSafe ==
    ASSUME DiagNames, DiagFaults = {}, DiagInv
    PROVE  /\ D!SuspendedWhileBusy /\ D!OwnPauseIsForgiven /\ D!NothingIsLeft
           /\ D!ReportsAreTrue /\ D!PathIsFree
<1>1. D!SuspendedWhileBusy
    BY SameCardinality DEF DiagInv, HeldOK, D!SuspendedWhileBusy
<1>2. D!OwnPauseIsForgiven /\ D!PathIsFree
    BY DEF DiagInv, OursOK, DumpsOK, D!OwnPauseIsForgiven
<1>3. D!NothingIsLeft
    BY Names DEF DiagInv, TriggerOK, ClassOK, D!NothingIsLeft, D!At
<1>4. D!ReportsAreTrue
  <2> SUFFICES ASSUME NEW j \in Requests, job[j].pc = "done", NEW i \in DOMAIN dumps, dumps[i].name = j
               PROVE  dumps[i].whole
      BY DEF D!ReportsAreTrue, D!File, D!SameSecond, D!At
  <2>1. i \in 1 .. Len(dumps)
      BY DumpFacts DEF DiagInv
  <2>2. j \notin jvm.pause
      BY DEF DiagInv, DumpsOK, Pausing
  <2> QED
      BY <2>1, <2>2 DEF DiagInv, DumpsOK
<1> QED
    BY <1>1, <1>2, <1>3, <1>4

-----------------------------------------------------------------------------
\* For any commands, containers and threshold: the probe is suspended exactly
\* while a command is at work, a command costs at most one failure, nothing is
\* left in the container or reported that is not so, an application is not
\* restarted under a command, and the newest whole dump and the path of the next
\* one are kept, while nothing of what DiagFaults names happens.
THEOREM DiagnosticsHold ==
    ASSUME DiagNames, DiagFaults = {}
    PROVE  DaemonSpec => DiagnosticsAreSafe
<1>1. DaemonInit => DiagInv
    BY DiagInit DEF DaemonInit
<1>2. DiagInv /\ [DaemonNext]_daemonVars => DiagInv' /\ Kept
  <2>1. [DaemonNext]_daemonVars => [D!Next]_jvmVars
      BY DEF DaemonNext, daemonVars
  <2> QED
      BY <2>1, DiagStep
<1>3. DiagInv => /\ D!SuspendedWhileBusy /\ D!OwnPauseIsForgiven /\ D!NothingIsLeft
                 /\ D!ReportsAreTrue /\ D!PathIsFree
    BY DiagSafe
<1>4. Kept => [D!RestartSpares /\ D!EvidenceIsKept]_(D!vars)
    BY DEF Kept
<1> QED
    BY <1>1, <1>2, <1>3, <1>4, PTL DEF DaemonSpec, DiagnosticsAreSafe, D!DiagnosticsAreSafe
=============================================================================
