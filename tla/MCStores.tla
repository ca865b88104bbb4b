------------------------------ MODULE MCStores ------------------------------
(***************************************************************************)
(* What the launcher keeps on disk: secrets, clones of repositories,       *)
(* snapshots of volumes, the database itself, certificates, and what clean *)
(* and uninstall remove.  The parts share no state here, so one of them    *)
(* moves in a behaviour, and the others stay as they begin.                *)
(***************************************************************************)
EXTENDS Integers, Sequences, FiniteSets, TLC

CONSTANTS
  UserIds, SysIds, Vals, Pwds, MaxSalts, MaxSysVal, MaxSecretCrashes, Faults,  \* Secrets
  Urls, Callers, MaxCommits, GitFaults,                                        \* Bundles
  Volumes, Chunks, MaxTries, MaxStalled, MaxOps,             \* Snapshots
  Wss, Nss, MaxStarts, MigrationFaults,                      \* Migration
  Hosts, CertFaults,                                         \* Certificates
  CleanWss, Ids, CleanFaults,                                \* Cleanup
  None, MaxCrashes

VARIABLES
  part,
  mode, row, meta, blob, sys, file, phase, mem, left, clean, op, imp, edit,
  want, used, salts, made, secretCrashes,
  url, head, clone, tmp, lastSync, loaded, saved, skipped, flight, caller, cached, gitCrashes,
  desktop, status, mu, work, vols, aside, zip, news, cli, remote, partFile, dest, dl, ops, crashes,
  kotlin, backup, db, step, todo, meant, starts,
  tlsCfg, pairs, flow, marker, proxy, up,
  onDesktop, rows, held, daemon, cleaning, removal, home

S == INSTANCE Secrets WITH MaxCrashes <- MaxSecretCrashes, crashes <- secretCrashes
B == INSTANCE Bundles WITH dest <- clone, crashes <- gitCrashes
A == INSTANCE Snapshots WITH op <- work, part <- partFile
D == INSTANCE Migration
C == INSTANCE Certificates WITH cfg <- tlsCfg, file <- pairs
R == INSTANCE Cleanup WITH Wss <- CleanWss, desktop <- onDesktop, clean <- cleaning

secretVars == <<mode, row, meta, blob, sys, file, phase, mem, left, clean, op, imp, edit,
                want, used, salts, made, secretCrashes>>
gitVars == <<url, head, clone, tmp, lastSync, loaded, saved, skipped, flight, caller, cached,
             gitCrashes>>
dataVars == <<desktop, status, mu, work, vols, aside, zip, news, cli, remote, partFile, dest, dl,
              ops, crashes>>
dbVars == <<kotlin, backup, db, step, todo, meant, starts>>
certVars == <<tlsCfg, pairs, flow, marker, proxy, up>>
cleanVars == <<onDesktop, rows, held, daemon, cleaning, removal, home>>
vars == <<part, secretVars, gitVars, dataVars, dbVars, certVars, cleanVars>>

Init ==
  /\ part \in {"secrets", "bundles", "snapshots", "migration", "certificates", "cleanup"}
  /\ S!Init
  /\ part # "secrets" =>
       /\ mode = "server" /\ ~meta.enc /\ \A i \in S!SecretIds : row[i] = None
       /\ \A i \in UserIds : blob[i] = None
       /\ \A s \in SysIds : file[s] = None
  /\ B!Init
  /\ part # "bundles" => clone = None /\ cached = None /\ saved = None /\ url = CHOOSE u \in Urls : TRUE
  /\ A!Init
  /\ part # "snapshots" => desktop
  /\ D!Init
  /\ part # "migration" => db = None /\ kotlin.lost = {} /\ kotlin.read = "ok" /\ ~kotlin.invalid
  /\ C!Init
  /\ R!Init
  /\ part # "cleanup" => onDesktop /\ rows = {} /\ held = {}

Next ==
  \/ /\ part = "secrets" /\ S!Next
     /\ UNCHANGED <<part, gitVars, dataVars, dbVars, certVars, cleanVars>>
  \/ /\ part = "bundles" /\ B!Next
     /\ UNCHANGED <<part, secretVars, dataVars, dbVars, certVars, cleanVars>>
  \/ /\ part = "snapshots" /\ A!Next
     /\ UNCHANGED <<part, secretVars, gitVars, dbVars, certVars, cleanVars>>
  \/ /\ part = "migration" /\ D!Next
     /\ UNCHANGED <<part, secretVars, gitVars, dataVars, certVars, cleanVars>>
  \/ /\ part = "certificates" /\ C!Next
     /\ UNCHANGED <<part, secretVars, gitVars, dataVars, dbVars, cleanVars>>
  \/ /\ part = "cleanup" /\ R!Next
     /\ UNCHANGED <<part, secretVars, gitVars, dataVars, dbVars, certVars>>

Spec == Init /\ [][Next]_vars

\* No action names one of these, and the run checks no liveness.
Symmetry == Permutations(UserIds) \cup Permutations(Callers) \cup Permutations(Volumes)
            \cup Permutations(Urls)
-----------------------------------------------------------------------------
\* The workspaces and the namespaces of the Kotlin launcher.
MCNss == {<<w, n>> : w \in Wss, n \in {"ns", "other"}}

SecretsKept == S!SecretsKept
SystemSecretsStable == S!SystemSecretsStable
ClonesServe == B!ClonesServe
SnapshotsAreSafe == A!SnapshotsAreSafe
MigrationIsSafe == D!MigrationIsSafe
CertificatesServe == C!CertificatesServe
RemovalIsSafe == R!RemovalIsSafe
=============================================================================
