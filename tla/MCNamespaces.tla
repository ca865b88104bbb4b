---------------------------- MODULE MCNamespaces ----------------------------
(***************************************************************************)
(* The daemon's namespaces, and apart from them the staging of updates by  *)
(* the daemon, the rotation of the administrator's password, and what it   *)
(* asks of a JVM: one of the four moves in a behaviour.  Two namespaces in *)
(* the default workspace, one of the same name in another.                 *)
(***************************************************************************)
EXTENDS Namespaces, TLC

CONSTANTS
  n1, n2, w1,
  MaxRows,                                \* bound: namespaces that are stored at a time
  MaxChanges,                             \* bound: configurations edited and passwords rotated
  MaxRelease, MaxUploads, StagingFaults,  \* Staging
  AdminFaults,                            \* AdminPassword
  Threshold, MaxGen, DiagFaults           \* Diagnostics

VARIABLES part, release, newest, uploads, svc, stage, bin, manifest, current,
          kc, session, others, launcher, rot, failed, last,
          app, held, watch, probe, loop, jvm, job, dumps

U == INSTANCE Staging
A == INSTANCE AdminPassword WITH Rotations <- Requests
D == INSTANCE Diagnostics WITH Jobs <- Requests

namespaceVars == vars
stageVars == <<release, newest, uploads, svc, stage, bin, manifest, current>>
adminVars == <<kc, session, others, launcher, rot, failed, last>>
jvmVars == <<app, held, watch, probe, loop, jvm, job, dumps>>
daemonVars == <<part, namespaceVars, stageVars, adminVars, jvmVars>>

Rows(table) == {k \in Keys : table[k] # None}
Changes == Cardinality({k \in Rows(stored) : stored[k] > 1}) + password - 1

DaemonInit ==
  /\ part \in {"namespaces", "staging", "rotation", "diagnostics"}
  /\ Init /\ U!Init /\ A!Init /\ D!Init
  /\ Cardinality(Rows(stored)) <= MaxRows
  /\ part # "namespaces" => wsRows = {} /\ \A k \in Keys : stored[k] = None
  /\ part # "rotation" => kc.sa = "ok" /\ DOMAIN others = {}

DaemonNext ==
  \/ /\ part = "namespaces" /\ Next
     /\ Cardinality(Rows(stored')) <= MaxRows /\ Changes' <= MaxChanges
     /\ UNCHANGED <<part, stageVars, adminVars, jvmVars>>
  \/ part = "staging" /\ U!Next /\ UNCHANGED <<part, namespaceVars, adminVars, jvmVars>>
  \/ part = "rotation" /\ A!Next /\ UNCHANGED <<part, namespaceVars, stageVars, jvmVars>>
  \/ part = "diagnostics" /\ D!Next /\ UNCHANGED <<part, namespaceVars, stageVars, adminVars>>

DaemonSpec == DaemonInit /\ [][DaemonNext]_daemonVars

MCKeys == {<<"default", n1>>, <<"default", n2>>, <<w1, n1>>}

\* Requests differ in nothing but their names.
Symmetry == Permutations(Requests)
-----------------------------------------------------------------------------
\* A rotation of the administrator's password leaves one password: in whatever
\* holds a copy, and in the namespace that is active then.
RotationLands == MemoryHasPassword /\ A!RotationIsWhole

\* What the manifest lets the wrapper run is whole and ours, and a version that
\* failed is never tried again: see Staging.
StagingIsSafe == U!StagingIsSafe

\* Diagnostics neither restart an application nor leave anything in it, and what
\* they have found is kept: see Diagnostics.
DiagnosticsAreSafe == D!DiagnosticsAreSafe
=============================================================================
