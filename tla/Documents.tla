----------------------------- MODULE Documents -----------------------------
(***************************************************************************)
(* What the launcher makes of what it finds: the memory limit of a JVM, the*)
(* history of settings, the file of the Kotlin launcher, and the containers*)
(* of a daemon that has ended.  Each is a module of its own and shares no  *)
(* variable with the others; MCDocuments adds what is computed recursively *)
(* and lets one of them move in a behaviour.                               *)
(***************************************************************************)
EXTENDS JvmMemory, FiniteSets

CONSTANTS
  Plain, Sections, Fields, Values, None, MaxEdits, MaxSetupCrashes,  \* Setup
  Webapps, Extras, ExtraNeeds, Configs,      \* Generator
  Keys, MaxSlots, MaxVersion, StoreFaults,   \* MvStore
  ScopePaths, VersionNums, SuffixLists, MaxFiles,   \* BundleVersions
  Apps, Gateway, Proxy, PortApp, MaxHash, MaxOps, MaxCrashes, AdoptionFaults  \* Adoption

VARIABLES
  file, snapshot, history, menu, writing, replayed, unseen, edits, kills,
  cfg, phase, apps, port, todo,
  disk, header, committed, left,
  walk, latest,
  want, ctr, stale, hostPort, saved, up, loop, status, detached, st, def, stops, cmd, plan,
  dirty, asked, moves, crashes

V == INSTANCE BundleVersions
G == INSTANCE Generator
H == INSTANCE Setup
M == INSTANCE MvStore WITH live <- committed
A == INSTANCE Adoption WITH port <- hostPort, ops <- moves

memoryVars == <<limit, given, added>>
setupVars == <<file, snapshot, history, menu, writing, replayed, unseen, edits, kills>>
generatorVars == <<cfg, phase, apps, port, todo>>
versionVars == <<walk, latest>>
storeVars == <<disk, header, committed, left>>
adoptionVars == <<want, ctr, stale, hostPort, saved, up, loop, status, detached, st, def, stops, cmd,
                  plan, dirty, asked, moves, crashes>>
-----------------------------------------------------------------------------
Startable == G!Startable
LatestHeadsTheList == V!LatestHeadsTheList
HistoryIsFaithful == H!HistoryIsFaithful
ReadIsHonest == M!ReadIsHonest
AdoptionIsFaithful == A!AdoptionIsFaithful
=============================================================================
