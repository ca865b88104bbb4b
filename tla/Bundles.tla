------------------------------ MODULE Bundles ------------------------------
(***************************************************************************)
(* The git clone of a workspace or bundle repository (package git) and     *)
(* what the resolver of bundles makes of it: throttled, deduplicated syncs *)
(* with a wall-clock backstop, re-pointing and repair through a temporary  *)
(* clone, offline imports, and the cached bundle of a namespace.           *)
(*                                                                         *)
(* A remote is its URL; a checkout is the URL and the commit it came from. *)
(***************************************************************************)
EXTENDS Naturals, FiniteSets

CONSTANTS
  Urls,        \* remotes
  Callers,     \* concurrent resolutions
  None,
  MaxCommits,  \* bound: commits of a remote, which end those of every other
  MaxCrashes,  \* bound: crashes of the launcher
  GitFaults    \* hazards let loose: "join", "torn_clone"

VARIABLES
  url,       \* the configured URL
  head,      \* remote -> its latest commit
  dest,      \* DestDir: None, or [url, commit, whole, meta]
  tmp,       \* DestDir.tmp
  lastSync,  \* lastSyncTimes: None, "recent", "old"
  loaded,    \* syncStoreLoaded
  saved,     \* the row of git_repos: None, "recent", "old"
  skipped,   \* the host is in its skip window
  flight,    \* the call that cloneFlight runs: pc, opts, joined
  caller,    \* caller -> pc, opts, the head it saw, the result
  cached,    \* the cached bundle: None or a commit
  crashes

git == <<dest, tmp, lastSync, loaded, saved>>
bundleVars == <<url, head, dest, tmp, lastSync, loaded, saved, skipped, flight, caller, cached, crashes>>

NoFlight == [pc |-> "none", url |-> None, force |-> FALSE, joined |-> {}]
NoCall == [pc |-> "idle", url |-> None, force |-> FALSE, saw |-> 0, ok |-> FALSE]
Clone(u, c, whole) == [url |-> u, commit |-> c, whole |-> whole, meta |-> None]
Recorded(u, m) == [Clone(u, 1, TRUE) EXCEPT !.meta = m]
Whole == dest # None /\ dest.whole

Init ==
  /\ url \in Urls /\ head = [u \in Urls |-> 1]
  /\ dest \in {None} \cup {Recorded(u, m) : u \in Urls, m \in {None, url}}
  /\ tmp = None /\ lastSync = None /\ loaded = FALSE /\ saved \in {None, "recent"}
  /\ saved # None => dest # None
  /\ skipped = FALSE /\ flight = NoFlight /\ caller = [c \in Callers |-> NoCall]
  /\ cached \in {None, 1} /\ crashes = 0
-----------------------------------------------------------------------------
(* CloneOrPullWithAuth.                                                    *)

\* The caller joins the flight for the same directory or starts one.
CloneOrPullWithAuth(c, force) ==
  /\ caller[c].pc = "idle"
  /\ LET joins == flight.pc # "none" IN
     /\ joins /\ "join" \notin GitFaults => flight.url = url /\ (force => flight.force /\ flight.pc = "start")
     /\ caller' = [caller EXCEPT ![c] = [pc |-> "wait", url |-> url, force |-> force,
                                         saw |-> head[url], ok |-> FALSE]]
     /\ flight' = IF joins THEN [flight EXCEPT !.joined = @ \cup {c}]
                  ELSE [pc |-> "start", url |-> url, force |-> force, joined |-> {c}]
  /\ UNCHANGED <<url, head, git, skipped, cached, crashes>>

\* The backstop: the caller gives up, the flight goes on.
HardDeadline(c) ==
  /\ caller[c].pc = "wait"
  /\ caller' = [caller EXCEPT ![c].pc = "done", ![c].ok = FALSE]
  /\ flight' = [flight EXCEPT !.joined = @ \ {c}]
  /\ UNCHANGED <<url, head, git, skipped, cached, crashes>>

\* The flight ends for everyone who waits.
Land(ok) ==
  /\ flight' = NoFlight
  /\ caller' = [c \in Callers |-> IF c \in flight.joined THEN [caller[c] EXCEPT !.pc = "done", !.ok = ok]
                                  ELSE caller[c]]

\* SameRepoURL of the origin; OriginURL fails on a broken clone.
ForeignOrigin == dest.whole /\ dest.url # flight.url

\* repoConfigChanged: the metadata, or without them the origin.
RepoConfigChanged == IF dest.meta # None THEN dest.meta # flight.url ELSE ForeignOrigin

\* loadPersistedSyncLocked.
KnownSync == IF lastSync = None /\ ~loaded THEN saved ELSE lastSync

\* cloneOrPullInner up to its first operation on the network.
CloneOrPullInner ==
  /\ flight.pc = "start"
  /\ IF dest = None \/ RepoConfigChanged \/ skipped
     THEN /\ UNCHANGED <<lastSync, loaded>>
          /\ CASE dest = None -> flight' = [flight EXCEPT !.pc = "clone"] /\ UNCHANGED caller
               [] dest # None /\ RepoConfigChanged -> flight' = [flight EXCEPT !.pc = "reclone"] /\ UNCHANGED caller
               [] OTHER -> Land(TRUE)
     ELSE IF flight.force
     THEN flight' = [flight EXCEPT !.pc = "pull"] /\ UNCHANGED <<caller, lastSync, loaded>>
     ELSE /\ lastSync' = KnownSync /\ loaded' = TRUE
          /\ IF KnownSync = "recent" THEN Land(TRUE)
             ELSE flight' = [flight EXCEPT !.pc = "pull"] /\ UNCHANGED caller
  /\ UNCHANGED <<url, head, dest, tmp, saved, skipped, cached, crashes>>

\* doClone: a failure leaves nothing of the new directory.
DoClone ==
  /\ flight.pc = "clone"
  /\ \/ dest' = Clone(flight.url, head[flight.url], TRUE)
        /\ flight' = [flight EXCEPT !.pc = "record"] /\ UNCHANGED caller
     \/ Land(FALSE) /\ UNCHANGED dest
  /\ UNCHANGED <<url, head, tmp, lastSync, loaded, saved, skipped, cached, crashes>>

\* doPull: every error that is neither the network's nor of authentication
\* asks for a repair.
DoPull ==
  /\ flight.pc = "pull"
  /\ \/ /\ dest.whole
        /\ \/ /\ ~ForeignOrigin /\ dest' = [dest EXCEPT !.commit = head[flight.url]]
              /\ flight' = [flight EXCEPT !.pc = "record"] /\ UNCHANGED caller
           \/ Land(FALSE) /\ UNCHANGED dest
     \/ /\ flight' = [flight EXCEPT !.pc = "repair"] /\ UNCHANGED <<caller, dest>>
  /\ UNCHANGED <<url, head, tmp, lastSync, loaded, saved, skipped, cached, crashes>>

\* recloneForRepair refuses to replace a clone of another repository.
RecloneForRepair ==
  /\ flight.pc = "repair"
  /\ IF ForeignOrigin THEN Land(FALSE)
     ELSE flight' = [flight EXCEPT !.pc = "reclone"] /\ UNCHANGED caller
  /\ UNCHANGED <<url, head, git, skipped, cached, crashes>>

\* The old clone makes room for the new one.
RecloneInPlace ==
  /\ flight.pc = "reclone" /\ dest' = None
  /\ \/ tmp' = Clone(flight.url, head[flight.url], TRUE)
        /\ flight' = [flight EXCEPT !.pc = "remove"] /\ UNCHANGED caller
     \/ tmp' = None /\ Land(FALSE)
  /\ UNCHANGED <<url, head, lastSync, loaded, saved, skipped, cached, crashes>>

\* recloneReplace: the new clone beside the old one, then the swap.
RecloneTmp ==
  /\ flight.pc = "reclone"
  /\ \/ tmp' = Clone(flight.url, head[flight.url], TRUE)
        /\ flight' = [flight EXCEPT !.pc = "remove"] /\ UNCHANGED caller
     \/ tmp' = None /\ Land(FALSE)
  /\ UNCHANGED <<url, head, dest, lastSync, loaded, saved, skipped, cached, crashes>>

RecloneRemove ==
  /\ flight.pc = "remove" /\ dest' = None /\ flight' = [flight EXCEPT !.pc = "rename"]
  /\ UNCHANGED <<url, head, tmp, lastSync, loaded, saved, skipped, caller, cached, crashes>>

RecloneRename ==
  /\ flight.pc = "rename" /\ dest' = tmp /\ tmp' = None /\ flight' = [flight EXCEPT !.pc = "record"]
  /\ UNCHANGED <<url, head, lastSync, loaded, saved, skipped, caller, cached, crashes>>

\* recordSync: the memory, the metadata, the store.
RecordSync ==
  /\ flight.pc = "record" /\ Land(TRUE)
  /\ lastSync' = "recent" /\ loaded' = TRUE /\ saved' = "recent"
  /\ dest' = [dest EXCEPT !.meta = flight.url]
  /\ UNCHANGED <<url, head, tmp, skipped, cached, crashes>>
-----------------------------------------------------------------------------
(* The resolver, once its sync has returned.                               *)

\* Resolver.Resolve reads what is on the disk, whatever the sync said.
Resolvable == Whole

\* resolveBundleWithCacheFallback; a bundle that resolves is cached when it
\* is applied.
Resolve(c) ==
  /\ caller[c].pc = "done"
  /\ caller' = [caller EXCEPT ![c] = NoCall]
  /\ cached' = IF Resolvable THEN dest.commit ELSE cached
  /\ UNCHANGED <<url, head, git, skipped, flight, crashes>>
-----------------------------------------------------------------------------
(* The world.                                                              *)

\* handleUpdateWorkspace.
SetUrl(u) ==
  /\ u # url /\ url' = u
  /\ \A c \in Callers : caller[c].pc = "idle"
  /\ UNCHANGED <<head, git, skipped, flight, caller, cached, crashes>>

Commit(u) ==
  /\ (\A v \in Urls : head[v] < MaxCommits) /\ head' = [head EXCEPT ![u] = @ + 1]
  /\ UNCHANGED <<url, git, skipped, flight, caller, cached, crashes>>

\* The pull period and the skip window elapse.
Elapse ==
  /\ lastSync' = (IF lastSync = None THEN None ELSE "old")
  /\ saved' = (IF saved = None THEN None ELSE "old") /\ skipped' = FALSE
  /\ UNCHANGED <<url, head, dest, tmp, loaded, flight, caller, cached, crashes>>

SkipPullForHost ==
  /\ ~skipped /\ skipped' = TRUE
  /\ UNCHANGED <<url, head, git, flight, caller, cached, crashes>>

\* A crash in a clone may leave a .git that cannot be opened.
Crash ==
  /\ crashes < MaxCrashes /\ crashes' = crashes + 1
  /\ flight' = NoFlight /\ caller' = [c \in Callers |-> NoCall]
  /\ lastSync' = None /\ loaded' = FALSE /\ skipped' = FALSE
  /\ IF flight.pc = "clone" /\ ("torn_clone" \in GitFaults \/ saved # "recent")
     THEN dest' \in {None, Clone(flight.url, 0, FALSE)} ELSE UNCHANGED dest
  /\ UNCHANGED <<url, head, tmp, saved, cached>>

Sync ==
  \/ CloneOrPullInner \/ DoClone \/ DoPull \/ RecloneForRepair
  \/ RecloneTmp \/ RecloneRemove \/ RecloneRename \/ RecordSync

Next ==
  \/ \E c \in Callers : HardDeadline(c) \/ Resolve(c) \/ \E f \in BOOLEAN : CloneOrPullWithAuth(c, f)
  \/ Sync
  \/ \E u \in Urls : SetUrl(u) \/ Commit(u)
  \/ Elapse \/ SkipPullForHost \/ Crash

Spec == Init /\ [][Next]_bundleVars
-----------------------------------------------------------------------------
Answered(c, ok) == caller[c].pc = "wait" /\ caller'[c].pc = "done" /\ caller'[c].ok = ok

\* A forced sync that succeeds on a host that is not skipped has seen at
\* least the commit that was there when it was asked for.
ForcedIsFresh ==
  [][\A c \in Callers :
       Answered(c, TRUE) /\ caller[c].force /\ ~skipped => dest'.commit >= caller[c].saw]_bundleVars

\* What a sync that succeeds leaves can be read: recent success in the store
\* is not taken for a clone that a crash has torn since.
SuccessIsWhole ==
  [][\A c \in Callers : Answered(c, TRUE) /\ ~skipped => dest'.whole]_bundleVars

\* "Substituting a different repository here is data loss": a clone is
\* replaced by one of another URL only when the URL was changed on purpose.
NoSubstitution ==
  [][dest # None /\ dest.whole /\ dest.meta = flight.url /\ flight.pc = "remove" =>
       dest.url = flight.url]_bundleVars

\* A sync that fails leaves the checkout that was there, except between the
\* removal and the rename of a replacement.
FailureKeepsClone ==
  [][Whole /\ flight.pc # "none" /\ flight.pc # "remove" => (dest' # None /\ dest'.whole)]_bundleVars

\* A clone is not lost to what was to mend or to move it.
CloneIsKept == NoSubstitution /\ FailureKeepsClone

\* Neither staleness nor loss: what a caller is given can be read, and is fresh
\* where that was asked for, and what another caller may be reading stays.
ClonesServe == ForcedIsFresh /\ SuccessIsWhole /\ CloneIsKept
=============================================================================
