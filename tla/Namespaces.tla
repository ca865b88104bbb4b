----------------------------- MODULE Namespaces -----------------------------
(***************************************************************************)
(* The namespaces and workspaces of the desktop daemon: the rows of the    *)
(* store, the one active namespace in memory, and the handlers that create,*)
(* activate, edit, reload, switch and delete them, each a sequence of steps*)
(* between which another request, or a crash, may come.                    *)
(*                                                                         *)
(* A configuration is its version.  The runtime of the active namespace is *)
(* its status: what it does is the subject of NsRuntime.                   *)
(***************************************************************************)
EXTENDS Naturals, FiniteSets

CONSTANTS
  Custom,      \* workspaces other than "default"
  NsIds,       \* namespace ids
  Keys,        \* bound: the namespaces ever created, pairs of both
  Requests,    \* requests served at a time
  None,        \* nil, "", no row
  MaxVer,      \* bound: versions of configurations and of the password
  MaxCrashes,  \* bound: crashes of the daemon
  Races        \* hazards let loose: see the definitions below

\* createNamespace looks at what is active before it takes reloadMu.
StaleCreate == "stale_create" \in Races
\* A namespace, or its workspace, is deleted while it is being activated: the
\* deletion of what is not active takes no reloadMu.
DeleteUnlocked == "delete_unlocked" \in Races
\* Another namespace is activated while the password is rotated.
RotateUnlocked == "rotate_unlocked" \in Races
\* SwitchWorkspace persists and stops before it has a client of Docker.
NoClient == "no_client" \in Races

Ws == {"default"} \cup Custom

ASSUME KeysAssumption == Keys \subseteq Ws \X NsIds

VARIABLES
  wsRows,    \* the table of workspaces
  stored,    \* the table of namespaces: key -> None or a version
  saved,     \* the same table: key -> None or the persisted status
  curWs,     \* launcher_state: WorkspaceID
  sel,       \* launcher_state: SelectedNs
  password,  \* _sysadmin of the store, a version
  up,        \* TRUE while the daemon serves
  act,       \* activeNs
  reloadMu,  \* the request that holds it
  req,       \* request -> what it does and what it has read
  runs,      \* Docker: the keys whose containers run
  crashes

store == <<wsRows, stored, saved, curWs, sel, password>>
vars == <<wsRows, stored, saved, curWs, sel, password, up, act, reloadMu, req, runs, crashes>>

\* clearActiveNamespaceLocked keeps the workspace and its Docker client.
Cleared(a) == [a EXCEPT !.ns = None, !.ver = None, !.defs = None, !.status = None, !.pw = None]
NoNamespace(w, d) ==
  [ws |-> w, ns |-> None, ver |-> None, defs |-> None, docker |-> d, status |-> None, pw |-> None]
Key(a) == <<a.ws, a.ns>>

Free == [op |-> None, pc |-> None, ws |-> None, ns |-> None, got |-> None]
At(r, op, pc) == up /\ req[r].op = op /\ req[r].pc = pc
Idle(r) == up /\ req[r] = Free
Quiet == \A r \in Requests : req[r] = Free
Begin(r, op, pc, w, n, got) ==
  req' = [req EXCEPT ![r] = [op |-> op, pc |-> pc, ws |-> w, ns |-> n, got |-> got]]
Step(r, pc, got) == req' = [req EXCEPT ![r].pc = pc, ![r].got = got]
End(r) == req' = [req EXCEPT ![r] = Free]
TryLock(r) == reloadMu = None /\ reloadMu' = r
Unlock(r) == reloadMu = r /\ reloadMu' = None
Stopped(a) == a.status \in {None, "STOPPED"}
Deleting(w, n) == \E r \in Requests : /\ req[r].op \in {"delete", "deletews"} /\ req[r].ws = w
                                       /\ req[r].ns \in {n, None}
Activating(w) == {req[r].ns : r \in {q \in Requests : /\ req[q].op \in {"activate", "create", "switch"}
                                                      /\ req[q].ws = w}}
Rotating == \E r \in Requests : req[r].op = "rotate"

\* Runtime.Shutdown of the runtime that `a` holds stops its containers.
AfterForgetting(a) == runs
AfterShutdown(a) == IF a.status = None THEN runs ELSE runs \ {Key(a)}

HasRow(w, n) == <<w, n>> \in Keys /\ stored[<<w, n>>] # None

\* loadNamespace: a row without configuration loads nothing.
LoadNamespace(w, n) ==
  IF ~HasRow(w, n) THEN None
  ELSE [ws |-> w, ns |-> n, ver |-> stored[<<w, n>>], defs |-> stored[<<w, n>>],
        docker |-> <<w, n>>, status |-> "STOPPED", pw |-> password]

Init ==
  /\ wsRows \in SUBSET Custom
  /\ stored \in [Keys -> {None, 1}]
  /\ \A k \in Keys : stored[k] # None => k[1] \in wsRows \cup {"default"}
  /\ saved = [k \in Keys |-> None]
  /\ curWs = "default" /\ sel = [w \in Ws |-> None]
  /\ password = 1 /\ up = FALSE /\ act = NoNamespace("default", <<"default", None>>)
  /\ reloadMu = None /\ req = [r \in Requests |-> Free]
  /\ runs = {} /\ crashes = 0
-----------------------------------------------------------------------------
(* Start and crash of the daemon.                                          *)

\* restorePersistedSelection and validateWorkspaceSelection.
StartupTarget ==
  IF curWs \in wsRows \cup {"default"} THEN <<curWs, sel[curWs]>> ELSE <<"default", None>>

\* sweepOrphanDockerResources keeps the active namespace and all of the store.
Swept(t) == {k \in runs : k = t \/ stored[k] # None}

\* Start: load, sweep what belongs to no row, start unless it was stopped.
Start ==
  /\ ~up
  /\ LET t == StartupTarget
         loaded == LoadNamespace(t[1], t[2])
         ours == Swept(t)
     IN IF loaded = None
        THEN act' = NoNamespace(t[1], t) /\ runs' = ours /\ UNCHANGED saved
        ELSE IF saved[t] \in {"STOPPED", "STOPPING"}
        THEN act' = loaded /\ runs' = ours /\ UNCHANGED saved
        ELSE /\ act' = [loaded EXCEPT !.status = "RUNNING"]
             /\ saved' = [saved EXCEPT ![t] = "RUNNING"]
             /\ runs' = ours \cup {t}
  /\ up' = TRUE
  /\ UNCHANGED <<wsRows, stored, curWs, sel, password, reloadMu, req, crashes>>

\* Containers outlive the daemon.
Crash ==
  /\ up /\ crashes < MaxCrashes
  /\ up' = FALSE /\ act' = NoNamespace("default", <<"default", None>>)
  /\ reloadMu' = None /\ req' = [r \in Requests |-> Free] /\ crashes' = crashes + 1
  /\ UNCHANGED <<store, runs>>
-----------------------------------------------------------------------------
(* The runtime of the active namespace.                                    *)

\* handleStopNamespace; then its containers are gone.
HandleStopNamespace ==
  /\ up /\ act.status = "RUNNING"
  /\ act' = [act EXCEPT !.status = "STOPPING"] /\ saved' = [saved EXCEPT ![Key(act)] = "STOPPING"]
  /\ UNCHANGED <<wsRows, stored, curWs, sel, password, up, reloadMu, req, runs, crashes>>

StopEnds ==
  /\ up /\ act.status = "STOPPING"
  /\ act' = [act EXCEPT !.status = "STOPPED"] /\ saved' = [saved EXCEPT ![Key(act)] = "STOPPED"]
  /\ runs' = runs \ {Key(act)}
  /\ UNCHANGED <<wsRows, stored, curWs, sel, password, up, reloadMu, req, crashes>>
-----------------------------------------------------------------------------
(* Installing a namespace: handleActivateNamespace, autoActivateAfterCreate*)
(* and SwitchWorkspace end in it.                                          *)

\* installLoadedNamespace: the selection first, then the swap under
\* configMu, which keeps the workspace that is active.
InstallUnsaved(loaded, w, n) ==
  /\ act' = [loaded EXCEPT !.ws = act.ws]
  /\ runs' = AfterShutdown(act) /\ UNCHANGED sel
InstallWithOldClient(loaded, w, n) ==
  /\ sel' = [sel EXCEPT ![w] = n]
  /\ act' = [loaded EXCEPT !.ws = act.ws, !.docker = act.docker]
  /\ runs' = AfterShutdown(act)
InstallLoadedNamespace(loaded, w, n) ==
  /\ sel' = [sel EXCEPT ![w] = n]
  /\ act' = [loaded EXCEPT !.ws = act.ws]
  /\ runs' = AfterShutdown(act)

HandleActivateNamespace(r, n) ==
  /\ Idle(r) /\ TryLock(r)
  /\ act.ns # n /\ Stopped(act) /\ HasRow(act.ws, n)
  /\ DeleteUnlocked \/ ~Deleting(act.ws, n)
  /\ RotateUnlocked \/ ~Rotating
  /\ Begin(r, "activate", "install", act.ws, n, LoadNamespace(act.ws, n))
  /\ UNCHANGED <<store, up, act, runs, crashes>>

Install(r) ==
  /\ \E op \in {"activate", "create", "switch"} : At(r, op, "install")
  /\ Unlock(r) /\ End(r)
  /\ InstallLoadedNamespace(req[r].got, req[r].ws, req[r].ns)
  /\ UNCHANGED <<wsRows, stored, saved, curWs, password, up, crashes>>

\* handleDeactivateNamespace, the whole of it under reloadMu.
HandleDeactivateNamespace(r) ==
  /\ Idle(r) /\ reloadMu = None /\ act.ns # None /\ Stopped(act)
  /\ sel' = [sel EXCEPT ![act.ws] = None]
  /\ act' = Cleared(act) /\ runs' = AfterShutdown(act)
  /\ UNCHANGED <<wsRows, stored, saved, curWs, password, up, reloadMu, req, crashes>>

\* createNamespace: refuses an id that is taken, and persists.
CreateNamespace(r, w, n) ==
  /\ <<w, n>> \in Keys /\ Idle(r) /\ w \in wsRows \cup {"default"}
  /\ stored[<<w, n>>] = None
  /\ DeleteUnlocked \/ ~Deleting(w, n)
  /\ stored' = [stored EXCEPT ![<<w, n>>] = 1]
  /\ Begin(r, "create", "look", w, n, None)
  /\ UNCHANGED <<wsRows, saved, curWs, sel, password, up, act, reloadMu, runs, crashes>>

\* autoActivateAfterCreate: what is active is looked at before TryLock.
CreateLook(r) ==
  /\ At(r, "create", "look")
  /\ IF act.ns = None /\ req[r].ws = act.ws THEN Step(r, "load", None) ELSE End(r)
  /\ UNCHANGED <<store, up, act, reloadMu, runs, crashes>>

CreateLoad(r) ==
  /\ At(r, "create", "load")
  /\ LET loaded == LoadNamespace(req[r].ws, req[r].ns) IN
     IF reloadMu # None \/ loaded = None THEN End(r) /\ UNCHANGED reloadMu
     ELSE /\ RotateUnlocked \/ ~Rotating
          /\ StaleCreate \/ (act.ns = None /\ act.ws = req[r].ws)
          /\ TryLock(r) /\ Step(r, "install", loaded)
  /\ UNCHANGED <<store, up, act, runs, crashes>>
-----------------------------------------------------------------------------
(* doReloadEx and its callers.                                             *)

\* Phase 1: the configuration, the password and the runtime it will apply to.
ReloadSnapshot == [key |-> Key(act), ver |-> stored[Key(act)], pw |-> act.pw]

\* handleReloadNamespace.
HandleReloadNamespace(r) ==
  /\ Idle(r) /\ TryLock(r) /\ act.ns # None /\ stored[Key(act)] # None
  /\ Begin(r, "reload", "commit", act.ws, act.ns, ReloadSnapshot)
  /\ UNCHANGED <<store, up, act, runs, crashes>>

\* updateAndStartAsync, once it has the lock: starts a stopped namespace.
UpdateAndStart(r) ==
  /\ Idle(r) /\ TryLock(r) /\ act.ns # None /\ stored[Key(act)] # None
  /\ act.status # "STOPPING"
  /\ Begin(r, IF act.status = "STOPPED" THEN "start" ELSE "reload", "commit",
           act.ws, act.ns, ReloadSnapshot)
  /\ UNCHANGED <<store, up, act, runs, crashes>>

\* handlePutNamespaceEdit and handleUpgradeNamespace: read, change and store
\* a configuration under reloadMu, then reload the active namespace.
HandleNamespaceEdit(r, n) ==
  /\ Idle(r) /\ TryLock(r) /\ HasRow(act.ws, n) /\ stored[<<act.ws, n>>] < MaxVer
  /\ Begin(r, "edit", "persist", act.ws, n, stored[<<act.ws, n>>] + 1)
  /\ UNCHANGED <<store, up, act, runs, crashes>>

EditPersist(r) ==
  /\ At(r, "edit", "persist")
  /\ LET k == <<req[r].ws, req[r].ns>> IN
     /\ stored' = [stored EXCEPT ![k] = req[r].got]
     /\ IF k = Key(act)
        THEN /\ req' = [req EXCEPT ![r].op = "reload", ![r].pc = "commit",
                          ![r].got = [key |-> k, ver |-> req[r].got, pw |-> act.pw]]
             /\ UNCHANGED reloadMu
        ELSE End(r) /\ Unlock(r)
  /\ UNCHANGED <<wsRows, saved, curWs, sel, password, up, act, runs, crashes>>

\* Phase 2, on what is active then, and Start or Regenerate of the runtime;
\* a bundle that does not resolve ends the reload before.
ReloadCommit(r) ==
  /\ \E op \in {"reload", "start"} : At(r, op, "commit")
  /\ Unlock(r) /\ End(r)
  /\ \/ UNCHANGED <<act, saved, runs>>
     \/ LET got == req[r].got IN
        IF req[r].op = "start"
        THEN /\ act' = [act EXCEPT !.ver = got.ver, !.defs = got.ver, !.status = "RUNNING"]
             /\ saved' = [saved EXCEPT ![Key(act)] = "RUNNING"] /\ runs' = runs \cup {Key(act)}
        ELSE /\ act' = [act EXCEPT !.ver = got.ver, !.defs = got.ver]
             /\ UNCHANGED <<saved, runs>>
  /\ UNCHANGED <<wsRows, stored, curWs, sel, password, up, crashes>>

\* handlePutConfig: takes the key, reads the body, persists; no lock.
HandlePutConfig(r) ==
  /\ Idle(r) /\ act.ns # None
  /\ stored[Key(act)] # None /\ stored[Key(act)] < MaxVer
  /\ Begin(r, "putconfig", "persist", act.ws, act.ns, stored[Key(act)] + 1)
  /\ UNCHANGED <<store, up, act, reloadMu, runs, crashes>>

PutConfigPersist(r) ==
  /\ At(r, "putconfig", "persist") /\ End(r)
  /\ stored' = [stored EXCEPT ![<<req[r].ws, req[r].ns>>] = req[r].got]
  /\ UNCHANGED <<wsRows, saved, curWs, sel, password, up, act, reloadMu, runs, crashes>>
-----------------------------------------------------------------------------
(* handleDeleteNamespace.                                                  *)

\* The checks; only the deletion of the active namespace takes reloadMu.
HandleDeleteNamespace(r, n) ==
  /\ Idle(r) /\ HasRow(act.ws, n)
  /\ DeleteUnlocked \/ act.ns = n \/ Activating(act.ws) \cap {n, None} = {}
  /\ IF act.ns = n THEN Stopped(act) /\ TryLock(r) ELSE UNCHANGED reloadMu
  /\ Begin(r, "delete", "teardown", act.ws, n, act.ns = n)
  /\ UNCHANGED <<store, up, act, runs, crashes>>

\* teardownActiveNamespaceForDelete, for a namespace that is active now.
DeleteTeardown(r) ==
  /\ At(r, "delete", "teardown")
  /\ LET w == req[r].ws IN
     IF req[r].got /\ act.ns = req[r].ns
     THEN /\ sel' = [sel EXCEPT ![w] = None] /\ act' = Cleared(act) /\ runs' = AfterShutdown(act)
     ELSE UNCHANGED <<sel, act, runs>>
  /\ Step(r, "row", req[r].got)
  /\ UNCHANGED <<wsRows, stored, saved, curWs, password, up, reloadMu, crashes>>

DeleteRow(r) ==
  /\ At(r, "delete", "row")
  /\ LET k == <<req[r].ws, req[r].ns>> IN
       stored' = [stored EXCEPT ![k] = None] /\ saved' = [saved EXCEPT ![k] = None]
  /\ Step(r, "purge", req[r].got)
  /\ UNCHANGED <<wsRows, curWs, sel, password, up, act, reloadMu, runs, crashes>>

\* The directory and the containers of the namespace, by its labels.
DeletePurge(r) ==
  /\ At(r, "delete", "purge") /\ End(r)
  /\ runs' = runs \ {<<req[r].ws, req[r].ns>>}
  /\ IF req[r].got THEN Unlock(r) ELSE UNCHANGED reloadMu
  /\ UNCHANGED <<store, up, act, crashes>>
-----------------------------------------------------------------------------
(* Workspaces.                                                             *)

HandleCreateWorkspace(r, w) ==
  /\ Idle(r) /\ w \notin wsRows /\ wsRows' = wsRows \cup {w}
  /\ UNCHANGED <<stored, saved, curWs, sel, password, up, act, reloadMu, req, runs, crashes>>

\* handleDeleteWorkspace checks, purges what its namespaces left, cascades.
HandleDeleteWorkspace(r, w) ==
  /\ Idle(r) /\ w \in wsRows /\ act.ws # w
  /\ DeleteUnlocked \/ Activating(w) = {}
  /\ Begin(r, "deletews", "row", w, None, None)
  /\ runs' = {k \in runs : k[1] # w}
  /\ UNCHANGED <<store, up, act, reloadMu, crashes>>

\* Store.DeleteWorkspace, one transaction.
DeleteWorkspaceRow(r) ==
  /\ At(r, "deletews", "row") /\ End(r)
  /\ LET w == req[r].ws
         without(f) == [k \in Keys |-> IF k[1] = w THEN None ELSE f[k]]
     IN wsRows' = wsRows \ {w} /\ stored' = without(stored) /\ saved' = without(saved)
  /\ UNCHANGED <<curWs, sel, password, up, act, reloadMu, runs, crashes>>

\* SwitchWorkspace: the lookup and the first synchronization.
SwitchWorkspace(r, w) ==
  /\ Idle(r) /\ w # act.ws /\ w \in wsRows \cup {"default"}
  /\ DeleteUnlocked \/ ~\E q \in Requests : req[q].op \in {"delete", "deletews"} /\ req[q].ws = w
  /\ RotateUnlocked \/ ~Rotating
  /\ Begin(r, "switch", "lock", w, None, None)
  /\ UNCHANGED <<store, up, act, reloadMu, runs, crashes>>

\* Under reloadMu: the check, the persisted switch and the shutdown of the
\* runtime.  The namespace is the one last selected there, or the first row.
SwitchPersist(r) ==
  /\ At(r, "switch", "lock") /\ reloadMu = None
  /\ IF ~Stopped(act) THEN End(r) /\ UNCHANGED <<curWs, sel, act, reloadMu, runs>>
     ELSE LET w == req[r].ws
              firsts == {n \in NsIds : <<w, n>> \in Keys /\ (stored[<<w, n>>] # None \/ saved[<<w, n>>] # None)}
          IN /\ reloadMu' = r /\ curWs' = w
             /\ sel' = IF act.ns = None THEN sel ELSE [sel EXCEPT ![act.ws] = act.ns]
             /\ \E n \in IF sel[w] # None THEN {sel[w]}
                         ELSE IF firsts # {} THEN firsts ELSE {None} :
                  req' = [req EXCEPT ![r].pc = "client", ![r].ns = n]
             /\ runs' = AfterShutdown(act) /\ UNCHANGED act
  /\ UNCHANGED <<wsRows, stored, saved, password, up, crashes>>

\* The client of Docker, without which nothing more happens, and the swap;
\* then the namespace is loaded.
SwitchClear(r) ==
  /\ At(r, "switch", "client")
  /\ \E client \in {TRUE, ~NoClient} :
       LET w == req[r].ws
           loaded == LoadNamespace(w, req[r].ns)
       IN /\ act' = IF client THEN [Cleared(act) EXCEPT !.ws = w, !.docker = <<w, req[r].ns>>] ELSE act
          /\ IF loaded = None \/ ~client THEN End(r) /\ Unlock(r)
             ELSE Step(r, "install", loaded) /\ UNCHANGED reloadMu
  /\ UNCHANGED <<store, up, runs, crashes>>
-----------------------------------------------------------------------------
(* handleSetAdminPassword: Keycloak, then the store, then the memory.      *)

HandleSetAdminPassword(r) ==
  /\ Idle(r) /\ act.status = "RUNNING" /\ password < MaxVer
  /\ RotateUnlocked \/ \A q \in Requests : req[q].op \notin {"activate", "create", "switch", "rotate"}
  /\ Begin(r, "rotate", "store", None, None, password + 1)
  /\ UNCHANGED <<store, up, act, reloadMu, runs, crashes>>

RotateStore(r) ==
  /\ At(r, "rotate", "store") /\ Step(r, "memory", req[r].got)
  /\ password' = req[r].got
  /\ UNCHANGED <<wsRows, stored, saved, curWs, sel, up, act, reloadMu, runs, crashes>>

RotateMemory(r) ==
  /\ At(r, "rotate", "memory") /\ End(r)
  /\ act' = [act EXCEPT !.pw = req[r].got]
  /\ UNCHANGED <<store, up, reloadMu, runs, crashes>>
-----------------------------------------------------------------------------
Next ==
  \/ Start \/ Crash \/ HandleStopNamespace \/ StopEnds
  \/ \E r \in Requests :
       \/ Install(r) \/ HandleDeactivateNamespace(r) \/ CreateLook(r) \/ CreateLoad(r)
       \/ HandleReloadNamespace(r) \/ UpdateAndStart(r) \/ EditPersist(r) \/ ReloadCommit(r)
       \/ HandlePutConfig(r) \/ PutConfigPersist(r)
       \/ DeleteTeardown(r) \/ DeleteRow(r) \/ DeletePurge(r) \/ DeleteWorkspaceRow(r)
       \/ SwitchPersist(r) \/ SwitchClear(r)
       \/ HandleSetAdminPassword(r) \/ RotateStore(r) \/ RotateMemory(r)
       \/ \E n \in NsIds : \/ HandleActivateNamespace(r, n) \/ HandleNamespaceEdit(r, n)
                           \/ HandleDeleteNamespace(r, n)
       \/ \E w \in Ws, n \in NsIds : CreateNamespace(r, w, n)
       \/ \E w \in Custom : HandleCreateWorkspace(r, w) \/ HandleDeleteWorkspace(r, w)
       \/ \E w \in Ws : SwitchWorkspace(r, w)

Spec == Init /\ [][Next]_vars
-----------------------------------------------------------------------------
\* "dockerClient is ALWAYS scoped to the active (workspaceID, nsConfig.ID)
\* pair", through every activation, switch and deletion.
DockerScoped == act.ns # None => act.docker = Key(act)

\* A restart finds what was active.  What is active has a row in the store,
\* unless the request that deletes it is still at work, and the persisted
\* selection agrees with the memory whenever no request holds reloadMu.
ActiveIsStored ==
  act.ns # None => stored[Key(act)] # None \/ \E r \in Requests : req[r].op \in {"delete", "deletews"}
SelectionAgrees ==
  up /\ reloadMu = None => /\ curWs = act.ws
                           /\ act.ns # None => sel[act.ws] = act.ns
RestartFindsActive == ActiveIsStored /\ SelectionAgrees

\* Containers run for the active namespace only, or for none that a later
\* start of the daemon would not find: nothing is left running out of reach.
NothingRunsUnseen ==
  up /\ reloadMu = None => runs \subseteq {Key(act)}

\* "the rotation always lands on the live struct": once no request is at
\* work the active namespace knows the password that the store holds.
MemoryHasPassword == Quiet /\ up /\ act.ns # None => act.pw = password
=============================================================================
