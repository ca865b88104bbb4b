------------------------------ MODULE NsRuntime ------------------------------
(***************************************************************************)
(* The runtime of one namespace (internal/namespace): the single-threaded  *)
(* runtimeLoop, the worker goroutines it dispatches, the API goroutines    *)
(* that change applications under the same lock, and the containers they   *)
(* all act on.  The specification starts where doStart has committed its   *)
(* plan (see Init) and ends when the loop exits.                           *)
(*                                                                         *)
(* Grain of atomicity: one critical section of r.mu is one action.  What   *)
(* runs between two sections of a handler (the dispatch of a worker, the   *)
(* unlocked I/O of doRegenerate, the diagnostics of a failed liveness      *)
(* probe) is a step of its own, so that other goroutines come in between.  *)
(*                                                                         *)
(* Time is abstracted: a backoff may be over, and a stop budget exhausted, *)
(* at any moment, except that a goroutine dispatches a stop it committed   *)
(* within the budget of that stop (at least 20 seconds).                   *)
(* Bounds: MaxCalls API calls and MaxFaults faults.                        *)
(***************************************************************************)
EXTENDS Naturals, Sequences, FiniteSets, Commands

CONSTANTS
    Apps,            \* names of applications
    Versions,        \* what GetHash tells apart of an application's definition
    DependsOn,       \* DependsOn[a]: the applications a depends on
    InitContainers,  \* InitContainers[a]: how many init containers a has
    Probed,          \* applications with startup conditions
    Watched,         \* applications with a liveness probe
    Imageless,       \* applications without an image
    Group,           \* Group[a]: position of a in GracefulShutdownGroups, 1..4
    Proxies,         \* the application named proxy, if it is one of Apps
    Gateways,        \* the application named gateway, if it is one of Apps
    RegenOnRestart,  \* dependsOnDetachedApps: a restart regenerates
    Reconciling,     \* reconcilerEnabled
    Threshold,       \* failed liveness probes before a restart
    Found,           \* what doStart may find of an application's container
    DesiredSets,     \* desired sets a reload may ask for, [subset -> Versions]
    Calls,           \* the API operations in use
    MaxCalls,        \* bound: API calls
    MaxFaults        \* bound: failures of Docker, of an image, of a container

APICalls == {"StopApp", "StartApp", "RestartApp", "RetryPullFailedApps",
             "Regenerate", "Stop"}

\* The applications the namespace started with, at the first version.
Names(ver) == [a \in Apps |-> ver]

ASSUME ShapeAssumption ==
    /\ IsFiniteSet(Apps)
    /\ Versions \subseteq Nat
    /\ Versions # {}
    /\ DependsOn \in [Apps -> SUBSET Apps]
    /\ InitContainers \in [Apps -> Nat]
    /\ Probed \subseteq Apps /\ Watched \subseteq Apps /\ Imageless \subseteq Apps
    /\ Group \in [Apps -> 1..4]
    /\ Proxies \subseteq Apps /\ Gateways \subseteq Apps
    /\ RegenOnRestart \subseteq Apps
    /\ Reconciling \in BOOLEAN
    /\ Threshold \in Nat \ {0}

ASSUME UseAssumption ==
    /\ Found \subseteq {"absent", "match", "stale", "detached"}
    /\ DesiredSets \subseteq UNION {[S -> Versions] : S \in SUBSET Apps}
    /\ Calls \subseteq APICalls
    /\ MaxCalls \in Nat
    /\ MaxFaults \in Nat

VARIABLES
    nsStatus,    \* r.status
    apps,        \* r.apps: a function whose domain is the set of known names
    detached,    \* r.manualStoppedApps
    blocked,     \* r.pullAuthBlockedApps
    lastApps,    \* r.lastApps
    queue,       \* commands in CmdQueue.ch
    todo,        \* commands Drain has coalesced and not applied yet
    pc,          \* where runtimeLoop is
    snap,        \* doRegenerate's copy of the detached set
    conts,       \* r.pendingContinuations
    scan,        \* evaluateContinuations: entries left to look at, and where
    plans,       \* worker plans of the loop, committed and not yet dispatched
    task,        \* dispatcher slot and worker of each application and operation
    recon,       \* the ReconcileDiff task
    net,         \* the RemoveNetwork task
    held,        \* stop plans of API goroutines, committed and not dispatched
    restarting,  \* which section of RestartApp a goroutine has reached
    closed,      \* shutdownComplete is closed
    docker,      \* the containers
    calls,       \* API calls made so far
    faults       \* faults so far

nsVars   == <<nsStatus, apps, detached, blocked, lastApps>>
loopVars == <<queue, todo, pc, snap, conts, scan, plans, closed>>
workVars == <<task, recon, net, docker>>
apiVars  == <<held, restarting>>
vars == <<nsVars, loopVars, workVars, apiVars, calls, faults>>

NsStatuses == {"STOPPED", "STARTING", "RUNNING", "STALLED", "STOPPING"}

\* AppStatusFailed is left out: the code tests for it and never assigns it.
AppStatuses == {"READY_TO_PULL", "PULLING", "PULL_FAILED", "READY_TO_START",
                "DEPS_WAITING", "STARTING", "START_FAILED", "RUNNING",
                "UPDATING", "STOPPING", "STOPPING_FAILED", "STOPPED"}

Ops == {"pull", "init", "start", "probe", "stop", "live"}

Phases == {"none",                     \* free slot
           "run", "create", "start",   \* a worker at work
           "hung",                     \* a stop the Docker daemon never answers
           "ok", "err", "auth",        \* its Result, in resultCh or about to be sent
           "diag"}                     \* its handler is capturing diagnostics

LoopPhases == {"select", "drain", "apply", "regen", "diag", "step", "eval",
               "status", "exit"}

AppRuntime == [status: AppStatuses, next: {"", "READY_TO_PULL"}, cid: BOOLEAN,
               def: Versions, marked: BOOLEAN, fails: Nat]

\* A continuation waits for one group to stop, rest are the groups after it.
Continuation == [wait: SUBSET Apps, rest: SUBSET Apps]

Plan == [app: Apps, op: Ops, arg: Nat]

\* arg: the index of an init container, the version a start worker creates.
Task == [ph: Phases, cancel: BOOLEAN, arg: Nat]

Container == [state: {"none", "created", "running", "exited"}, def: Nat]
-----------------------------------------------------------------------------
(* Helpers of the state machine.                                           *)

NoContainer == [state |-> "none", def |-> 0]
Idle == [ph |-> "none", cancel |-> FALSE, arg |-> 0]

Fresh(def, s) ==
    [status |-> s, next |-> "", cid |-> FALSE, def |-> def, marked |-> FALSE,
     fails |-> 0]

\* setAppStatus: leaving RUNNING forgets the failed liveness probes.
SetAppStatus(app, s) ==
    [app EXCEPT !.status = s,
                !.fails = IF app.status = "RUNNING" /\ s # "RUNNING" THEN 0 ELSE @]

Known == DOMAIN apps
Status(a) == apps[a].status
In(S) == {a \in Known : Status(a) \in S}

\* A stop worker has been dispatched, or is about to be.
Going == {"STOPPING", "UPDATING"}
Terminal == {"STOPPED", "STOPPING_FAILED"}
\* The statuses for which the code presumes that no container exists.
Containerless == {"READY_TO_PULL", "PULLING", "PULL_FAILED", "READY_TO_START",
                  "DEPS_WAITING"}

\* makeStopPlan and makeStartingStopPlan: the init container is not modelled.
StopPlan(a) == [app |-> a, op |-> "stop", arg |-> 0]
PullPlan(a) == [app |-> a, op |-> "pull", arg |-> 0]
StartPlan(a) == [app |-> a, op |-> "start", arg |-> apps[a].def]
InitPlan(a, i) == [app |-> a, op |-> "init", arg |-> i]

\* Dispatcher.Dispatch: the new attempt takes the slot.  The attempt it
\* supersedes is cancelled and its Result dropped when it arrives.
Dispatched(t, p) ==
    [t EXCEPT ![p.app][p.op] = [ph |-> "run", cancel |-> FALSE, arg |-> p.arg]]

\* Dispatcher.CancelApp on every application of S, for the given operations.
\* An occupied slot is marked even if its worker has posted its Result.
Cancelled(t, S, ops) ==
    [a \in Apps |-> [o \in Ops |->
        IF a \in S /\ o \in ops /\ t[a][o].ph # "none"
        THEN [t[a][o] EXCEPT !.cancel = TRUE] ELSE t[a][o]]]

Forgotten(t, a, o) == [t EXCEPT ![a][o] = Idle]

\* Mutation of DepsSatisfied: a detached dependency is waited for.
DepsAllRunning(a, live) == \A d \in DependsOn[a] \cap live : Status(d) = "RUNNING"

\* appsDepsSatisfied, given the applications that are not garbage collected.
DepsSatisfied(a, live) ==
    \A d \in DependsOn[a] \cap live : Status(d) = "RUNNING" \/ d \in detached

\* The first plan of a start: an init container if there is one.
FirstPlan(a) == IF InitContainers[a] = 0 THEN StartPlan(a) ELSE InitPlan(a, 0)

\* GracefulShutdownGroups: the group of S that stops first.
FirstGroup(S) == {a \in S : \A b \in S : Group[a] <= Group[b]}

\* Mutation of GroupStopped: a recreate in flight is left to finish.
GroupStoppedKeepingRestart(app) ==
    CASE app.status \in {"RUNNING", "START_FAILED", "STARTING", "STOPPING_FAILED"}
                -> [SetAppStatus(app, "STOPPING") EXCEPT !.next = ""]
      [] app.status \in Containerless -> [SetAppStatus(app, "STOPPED") EXCEPT !.next = ""]
      [] OTHER -> app

\* beginGroupStopUnderLock on one application (T20, T20b, T20c).
GroupStopped(app) ==
    CASE app.status \in {"RUNNING", "START_FAILED", "STARTING", "STOPPING_FAILED"}
                         \cup Going -> [SetAppStatus(app, "STOPPING") EXCEPT !.next = ""]
      [] app.status \in Containerless -> [SetAppStatus(app, "STOPPED") EXCEPT !.next = ""]
      [] OTHER -> app

\* Mutation of GroupCancelled: an application that is starting is left alone.
GroupCancelledButStarting(G) ==
    Cancelled(Cancelled(task, G \cap In(Containerless), Ops),
              G \cap In({"RUNNING", "START_FAILED"}), Ops \ {"stop"})

\* The workers that are cancelled with it.
GroupCancelled(G) ==
    Cancelled(Cancelled(task, G \cap In(Containerless), Ops),
              G \cap In({"RUNNING", "START_FAILED", "STARTING"}), Ops \ {"stop"})

\* The whole of beginGroupStopUnderLock on the group G, with the stop plans.
GroupStop(G) ==
    /\ apps' = [a \in Known |-> IF a \in G THEN GroupStopped(apps[a]) ELSE apps[a]]
    /\ task' = GroupCancelled(G)
    /\ plans' = {StopPlan(a) : a \in
                 G \cap In({"RUNNING", "START_FAILED", "STARTING", "STOPPING_FAILED"})}
-----------------------------------------------------------------------------
(* Init: doStart has committed.  A container of the same hash was adopted, *)
(* a stale one is swept, a detached application has none.                  *)

Adopted(how, ver) ==
    CASE how = "match" -> [Fresh(ver, "RUNNING") EXCEPT !.cid = TRUE]
      [] how = "stale" -> [Fresh(ver, "UPDATING") EXCEPT !.cid = TRUE,
                                                         !.next = "READY_TO_PULL"]
      [] how = "absent" -> Fresh(ver, "READY_TO_PULL")
      [] OTHER -> Fresh(ver, "STOPPED")

Init ==
    \E how \in [Apps -> Found], ver \in Versions :
        /\ nsStatus = "STARTING"
        /\ apps = [a \in Apps |-> Adopted(how[a], ver)]
        /\ detached = {a \in Apps : how[a] = "detached"}
        /\ blocked = {}
        /\ lastApps = Names(ver)
        /\ queue = <<>> /\ todo = <<>>
        /\ pc = "step"
        /\ snap = {}
        /\ conts = <<>> /\ scan = [at |-> 0, end |-> 0]
        /\ plans = {StopPlan(a) : a \in {b \in Apps : how[b] = "stale"}}
        /\ task = [a \in Apps |-> [o \in Ops |-> Idle]]
        /\ recon = [ph |-> "none", apps |-> {}]
        /\ net = "none"
        /\ held = [a \in Apps |-> 0]
        /\ restarting = [a \in Apps |-> "no"]
        /\ closed = FALSE
        /\ docker = [a \in Apps |->
              IF how[a] \in {"match", "stale"} THEN [state |-> "running", def |-> ver]
              ELSE NoContainer]
        /\ calls = 0 /\ faults = 0
-----------------------------------------------------------------------------
(* runtimeLoop: the select and the commands.                               *)

\* The loop is at the given place with nothing left to dispatch.
At(place) == pc = place /\ plans = {}

\* A plan the loop committed under the lock is dispatched after the unlock.
LoopDispatch ==
    \E p \in plans :
        /\ task' = Dispatched(task, p)
        /\ plans' = plans \ {p}
        /\ UNCHANGED <<nsVars, queue, todo, pc, snap, conts, scan, closed, recon,
                       net, docker, apiVars, calls, faults>>

\* select: a command is received, Drain begins.
SelectCommand ==
    /\ At("select") /\ queue # <<>>
    /\ pc' = "drain"
    /\ UNCHANGED <<nsVars, queue, todo, snap, conts, scan, plans, closed, workVars,
                   apiVars, calls, faults>>

\* Drain takes one buffered command and coalesces it, or finds no more.
DrainNext ==
    /\ At("drain")
    /\ IF queue # <<>>
       THEN /\ todo' = Coalesce(todo, Head(queue))
            /\ queue' = Tail(queue)
            /\ pc' = pc
       ELSE pc' = "apply" /\ UNCHANGED <<todo, queue>>
    /\ UNCHANGED <<nsVars, snap, conts, scan, plans, closed, workVars, apiVars,
                   calls, faults>>

\* Every survivor has been applied: the tail of the iteration begins.
ApplyDone ==
    /\ At("apply") /\ todo = <<>>
    /\ pc' = "step"
    /\ UNCHANGED <<nsVars, queue, todo, snap, conts, scan, plans, closed, workVars,
                   apiVars, calls, faults>>

Applying(tag) == At("apply") /\ todo # <<>> /\ Head(todo).tag = tag

\* Mutation of StopInFlight: a second stop starts the chain again.
StopNeverInFlight == FALSE

\* The chain of a previous stop is still in flight: doStop does nothing.
StopInFlight == nsStatus = "STOPPING"

\* doStop: the first group stops, a continuation waits for it.
DoStop ==
    /\ Applying("stop")
    /\ todo' = Tail(todo)
    /\ IF StopInFlight
       THEN UNCHANGED <<nsStatus, apps, task, plans, conts>>
       ELSE LET first == FirstGroup(Known) IN
            /\ nsStatus' = "STOPPING"
            /\ GroupStop(first)
            /\ conts' = Append(conts, [wait |-> first, rest |-> Known \ first])
    /\ UNCHANGED <<detached, blocked, lastApps, queue, pc, snap, scan, closed, recon,
                   net, docker, apiVars, calls, faults>>

\* doRegenerate, first section: the detached set is copied, the lock released
\* for the I/O that resolves the digests.
RegenBegin ==
    /\ Applying("regenerate")
    /\ lastApps' = Head(todo).apps
    /\ snap' = detached
    /\ nsStatus' = "STARTING"
    /\ pc' = "regen"
    /\ UNCHANGED <<apps, detached, blocked, queue, todo, conts, scan, plans, closed,
                   workVars, apiVars, calls, faults>>

\* A name no longer desired: its container is swept and the entry removed.
Removed(app, swept) ==
    [SetAppStatus(app, IF swept THEN "STOPPING" ELSE "STOPPED")
     EXCEPT !.marked = TRUE, !.next = ""]

\* Mutation of Recreated: what follows the sweep is not recorded.
RecreatedOnly(app, swept, def) ==
    [SetAppStatus(app, IF swept THEN "UPDATING" ELSE "READY_TO_PULL")
     EXCEPT !.def = def, !.next = ""]

\* A definition that changed: the container is swept and created again.
Recreated(app, swept, def) ==
    [SetAppStatus(app, IF swept THEN "UPDATING" ELSE "READY_TO_PULL")
     EXCEPT !.def = def, !.next = IF swept THEN "READY_TO_PULL" ELSE ""]

\* doRegenerate, second section: the diff against the copied detached set, the
\* transitions and the stop plans.  A new hash, or the proxy of a gateway that
\* is recreated, means a recreate; a name no longer desired means removal.
RegenCommit ==
    /\ At("regen")
    /\ LET want == Head(todo).apps
           W == DOMAIN want
           recreated == \E g \in Gateways \cap (W \ snap) :
                            g \notin Known \/ apps[g].def # want[g]
           gone == Known \ W
           changed == {a \in (Known \cap W) \ snap :
                           apps[a].def # want[a] \/ (recreated /\ a \in Proxies)}
           swept == {a \in gone \cup changed : apps[a].cid}
       IN /\ apps' = [a \in Known \cup W |->
                CASE a \in gone -> Removed(apps[a], a \in swept)
                  [] a \in changed -> Recreated(apps[a], a \in swept, want[a])
                  [] a \in Known \cap W \cap snap ->
                       [SetAppStatus(apps[a], "STOPPED") EXCEPT !.def = want[a], !.next = ""]
                  [] a \in (Known \cap W) \ (snap \cup changed) -> apps[a]
                  [] OTHER -> Fresh(want[a], IF a \in snap THEN "STOPPED"
                                                            ELSE "READY_TO_PULL")]
          /\ task' = Cancelled(Cancelled(task, swept, Ops \ {"stop"}),
                               (gone \cup changed) \ swept, Ops)
          /\ plans' = {StopPlan(a) : a \in swept}
    /\ todo' = Tail(todo)
    /\ pc' = "apply"
    /\ snap' = {}
    /\ UNCHANGED <<nsStatus, detached, blocked, lastApps, queue, conts, scan, closed,
                   recon, net, docker, apiVars, calls, faults>>

\* select: shutdownComplete is closed.  The loop returns.
SelectExit ==
    /\ At("select") /\ closed
    /\ pc' = "exit"
    /\ UNCHANGED <<nsVars, queue, todo, snap, conts, scan, plans, closed, workVars,
                   apiVars, calls, faults>>
-----------------------------------------------------------------------------
(* runtimeLoop: applyWorkerResult.                                         *)
(* A Result is read and handled in one step, and ForgetTask frees its slot *)
(* in it: between the two only a Dispatch could intervene, and it would    *)
(* make the Result stale.                                                  *)

\* Frame of a handler that may transition one application and commit a plan.
Handled ==
    /\ pc' = "step"
    /\ UNCHANGED <<nsStatus, detached, lastApps, queue, todo, snap, conts, scan,
                   closed, recon, net, docker, apiVars, calls, faults>>

\* The handler's re-check failed: the Result is dropped.
Dropped == UNCHANGED <<apps, blocked, plans>>

Transition(a, s) == apps' = [apps EXCEPT ![a] = SetAppStatus(@, s)]

\* The next Result is one of operation o on a, and it is forgotten.
Result(a, o) ==
    /\ At("select")
    /\ task[a][o].ph \in {"ok", "err", "auth"}
    /\ task' = Forgotten(task, a, o)

\* handlePullResult (T5, T6).  An authentication failure pauses the retries.
ApplyPullResult(a) ==
    /\ Result(a, "pull")
    /\ IF a \notin In({"PULLING"}) THEN Dropped
       ELSE LET ph == task[a]["pull"].ph IN
            /\ Transition(a, IF ph = "ok" THEN "READY_TO_START" ELSE "PULL_FAILED")
            /\ blocked' = IF ph = "auth" THEN blocked \cup {a} ELSE blocked \ {a}
            /\ UNCHANGED plans
    /\ Handled

\* Mutation of AfterInit: the start does not wait for the init containers left.
AfterInitAlsoStart(a, i) ==
    {StartPlan(a)} \cup (IF i + 1 < InitContainers[a] THEN {InitPlan(a, i + 1)} ELSE {})

\* What follows init container i: the next one (T11) or the start (T12).
AfterInit(a, i) ==
    {IF i + 1 < InitContainers[a] THEN InitPlan(a, i + 1) ELSE StartPlan(a)}

\* handleInitResult (T10, T11, T12).
ApplyInitResult(a) ==
    /\ Result(a, "init")
    /\ IF a \notin In({"STARTING"}) THEN Dropped
       ELSE IF task[a]["init"].ph = "ok"
       THEN plans' = AfterInit(a, task[a]["init"].arg) /\ UNCHANGED <<apps, blocked>>
       ELSE Transition(a, "START_FAILED") /\ UNCHANGED <<blocked, plans>>
    /\ Handled

\* handleStartResult (T13, T14, T15): the startup probe or RUNNING.
ApplyStartResult(a) ==
    /\ Result(a, "start")
    /\ IF a \notin In({"STARTING"}) THEN Dropped
       ELSE IF task[a]["start"].ph # "ok"
       THEN Transition(a, "START_FAILED") /\ UNCHANGED <<blocked, plans>>
       ELSE IF a \in Probed
       THEN /\ apps' = [apps EXCEPT ![a].cid = TRUE]
            /\ plans' = {[app |-> a, op |-> "probe", arg |-> 0]}
            /\ UNCHANGED blocked
       ELSE /\ apps' = [apps EXCEPT ![a] = [SetAppStatus(@, "RUNNING") EXCEPT !.cid = TRUE]]
            /\ UNCHANGED <<blocked, plans>>
    /\ Handled

\* handleProbeResult (T16, T16b).
ApplyProbeResult(a) ==
    /\ Result(a, "probe")
    /\ IF a \notin In({"STARTING"}) THEN Dropped
       ELSE /\ Transition(a, IF task[a]["probe"].ph = "ok" THEN "RUNNING"
                                                           ELSE "START_FAILED")
            /\ UNCHANGED <<blocked, plans>>
    /\ Handled

\* Mutation of AfterStop: nothing to go on to is not looked at.
AfterStopNext(a) == apps[a].next

\* Where a completed stop leads: a detach overrides a pending restart.
AfterStop(a) ==
    IF a \in detached \/ apps[a].next = "" THEN "STOPPED" ELSE apps[a].next

\* handleStopResult (T21, T22).
ApplyStopResult(a) ==
    /\ Result(a, "stop")
    /\ IF a \notin In(Going) THEN Dropped
       ELSE /\ IF task[a]["stop"].ph # "ok"
               THEN apps' = [apps EXCEPT ![a] =
                        [SetAppStatus(@, "STOPPING_FAILED") EXCEPT !.next = ""]]
               ELSE apps' = [apps EXCEPT ![a] =
                        [SetAppStatus(@, AfterStop(a)) EXCEPT !.next = "", !.cid = FALSE]]
            /\ UNCHANGED <<blocked, plans>>
    /\ Handled

\* handleLivenessProbeResult, first section: a failure at the threshold goes
\* on to the diagnostics, with the lock released and the slot still taken.
ApplyLivenessResult(a) ==
    /\ At("select")
    /\ task[a]["live"].ph \in {"ok", "err"}
    /\ LET failed == task[a]["live"].ph = "err"
           fails == apps[a].fails + 1
       IN IF a \notin In({"RUNNING"})
          THEN UNCHANGED apps /\ task' = Forgotten(task, a, "live") /\ pc' = "step"
          ELSE /\ apps' = [apps EXCEPT ![a].fails = IF failed THEN fails ELSE 0]
               /\ IF failed /\ fails >= Threshold
                  THEN task' = [task EXCEPT ![a]["live"].ph = "diag"] /\ pc' = "diag"
                  ELSE task' = Forgotten(task, a, "live") /\ pc' = "step"
    /\ UNCHANGED <<nsStatus, detached, blocked, lastApps, queue, todo, snap, conts,
                   scan, plans, closed, recon, net, docker, apiVars, calls, faults>>

\* Mutation of StillRunning: the status is not checked again.
StillKnown(a) == a \in Known

\* The check repeated once the diagnostics are captured.
StillRunning(a) == a \in In({"RUNNING"})

\* handleLivenessProbeResult, second section (T17a).
LivenessRestart(a) ==
    /\ At("diag")
    /\ task[a]["live"].ph = "diag"
    /\ task' = Forgotten(task, a, "live")
    /\ IF ~StillRunning(a) THEN Dropped
       ELSE /\ apps' = [apps EXCEPT ![a] =
                    [SetAppStatus(@, "UPDATING") EXCEPT !.next = "READY_TO_PULL"]]
            /\ plans' = {StopPlan(a)}
            /\ UNCHANGED blocked
    /\ Handled

\* The applications a diff restarts.  Only their status is checked again.
Missing == recon.apps \cap In({"RUNNING"})

\* handleReconcileDiffResult (T18).
ApplyReconcileResult ==
    /\ At("select")
    /\ recon.ph \in {"ok", "err"}
    /\ recon' = [ph |-> "none", apps |-> {}]
    /\ apps' = [a \in Known |-> IF recon.ph = "ok" /\ a \in Missing
                   THEN [SetAppStatus(apps[a], "READY_TO_PULL") EXCEPT !.cid = FALSE]
                   ELSE apps[a]]
    /\ pc' = "step"
    /\ UNCHANGED <<nsStatus, detached, blocked, lastApps, queue, todo, snap, conts,
                   scan, plans, closed, task, net, docker, apiVars, calls, faults>>

\* handleRemoveNetworkResult: every application is reset, the loop may exit.
ApplyRemoveNetworkResult ==
    /\ At("select")
    /\ net = "done"
    /\ net' = "none"
    /\ apps' = [a \in Known |-> Fresh(apps[a].def, "STOPPED")]
    /\ nsStatus' = "STOPPED"
    /\ closed' = TRUE
    /\ pc' = "step"
    /\ UNCHANGED <<detached, blocked, lastApps, queue, todo, snap, conts, scan, plans,
                   task, recon, docker, apiVars, calls, faults>>
-----------------------------------------------------------------------------
(* runtimeLoop: the ticker, and the tail of an iteration.                  *)

\* A stop that neither progresses nor reports costs no fault to time out.
Stuck(a) == task[a]["stop"].ph \in {"none", "hung"}

\* tickUnderLock: the stop budgets exhausted (T23), the liveness probes and
\* the diff that are due.  A tick at which nothing is due is also what the
\* signal arm of the select does: it only lets the tail run.
TickWith(over, due, diff) ==
    /\ At("select")
    /\ \A a \in over : held[a] = 0
    /\ faults + Cardinality({a \in over : ~Stuck(a)}) <= MaxFaults
    /\ due \subseteq {a \in In({"RUNNING"}) \cap Watched : apps[a].cid}
    /\ (due # {} \/ diff) => nsStatus \in {"RUNNING", "STALLED"}
    /\ diff => Reconciling
    /\ apps' = [a \in Known |-> IF a \in over
                   THEN [SetAppStatus(apps[a], "STOPPING_FAILED") EXCEPT !.next = ""]
                   ELSE apps[a]]
    /\ task' = Cancelled(task, over, {"stop"})
    /\ plans' = {[app |-> a, op |-> "live", arg |-> 0] : a \in due}
    /\ recon' = IF diff THEN [ph |-> "run", apps |-> In({"RUNNING"})] ELSE recon
    /\ faults' = faults + Cardinality({a \in over : ~Stuck(a)})
    /\ pc' = "step"
    /\ UNCHANGED <<nsStatus, detached, blocked, lastApps, queue, todo, snap, conts,
                   scan, closed, net, docker, apiVars, calls>>

Tick == \E over \in SUBSET In(Going), due \in SUBSET In({"RUNNING"}), diff \in BOOLEAN :
            TickWith(over, due, diff)

\* Mutation of Movable: detached applications are not skipped.
MovableAll(live) == live

\* stepAllApps leaves a detached application where it is.
Movable(live) == live \ detached

\* stepAllApps, given the applications whose backoff is over (T2, T3, T7, T8,
\* T9, T24, T25, T31, T32).  Nothing moves while the namespace stops.
StepAllWith(over) ==
    /\ At("step")
    /\ LET live == {a \in Known : ~(apps[a].marked /\ Status(a) = "STOPPED")}
           in(s) == {a \in Movable(live) : Status(a) = s}
           pull == in("READY_TO_PULL") \ Imageless
           begin == {a \in in("READY_TO_START") \cup in("DEPS_WAITING") :
                        DepsSatisfied(a, live)}
           wait == in("READY_TO_START") \ begin
           ready == (in("READY_TO_PULL") \cap Imageless) \cup (in("START_FAILED") \cap over)
           again == (in("PULL_FAILED") \cap over) \ blocked
           heal == in("STOPPING_FAILED") \cap over
           stepped == [a \in live |->
               CASE a \in pull  -> SetAppStatus(apps[a], "PULLING")
                 [] a \in begin -> SetAppStatus(apps[a], "STARTING")
                 [] a \in wait  -> SetAppStatus(apps[a], "DEPS_WAITING")
                 [] a \in ready -> SetAppStatus(apps[a], "READY_TO_START")
                 [] a \in again -> SetAppStatus(apps[a], "READY_TO_PULL")
                 [] a \in heal  -> [SetAppStatus(apps[a], "UPDATING") EXCEPT !.next =
                                        IF apps[a].marked THEN "" ELSE "READY_TO_PULL"]
                 [] OTHER -> apps[a]]
       IN IF nsStatus = "STOPPING" THEN UNCHANGED <<apps, plans>>
          ELSE /\ apps' = stepped
               /\ plans' = {PullPlan(a) : a \in pull} \cup {FirstPlan(a) : a \in begin}
                           \cup {StopPlan(a) : a \in heal}
    /\ IF conts = <<>> THEN pc' = "status" /\ UNCHANGED scan
       ELSE pc' = "eval" /\ scan' = [at |-> 0, end |-> Len(conts)]
    /\ UNCHANGED <<nsStatus, detached, blocked, lastApps, queue, todo, snap, conts,
                   closed, workVars, apiVars, calls, faults>>

\* Mutation of BackingOff: a failed stop is never retried.
BackingOffButStops == In({"PULL_FAILED", "START_FAILED"})

\* The statuses that stepAllApps retries after a backoff.
BackingOff == In({"PULL_FAILED", "START_FAILED", "STOPPING_FAILED"})
StepAll == \E over \in SUBSET BackingOff : StepAllWith(over)

\* Mutation of Drained: a stop under way is as good as a stop.
DrainedSoon(G) == G \cap Known \subseteq In(Terminal \cup Going)

\* allAppsTerminalInGroup.
Drained(G) == G \cap Known \subseteq In(Terminal)

\* evaluateContinuations, one continuation.  One that fires is removed and its
\* cmdStopNextGroup applied inline; what it appends is left to the next pass.
EvalNext ==
    /\ At("eval") /\ scan.at < scan.end
    /\ LET i == scan.at + 1
           c == conts[i]
           others == [j \in 1..(Len(conts) - 1) |-> conts[IF j < i THEN j ELSE j + 1]]
           next == FirstGroup(c.rest)
       IN IF Drained(c.wait)
          THEN /\ scan' = [scan EXCEPT !.end = @ - 1]
               /\ IF c.rest = {}
                  THEN conts' = others /\ net' = "run" /\ UNCHANGED <<apps, task, plans>>
                  ELSE /\ GroupStop(next \cap Known)
                       /\ conts' = Append(others, [wait |-> next, rest |-> c.rest \ next])
                       /\ UNCHANGED net
          ELSE scan' = [scan EXCEPT !.at = i] /\ UNCHANGED <<conts, net, apps, task, plans>>
    /\ UNCHANGED <<nsStatus, detached, blocked, lastApps, queue, todo, pc, snap, closed,
                   recon, docker, apiVars, calls, faults>>

EvalDone ==
    /\ At("eval") /\ scan.at = scan.end
    /\ pc' = "status"
    /\ scan' = [at |-> 0, end |-> 0]
    /\ UNCHANGED <<nsVars, queue, todo, snap, conts, plans, closed, workVars,
                   apiVars, calls, faults>>

\* checkStatus.  Detached applications do not count.
NsDerived ==
    LET counted == Known \ detached IN
    IF nsStatus \notin {"STARTING", "RUNNING", "STALLED"} THEN nsStatus
    ELSE CASE counted \cap In({"START_FAILED", "PULL_FAILED"}) # {} -> "STALLED"
           [] Known # {} /\ counted \subseteq In({"RUNNING"}) -> "RUNNING"
           [] OTHER -> IF nsStatus = "STALLED" THEN "STARTING" ELSE nsStatus

\* updateNsStatus ends the iteration.
UpdateNsStatus ==
    /\ At("status")
    /\ nsStatus' = NsDerived
    /\ pc' = "select"
    /\ UNCHANGED <<apps, detached, blocked, lastApps, queue, todo, snap, conts, scan,
                   plans, closed, workVars, apiVars, calls, faults>>
-----------------------------------------------------------------------------
(* The workers and the Docker daemon.  A cancelled worker never succeeds:  *)
(* success seen before the cancellation is a Result already posted.  What  *)
(* a superseded worker still does to a container is not modelled.          *)

WorkerFrame == UNCHANGED <<nsVars, loopVars, recon, net, apiVars, calls>>

Post(a, o, ph) == task' = [task EXCEPT ![a][o].ph = ph]
Free == UNCHANGED faults
Fault == faults < MaxFaults /\ faults' = faults + 1

\* The operations that only observe, and what they need to succeed.
Succeeds(a, o) == o \in {"probe", "live"} => docker[a].state = "running"

\* runPullTask, runInitContainerTask, waitForStartup, runLivenessProbe.
WorkerEnds(a, o) ==
    /\ task[a][o].ph = "run"
    /\ \/ Succeeds(a, o) /\ ~task[a][o].cancel /\ Post(a, o, "ok") /\ Free
       \/ (task[a][o].cancel \/ ~Succeeds(a, o)) /\ Post(a, o, "err") /\ Free
       \/ Post(a, o, "err") /\ Fault
       \/ o = "pull" /\ Post(a, o, "auth") /\ Fault
    /\ UNCHANGED docker
    /\ WorkerFrame

\* runStopTask: the container is stopped, then removed, by name.  A failed or
\* cancelled attempt may have done the first, or both.
StopWorker(a) ==
    /\ \/ /\ task[a]["stop"].ph = "run" /\ ~task[a]["stop"].cancel
          /\ Post(a, "stop", "ok") /\ Free
          /\ docker' = [docker EXCEPT ![a] = NoContainer]
       \/ /\ task[a]["stop"].ph = "run"
          /\ Post(a, "stop", "hung") /\ Fault
          /\ UNCHANGED docker
       \/ /\ task[a]["stop"].ph \in {"run", "hung"}
          /\ Post(a, "stop", "err")
          /\ IF task[a]["stop"].cancel THEN Free ELSE task[a]["stop"].ph = "run" /\ Fault
          /\ \/ UNCHANGED docker
             \/ /\ docker[a].state = "running"
                /\ docker' = [docker EXCEPT ![a].state = "exited"]
             \/ /\ task[a]["stop"].cancel
                /\ docker' = [docker EXCEPT ![a] = NoContainer]
    /\ WorkerFrame

\* runStartTask: remove what has the name (an error is ignored), create, start.
\* A cancelled request returns an error, and the daemon may still perform it.
StartClean(a) ==
    /\ task[a]["start"].ph = "run" /\ ~task[a]["start"].cancel
    /\ Post(a, "start", "create")
    /\ \/ docker' = [docker EXCEPT ![a] = NoContainer] /\ Free
       \/ UNCHANGED docker /\ Fault

StartCreate(a) ==
    /\ task[a]["start"].ph = "create" /\ docker[a].state = "none"
    /\ docker' = [docker EXCEPT ![a] = [state |-> "created", def |-> task[a]["start"].arg]]
    /\ Post(a, "start", IF task[a]["start"].cancel THEN "err" ELSE "start")
    /\ Free

StartRun(a) ==
    /\ task[a]["start"].ph = "start" /\ docker[a].state = "created"
    /\ docker' = [docker EXCEPT ![a].state = "running"]
    /\ Post(a, "start", IF task[a]["start"].cancel THEN "err" ELSE "ok")
    /\ Free

\* Cancelled, refused by the daemon (the name is taken, the container is gone),
\* or failed for a reason of its own.
StartFails(a) ==
    LET t == task[a]["start"]
        refused == \/ t.ph = "create" /\ docker[a].state # "none"
                   \/ t.ph = "start" /\ docker[a].state # "created"
    IN /\ t.ph \in {"run", "create", "start"}
       /\ IF t.cancel \/ refused THEN Free ELSE Fault
       /\ Post(a, "start", "err")
       /\ UNCHANGED docker

StartWorker(a) ==
    /\ StartClean(a) \/ StartCreate(a) \/ StartRun(a) \/ StartFails(a)
    /\ WorkerFrame

\* runReconcileDiffTask: one list of the running containers is compared with
\* the snapshot taken when the task was dispatched.
ReconcileWorker ==
    /\ recon.ph = "run"
    /\ \/ /\ recon' = [ph |-> "ok",
                      apps |-> {a \in recon.apps : docker[a].state # "running"}]
          /\ Free
       \/ recon' = [ph |-> "err", apps |-> {}] /\ Fault
    /\ UNCHANGED <<nsVars, loopVars, task, net, docker, apiVars, calls>>

\* sweepLeftoverContainers, then RemoveNetwork: a container may resist.
RemoveNetworkWorker ==
    /\ net = "run"
    /\ net' = "done"
    /\ \E left \in SUBSET {a \in Apps : docker[a].state # "none"} :
        /\ faults + Cardinality(left) <= MaxFaults
        /\ faults' = faults + Cardinality(left)
        /\ docker' = [a \in Apps |-> IF a \in left THEN docker[a] ELSE NoContainer]
    /\ UNCHANGED <<nsVars, loopVars, task, recon, apiVars, calls>>

\* A container dies: a crash of the application, or the OOM killer.
Crash(a) ==
    /\ docker[a].state = "running"
    /\ docker' = [docker EXCEPT ![a].state = "exited"]
    /\ Fault
    /\ UNCHANGED <<nsVars, loopVars, task, recon, net, apiVars, calls>>
-----------------------------------------------------------------------------
(* The API goroutines (runtime_commands.go).                               *)

Call(op) == op \in Calls /\ calls < MaxCalls /\ calls' = calls + 1

APIFrame == UNCHANGED <<nsStatus, lastApps, todo, pc, snap, conts, scan, plans, closed,
                        recon, net, docker, faults>>

Hold(a) == held' = [held EXCEPT ![a] = @ + 1]

\* StopApp (T19, T19b, T19c): the detach is recorded whatever the status.
StopApp(a) ==
    /\ Call("StopApp") /\ a \in Known
    /\ detached' = detached \cup {a}
    /\ CASE Status(a) \in Containerless ->
              /\ apps' = [apps EXCEPT ![a] = [SetAppStatus(@, "STOPPED") EXCEPT !.cid = FALSE]]
              /\ task' = Cancelled(task, {a}, Ops)
              /\ UNCHANGED held
         [] Status(a) \in {"STARTING", "RUNNING", "START_FAILED", "STOPPING_FAILED"} ->
              /\ apps' = [apps EXCEPT ![a] = [SetAppStatus(@, "STOPPING") EXCEPT !.next = ""]]
              /\ task' = Cancelled(task, {a}, Ops \ {"stop"})
              /\ Hold(a)
         [] Status(a) = "UPDATING" ->
              /\ apps' = [apps EXCEPT ![a] = [SetAppStatus(@, "STOPPING") EXCEPT !.next = ""]]
              /\ UNCHANGED <<task, held>>
         [] OTHER -> UNCHANGED <<apps, task, held>>
    /\ UNCHANGED <<blocked, queue, restarting>>
    /\ APIFrame

\* StartApp (T27 to T30).  A running application is left alone, one that is on
\* its way is handed to RestartApp.
StartApp(a) ==
    /\ Call("StartApp") /\ a \in Known /\ Status(a) # "RUNNING"
    /\ CASE Status(a) \in {"STOPPED", "READY_TO_PULL", "PULL_FAILED"} ->
              /\ Transition(a, "READY_TO_PULL")
              /\ detached' = detached \ {a}
              /\ UNCHANGED <<held, restarting>>
         [] Status(a) = "START_FAILED" ->
              /\ Transition(a, "READY_TO_START")
              /\ detached' = detached \ {a}
              /\ UNCHANGED <<held, restarting>>
         [] Status(a) = "STOPPING_FAILED" ->
              /\ apps' = [apps EXCEPT ![a] =
                     [SetAppStatus(@, "UPDATING") EXCEPT !.next = "READY_TO_PULL"]]
              /\ detached' = detached \ {a}
              /\ Hold(a)
              /\ UNCHANGED restarting
         [] OTHER ->
              /\ restarting[a] = "no"
              /\ restarting' = [restarting EXCEPT ![a] = "first"]
              /\ UNCHANGED <<apps, detached, held>>
    /\ UNCHANGED <<blocked, queue, task>>
    /\ APIFrame

\* RestartApp, first section: refused while the namespace stops, turned into a
\* regenerate for an application other configurations depend on.
RestartCheck(a) ==
    /\ IF nsStatus = "STOPPING" \/ a \notin Known
       THEN restarting' = [restarting EXCEPT ![a] = "no"] /\ UNCHANGED queue
       ELSE IF a \in RegenOnRestart
       THEN /\ queue' = Append(queue, CmdRegenerate(lastApps, "", FALSE))
            /\ restarting' = [restarting EXCEPT ![a] = "no"]
       ELSE restarting' = [restarting EXCEPT ![a] = "second"] /\ UNCHANGED queue
    /\ UNCHANGED <<apps, detached, blocked, task, held>>
    /\ APIFrame

RestartApp(a) == Call("RestartApp") /\ restarting[a] = "no" /\ RestartCheck(a)

RestartDelegated(a) == restarting[a] = "first" /\ RestartCheck(a) /\ UNCHANGED calls

\* RestartApp, second section.  With no container known there is nothing to
\* stop, and a third section moves the application on.
RestartSecond(a) ==
    /\ restarting[a] = "second"
    /\ LET live == a \in In({"RUNNING", "STARTING", "START_FAILED", "STOPPING_FAILED"})
           go == nsStatus # "STOPPING" /\ a \in Known
           to(s) == [SetAppStatus(apps[a], s) EXCEPT !.next = "READY_TO_PULL"]
       IN /\ detached' = IF go THEN detached \ {a} ELSE detached
          /\ restarting' = [restarting EXCEPT ![a] =
                               IF go /\ live /\ ~apps[a].cid THEN "third" ELSE "no"]
          /\ task' = IF go /\ live THEN Cancelled(task, {a}, Ops \ {"stop"}) ELSE task
          /\ IF go /\ live /\ apps[a].cid THEN Hold(a) ELSE UNCHANGED held
          /\ CASE go /\ (live \/ Status(a) \in Going) ->
                     apps' = [apps EXCEPT ![a] = to("UPDATING")]
               [] go /\ Status(a) \in {"STOPPED", "READY_TO_PULL", "PULL_FAILED"} ->
                     Transition(a, "READY_TO_PULL")
               [] OTHER -> UNCHANGED apps
    /\ UNCHANGED <<blocked, queue, calls>>
    /\ APIFrame

RestartThird(a) ==
    /\ restarting[a] = "third"
    /\ IF a \in In({"UPDATING"})
       THEN apps' = [apps EXCEPT ![a] =
                [SetAppStatus(@, "READY_TO_PULL") EXCEPT !.next = "", !.cid = FALSE]]
       ELSE UNCHANGED apps
    /\ restarting' = [restarting EXCEPT ![a] = "no"]
    /\ UNCHANGED <<detached, blocked, queue, task, held, calls>>
    /\ APIFrame

\* The tail of StopApp, StartApp and RestartApp: the stop is dispatched after
\* the lock was released.
APIDispatch(a) ==
    /\ held[a] > 0
    /\ held' = [held EXCEPT ![a] = @ - 1]
    /\ task' = Dispatched(task, StopPlan(a))
    /\ UNCHANGED <<apps, detached, blocked, queue, restarting, calls>>
    /\ APIFrame

\* RetryPullFailedApps (T26).
RetryPullFailedApps ==
    LET failed == In({"PULL_FAILED"}) IN
    /\ Call("RetryPullFailedApps") /\ failed # {}
    /\ apps' = [a \in Known |-> IF a \in failed THEN SetAppStatus(apps[a], "READY_TO_PULL")
                                               ELSE apps[a]]
    /\ blocked' = blocked \ failed
    /\ UNCHANGED <<detached, queue, task, held, restarting>>
    /\ APIFrame

\* Regenerate and Stop only enqueue.
Regenerate(want) ==
    /\ Call("Regenerate")
    /\ queue' = Append(queue, CmdRegenerate(want, "", FALSE))
    /\ UNCHANGED <<apps, detached, blocked, task, held, restarting>>
    /\ APIFrame

Stop ==
    /\ Call("Stop")
    /\ queue' = Append(queue, CmdStop)
    /\ UNCHANGED <<apps, detached, blocked, task, held, restarting>>
    /\ APIFrame
-----------------------------------------------------------------------------
(* The specification.                                                      *)

\* The loop, away from the select: it never blocks.
LoopInside ==
    \/ LoopDispatch \/ DrainNext \/ ApplyDone \/ DoStop \/ RegenBegin \/ RegenCommit
    \/ \E a \in Apps : LivenessRestart(a)
    \/ StepAll \/ EvalNext \/ EvalDone \/ UpdateNsStatus

ApplyAppResult(a) ==
    \/ ApplyPullResult(a) \/ ApplyInitResult(a) \/ ApplyStartResult(a)
    \/ ApplyProbeResult(a) \/ ApplyStopResult(a) \/ ApplyLivenessResult(a)

\* The arms of the select.
LoopSelect ==
    \/ SelectCommand \/ SelectExit \/ Tick
    \/ \E a \in Apps : ApplyAppResult(a)
    \/ ApplyReconcileResult \/ ApplyRemoveNetworkResult

AppWorker(a) ==
    \/ \E o \in {"pull", "init", "probe", "live"} : WorkerEnds(a, o)
    \/ StopWorker(a) \/ StartWorker(a)

APICall ==
    \/ \E a \in Apps : StopApp(a) \/ StartApp(a) \/ RestartApp(a)
    \/ RetryPullFailedApps \/ Stop
    \/ \E want \in DesiredSets : Regenerate(want)

APITail(a) ==
    RestartDelegated(a) \/ RestartSecond(a) \/ RestartThird(a) \/ APIDispatch(a)

Next ==
    \/ LoopInside \/ LoopSelect
    \/ \E a \in Apps : AppWorker(a) \/ Crash(a) \/ APITail(a)
    \/ ReconcileWorker \/ RemoveNetworkWorker
    \/ APICall

Spec == Init /\ [][Next]_vars

\* The stop budgets that run out because nothing will ever answer.
Overdue == {a \in In(Going) : Stuck(a) /\ held[a] = 0}

\* Fairness.  Each goroutine keeps running.  select picks at random among the
\* arms that are ready, so an arm that stays ready, or is ready again and again,
\* is taken; time passes, so that a budget runs out, a backoff ends, and the
\* periodic diff and probes come due.
Fairness ==
    /\ WF_vars(LoopInside) /\ WF_vars(LoopSelect)
    /\ \A a \in Apps : WF_vars(StopWorker(a)) /\ WF_vars(StartWorker(a))
    /\ \A a \in Apps, o \in {"pull", "init", "probe", "live"} : WF_vars(WorkerEnds(a, o))
    /\ \A a \in Apps : WF_vars(APITail(a))
    /\ WF_vars(ReconcileWorker) /\ WF_vars(RemoveNetworkWorker)
    /\ SF_vars(SelectCommand) /\ SF_vars(SelectExit)
    /\ SF_vars(\E a \in Apps : ApplyAppResult(a))
    /\ SF_vars(ApplyReconcileResult) /\ SF_vars(ApplyRemoveNetworkResult)
    /\ SF_vars(Overdue # {} /\ TickWith(Overdue, {}, FALSE))
    /\ SF_vars(recon.ph = "none" /\ TickWith({}, {}, TRUE))
    /\ SF_vars(BackingOff # {} /\ StepAllWith(BackingOff))

FairSpec == Spec /\ Fairness
=============================================================================
