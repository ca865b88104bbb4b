------------------------------ MODULE Adoption ------------------------------
(***************************************************************************)
(* How a namespace is taken over: the runtime's doStart, which compares    *)
(* what is wanted with the containers it finds and adopts, recreates or    *)
(* removes them, the ways in which a runtime ends (a stop, a detach before *)
(* the daemon is replaced, a crash), and what the next daemon reads of it. *)
(*                                                                         *)
(* Docker outlives the daemon, and so does the saved state, which the      *)
(* loop's tail writes after the command that changed it.  doStart works    *)
(* with a copy of the detached set while it talks to Docker, and so does   *)
(* doRegenerate.  A container is abstracted to the hash on its label;      *)
(* nginx in the proxy keeps the address of the gateway it started with.    *)
(***************************************************************************)
EXTENDS Naturals

CONSTANTS
  Apps, Gateway, Proxy,
  PortApp,        \* the application that publishes a fixed port of the host
  MaxHash,        \* bound: versions of a definition
  MaxOps,         \* bound: what operators, other namespaces and Docker do
  MaxCrashes,
  AdoptionFaults  \* subset of {"unsaved", "midstop", "midfollow", "during", "list",
                  \*            "remove", "dies", "restart", "reload", "slow"}

VARIABLES
  want,      \* the hash of each application's definition, 0 for none
  ctr,       \* the container of each application
  stale,     \* the proxy's container holds the address of a gateway that is gone
  port,      \* who holds the port of PortApp but PortApp
  saved,     \* the persisted status and detached set
  up,        \* a daemon runs
  loop,      \* its runtime loop
  status, detached, st, def,   \* r.status, manualStoppedApps, and of r.apps the Status and Def
  stops,     \* applications whose container a worker stops
  cmd,       \* the command in the queue
  plan,      \* doStart or doRegenerate under way
  dirty,     \* r.dirty
  asked,     \* what the operator asked of the namespace last
  ops, crashes

vars == <<want, ctr, stale, port, saved, up, loop, status, detached, st, def, stops, cmd,
          plan, dirty, asked, ops, crashes>>
docker == <<ctr, stale>>
operators == <<want, port, asked, ops, crashes>>

Absent == [hash |-> 0, running |-> FALSE]
Idle == [pc |-> "idle", det |-> {}, seen |-> {}, reuse |-> {}]
NoApps == [a \in Apps |-> "none"]

Desired == {a \in Apps : want[a] # 0}
Exists(a) == ctr[a].hash # 0
Op == ops < MaxOps /\ ops' = ops + 1
Fault(f) == f \in AdoptionFaults

Init ==
  /\ want = [a \in Apps |-> 1]
  /\ ctr = [a \in Apps |-> Absent] /\ stale = FALSE /\ port = "free"
  /\ saved = [status |-> "NONE", detached |-> {}]
  /\ up = FALSE /\ loop = "none" /\ status = "STOPPED" /\ detached = {}
  /\ st = NoApps /\ def = [a \in Apps |-> 0] /\ stops = {}
  /\ cmd = "none" /\ plan = Idle /\ dirty = FALSE
  /\ asked = "start" /\ ops = 0 /\ crashes = 0
-----------------------------------------------------------------------------
(* The daemon begins and ends.                                             *)

\* An interrupted stop is finished by staying stopped.
ShouldStart(s) == s \notin {"STOPPING", "STOPPED"}

Boot ==
  /\ ~up /\ up' = TRUE
  /\ detached' = saved.detached
  /\ IF ShouldStart(saved.status) THEN loop' = "on" /\ cmd' = "start"
                                  ELSE UNCHANGED <<loop, cmd>>
  /\ UNCHANGED <<docker, operators, saved, status, st, def, stops, plan, dirty>>

\* Nothing of the daemon is left; its workers are gone with it.
Gone ==
  /\ up' = FALSE /\ loop' = "none" /\ status' = "STOPPED" /\ detached' = {}
  /\ st' = NoApps /\ def' = [a \in Apps |-> 0] /\ stops' = {}
  /\ cmd' = "none" /\ plan' = Idle /\ dirty' = FALSE
  /\ UNCHANGED <<want, ctr, stale, port, asked, ops>>

\* What a daemon with the saved status s leaves in Docker, and the next one does not
\* know of: a container about to be stopped, a proxy about to follow the gateway.
LeavesWork(s) ==
  \/ \E a \in Apps : ctr[a].running /\ (a \in detached \/ ~ShouldStart(s))
  \/ stale

Crash ==
  /\ up /\ crashes < MaxCrashes /\ crashes' = crashes + 1
  /\ \/ ShouldStart(saved.status) = (asked = "start") /\ saved.detached = detached
     \/ Fault("unsaved")
  /\ stale => Fault("midfollow")
  /\ LeavesWork(saved.status) /\ ~stale => Fault("midstop")
  /\ Gone /\ UNCHANGED saved

\* ShutdownDetached, Detach, doDetach: the state is persisted and the containers
\* are left to the next daemon.  A stop under way is waited for instead.
Detach ==
  /\ up /\ loop = "on" /\ cmd = "none" /\ plan.pc = "idle" /\ status # "STOPPING" /\ Op
  /\ stale => Fault("midfollow")
  /\ LeavesWork(status) /\ ~stale => Fault("midstop")
  /\ saved' = [status |-> status, detached |-> detached]
  /\ up' = FALSE /\ loop' = "none" /\ status' = "STOPPED" /\ detached' = {}
  /\ st' = NoApps /\ def' = [a \in Apps |-> 0] /\ stops' = {}
  /\ cmd' = "none" /\ plan' = Idle /\ dirty' = FALSE
  /\ UNCHANGED <<want, ctr, stale, port, asked, crashes>>

Exit == up /\ loop = "none" /\ ~dirty /\ Gone /\ UNCHANGED <<saved, crashes>>
-----------------------------------------------------------------------------
(* The operator.                                                           *)

\* Start of a stopped namespace waits until the last loop has ended, but for a
\* bounded time, after which it is ignored.
Start ==
  /\ up /\ status = "STOPPED" /\ cmd = "none" /\ Op /\ asked' = "start"
  /\ \/ loop = "none" /\ loop' = "on" /\ cmd' = "start" /\ st' = NoApps
     \/ loop = "ending" /\ Fault("slow") /\ UNCHANGED <<loop, cmd, st>>
  /\ UNCHANGED <<docker, want, port, crashes, saved, up, status, detached, def, stops, plan, dirty>>

Stop ==
  /\ loop = "on" /\ cmd = "none" /\ plan.pc = "idle" /\ status # "STOPPING" /\ Op
  /\ cmd' = "stop" /\ asked' = "stop"
  /\ UNCHANGED <<docker, want, port, crashes, saved, up, loop, status, detached, st, def, stops, plan, dirty>>

\* A definition changes: by an edit and a reload, while the namespace is down, or
\* because the next daemon generates another one.  What leaves and returns while
\* it is being removed is the runtime's own matter.  Only a start frees ports: what
\* a reload adds may find its port held.
Change(a, h) ==
  /\ cmd = "none" /\ plan.pc = "idle" /\ want[a] # h /\ Op
  /\ want[a] = 0 => st[a] = "none"
  /\ a = PortApp /\ want[a] = 0 /\ loop = "on" => port # "ours" \/ Fault("reload")
  /\ want' = [want EXCEPT ![a] = h]
  /\ cmd' = IF loop = "on" /\ status # "STOPPING" THEN "regenerate" ELSE "none"
  /\ UNCHANGED <<docker, port, asked, crashes, saved, up, loop, status, detached, st, def, stops,
                 plan, dirty>>

\* StopApp records the intent first, and at once on disk.
StopApp(a) ==
  /\ up /\ st[a] # "none" /\ want[a] # 0 /\ a \notin detached /\ Op
  /\ plan.pc # "idle" => Fault("during")
  /\ detached' = detached \cup {a}
  /\ saved' = [status |-> status, detached |-> detached'] /\ dirty' = FALSE
  /\ st' = [st EXCEPT ![a] = IF @ \in {"queued", "stopped"} THEN "stopped" ELSE "stopping"]
  /\ stops' = IF st[a] \in {"running", "failed"} THEN stops \cup {a} ELSE stops
  /\ UNCHANGED <<docker, want, port, asked, crashes, up, loop, status, def, cmd, plan>>

StartApp(a) ==
  /\ loop = "on" /\ plan.pc = "idle" /\ status # "STOPPING"
  /\ a \in detached /\ st[a] = "stopped" /\ Op
  /\ a = Gateway => Fault("restart")
  /\ detached' = detached \ {a} /\ dirty' = TRUE
  /\ st' = [st EXCEPT ![a] = "queued"]
  /\ UNCHANGED <<docker, want, port, asked, crashes, saved, up, loop, status, def, stops, cmd, plan>>
-----------------------------------------------------------------------------
(* doStart.                                                                *)

\* The desired set is published before anything is asked of Docker.
Seed ==
  /\ loop = "on" /\ cmd = "start" /\ plan.pc = "idle"
  /\ plan' = [Idle EXCEPT !.pc = "ports", !.det = detached]
  /\ status' = "STARTING" /\ dirty' = TRUE
  /\ st' = [a \in Apps |-> IF a \notin Desired THEN "none"
                           ELSE IF a \in detached THEN "stopped" ELSE "queued"]
  /\ def' = want
  /\ UNCHANGED <<docker, operators, saved, up, loop, detached, stops, cmd>>

\* A container of another namespace of ours that holds a port we want is removed,
\* one that is not ours is left alone.
ResolveHostPortConflicts ==
  /\ plan.pc = "ports" /\ plan' = [plan EXCEPT !.pc = "list"]
  /\ \/ port' = IF port = "ours" /\ PortApp \in Desired THEN "free" ELSE port
     \/ Fault("list") /\ UNCHANGED port
  /\ UNCHANGED <<docker, want, asked, ops, crashes, saved, up, loop, status, detached, st, def, stops,
                 cmd, dirty>>

\* What is up to date and runs is kept, unless it is the proxy of a gateway that is not.
Matches(a, det) == a \notin det /\ ctr[a].running /\ ctr[a].hash = want[a]

\* Mutation of Reused: the proxy is looked at by itself.
ReusedAlone(seen, det) == {a \in seen \cap Desired : Matches(a, det)}

Reused(seen, det) ==
  {a \in seen \cap Desired :
     /\ Matches(a, det)
     /\ a = Proxy /\ Gateway \in Desired => Gateway \in seen /\ Matches(Gateway, det)}

BuildExistingContainerMap ==
  /\ plan.pc = "list"
  /\ \E seen \in {{a \in Apps : Exists(a)}} \cup (IF Fault("list") THEN {{}} ELSE {}) :
       plan' = [plan EXCEPT !.pc = "sweep", !.seen = seen, !.reuse = Reused(seen, plan.det)]
  /\ UNCHANGED <<docker, operators, saved, up, loop, status, detached, st, def, stops, cmd, dirty>>

\* Containers that nobody wants any more are removed, whatever comes of it.
RemoveUndesired ==
  /\ plan.pc = "sweep" /\ plan' = [plan EXCEPT !.pc = "inspect"]
  /\ \/ ctr' = [a \in Apps |-> IF a \in plan.seen \ Desired THEN Absent ELSE ctr[a]]
     \/ Fault("remove") /\ UNCHANGED ctr
  /\ UNCHANGED <<stale, operators, saved, up, loop, status, detached, st, def, stops, cmd, dirty>>

InspectReused ==
  /\ plan.pc = "inspect"
  /\ plan' = [plan EXCEPT !.pc = "commit", !.reuse = {a \in @ : ctr[a].running}]
  /\ UNCHANGED <<docker, operators, saved, up, loop, status, detached, st, def, stops, cmd, dirty>>

\* What doStart makes of an application, by the copy of the detached set.
Planned(a) ==
  IF a \notin Desired THEN "none"
  ELSE IF a \in plan.det THEN "stopped"
  ELSE IF a \in plan.reuse THEN "running"
  ELSE IF a \in plan.seen THEN "updating" ELSE "queued"

Commit ==
  /\ plan.pc = "commit" /\ plan' = Idle /\ cmd' = "none"
  /\ st' = [a \in Apps |-> Planned(a)]
  /\ stops' = {a \in Apps : Planned(a) = "updating"}
  /\ UNCHANGED <<docker, operators, saved, up, loop, status, detached, def, dirty>>
-----------------------------------------------------------------------------
(* doRegenerate, and what the reload plan says of it beforehand.           *)

BeginRegenerate ==
  /\ loop = "on" /\ cmd = "regenerate" /\ plan.pc = "idle" /\ ~dirty
  /\ plan' = [Idle EXCEPT !.pc = "regenerate", !.det = detached]
  /\ status' = "STARTING" /\ dirty' = TRUE
  /\ UNCHANGED <<docker, operators, saved, up, loop, detached, st, def, stops, cmd>>

\* The gateway is new or another one, and not detached.
GatewayRecreated ==
  Gateway \in Desired \ plan.det /\ (st[Gateway] = "none" \/ def[Gateway] # want[Gateway])

HasContainer(a) == st[a] \in {"running", "updating", "stopping", "failed"}

Regenerated(a) ==
  IF a \notin Desired THEN (IF HasContainer(a) THEN "stopping" ELSE "none")
  ELSE IF a \in plan.det THEN "stopped"
  ELSE IF st[a] = "none" THEN "queued"
  ELSE IF def[a] = want[a] /\ ~(a = Proxy /\ GatewayRecreated) THEN st[a]
  ELSE IF HasContainer(a) THEN "updating" ELSE "queued"

Regenerate ==
  /\ plan.pc = "regenerate" /\ plan' = Idle /\ cmd' = "none"
  /\ st' = [a \in Apps |-> Regenerated(a)]
  /\ stops' = stops \cup {a \in Apps : Regenerated(a) # st[a] /\ Regenerated(a) \in {"updating", "stopping"}}
  /\ def' = [a \in Apps |-> IF a \in Desired THEN want[a] ELSE def[a]]
  /\ UNCHANGED <<docker, operators, saved, up, loop, status, detached, dirty>>

\* PlanRegenerate: what it says of an application.
Verdict(a) ==
  CASE a \in Desired /\ a \in detached -> "detached"
    [] a \in Desired \ detached /\ st[a] = "none" -> "create"
    [] a \in Desired \ detached /\ st[a] # "none" -> IF def[a] = want[a] THEN "keep" ELSE "recreate"
    [] OTHER -> IF st[a] = "none" THEN "none" ELSE "remove"
-----------------------------------------------------------------------------
(* The rest of the loop, with its workers.                                 *)

\* The loop's tail.
PersistState ==
  /\ up /\ dirty /\ plan.pc = "idle" /\ dirty' = FALSE
  /\ saved' = [status |-> status, detached |-> detached]
  /\ UNCHANGED <<docker, operators, up, loop, status, detached, st, def, stops, cmd, plan>>

\* A container is created with the hash of its definition, in place of what is there.
CreateContainer(a) ==
  /\ loop = "on" /\ plan.pc = "idle" /\ status # "STOPPING"
  /\ st[a] = "queued" /\ a \notin detached \cup stops
  /\ a = Proxy /\ Gateway \in Desired => st[Gateway] = "running" \/ Gateway \in detached
  /\ IF a = PortApp /\ port # "free"
     THEN st' = [st EXCEPT ![a] = "failed"] /\ UNCHANGED docker
     ELSE /\ st' = [st EXCEPT ![a] = "running"]
          /\ ctr' = [ctr EXCEPT ![a] = [hash |-> def[a], running |-> TRUE]]
          /\ stale' = IF a = Proxy THEN FALSE ELSE stale \/ (a = Gateway /\ Exists(Proxy))
  /\ UNCHANGED <<operators, saved, up, loop, status, detached, def, stops, cmd, plan, dirty>>

\* START_FAILED is tried again after a while.
Retry(a) ==
  /\ loop = "on" /\ plan.pc = "idle" /\ status # "STOPPING" /\ st[a] = "failed" /\ port = "free"
  /\ st' = [st EXCEPT ![a] = "queued"]
  /\ UNCHANGED <<docker, operators, saved, up, loop, status, detached, def, stops, cmd, plan, dirty>>

StopAndRemoveContainer(a) ==
  /\ a \in stops /\ plan.pc = "idle" /\ stops' = stops \ {a}
  /\ ctr' = [ctr EXCEPT ![a] = Absent] /\ stale' = (stale /\ a # Proxy)
  /\ st' = [st EXCEPT ![a] = CASE @ = "updating" -> "queued"
                               [] @ = "stopping" -> IF a \in Desired THEN "stopped" ELSE "none"
                               [] OTHER -> @]
  /\ UNCHANGED <<operators, saved, up, loop, status, detached, def, cmd, plan, dirty>>

\* The reconciler finds that a container no longer runs.
Reconcile(a) ==
  /\ loop = "on" /\ plan.pc = "idle" /\ status # "STOPPING"
  /\ st[a] = "running" /\ ~ctr[a].running
  /\ st' = [st EXCEPT ![a] = "queued"]
  /\ UNCHANGED <<docker, operators, saved, up, loop, status, detached, def, stops, cmd, plan, dirty>>

UpdateNsStatus ==
  /\ loop = "on" /\ plan.pc = "idle" /\ status = "STARTING"
  /\ \A a \in Desired \ detached : st[a] = "running"
  /\ status' = "RUNNING" /\ dirty' = TRUE
  /\ UNCHANGED <<docker, operators, saved, up, loop, detached, st, def, stops, cmd, plan>>

DoStop ==
  /\ loop = "on" /\ cmd = "stop" /\ plan.pc = "idle" /\ ~dirty /\ cmd' = "none"
  /\ status' = "STOPPING" /\ dirty' = TRUE
  /\ st' = [a \in Apps |-> IF HasContainer(a) THEN "stopping"
                           ELSE IF st[a] = "none" THEN "none" ELSE "stopped"]
  /\ stops' = stops \cup {a \in Apps : HasContainer(a)}
  /\ UNCHANGED <<docker, operators, saved, up, loop, detached, def, plan>>

\* What the stops have left behind is swept before the network is removed.
StopEnds ==
  /\ loop = "on" /\ status = "STOPPING" /\ stops = {} /\ ~dirty
  /\ status' = "STOPPED" /\ dirty' = TRUE /\ loop' = "ending"
  /\ ctr' = [a \in Apps |-> Absent] /\ stale' = FALSE
  /\ UNCHANGED <<operators, saved, up, detached, st, def, stops, cmd, plan>>

LoopExits ==
  /\ loop = "ending" /\ ~dirty /\ loop' = "none"
  /\ UNCHANGED <<docker, operators, saved, up, status, detached, st, def, stops, cmd, plan, dirty>>
-----------------------------------------------------------------------------
(* Docker.                                                                 *)

\* A container dies.  A gateway that dies alone, under a runtime that restarts it
\* alone, leaves the proxy behind, and so does one that dies after doStart listed it.
Dies(a) ==
  /\ ctr[a].running /\ Op
  /\ a = Gateway => \/ ~up \/ Fault("restart")
                    \/ plan.pc \in {"sweep", "inspect"} /\ Fault("dies")
  /\ ctr' = [ctr EXCEPT ![a].running = FALSE]
  /\ UNCHANGED <<stale, want, port, asked, crashes, saved, up, loop, status, detached, st, def, stops,
                 cmd, plan, dirty>>

\* Another namespace, or a program that is none of ours, takes the port and leaves it.
HoldPort(who) ==
  /\ Op /\ port' = who
  /\ IF port # "free" THEN who = "free"
     ELSE /\ who \in {"ours", "late", "theirs"} /\ ~ctr[PortApp].running
          /\ who # "theirs" => (who = "late") = (loop = "on")
  /\ UNCHANGED <<docker, want, asked, crashes, saved, up, loop, status, detached, st, def, stops,
                 cmd, plan, dirty>>

Next ==
  \/ Boot \/ Crash \/ Detach \/ Exit \/ Start \/ Stop
  \/ \E a \in Apps, h \in 0 .. MaxHash : Change(a, h)
  \/ \E a \in Apps : StopApp(a) \/ StartApp(a)
  \/ Seed \/ ResolveHostPortConflicts \/ BuildExistingContainerMap \/ RemoveUndesired
  \/ InspectReused \/ Commit \/ BeginRegenerate \/ Regenerate
  \/ PersistState \/ UpdateNsStatus \/ DoStop \/ StopEnds \/ LoopExits
  \/ \E a \in Apps : CreateContainer(a) \/ Retry(a) \/ StopAndRemoveContainer(a) \/ Reconcile(a)
                     \/ Dies(a)
  \/ \E who \in {"free", "ours", "late", "theirs"} : HoldPort(who)

Spec == Init /\ [][Next]_vars
-----------------------------------------------------------------------------
(* Properties.                                                             *)

\* Nothing is left to do about what was asked.
Settled == up /\ plan.pc = "idle" /\ cmd = "none" /\ stops = {}

\* RUNNING says that Docker has what the configuration asks for and nothing else,
\* however many daemons it took: nothing detached and nothing removed runs.
Applied ==
  Settled /\ status = "RUNNING" =>
    \A a \in Apps : IF a \in Desired
                    THEN /\ st[a] = "running" => a \notin detached /\ ctr[a].hash = want[a]
                         /\ a \in detached => ~ctr[a].running
                    ELSE ~ctr[a].running

\* STOPPED says that nothing runs, whatever interrupted the stop.
StoppedIsStopped ==
  Settled /\ status = "STOPPED" => \A a \in Apps : ~ctr[a].running

\* The operator's last word on the namespace stands, also in the next daemon.
WordStands ==
  /\ up /\ asked = "start" => loop = "on"
  /\ Settled /\ asked = "stop" => status \in {"STOPPING", "STOPPED"}

\* A proxy that serves knows the gateway that runs.
ProxyFollows ==
  Settled /\ status = "RUNNING" /\ st[Proxy] = "running" /\ st[Gateway] = "running" => ~stale

\* An application whose container runs by the definition that is wanted is left
\* alone when a runtime starts or regenerates, the proxy's only if the gateway's is not.
KeepsWhatRuns ==
  plan.pc \in {"commit", "regenerate"} /\ plan'.pc = "idle" /\ up' =>
    \A a \in Desired \ plan.det :
      /\ Matches(a, plan.det) /\ (plan.pc = "commit" \/ st[a] = "running")
      => st'[a] = "running" \/ (a = Proxy /\ st'[Gateway] # "running")

\* A port that another namespace of ours held before the start is no reason to fail.
PortIsFreed == \A a \in Apps : st[a] # "failed" /\ st'[a] = "failed" => port \in {"theirs", "late"}

\* What the reload plan says of an application is what the reload does to it; that
\* the proxy follows the gateway it does not say.
PlanTells ==
  plan.pc = "regenerate" /\ plan'.pc = "idle" /\ up' =>
    \A a \in Apps :
      CASE Verdict(a) = "keep" -> st'[a] = st[a] \/ (a = Proxy /\ GatewayRecreated)
        [] Verdict(a) = "recreate" -> st'[a] \in {"updating", "queued"}
        [] Verdict(a) = "create" -> st'[a] = "queued"
        [] Verdict(a) = "detached" -> st'[a] = "stopped"
        [] OTHER -> st'[a] \in {"stopping", "none"}

\* The takeover as a whole.
AdoptionIsFaithful ==
  /\ [](Applied /\ StoppedIsStopped /\ WordStands /\ ProxyFollows)
  /\ [][KeepsWhatRuns /\ PortIsFreed /\ PlanTells]_vars
=============================================================================
