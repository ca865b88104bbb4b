--------------------------- MODULE NsRuntimeProps ---------------------------
(***************************************************************************)
(* Correctness properties of the namespace runtime.                        *)
(***************************************************************************)
EXTENDS NsRuntime

\* Every desired set, and every command the model enqueues.
Desired == UNION {[S -> Versions] : S \in SUBSET Apps}
Commands == {CmdStop} \cup {CmdRegenerate(want, "", FALSE) : want \in Desired}

\* The four parts of TypeOK: the fields of Runtime, the state of the loop, the
\* workers with what they act on, the API goroutines and the bounds.
NsTypeOK ==
    /\ nsStatus \in NsStatuses
    /\ DOMAIN apps \subseteq Apps
    /\ apps \in [DOMAIN apps -> AppRuntime]
    /\ detached \subseteq Apps /\ blocked \subseteq Apps
    /\ lastApps \in Desired

LoopTypeOK ==
    /\ queue \in Seq(Commands) /\ todo \in Seq(Commands)
    /\ pc \in LoopPhases
    /\ snap \subseteq Apps
    /\ conts \in Seq(Continuation)
    /\ scan \in [at: Nat, end: Nat]
    /\ plans \subseteq Plan
    /\ closed \in BOOLEAN

WorkTypeOK ==
    /\ task \in [Apps -> [Ops -> Task]]
    /\ recon \in [ph: {"none", "run", "ok", "err"}, apps: SUBSET Apps]
    /\ net \in {"none", "run", "done"}
    /\ docker \in [Apps -> Container]

ApiTypeOK ==
    /\ held \in [Apps -> Nat]
    /\ restarting \in [Apps -> {"no", "first", "second", "third"}]
    /\ calls \in 0..MaxCalls /\ faults \in 0..MaxFaults

\* The state of the runtime is well formed: every status, pending restart,
\* plan and task is one the code can assign.
TypeOK == NsTypeOK /\ LoopTypeOK /\ WorkTypeOK /\ ApiTypeOK
-----------------------------------------------------------------------------
(* Safety.                                                                 *)

\* An application the operator stopped (StopApp) is stopped, being stopped or
\* failed to stop, whatever result, timeout, retry or restart comes after the
\* stop, until the operator starts it again.
DetachedStaysDown ==
    \A x \in detached \cap Known : Status(x) \in {"STOPPED", "STOPPING", "STOPPING_FAILED"}

\* The same when reloads interfere: doRegenerate works on a copy of the detached
\* set and may queue such an application, or have it recreated, but it is never
\* pulled, started or running.
DetachedParked ==
    \A x \in detached \cap Known :
        Status(x) \in {"STOPPED", "STOPPING", "STOPPING_FAILED", "READY_TO_PULL", "UPDATING"}

\* The steps of a startup are sequential: at most one worker pulls, runs an init
\* container, starts, or waits for the startup probe of an application without
\* having been cancelled, however failures, probes and diffs interleave.
StartupIsSequential ==
    \A x \in Apps :
        Cardinality({o \in {"pull", "init", "start", "probe"} :
            task[x][o].ph # "none" /\ ~task[x][o].cancel}) <= 1

\* While the namespace stops there is one continuation or one network removal,
\* never two: a second stop does not start another chain (doStop).
OneStopChain ==
    nsStatus = "STOPPING" <=> Len(conts) + (IF net = "none" THEN 0 ELSE 1) = 1

\* The chain has removed every container: none runs once the loop may exit, not
\* even one that a start worker was about to start when the stop began.
NothingRunsAfterStop == closed => \A x \in Apps : docker[x].state # "running"

\* A namespace stops group by group: a running application that the operator did
\* not stop himself is not stopped before every application of an earlier group
\* is down (GracefulShutdownGroups).
StopsInOrder ==
    [][nsStatus = "STOPPING" /\ nsStatus' = "STOPPING" =>
        \A x \in Known \ detached' :
            Status(x) = "RUNNING" /\ apps'[x].status = "STOPPING" =>
                \A y \in Known : Group[y] < Group[x] => Status(y) \in Terminal]_vars
-----------------------------------------------------------------------------
(* Liveness, under Fairness.                                               *)

\* Once the operator leaves the namespace alone, every application ends up as
\* he last asked: those he stopped are down, the others run, except those that
\* wait for registry credentials.  No interleaving of StopApp, StartApp and
\* RestartApp with the loop wedges an application.
SettlesAsAsked ==
    <>[](\A x \in Known : IF x \in detached THEN Status(x) \in Terminal
                          ELSE Status(x) = "RUNNING" \/ x \in blocked)

\* What an application may wait for indefinitely: credentials, for itself or
\* for one it depends on.
Waiting(x) == ({x} \cup DependsOn[x]) \cap blocked # {}

\* A container that dies is noticed and replaced: in the end every application
\* that is not stopped by the operator is up in fact and not in name only.
HealsItself ==
    <>[](\A x \in Known \ detached :
            (Status(x) = "RUNNING" /\ docker[x].state = "running") \/ Waiting(x))

\* A stop of the namespace completes: the chain of groups never waits for ever.
StopsCompletely == nsStatus = "STOPPING" ~> closed

\* The last reload wins: in the end exactly the desired applications are there,
\* and their containers run the desired definition.
AppliesLatest ==
    <>[](/\ Known = DOMAIN lastApps
         /\ \A x \in Known \ detached :
                \/ docker[x] = [state |-> "running", def |-> lastApps[x]]
                \/ Waiting(x))
=============================================================================
