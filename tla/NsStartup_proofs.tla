--------------------------- MODULE NsStartup_proofs ---------------------------
(***************************************************************************)
(* Proofs about the startup of applications and the end of a namespace     *)
(* stop, for every value of the constants, in a namespace that runs        *)
(* unattended: the operator may stop it and retry failed pulls, but does   *)
(* not stop, start or restart single applications, and does not reload.    *)
(*                                                                         *)
(* The restriction is that of the code: StopApp takes the lock while a     *)
(* plan of the loop waits for its dispatch, and the worker of that plan    *)
(* then starts after the cancellation that was to end it; a reload that    *)
(* recreates an application lets the Result of a cancelled worker arrive   *)
(* in the next startup.                                                    *)
(***************************************************************************)
EXTENDS NsRuntime_proofs

Unattended == Calls \subseteq {"Stop", "RetryPullFailedApps"}

\* The operations of a startup, and those that run with the status STARTING.
Starting == {"init", "start", "probe"}
Startup == {"pull"} \cup Starting

\* A worker that nobody has cancelled, or the plan to dispatch one.
Live(x, o) == task[x][o].ph # "none" /\ ~task[x][o].cancel
Ending(x, o) == task[x][o].ph # "none" /\ task[x][o].cancel
Planned(x, o) == \E p \in plans : p.app = x /\ p.op = o
Active(x, o) == Live(x, o) \/ Planned(x, o)

\* No operation on a single application is under way.
Quiet == \A x \in Apps : held[x] = 0 /\ restarting[x] = "no"

\* The status tells which operation of a startup is under way, and it is alone.
StatusTells ==
    \A x \in Apps :
        /\ Active(x, "pull") => x \in Known /\ Status(x) = "PULLING"
        /\ \A o \in Starting : Active(x, o) => x \in Known /\ Status(x) = "STARTING"
        /\ \A o, q \in Startup : Active(x, o) /\ Active(x, q) => o = q

\* A worker is cancelled by the stop of the namespace only, with its startup.
OnlyStopCancels ==
    \A x \in Apps : \A o \in Startup :
        Ending(x, o) =>
            /\ nsStatus \in {"STOPPING", "STOPPED"}
            /\ x \in Known => Status(x) \notin {"PULLING", "STARTING"}

\* The chain of a stop covers what is not down yet, and its end is final.
StopCovers ==
    /\ nsStatus = "STOPPING" =>
          \A x \in Known : \/ Status(x) \in Terminal
                           \/ conts # <<>> /\ x \in conts[1].wait \cup conts[1].rest
    /\ nsStatus = "STOPPED" => closed
    /\ closed => \A x \in Known : Status(x) = "STOPPED"
    /\ closed => nsStatus \in {"STOPPING", "STOPPED"}

Core == StatusTells /\ OnlyStopCancels /\ StopCovers

\* The inductive invariant, beside IInv.
UInv == OnlyStops /\ ChainInv /\ Quiet /\ Core

\* After RemoveNetwork no container runs, and no worker can start one: the
\* container of a start that was cancelled is created and not started, or gone.
Swept ==
    net = "done" \/ closed =>
        \A x \in Apps :
            /\ docker[x].state \in {"none", "created"}
            /\ task[x]["start"].ph = "start" => docker[x].state = "none"
-----------------------------------------------------------------------------
(* What the dispatcher and the workers do to the slots.                    *)

\* The slots as the lemmas need them, a part of TypeOK.
TaskType == task \in [Apps -> [Ops -> Task]]

\* A worker that posts its Result, or goes on, keeps its slot as it is.
LEMMA PostKeeps ==
    ASSUME TaskType, NEW a \in Apps, NEW o \in Ops, NEW ph \in Phases \ {"none"},
           task[a][o].ph # "none", Post(a, o, ph)
    PROVE  \A x \in Apps, q \in Ops :
               /\ task'[x][q].arg = task[x][q].arg
               /\ task'[x][q].cancel = task[x][q].cancel
               /\ x # a \/ q # o => task'[x][q].ph = task[x][q].ph
               /\ Live(x, q)' = Live(x, q) /\ Ending(x, q)' = Ending(x, q)
<1>1. task[a][o] \in Task
    BY DEF TaskType
<1>2. PICK t : t = [task[a][o] EXCEPT !.ph = ph] /\ task' = [task EXCEPT ![a][o] = t]
    BY DEF Post
<1>3. /\ task'[a][o] = t
      /\ \A x \in Apps, q \in Ops : x # a \/ q # o => task'[x][q] = task[x][q]
    BY <1>2 DEF TaskType
<1>4. /\ task'[a][o].ph = ph /\ task'[a][o].cancel = task[a][o].cancel
      /\ task'[a][o].arg = task[a][o].arg
    BY <1>1, <1>2, <1>3 DEF Task
<1>5. /\ Live(a, o)' = Live(a, o) /\ Ending(a, o)' = Ending(a, o)
    BY <1>4 DEF Live, Ending
<1>6. ASSUME NEW x \in Apps, NEW q \in Ops, x # a \/ q # o
      PROVE  task'[x][q] = task[x][q] /\ Live(x, q)' = Live(x, q) /\ Ending(x, q)' = Ending(x, q)
    BY <1>3, <1>6 DEF Live, Ending
<1> QED BY <1>4, <1>5, <1>6

\* A slot that is forgotten is free, the others are as they were.
LEMMA ForgottenKeeps ==
    ASSUME TaskType, NEW a \in Apps, NEW o \in Ops, task' = Forgotten(task, a, o)
    PROVE  /\ task'[a][o] = Idle
           /\ ~Live(a, o)' /\ ~Ending(a, o)'
           /\ \A x \in Apps, q \in Ops :
                  /\ Live(x, q)' => Live(x, q)
                  /\ Ending(x, q)' => Ending(x, q)
                  /\ x # a \/ q # o => task'[x][q] = task[x][q]
<1>1. /\ task'[a][o] = Idle
      /\ \A x \in Apps, q \in Ops : x # a \/ q # o => task'[x][q] = task[x][q]
    BY DEF Forgotten, TaskType
<1> QED BY <1>1 DEF Live, Ending, Idle

\* Cancelling ends live workers of the given operations and starts none.
LEMMA CancelledKeeps ==
    ASSUME NEW t \in [Apps -> [Ops -> Task]], NEW S, NEW ops, NEW x \in Apps, NEW o \in Ops
    PROVE  LET c == Cancelled(t, S, ops)[x][o] IN
           /\ c.ph = t[x][o].ph
           /\ t[x][o].cancel => c.cancel
           /\ x \in S /\ o \in ops /\ c.ph # "none" => c.cancel
           /\ ~(x \in S /\ o \in ops) => c = t[x][o]
<1>1. t[x][o] \in Task
    OBVIOUS
<1>2. Cancelled(t, S, ops)[x][o] =
          IF x \in S /\ o \in ops /\ t[x][o].ph # "none"
          THEN [t[x][o] EXCEPT !.cancel = TRUE] ELSE t[x][o]
    BY DEF Cancelled
<1> QED BY <1>1, <1>2 DEF Task

\* A plan that is dispatched is under way as it was before.
LEMMA DispatchedKeeps ==
    ASSUME TaskType, plans \subseteq Plan, NEW p \in plans, task' = Dispatched(task, p), plans' = plans \ {p}
    PROVE  \A x \in Apps, o \in Ops : /\ Active(x, o)' => Active(x, o)
                                      /\ Ending(x, o)' => Ending(x, o)
                                      /\ x # p.app \/ o # p.op => task'[x][o] = task[x][o]
<1>1. p.app \in Apps /\ p.op \in Ops
    BY DEF Plan
<1>2. /\ task'[p.app][p.op] = [ph |-> "run", cancel |-> FALSE, arg |-> p.arg]
      /\ \A x \in Apps, q \in Ops : x # p.app \/ q # p.op => task'[x][q] = task[x][q]
    BY <1>1 DEF Dispatched, TaskType
<1>3. Planned(p.app, p.op)
    BY DEF Planned
<1>4. \A x, o : Planned(x, o)' => Planned(x, o)
    BY DEF Planned
<1> QED BY <1>2, <1>3, <1>4 DEF Active, Live, Ending
-----------------------------------------------------------------------------
(* Steps that begin no operation of a startup.                             *)

\* Nothing that Core is about changes.
LEMMA SameCore ==
    ASSUME Core, UNCHANGED <<apps, task, plans, nsStatus, conts, closed>> PROVE Core'
BY DEF Core, StatusTells, OnlyStopCancels, StopCovers, Active, Live, Planned, Ending, Known,
   Status

\* An application that leaves its status leaves none of its startup behind, and
\* does not leave a final status while the namespace stops.
LEMMA FrameCore ==
    ASSUME Core, UNCHANGED <<nsStatus, conts, closed>>, DOMAIN apps' \subseteq Known,
           \A x \in Apps, o \in Startup : /\ Active(x, o)' => Active(x, o)
                                          /\ Ending(x, o)' => Ending(x, o),
           \A x \in Known :
               \/ x \in DOMAIN apps' /\ apps'[x].status = Status(x)
               \/ /\ \/ Status(x) \notin {"PULLING", "STARTING"}
                     \/ \A o \in Startup : ~Active(x, o)'
                  /\ x \in DOMAIN apps' =>
                        /\ apps'[x].status \notin {"PULLING", "STARTING"}
                        /\ \/ Status(x) \notin Terminal
                           \/ Status(x) = "STOPPING_FAILED" /\ nsStatus # "STOPPING"
    PROVE  Core'
<1>1. StatusTells'
  <2> SUFFICES ASSUME NEW x \in Apps
               PROVE  /\ Active(x, "pull")' => x \in Known' /\ Status(x)' = "PULLING"
                      /\ \A o \in Starting : Active(x, o)' => x \in Known' /\ Status(x)' = "STARTING"
                      /\ \A o, q \in Startup : Active(x, o)' /\ Active(x, q)' => o = q
      BY DEF StatusTells
  <2>1. ASSUME NEW o \in Startup, Active(x, o)'
        PROVE  x \in Known /\ x \in DOMAIN apps' /\ apps'[x].status = Status(x)
    <3>1. Active(x, o) /\ x \in Known /\ Status(x) \in {"PULLING", "STARTING"}
        BY <2>1 DEF Core, StatusTells, Startup
    <3> QED BY <2>1, <3>1
  <2> QED BY <2>1 DEF Core, StatusTells, Startup, Known, Status
<1>2. OnlyStopCancels'
  <2> SUFFICES ASSUME NEW x \in Apps, NEW o \in Startup, Ending(x, o)'
               PROVE  /\ nsStatus' \in {"STOPPING", "STOPPED"}
                      /\ x \in Known' => Status(x)' \notin {"PULLING", "STARTING"}
      BY DEF OnlyStopCancels
  <2> QED BY DEF Core, OnlyStopCancels, Known, Status
<1>3. StopCovers'
  <2>1. \A x \in DOMAIN apps' :
            \/ apps'[x].status = Status(x)
            \/ Status(x) \notin Terminal
            \/ Status(x) = "STOPPING_FAILED" /\ nsStatus # "STOPPING"
      OBVIOUS
  <2> QED BY <2>1 DEF Core, StopCovers, Known, Status, Terminal
<1> QED BY <1>1, <1>2, <1>3 DEF Core

\* What the proofs below use of the types.
LEMMA Facts ==
    ASSUME IInv
    PROVE  /\ TaskType /\ plans \subseteq Plan
           /\ Known \subseteq Apps /\ \A x \in Known : apps[x] \in AppRuntime
           /\ Startup \subseteq Ops
BY DEF IInv, TypeOK, NsTypeOK, LoopTypeOK, WorkTypeOK, TaskType, Known, Startup, Starting, Ops

\* An application with any other status has no startup under way.
LEMMA NotStarting ==
    ASSUME Core, NEW x \in Apps, x \in Known => Status(x) \notin {"PULLING", "STARTING"}
    PROVE  \A o \in Startup : ~Active(x, o)
BY DEF Core, StatusTells, Startup

\* A slot in use during the startup of an application is the one under way.
LEMMA SlotIsLive ==
    ASSUME Core, NEW x \in Known, x \in Apps, Status(x) \in {"PULLING", "STARTING"},
           NEW o \in Startup, task[x][o].ph # "none"
    PROVE  Live(x, o) /\ \A q \in Startup : q # o => ~Active(x, q)
BY DEF Core, OnlyStopCancels, Ending, Live, StatusTells, Active

\* The dispatch of a plan.
LEMMA LoopDispatchCore == ASSUME IInv, Core, LoopDispatch PROVE Core'
<1>1. PICK p \in plans : task' = Dispatched(task, p) /\ plans' = plans \ {p}
    BY DEF LoopDispatch
<1>2. UNCHANGED <<nsStatus, apps, conts, closed>>
    BY DEF LoopDispatch, nsVars
<1>3. \A x \in Apps, o \in Startup : /\ Active(x, o)' => Active(x, o)
                                     /\ Ending(x, o)' => Ending(x, o)
    BY <1>1, Facts, DispatchedKeeps
<1> QED BY <1>2, <1>3, FrameCore DEF Known, Status

\* A Result that moves its application from the given statuses, or none, and
\* plans nothing that belongs to a startup.
LEMMA ForgottenCore ==
    ASSUME IInv, Core, plans = {}, UNCHANGED <<nsStatus, conts, closed>>,
           NEW a \in Apps, NEW o \in Ops, task' = Forgotten(task, a, o),
           \A p \in plans' : p.op \notin Startup,
           \/ apps' = apps
           \/ /\ a \in Known
              /\ \E app : apps' = [apps EXCEPT ![a] = app]
              /\ \/ apps'[a].status = Status(a)
                 \/ /\ apps'[a].status \notin {"PULLING", "STARTING"}
                    /\ Status(a) \notin Terminal
                    /\ Status(a) \in {"PULLING", "STARTING"} =>
                           o \in Startup /\ task[a][o].ph # "none"
    PROVE  Core'
<1>1. \A x \in Apps, q \in Startup : ~Planned(x, q)'
    BY DEF Planned
<1>2. /\ ~Live(a, o)'
      /\ \A x \in Apps, q \in Startup : /\ Live(x, q)' => Live(x, q)
                                        /\ Ending(x, q)' => Ending(x, q)
    BY Facts, ForgottenKeeps
<1>3. \A x \in Apps, q \in Startup : /\ Active(x, q)' => Active(x, q)
                                     /\ Ending(x, q)' => Ending(x, q)
    BY <1>1, <1>2 DEF Active
<1>4. CASE apps' = apps
    BY <1>3, <1>4, FrameCore DEF Known, Status
<1>5. CASE apps' # apps
  <2>1. a \in Known /\ DOMAIN apps' = Known /\ \A x \in Known \ {a} : apps'[x] = apps[x]
      BY <1>5 DEF Known
  <2>2. \/ apps'[a].status = Status(a)
        \/ /\ apps'[a].status \notin {"PULLING", "STARTING"}
           /\ Status(a) \notin Terminal
           /\ Status(a) \notin {"PULLING", "STARTING"} \/ \A q \in Startup : ~Active(a, q)'
    <3>1. CASE Status(a) \in {"PULLING", "STARTING"} /\ o \in Startup /\ task[a][o].ph # "none"
      <4>1. \A q \in Startup : q # o => ~Active(a, q)
          BY <2>1, <3>1, SlotIsLive
      <4>2. \A q \in Startup : ~Active(a, q)'
          BY <1>1, <1>2, <1>3, <4>1 DEF Active
      <4> QED BY <1>5, <4>2
    <3> QED BY <1>5, <3>1
  <2>3. \A x \in Known \ {a} : apps'[x].status = Status(x)
      BY <2>1 DEF Status
  <2>4. \A x \in Known :
            \/ x \in DOMAIN apps' /\ apps'[x].status = Status(x)
            \/ /\ \/ Status(x) \notin {"PULLING", "STARTING"}
                  \/ \A q \in Startup : ~Active(x, q)'
               /\ x \in DOMAIN apps' =>
                     /\ apps'[x].status \notin {"PULLING", "STARTING"}
                     /\ \/ Status(x) \notin Terminal
                        \/ Status(x) = "STOPPING_FAILED" /\ nsStatus # "STOPPING"
      BY <2>1, <2>2, <2>3
  <2> QED BY <1>3, <2>1, <2>4, FrameCore
<1> QED BY <1>4, <1>5
-----------------------------------------------------------------------------
(* The Results.                                                            *)

\* A handler that keeps the application STARTING and plans the next worker.
LEMMA NextWorkerCore ==
    ASSUME IInv, Core, plans = {}, UNCHANGED <<nsStatus, conts, closed>>,
           NEW a \in Known, Status(a) = "STARTING", NEW o \in Starting,
           task[a][o].ph # "none", task' = Forgotten(task, a, o),
           NEW app, apps' = [apps EXCEPT ![a] = app], app.status = "STARTING",
           NEW p, plans' = {p}, p.app = a, p.op \in Starting
    PROVE  Core'
<1>1. a \in Apps /\ o \in Startup /\ o \in Ops
    BY Facts DEF Startup
<1>2. /\ ~Live(a, o)'
      /\ \A x \in Apps, q \in Startup : /\ Live(x, q)' => Live(x, q)
                                        /\ Ending(x, q)' => Ending(x, q)
    BY <1>1, Facts, ForgottenKeeps
<1>3. \A q \in Startup : q # o => ~Active(a, q)
    BY <1>1, SlotIsLive
<1>4. \A x \in Apps, q \in Startup : Planned(x, q)' => x = a /\ q = p.op
    BY DEF Planned
<1>5. /\ \A q \in Startup : Active(a, q)' => q = p.op
      /\ \A x \in Apps \ {a}, q \in Startup : Active(x, q)' => Active(x, q)
    BY <1>1, <1>2, <1>3, <1>4 DEF Active
<1>6. /\ DOMAIN apps' = Known /\ apps'[a].status = "STARTING"
      /\ \A x \in Known : apps'[x].status = Status(x)
    BY DEF Known, Status
<1>7. StatusTells'
  <2> SUFFICES ASSUME NEW x \in Apps
               PROVE  /\ Active(x, "pull")' => x \in Known' /\ Status(x)' = "PULLING"
                      /\ \A q \in Starting : Active(x, q)' => x \in Known' /\ Status(x)' = "STARTING"
                      /\ \A q, r \in Startup : Active(x, q)' /\ Active(x, r)' => q = r
      BY DEF StatusTells
  <2>1. CASE x = a
    <3>1. "pull" \notin Starting
        BY DEF Starting
    <3> QED BY <1>5, <1>6, <2>1, <3>1 DEF Startup, Known, Status
  <2>2. CASE x # a
      BY <1>5, <1>6, <2>2 DEF Core, StatusTells, Startup, Known, Status
  <2> QED BY <2>1, <2>2
<1>8. OnlyStopCancels'
    BY <1>2, <1>6 DEF Core, OnlyStopCancels, Known, Status
<1>9. StopCovers'
    BY <1>6 DEF Core, StopCovers, Known, Status
<1> QED BY <1>7, <1>8, <1>9 DEF Core

\* handlePullResult leaves PULLING.
LEMMA PullResultCore == ASSUME IInv, Core, NEW a \in Apps, ApplyPullResult(a) PROVE Core'
<1>1. /\ plans = {} /\ task' = Forgotten(task, a, "pull") /\ task[a]["pull"].ph # "none"
      /\ plans' = {} /\ UNCHANGED <<nsStatus, conts, closed>>
    BY DEF ApplyPullResult, Result, At, Handled, Dropped
<1>2. "pull" \in Ops /\ "pull" \in Startup
    BY DEF Ops, Startup
<1>3. \/ apps' = apps
      \/ /\ a \in Known /\ Status(a) = "PULLING"
         /\ \E app : apps' = [apps EXCEPT ![a] = app]
         /\ apps'[a].status \in {"READY_TO_START", "PULL_FAILED"}
  <2>1. CASE a \in In({"PULLING"})
    <3>1. a \in Known /\ Status(a) = "PULLING" /\ apps[a] \in AppRuntime
        BY <2>1, Facts DEF In
    <3>2. PICK s \in {"READY_TO_START", "PULL_FAILED"} :
              apps' = [apps EXCEPT ![a] = SetAppStatus(apps[a], s)]
        BY <2>1, <3>1 DEF ApplyPullResult, Transition, Known
    <3>3. SetAppStatus(apps[a], s).status = s
        BY <3>1, StatusOf
    <3> QED BY <3>1, <3>2, <3>3 DEF Known
  <2>2. CASE a \notin In({"PULLING"})
      BY <2>2 DEF ApplyPullResult, Dropped
  <2> QED BY <2>1, <2>2
<1> QED BY <1>1, <1>2, <1>3, ForgottenCore DEF Terminal

\* handleProbeResult leaves STARTING.
LEMMA ProbeResultCore == ASSUME IInv, Core, NEW a \in Apps, ApplyProbeResult(a) PROVE Core'
<1>1. /\ plans = {} /\ task' = Forgotten(task, a, "probe") /\ task[a]["probe"].ph # "none"
      /\ plans' = {} /\ UNCHANGED <<nsStatus, conts, closed>>
    BY DEF ApplyProbeResult, Result, At, Handled, Dropped
<1>2. "probe" \in Ops /\ "probe" \in Startup
    BY DEF Ops, Startup, Starting
<1>3. \/ apps' = apps
      \/ /\ a \in Known /\ Status(a) = "STARTING"
         /\ \E app : apps' = [apps EXCEPT ![a] = app]
         /\ apps'[a].status \in {"RUNNING", "START_FAILED"}
  <2>1. CASE a \in In({"STARTING"})
    <3>1. a \in Known /\ Status(a) = "STARTING" /\ apps[a] \in AppRuntime
        BY <2>1, Facts DEF In
    <3>2. PICK s \in {"RUNNING", "START_FAILED"} :
              apps' = [apps EXCEPT ![a] = SetAppStatus(apps[a], s)]
        BY <2>1, <3>1 DEF ApplyProbeResult, Transition, Known
    <3>3. SetAppStatus(apps[a], s).status = s
        BY <3>1, StatusOf
    <3> QED BY <3>1, <3>2, <3>3 DEF Known
  <2>2. CASE a \notin In({"STARTING"})
      BY <2>2 DEF ApplyProbeResult, Dropped
  <2> QED BY <2>1, <2>2
<1> QED BY <1>1, <1>2, <1>3, ForgottenCore DEF Terminal

\* handleInitResult plans what follows, or leaves STARTING.
LEMMA InitResultCore == ASSUME IInv, Core, NEW a \in Apps, ApplyInitResult(a) PROVE Core'
<1>1. /\ plans = {} /\ task' = Forgotten(task, a, "init") /\ task[a]["init"].ph # "none"
      /\ UNCHANGED <<nsStatus, conts, closed>>
    BY DEF ApplyInitResult, Result, At, Handled
<1>2. "init" \in Ops /\ "init" \in Startup /\ "init" \in Starting
    BY DEF Ops, Startup, Starting
<1>3. CASE a \notin In({"STARTING"})
  <2>1. apps' = apps /\ plans' = {}
      BY <1>1, <1>3 DEF ApplyInitResult, Dropped
  <2> QED BY <1>1, <1>2, <2>1, ForgottenCore
<1>4. CASE a \in In({"STARTING"}) /\ task[a]["init"].ph # "ok"
  <2>1. a \in Known /\ Status(a) = "STARTING" /\ apps[a] \in AppRuntime
      BY <1>4, Facts DEF In
  <2>2. apps' = [apps EXCEPT ![a] = SetAppStatus(apps[a], "START_FAILED")] /\ plans' = {}
      BY <1>1, <1>4, <2>1 DEF ApplyInitResult, Transition, Known
  <2>3. SetAppStatus(apps[a], "START_FAILED").status = "START_FAILED"
      BY <2>1, StatusOf
  <2>4. (\E app : apps' = [apps EXCEPT ![a] = app]) /\ apps'[a].status = "START_FAILED"
      BY <2>1, <2>2, <2>3 DEF Known
  <2> QED BY <1>1, <1>2, <2>1, <2>2, <2>4, ForgottenCore DEF Terminal
<1>5. CASE a \in In({"STARTING"}) /\ task[a]["init"].ph = "ok"
  <2>1. a \in Known /\ Status(a) = "STARTING" /\ apps[a].status = "STARTING"
      BY <1>5 DEF In, Status
  <2>2. PICK p : plans' = {p} /\ p.app = a /\ p.op \in Starting
    <3>1. /\ \A i : InitPlan(a, i).app = a /\ InitPlan(a, i).op \in Starting
          /\ StartPlan(a).app = a /\ StartPlan(a).op \in Starting
        BY DEF InitPlan, StartPlan, Starting
    <3>2. \/ plans' = {InitPlan(a, task[a]["init"].arg + 1)}
          \/ plans' = {StartPlan(a)}
        BY <1>5 DEF ApplyInitResult, AfterInit
    <3> QED BY <3>1, <3>2
  <2>3. apps' = [apps EXCEPT ![a] = apps[a]]
      BY <1>5, <2>1, Facts DEF ApplyInitResult, IInv, TypeOK, NsTypeOK, Known
  <2> QED BY <1>1, <1>2, <2>1, <2>2, <2>3, NextWorkerCore
<1> QED BY <1>3, <1>4, <1>5

\* handleStartResult plans the startup probe, or leaves STARTING.
LEMMA StartResultCore == ASSUME IInv, Core, NEW a \in Apps, ApplyStartResult(a) PROVE Core'
<1>1. /\ plans = {} /\ task' = Forgotten(task, a, "start") /\ task[a]["start"].ph # "none"
      /\ UNCHANGED <<nsStatus, conts, closed>>
    BY DEF ApplyStartResult, Result, At, Handled
<1>2. "start" \in Ops /\ "start" \in Startup /\ "start" \in Starting
    BY DEF Ops, Startup, Starting
<1>3. CASE a \notin In({"STARTING"})
  <2>1. apps' = apps /\ plans' = {}
      BY <1>1, <1>3 DEF ApplyStartResult, Dropped
  <2> QED BY <1>1, <1>2, <2>1, ForgottenCore
<1>4. CASE a \in In({"STARTING"})
  <2>1. a \in Known /\ Status(a) = "STARTING" /\ apps[a] \in AppRuntime
      BY <1>4, Facts DEF In
  <2>2. CASE task[a]["start"].ph = "ok" /\ a \in Probed
    <3>1. PICK p : plans' = {p} /\ p.app = a /\ p.op \in Starting
      <4>1. plans' = {[app |-> a, op |-> "probe", arg |-> 0]}
          BY <1>4, <2>2 DEF ApplyStartResult
      <4>2. /\ [app |-> a, op |-> "probe", arg |-> 0].app = a
            /\ [app |-> a, op |-> "probe", arg |-> 0].op \in Starting
          BY DEF Starting
      <4> QED BY <4>1, <4>2, Zenon
    <3>2. PICK app : app = [apps[a] EXCEPT !.cid = TRUE] /\ apps' = [apps EXCEPT ![a] = app]
        BY <1>4, <2>1, <2>2 DEF ApplyStartResult, Known
    <3>3. app.status = "STARTING"
        BY <2>1, <3>2 DEF Status, AppRuntime
    <3> QED BY <1>1, <1>2, <2>1, <3>1, <3>2, <3>3, NextWorkerCore
  <2>3. CASE ~(task[a]["start"].ph = "ok" /\ a \in Probed)
    <3>1. /\ \/ apps' = [apps EXCEPT ![a] = SetAppStatus(apps[a], "START_FAILED")]
             \/ apps' = [apps EXCEPT ![a] =
                    [SetAppStatus(apps[a], "RUNNING") EXCEPT !.cid = TRUE]]
          /\ plans' = {}
        BY <1>1, <1>4, <2>1, <2>3 DEF ApplyStartResult, Transition, Known
    <3>2. /\ SetAppStatus(apps[a], "START_FAILED").status = "START_FAILED"
          /\ [SetAppStatus(apps[a], "RUNNING") EXCEPT !.cid = TRUE].status = "RUNNING"
        BY <2>1, StatusOf
    <3>3. /\ \E app : apps' = [apps EXCEPT ![a] = app]
          /\ apps'[a].status \in {"START_FAILED", "RUNNING"}
        BY <2>1, <3>1, <3>2 DEF Known
    <3> QED BY <1>1, <1>2, <2>1, <3>1, <3>3, ForgottenCore DEF Terminal
  <2> QED BY <2>2, <2>3
<1> QED BY <1>3, <1>4

\* handleStopResult leaves STOPPING or UPDATING.
LEMMA StopResultCore == ASSUME IInv, Core, NEW a \in Apps, ApplyStopResult(a) PROVE Core'
<1>1. /\ plans = {} /\ task' = Forgotten(task, a, "stop") /\ "stop" \in Ops
      /\ plans' = {} /\ UNCHANGED <<nsStatus, conts, closed>>
    BY DEF ApplyStopResult, Result, At, Handled, Dropped, Ops
<1>2. \/ apps' = apps
      \/ /\ a \in Known /\ Status(a) \in Going
         /\ \E app : apps' = [apps EXCEPT ![a] = app]
         /\ apps'[a].status \in {"STOPPING_FAILED", "STOPPED", "READY_TO_PULL"}
  <2>1. CASE a \in In(Going)
    <3>1. a \in Known /\ Status(a) \in Going /\ apps[a] \in AppRuntime
        BY <2>1, Facts DEF In
    <3>2. AfterStop(a) \in {"STOPPED", "READY_TO_PULL"}
        BY <3>1 DEF AfterStop, AppRuntime
    <3>3. \/ apps' = [apps EXCEPT ![a] =
                 [SetAppStatus(apps[a], "STOPPING_FAILED") EXCEPT !.next = ""]]
          \/ apps' = [apps EXCEPT ![a] =
                 [SetAppStatus(apps[a], AfterStop(a)) EXCEPT !.next = "", !.cid = FALSE]]
        BY <2>1, <3>1 DEF ApplyStopResult, Known
    <3>4. /\ [SetAppStatus(apps[a], "STOPPING_FAILED") EXCEPT !.next = ""].status
                 = "STOPPING_FAILED"
          /\ [SetAppStatus(apps[a], AfterStop(a)) EXCEPT !.next = "", !.cid = FALSE].status
                 = AfterStop(a)
        BY <3>1, StatusOf
    <3> QED BY <3>1, <3>2, <3>3, <3>4 DEF Known
  <2>2. CASE a \notin In(Going)
      BY <2>2 DEF ApplyStopResult, Dropped
  <2> QED BY <2>1, <2>2
<1> QED BY <1>1, <1>2, ForgottenCore DEF Terminal, Going

\* handleLivenessProbeResult only counts, or leaves RUNNING.
LEMMA LivenessCore ==
    ASSUME IInv, Core, NEW a \in Apps, ApplyLivenessResult(a) \/ LivenessRestart(a) PROVE Core'
<1>1. "live" \in Ops /\ "live" \notin Startup
    BY DEF Ops, Startup, Starting
<1>2. UNCHANGED <<nsStatus, conts, closed>>
    BY DEF ApplyLivenessResult, LivenessRestart, Handled
<1>3. CASE ApplyLivenessResult(a)
  <2>1. UNCHANGED plans /\ task[a]["live"].ph # "none"
      BY <1>3 DEF ApplyLivenessResult
  <2>2. \A x \in Apps, o \in Startup : /\ Active(x, o)' => Active(x, o)
                                       /\ Ending(x, o)' => Ending(x, o)
    <3>1. \A x \in Apps, o \in Startup : Planned(x, o)' => Planned(x, o)
        BY <2>1 DEF Planned
    <3>2. CASE task' = Forgotten(task, a, "live")
        BY <1>1, <3>1, <3>2, Facts, ForgottenKeeps DEF Active
    <3>3. CASE Post(a, "live", "diag")
      <4>1. "diag" \in Phases \ {"none"}
          BY DEF Phases
      <4> QED BY <1>1, <2>1, <3>1, <3>3, <4>1, Facts, PostKeeps DEF Active
    <3> QED BY <1>3, <3>2, <3>3 DEF ApplyLivenessResult, Post
  <2>3. /\ DOMAIN apps' = Known
        /\ \A x \in Known : apps'[x].status = Status(x)
    <3>1. \/ apps' = apps
          \/ a \in Known /\ \E n : apps' = [apps EXCEPT ![a].fails = n]
        BY <1>3 DEF ApplyLivenessResult, In
    <3> QED BY <3>1, Facts DEF AppRuntime, Known, Status
  <2> QED BY <1>2, <2>2, <2>3, FrameCore
<1>4. CASE LivenessRestart(a)
  <2>1. plans = {} /\ task' = Forgotten(task, a, "live")
      BY <1>4 DEF LivenessRestart, At
  <2>2. \A p \in plans' : p.op \notin Startup
      BY <1>4, <2>1 DEF LivenessRestart, Dropped, StopPlan, Startup, Starting
  <2>3. \/ apps' = apps
        \/ /\ a \in Known /\ Status(a) = "RUNNING"
           /\ \E app : apps' = [apps EXCEPT ![a] = app]
           /\ apps'[a].status = "UPDATING"
    <3>1. CASE StillRunning(a)
      <4>1. a \in Known /\ Status(a) = "RUNNING" /\ apps[a] \in AppRuntime
          BY <3>1, Facts DEF StillRunning, In
      <4>2. apps' = [apps EXCEPT ![a] =
                [SetAppStatus(apps[a], "UPDATING") EXCEPT !.next = "READY_TO_PULL"]]
          BY <1>4, <3>1, <4>1 DEF LivenessRestart, Known
      <4>3. [SetAppStatus(apps[a], "UPDATING") EXCEPT !.next = "READY_TO_PULL"].status
                = "UPDATING"
          BY <4>1, StatusOf
      <4> QED BY <4>1, <4>2, <4>3 DEF Known
    <3>2. CASE ~StillRunning(a)
        BY <1>4, <3>2 DEF LivenessRestart, Dropped
    <3> QED BY <3>1, <3>2
  <2> QED BY <1>1, <1>2, <2>1, <2>2, <2>3, ForgottenCore DEF Terminal
<1> QED BY <1>3, <1>4

\* A diff moves what is RUNNING, an exhausted stop budget what is going down, and
\* RetryPullFailedApps what could not be pulled.
LEMMA MovedCore ==
    ASSUME IInv, Core, ApplyReconcileResult \/ Tick \/ RetryPullFailedApps PROVE Core'
<1>1. UNCHANGED <<nsStatus, conts, closed>>
    BY DEF ApplyReconcileResult, Tick, TickWith, RetryPullFailedApps, APIFrame
<1>2. \A x \in Apps, o \in Startup : /\ Active(x, o)' => Active(x, o)
                                     /\ Ending(x, o)' => Ending(x, o)
  <2>1. CASE UNCHANGED <<task, plans>>
      BY <2>1 DEF Active, Live, Planned, Ending
  <2>2. CASE Tick
    <3>1. PICK over, due :
              /\ task' = Cancelled(task, over, {"stop"})
              /\ plans' = {[app |-> a, op |-> "live", arg |-> 0] : a \in due}
        BY <2>2, Zenon DEF Tick, TickWith
    <3>2. \A x \in Apps, o \in Startup : task'[x][o] = task[x][o]
        BY <3>1, Facts, CancelledKeeps DEF TaskType, Startup, Starting
    <3>3. \A x \in Apps, o \in Startup : ~Planned(x, o)'
        BY <3>1 DEF Planned, Startup, Starting
    <3> QED BY <3>2, <3>3 DEF Active, Live, Ending
  <2> QED BY <2>1, <2>2 DEF ApplyReconcileResult, RetryPullFailedApps, APIFrame
<1>3. /\ DOMAIN apps' = Known
      /\ \A x \in Known :
            \/ apps'[x].status = Status(x)
            \/ /\ Status(x) \in {"RUNNING", "PULL_FAILED"} \cup Going
               /\ apps'[x].status \in {"READY_TO_PULL", "STOPPING_FAILED"}
  <2>1. \A x \in Known :
            /\ SetAppStatus(apps[x], "READY_TO_PULL").status = "READY_TO_PULL"
            /\ [SetAppStatus(apps[x], "READY_TO_PULL") EXCEPT !.cid = FALSE].status
                   = "READY_TO_PULL"
            /\ [SetAppStatus(apps[x], "STOPPING_FAILED") EXCEPT !.next = ""].status
                   = "STOPPING_FAILED"
      BY Facts, StatusOf
  <2>2. CASE ApplyReconcileResult
      BY <2>1, <2>2 DEF ApplyReconcileResult, Missing, In, Status
  <2>3. CASE RetryPullFailedApps
      BY <2>1, <2>3 DEF RetryPullFailedApps, In, Status
  <2>4. CASE Tick
    <3>1. PICK over \in SUBSET In(Going) :
              apps' = [x \in Known |-> IF x \in over
                   THEN [SetAppStatus(apps[x], "STOPPING_FAILED") EXCEPT !.next = ""]
                   ELSE apps[x]]
        BY <2>4, Zenon DEF Tick, TickWith
    <3> QED BY <2>1, <3>1 DEF In, Status
  <2> QED BY <2>2, <2>3, <2>4
<1>4. \A x \in Known :
          \/ x \in DOMAIN apps' /\ apps'[x].status = Status(x)
          \/ /\ \/ Status(x) \notin {"PULLING", "STARTING"}
                \/ \A o \in Startup : ~Active(x, o)'
             /\ x \in DOMAIN apps' =>
                   /\ apps'[x].status \notin {"PULLING", "STARTING"}
                   /\ \/ Status(x) \notin Terminal
                      \/ Status(x) = "STOPPING_FAILED" /\ nsStatus # "STOPPING"
    BY <1>3 DEF Going, Terminal
<1> QED BY <1>1, <1>2, <1>3, <1>4, FrameCore
-----------------------------------------------------------------------------
(* The stop of the namespace.                                              *)

\* beginGroupStopUnderLock cancels the startups of its group and plans none.
LEMMA GroupStopCore ==
    ASSUME IInv, Core, NEW G \in SUBSET Known, GroupStop(G), nsStatus' = "STOPPING"
    PROVE  /\ StatusTells' /\ OnlyStopCancels'
           /\ DOMAIN apps' = Known
           /\ \A x \in Known \ G : apps'[x] = apps[x]
           /\ \A x \in G : apps'[x].status \in {"STOPPING", "STOPPED"}
           /\ \A x \in Known : Status(x) = "STOPPED" => apps'[x].status = "STOPPED"
<1> DEFINE S == G \cap In(Containerless)
           T == G \cap In({"RUNNING", "START_FAILED", "STARTING"})
           t == Cancelled(task, S, Ops)
<1>1. \A x \in Apps, o \in Startup :
          /\ Live(x, o)' => Live(x, o) /\ x \notin S \cup T
          /\ Ending(x, o)' => Ending(x, o) \/ x \in S \cup T
  <2>1. task' = Cancelled(t, T, Ops \ {"stop"}) /\ t \in [Apps -> [Ops -> Task]]
      BY Facts, CancelledType DEF GroupStop, GroupCancelled, TaskType
  <2> SUFFICES ASSUME NEW x \in Apps, NEW o \in Startup
               PROVE  /\ Live(x, o)' => Live(x, o) /\ x \notin S \cup T
                      /\ Ending(x, o)' => Ending(x, o) \/ x \in S \cup T
      OBVIOUS
  <2>2. o \in Ops /\ o \in Ops \ {"stop"}
      BY DEF Startup, Starting, Ops
  <2> HIDE DEF S, T
  <2>3. /\ t[x][o].ph = task[x][o].ph
        /\ task[x][o].cancel => t[x][o].cancel
        /\ x \in S /\ t[x][o].ph # "none" => t[x][o].cancel
        /\ x \notin S => t[x][o] = task[x][o]
      BY <2>2, Facts, CancelledKeeps DEF TaskType
  <2> HIDE DEF t
  <2>4. /\ task'[x][o].ph = t[x][o].ph
        /\ t[x][o].cancel => task'[x][o].cancel
        /\ x \in T /\ task'[x][o].ph # "none" => task'[x][o].cancel
        /\ x \notin T => task'[x][o] = t[x][o]
      BY <2>1, <2>2, CancelledKeeps
  <2> QED BY <2>3, <2>4 DEF Live, Ending
<1>2. /\ DOMAIN apps' = Known
      /\ \A x \in Known \ G : apps'[x] = apps[x]
      /\ \A x \in G : apps'[x].status \in {"STOPPING", "STOPPED"}
      /\ \A x \in Known : Status(x) = "STOPPED" => apps'[x].status = "STOPPED"
  <2>1. apps' = [x \in Known |-> IF x \in G THEN GroupStopped(apps[x]) ELSE apps[x]]
      BY DEF GroupStop
  <2>2. ASSUME NEW x \in Known
        PROVE  /\ GroupStopped(apps[x]).status \in {"STOPPING", "STOPPED"}
               /\ apps[x].status = "STOPPED" => GroupStopped(apps[x]).status = "STOPPED"
    <3>1. apps[x] \in AppRuntime
        BY Facts
    <3>2. apps[x].status \in AppStatuses
        BY <3>1 DEF AppRuntime
    <3> QED BY <3>1, <3>2, StatusOf DEF GroupStopped, AppStatuses, Going, Containerless
  <2> QED BY <2>1, <2>2 DEF Status
<1>3. \A x \in Apps, o \in Startup : ~Planned(x, o)'
    BY DEF GroupStop, StopPlan, Planned, Startup, Starting
<1>4. \A x \in Apps, o \in Startup : Live(x, o) => x \in Known /\ Status(x) \in {"PULLING", "STARTING"}
    BY DEF Core, StatusTells, Active, Startup
<1>5. \A x \in G : Status(x) \in {"PULLING", "STARTING"} => x \in S \cup T
    BY DEF In, Containerless
<1> HIDE DEF S, T
<1>6. \A x \in Apps, o \in Startup :
          Active(x, o)' => Active(x, o) /\ x \in Known \ G
    BY <1>1, <1>3, <1>4, <1>5 DEF Active
<1>7. StatusTells'
    BY <1>2, <1>6 DEF Core, StatusTells, Startup, Known, Status
<1>8. OnlyStopCancels'
  <2> SUFFICES ASSUME NEW x \in Apps, NEW o \in Startup, Ending(x, o)', x \in Known'
               PROVE  Status(x)' \notin {"PULLING", "STARTING"}
      BY DEF OnlyStopCancels
  <2>1. CASE x \in G
      BY <1>2, <2>1 DEF Status
  <2>2. CASE x \notin G
    <3>1. Ending(x, o)
        BY <1>1, <2>2 DEF S, T
    <3>2. Status(x) \notin {"PULLING", "STARTING"}
        BY <1>2, <3>1 DEF Core, OnlyStopCancels, Known
    <3> QED BY <1>2, <2>2, <3>2 DEF Known, Status
  <2> QED BY <2>1, <2>2
<1> QED BY <1>2, <1>7, <1>8

\* doStop begins the chain with every application in it.
LEMMA DoStopCore == ASSUME IInv, ChainInv, Core, DoStop PROVE Core'
<1>1. plans = {} /\ closed' = closed
    BY DEF DoStop, Applying, At
<1>2. CASE StopInFlight
    BY <1>1, <1>2, SameCore DEF DoStop, StopInFlight
<1>3. CASE ~StopInFlight
  <2>1. PICK first \in SUBSET Known :
            /\ nsStatus' = "STOPPING" /\ GroupStop(first)
            /\ conts' = Append(conts, [wait |-> first, rest |-> Known \ first])
      BY <1>3, FirstGroupSubset DEF DoStop
  <2>2. conts' # <<>> /\ conts'[1] = [wait |-> first, rest |-> Known \ first]
    <3>1. conts = <<>>
        BY <1>3 DEF ChainInv, StopInFlight
    <3> QED BY <2>1, <3>1
  <2>3. /\ StatusTells' /\ OnlyStopCancels' /\ DOMAIN apps' = Known
        /\ \A x \in Known : Status(x) = "STOPPED" => apps'[x].status = "STOPPED"
      BY <2>1, GroupStopCore
  <2>4. StopCovers'
    <3>1. conts'[1].wait \cup conts'[1].rest = Known
        BY <2>2
    <3> QED BY <1>1, <2>1, <2>2, <2>3, <3>1 DEF Core, StopCovers, Known, Status
  <2> QED BY <2>3, <2>4 DEF Core
<1> QED BY <1>2, <1>3

\* A continuation that fires passes on what it does not wait for.
LEMMA EvalNextCore == ASSUME IInv, ChainInv, Core, EvalNext PROVE Core'
<1> DEFINE i == scan.at + 1
           c == conts[i]
           others == [j \in 1..(Len(conts) - 1) |-> conts[IF j < i THEN j ELSE j + 1]]
           next == FirstGroup(c.rest)
<1>1. nsStatus' = nsStatus /\ closed' = closed /\ plans = {}
    BY DEF EvalNext, At
<1>2. scan.at \in Nat /\ scan.at < scan.end /\ scan.end <= Len(conts) /\ scan.end \in Nat
      /\ Len(conts) \in Nat
    BY DEF EvalNext, At, IInv, ScanOK, TypeOK, LoopTypeOK
<1>3. nsStatus = "STOPPING" /\ Len(conts) = 1 /\ i = 1 /\ conts # <<>>
  <2>1. Len(conts) # 0
      BY <1>2
  <2>2. nsStatus = "STOPPING" /\ Len(conts) = 1
      BY <2>1 DEF ChainInv
  <2>3. conts # <<>>
      BY <2>1
  <2>4. scan.at = 0
      BY <1>2, <2>2
  <2> QED BY <2>2, <2>3, <2>4
<1>4. others = <<>>
    BY <1>3
<1>5. \A x \in Known : Status(x) \in Terminal \/ x \in c.wait \cup c.rest
    BY <1>3 DEF Core, StopCovers
<1>6. CASE ~Drained(c.wait)
  <2>1. UNCHANGED <<conts, apps, task, plans>>
      BY <1>6 DEF EvalNext
  <2> QED BY <1>1, <2>1, SameCore
<1>7. CASE Drained(c.wait) /\ c.rest = {}
  <2>1. UNCHANGED <<apps, task, plans>>
      BY <1>7 DEF EvalNext
  <2>2. \A x \in Known : Status(x) \in Terminal
      BY <1>5, <1>7 DEF Drained, In
  <2> QED BY <1>1, <2>1, <2>2 DEF Core, StatusTells, OnlyStopCancels, StopCovers, Active, Live,
             Planned, Ending, Known, Status
<1>8. CASE Drained(c.wait) /\ c.rest # {}
  <2>1. GroupStop(next \cap Known) /\ conts' = Append(others, [wait |-> next, rest |-> c.rest \ next])
      BY <1>8 DEF EvalNext
  <2>2. conts' # <<>> /\ conts'[1] = [wait |-> next, rest |-> c.rest \ next]
    <3> HIDE DEF others, next, c
    <3> QED BY <1>4, <2>1
  <2>3. next \subseteq c.rest
      BY FirstGroupSubset
  <2> HIDE DEF i, c, others, next
  <2>4. /\ StatusTells' /\ OnlyStopCancels' /\ DOMAIN apps' = Known
        /\ \A x \in Known \ next : apps'[x] = apps[x]
        /\ \A x \in Known : Status(x) = "STOPPED" => apps'[x].status = "STOPPED"
    <3>1. next \cap Known \in SUBSET Known /\ nsStatus' = "STOPPING"
        BY <1>1, <1>3
    <3>2. \A x \in Known \ next : x \in Known \ (next \cap Known)
        OBVIOUS
    <3> QED BY <2>1, <3>1, <3>2, GroupStopCore
  <2>5. conts'[1].wait \cup conts'[1].rest = c.rest
      BY <2>2, <2>3
  <2>6. \A x \in Known : Status(x) \in Terminal \/ x \in c.rest
      BY <1>5, <1>8 DEF Drained, In
  <2>7. \A x \in Known' : Status(x)' \in Terminal \/ x \in conts'[1].wait \cup conts'[1].rest
    <3>1. ASSUME NEW x \in Known, x \notin c.rest
          PROVE  apps'[x].status \in Terminal
        BY <2>3, <2>4, <2>6, <3>1 DEF Status
    <3> QED BY <2>4, <2>5, <3>1 DEF Known, Status
  <2>8. StopCovers'
    <3>1. closed' => \A x \in Known' : Status(x)' = "STOPPED"
        BY <1>1, <2>4 DEF Core, StopCovers, Known, Status
    <3> QED BY <1>1, <1>3, <2>2, <2>7, <3>1 DEF StopCovers
  <2> QED BY <2>4, <2>8 DEF Core
<1> QED BY <1>6, <1>7, <1>8

\* RemoveNetwork comes back when everything is down.
LEMMA NetworkCore == ASSUME IInv, ChainInv, Core, ApplyRemoveNetworkResult PROVE Core'
<1>1. /\ plans' = plans /\ task' = task /\ nsStatus' = "STOPPED" /\ closed' = TRUE
      /\ DOMAIN apps' = Known /\ \A x \in Known : apps'[x].status = "STOPPED"
    BY DEF ApplyRemoveNetworkResult, Fresh
<1>2. nsStatus = "STOPPING" /\ conts = <<>>
    BY DEF ApplyRemoveNetworkResult, ChainInv
<1>3. \A x \in Known : Status(x) \in Terminal
    BY <1>2 DEF Core, StopCovers
<1>4. \A x \in Apps, o \in Startup : ~Active(x, o)
    BY <1>3, NotStarting DEF Terminal
<1>5. \A x \in Apps, o \in Startup : Active(x, o)' = Active(x, o) /\ Ending(x, o)' = Ending(x, o)
    BY <1>1 DEF Active, Live, Planned, Ending
<1>6. StatusTells'
    BY <1>4, <1>5 DEF StatusTells, Startup
<1>7. OnlyStopCancels'
    BY <1>1, <1>5 DEF OnlyStopCancels, Known, Status
<1>8. StopCovers'
    BY <1>1 DEF StopCovers, Known, Status
<1> QED BY <1>6, <1>7, <1>8 DEF Core

\* updateNsStatus keeps a stop, and its end.
LEMMA UpdateNsStatusCore == ASSUME IInv, Core, UpdateNsStatus PROVE Core'
<1>1. UNCHANGED <<apps, task, plans, conts, closed>> /\ nsStatus' = NsDerived
    BY DEF UpdateNsStatus, workVars
<1>2. /\ NsDerived = "STOPPING" <=> nsStatus = "STOPPING"
      /\ NsDerived = "STOPPED" <=> nsStatus = "STOPPED"
  <2>1. CASE nsStatus \in {"STARTING", "RUNNING", "STALLED"}
    <3>1. NsDerived \in {"STALLED", "RUNNING", "STARTING"}
        BY <2>1 DEF NsDerived
    <3> QED BY <2>1, <3>1
  <2>2. CASE nsStatus \notin {"STARTING", "RUNNING", "STALLED"}
      BY <2>2 DEF NsDerived
  <2> QED BY <2>1, <2>2
<1> QED BY <1>1, <1>2 DEF Core, StatusTells, OnlyStopCancels, StopCovers, Active, Live, Planned,
           Ending, Known, Status
-----------------------------------------------------------------------------
(* stepAllApps begins the startups.                                        *)

\* An entry is moved by its status alone, and a plan goes with its move.
LEMMA StepAllMoves ==
    ASSUME IInv, NEW over, StepAllWith(over), nsStatus # "STOPPING"
    PROVE  /\ DOMAIN apps' \subseteq Known
           /\ \A x \in Known : Status(x) # "STOPPED" => x \in DOMAIN apps'
           /\ \A x \in DOMAIN apps' :
                \/ apps'[x].status = Status(x)
                \/ /\ Status(x) \in {"READY_TO_PULL", "READY_TO_START", "DEPS_WAITING",
                                     "START_FAILED", "PULL_FAILED", "STOPPING_FAILED"}
                   /\ apps'[x].status = "PULLING" => Status(x) = "READY_TO_PULL"
                   /\ apps'[x].status = "STARTING" =>
                          Status(x) \in {"READY_TO_START", "DEPS_WAITING"}
           /\ \A p \in plans' : p.op \in Startup =>
                /\ p.app \in DOMAIN apps'
                /\ \/ /\ p = PullPlan(p.app) /\ apps'[p.app].status = "PULLING"
                      /\ Status(p.app) = "READY_TO_PULL"
                   \/ /\ p = FirstPlan(p.app) /\ apps'[p.app].status = "STARTING"
                      /\ Status(p.app) \in {"READY_TO_START", "DEPS_WAITING"}
<1> DEFINE live == {a \in Known : ~(apps[a].marked /\ Status(a) = "STOPPED")}
           in(s) == {a \in Movable(live) : Status(a) = s}
           pull == in("READY_TO_PULL") \ Imageless
           begin == {a \in in("READY_TO_START") \cup in("DEPS_WAITING") :
                        DepsSatisfied(a, live)}
           wait == in("READY_TO_START") \ begin
           ready == (in("READY_TO_PULL") \cap Imageless) \cup (in("START_FAILED") \cap over)
           again == (in("PULL_FAILED") \cap over) \ blocked
           heal == in("STOPPING_FAILED") \cap over
           entry(a) ==
               CASE a \in pull  -> SetAppStatus(apps[a], "PULLING")
                 [] a \in begin -> SetAppStatus(apps[a], "STARTING")
                 [] a \in wait  -> SetAppStatus(apps[a], "DEPS_WAITING")
                 [] a \in ready -> SetAppStatus(apps[a], "READY_TO_START")
                 [] a \in again -> SetAppStatus(apps[a], "READY_TO_PULL")
                 [] a \in heal  -> [SetAppStatus(apps[a], "UPDATING") EXCEPT !.next =
                                        IF apps[a].marked THEN "" ELSE "READY_TO_PULL"]
                 [] OTHER -> apps[a]
<1>1. /\ apps' = [a \in live |-> entry(a)]
      /\ plans' = {PullPlan(a) : a \in pull} \cup {FirstPlan(a) : a \in begin}
                  \cup {StopPlan(a) : a \in heal}
    BY Zenon DEF StepAllWith
<1>2. /\ live \subseteq Known
      /\ \A a \in Known : Status(a) # "STOPPED" => a \in live
      /\ pull \subseteq live /\ begin \subseteq live /\ heal \subseteq live
      /\ wait \subseteq live /\ ready \subseteq live /\ again \subseteq live
    BY DEF Movable
<1>3. /\ \A a \in pull : Status(a) = "READY_TO_PULL" /\ a \notin Imageless
      /\ \A a \in begin : Status(a) \in {"READY_TO_START", "DEPS_WAITING"}
      /\ \A a \in wait : Status(a) = "READY_TO_START" /\ a \notin begin
      /\ \A a \in ready : \/ Status(a) = "READY_TO_PULL" /\ a \in Imageless
                          \/ Status(a) = "START_FAILED"
      /\ \A a \in again : Status(a) = "PULL_FAILED"
      /\ \A a \in heal : Status(a) = "STOPPING_FAILED"
    OBVIOUS
<1> HIDE DEF live, in, pull, begin, wait, ready, again, heal
<1>4. ASSUME NEW a \in live
      PROVE  /\ a \in pull => entry(a).status = "PULLING"
             /\ a \in begin => entry(a).status = "STARTING"
             /\ a \in wait => entry(a).status = "DEPS_WAITING"
             /\ a \in ready => entry(a).status = "READY_TO_START"
             /\ a \in again => entry(a).status = "READY_TO_PULL"
             /\ a \in heal => entry(a).status = "UPDATING"
             /\ a \notin pull \cup begin \cup wait \cup ready \cup again \cup heal =>
                    entry(a).status = Status(a)
  <2>1. apps[a] \in AppRuntime
      BY <1>2, Facts
  <2>2. /\ \A s : SetAppStatus(apps[a], s).status = s
        /\ \A n : [SetAppStatus(apps[a], "UPDATING") EXCEPT !.next = n].status = "UPDATING"
      BY <2>1, StatusOf
  <2>3. CASE a \in pull
    <3>1. a \notin begin /\ a \notin wait /\ a \notin ready /\ a \notin again /\ a \notin heal
        BY <1>3, <2>3
    <3> QED BY <2>2, <2>3, <3>1
  <2>4. CASE a \in begin
    <3>1. a \notin pull /\ a \notin wait /\ a \notin ready /\ a \notin again /\ a \notin heal
        BY <1>3, <2>4
    <3> QED BY <2>2, <2>4, <3>1
  <2>5. CASE a \in wait
    <3>1. a \notin pull /\ a \notin begin /\ a \notin ready /\ a \notin again /\ a \notin heal
        BY <1>3, <2>5
    <3> QED BY <2>2, <2>5, <3>1
  <2>6. CASE a \in ready
    <3>1. a \notin pull /\ a \notin begin /\ a \notin wait /\ a \notin again /\ a \notin heal
        BY <1>3, <2>6
    <3> QED BY <2>2, <2>6, <3>1
  <2>7. CASE a \in again
    <3>1. a \notin pull /\ a \notin begin /\ a \notin wait /\ a \notin ready /\ a \notin heal
        BY <1>3, <2>7
    <3> QED BY <2>2, <2>7, <3>1
  <2>8. CASE a \in heal
    <3>1. a \notin pull /\ a \notin begin /\ a \notin wait /\ a \notin ready /\ a \notin again
        BY <1>3, <2>8
    <3> QED BY <2>2, <2>8, <3>1
  <2>9. CASE a \notin pull \cup begin \cup wait \cup ready \cup again \cup heal
    <3>1. entry(a) = apps[a]
        BY <2>9
    <3> QED BY <2>9, <3>1 DEF Status
  <2> QED BY <2>3, <2>4, <2>5, <2>6, <2>7, <2>8, <2>9
<1> HIDE DEF entry
<1>5. \A x \in DOMAIN apps' : x \in live /\ apps'[x] = entry(x)
    BY <1>1
<1>6. \A x \in DOMAIN apps' :
                \/ apps'[x].status = Status(x)
                \/ /\ Status(x) \in {"READY_TO_PULL", "READY_TO_START", "DEPS_WAITING",
                                     "START_FAILED", "PULL_FAILED", "STOPPING_FAILED"}
                   /\ apps'[x].status = "PULLING" => Status(x) = "READY_TO_PULL"
                   /\ apps'[x].status = "STARTING" =>
                          Status(x) \in {"READY_TO_START", "DEPS_WAITING"}
    BY <1>3, <1>4, <1>5
<1>7. ASSUME NEW p \in plans', p.op \in Startup
      PROVE  /\ p.app \in DOMAIN apps'
             /\ \/ /\ p = PullPlan(p.app) /\ apps'[p.app].status = "PULLING"
                   /\ Status(p.app) = "READY_TO_PULL"
                \/ /\ p = FirstPlan(p.app) /\ apps'[p.app].status = "STARTING"
                   /\ Status(p.app) \in {"READY_TO_START", "DEPS_WAITING"}
  <2>1. CASE \E a \in pull : p = PullPlan(a)
    <3>1. PICK a \in pull : p = PullPlan(a)
        BY <2>1
    <3>2. p.app = a
        BY <3>1 DEF PullPlan
    <3> QED BY <1>1, <1>2, <1>3, <1>4, <3>1, <3>2
  <2>2. CASE \E a \in begin : p = FirstPlan(a)
    <3>1. PICK a \in begin : p = FirstPlan(a)
        BY <2>2
    <3>2. p.app = a
        BY <3>1 DEF FirstPlan, StartPlan, InitPlan
    <3> QED BY <1>1, <1>2, <1>3, <1>4, <3>1, <3>2
  <2>3. ~ \E a \in heal : p = StopPlan(a)
      BY <1>7 DEF StopPlan, Startup, Starting
  <2> QED BY <1>1, <2>1, <2>2, <2>3
<1>8. DOMAIN apps' = live
    BY <1>1
<1> QED BY <1>2, <1>6, <1>7, <1>8

\* No startup begins while another is under way, nor after a stop.
LEMMA StepAllCore == ASSUME IInv, Core, NEW over, StepAllWith(over) PROVE Core'
<1>1. /\ plans = {} /\ UNCHANGED <<task, nsStatus, conts, closed>>
    BY Zenon DEF StepAllWith, At, workVars
<1>2. CASE nsStatus = "STOPPING"
  <2>1. UNCHANGED <<apps, plans>>
      BY <1>2, Zenon DEF StepAllWith
  <2> QED BY <1>1, <2>1, SameCore
<1>3. CASE nsStatus # "STOPPING"
  <2>1. /\ DOMAIN apps' \subseteq Known
        /\ \A x \in Known : Status(x) # "STOPPED" => x \in DOMAIN apps'
        /\ \A x \in DOMAIN apps' :
                \/ apps'[x].status = Status(x)
                \/ /\ Status(x) \in {"READY_TO_PULL", "READY_TO_START", "DEPS_WAITING",
                                     "START_FAILED", "PULL_FAILED", "STOPPING_FAILED"}
                   /\ apps'[x].status = "PULLING" => Status(x) = "READY_TO_PULL"
                   /\ apps'[x].status = "STARTING" =>
                          Status(x) \in {"READY_TO_START", "DEPS_WAITING"}
        /\ \A p \in plans' : p.op \in Startup =>
                /\ p.app \in DOMAIN apps'
                /\ \/ /\ p = PullPlan(p.app) /\ apps'[p.app].status = "PULLING"
                      /\ Status(p.app) = "READY_TO_PULL"
                   \/ /\ p = FirstPlan(p.app) /\ apps'[p.app].status = "STARTING"
                      /\ Status(p.app) \in {"READY_TO_START", "DEPS_WAITING"}
      BY <1>3, StepAllMoves
  <2>2. \A x \in Apps, o \in Startup :
            /\ Live(x, o)' = Live(x, o) /\ Ending(x, o)' = Ending(x, o)
            /\ Live(x, o) => x \in Known /\ Status(x) \in {"PULLING", "STARTING"}
      BY <1>1 DEF Live, Ending, Core, StatusTells, Active, Startup
  <2>3. \A x \in Apps, o \in Startup : Planned(x, o)' =>
            /\ x \in DOMAIN apps' /\ Status(x) \notin {"PULLING", "STARTING"}
            /\ \/ o = "pull" /\ apps'[x].status = "PULLING"
               \/ /\ o = FirstPlan(x).op /\ o \in Starting
                  /\ apps'[x].status = "STARTING"
    <3> SUFFICES ASSUME NEW x \in Apps, NEW o \in Startup, NEW p \in plans',
                        p.app = x, p.op = o
                 PROVE  /\ x \in DOMAIN apps' /\ Status(x) \notin {"PULLING", "STARTING"}
                        /\ \/ o = "pull" /\ apps'[x].status = "PULLING"
                           \/ /\ o = FirstPlan(x).op /\ o \in Starting
                              /\ apps'[x].status = "STARTING"
        BY DEF Planned
    <3>1. PullPlan(x).op = "pull" /\ FirstPlan(x).op \in Starting
        BY DEF PullPlan, FirstPlan, StartPlan, InitPlan, Starting
    <3> QED BY <2>1, <3>1
  <2>4. StatusTells'
    <3> SUFFICES ASSUME NEW x \in Apps
                 PROVE  /\ Active(x, "pull")' => x \in Known' /\ Status(x)' = "PULLING"
                        /\ \A o \in Starting : Active(x, o)' => x \in Known' /\ Status(x)' = "STARTING"
                        /\ \A o, q \in Startup : Active(x, o)' /\ Active(x, q)' => o = q
        BY DEF StatusTells
    <3>1. CASE \E o \in Startup : Live(x, o)
      <4>1. x \in Known /\ Status(x) \in {"PULLING", "STARTING"}
          BY <2>2, <3>1
      <4>2. \A o \in Startup : ~Planned(x, o)'
          BY <2>3, <4>1
      <4>3. x \in DOMAIN apps' /\ apps'[x].status = Status(x)
          BY <2>1, <4>1
      <4>4. \A o \in Startup : Active(x, o)' => Active(x, o)
          BY <2>2, <4>2 DEF Active
      <4> QED BY <4>3, <4>4 DEF Core, StatusTells, Startup, Known, Status
    <3>2. CASE \A o \in Startup : ~Live(x, o)
      <4>1. \A o \in Startup : Active(x, o)' => Planned(x, o)'
          BY <2>2, <3>2 DEF Active
      <4>2. "pull" \notin Starting /\ "pull" \in Startup /\ Starting \subseteq Startup
          BY DEF Starting, Startup
      <4> QED BY <2>3, <4>1, <4>2 DEF Known, Status
    <3> QED BY <3>1, <3>2
  <2>5. nsStatus = "STOPPED" => \A x \in DOMAIN apps' : apps'[x].status = "STOPPED"
      BY <2>1 DEF Core, StopCovers
  <2>6. OnlyStopCancels'
    <3> SUFFICES ASSUME NEW x \in Apps, NEW o \in Startup, Ending(x, o)'
                 PROVE  /\ nsStatus' \in {"STOPPING", "STOPPED"}
                        /\ x \in Known' => Status(x)' \notin {"PULLING", "STARTING"}
        BY DEF OnlyStopCancels
    <3>1. Ending(x, o) /\ nsStatus = "STOPPED"
        BY <1>3, <2>2 DEF Core, OnlyStopCancels
    <3> QED BY <1>1, <2>5, <3>1 DEF Known, Status
  <2>7. StopCovers'
    <3>1. closed => \A x \in DOMAIN apps' : apps'[x].status = "STOPPED"
        BY <2>1 DEF Core, StopCovers
    <3> QED BY <1>1, <1>3, <3>1 DEF Core, StopCovers, Known, Status
  <2> QED BY <2>4, <2>6, <2>7 DEF Core
<1> QED BY <1>2, <1>3
-----------------------------------------------------------------------------
(* Every step.                                                             *)

\* The workers keep the slots they have, and change no status.
LEMMA WorkerCore ==
    ASSUME IInv, Core, NEW a \in Apps, AppWorker(a) PROVE Core'
<1>1. UNCHANGED <<apps, plans, nsStatus, conts, closed>>
    BY DEF AppWorker, WorkerEnds, StopWorker, StartWorker, WorkerFrame, nsVars, loopVars
<1>2. PICK o \in Ops, ph \in Phases \ {"none"} : Post(a, o, ph) /\ task[a][o].ph # "none"
    BY DEF AppWorker, WorkerEnds, StopWorker, StartWorker, StartClean, StartCreate, StartRun,
       StartFails, Ops, Phases
<1>3. \A x \in Apps, q \in Startup :
          Live(x, q)' = Live(x, q) /\ Ending(x, q)' = Ending(x, q)
    BY <1>2, Facts, PostKeeps
<1>4. \A x \in Apps, q \in Startup : Active(x, q)' => Active(x, q)
    BY <1>1, <1>3 DEF Active, Planned
<1> QED BY <1>1, <1>3, <1>4, FrameCore DEF Known, Status

\* Without operations on single applications, what may happen.
LEMMA UnattendedStep ==
    ASSUME Unattended, Quiet, [Next]_vars
    PROVE  \/ LoopInside \/ LoopSelect \/ \E a \in Apps : AppWorker(a)
           \/ \E a \in Apps : Crash(a)
           \/ ReconcileWorker \/ RemoveNetworkWorker \/ RetryPullFailedApps \/ Stop
           \/ UNCHANGED vars
<1>1. ASSUME NEW a \in Apps, APITail(a) PROVE FALSE
    BY <1>1 DEF APITail, RestartDelegated, RestartSecond, RestartThird, APIDispatch, Quiet
<1>2. CASE APICall
  <2>1. /\ \A a : ~StopApp(a) /\ ~StartApp(a) /\ ~RestartApp(a)
        /\ \A want : ~Regenerate(want)
      BY DEF StopApp, StartApp, RestartApp, Regenerate, Call, Unattended
  <2> QED BY <1>2, <2>1, Zenon DEF APICall
<1> QED BY <1>1, <1>2, Zenon DEF Next

\* No step begins an operation on a single application.
LEMMA StepQuiet == ASSUME Unattended, Quiet, [Next]_vars PROVE Quiet'
<1>1. LoopInside \/ LoopSelect => UNCHANGED <<held, restarting>>
    BY DEF LoopInside, LoopDispatch, DrainNext, ApplyDone, DoStop, RegenBegin, RegenCommit,
       LivenessRestart, StepAll, StepAllWith, EvalNext, EvalDone, UpdateNsStatus,
       LoopSelect, SelectCommand, SelectExit, Tick, TickWith, ApplyAppResult,
       ApplyPullResult, ApplyInitResult, ApplyStartResult, ApplyProbeResult,
       ApplyStopResult, ApplyLivenessResult, Handled, ApplyReconcileResult,
       ApplyRemoveNetworkResult, apiVars
<1>2. (\E a \in Apps : AppWorker(a)) \/ (\E a \in Apps : Crash(a)) \/ ReconcileWorker
          \/ RemoveNetworkWorker => UNCHANGED <<held, restarting>>
    BY DEF AppWorker, WorkerEnds, StopWorker, StartWorker, WorkerFrame, Crash,
       ReconcileWorker, RemoveNetworkWorker, apiVars
<1>3. RetryPullFailedApps \/ Stop \/ UNCHANGED vars => UNCHANGED <<held, restarting>>
    BY DEF RetryPullFailedApps, Stop, vars, apiVars
<1>4. UNCHANGED <<held, restarting>>
    BY <1>1, <1>2, <1>3, UnattendedStep
<1> QED BY <1>4 DEF Quiet

\* Startups stay alone and the stop covers what is up, whatever step comes.
LEMMA StepCore == ASSUME Unattended, IInv, UInv, [Next]_vars PROVE Core'
<1> USE DEF UInv
<1>1. CASE LoopInside
  <2>1. ~RegenBegin /\ ~RegenCommit
    <3>1. todo # <<>> => Head(todo).tag = "stop"
        BY DEF OnlyStops, CmdStop
    <3> QED BY <3>1, Zenon DEF RegenBegin, RegenCommit, Applying, At, OnlyStops
  <2>2. DrainNext \/ ApplyDone \/ EvalDone
            => UNCHANGED <<apps, task, plans, nsStatus, conts, closed>>
      BY DEF DrainNext, ApplyDone, EvalDone, nsVars, workVars
  <2> QED BY <1>1, <2>1, <2>2, SameCore, LoopDispatchCore, DoStopCore, LivenessCore,
             StepAllCore, EvalNextCore, UpdateNsStatusCore, Zenon DEF LoopInside, StepAll
<1>2. CASE LoopSelect
  <2>1. SelectCommand \/ SelectExit
            => UNCHANGED <<apps, task, plans, nsStatus, conts, closed>>
      BY DEF SelectCommand, SelectExit, nsVars, workVars
  <2> QED BY <1>2, <2>1, SameCore, MovedCore, PullResultCore, InitResultCore,
             StartResultCore, ProbeResultCore, StopResultCore, LivenessCore, NetworkCore,
             Zenon DEF LoopSelect, ApplyAppResult
<1>3. (\E a \in Apps : Crash(a)) \/ ReconcileWorker \/ RemoveNetworkWorker \/ Stop
          \/ UNCHANGED vars
          => UNCHANGED <<apps, task, plans, nsStatus, conts, closed>>
    BY DEF Crash, ReconcileWorker, RemoveNetworkWorker, Stop, APIFrame, vars, nsVars,
       loopVars, workVars
<1> QED BY <1>1, <1>2, <1>3, SameCore, WorkerCore, MovedCore, UnattendedStep, Zenon

\* doStart leaves nothing under way but the sweeps of stale containers.
LEMMA InitUInv == Init => UInv
<1> SUFFICES ASSUME Init PROVE UInv
    OBVIOUS
<1>1. PICK how \in [Apps -> Found], ver \in Versions :
          /\ nsStatus = "STARTING" /\ closed = FALSE
          /\ conts = <<>> /\ net = "none"
          /\ plans = {StopPlan(a) : a \in {b \in Apps : how[b] = "stale"}}
          /\ task = [a \in Apps |-> [o \in Ops |-> Idle]]
          /\ held = [a \in Apps |-> 0] /\ restarting = [a \in Apps |-> "no"]
    BY Zenon DEF Init
<1>2. \A x \in Apps, o \in Startup : ~Active(x, o) /\ ~Ending(x, o)
  <2>1. \A x \in Apps, o \in Startup : task[x][o].ph = "none"
      BY <1>1 DEF Idle, Startup, Starting, Ops
  <2>2. \A x \in Apps, o \in Startup : ~Planned(x, o)
      BY <1>1 DEF Planned, StopPlan, Startup, Starting
  <2> QED BY <2>1, <2>2 DEF Active, Live, Ending
<1>3. StatusTells /\ OnlyStopCancels
    BY <1>2 DEF StatusTells, OnlyStopCancels, Startup
<1> QED BY <1>1, <1>3, InitOnlyStops DEF UInv, Core, StopCovers, ChainInv, Quiet

\* The invariant of an unattended namespace.
LEMMA UnattendedInv ==
    ASSUME Unattended, IInv, UInv, [Next]_vars PROVE UInv'
<1>1. "Regenerate" \notin Calls
    BY DEF Unattended
<1>2. \A a \in Apps : RestartApp(a) \/ RestartDelegated(a) => UNCHANGED queue
    BY DEF Unattended, UInv, Quiet, RestartApp, RestartDelegated, Call
<1>3. OnlyStops'
    BY <1>1, <1>2, StepOnlyStops DEF UInv
<1>4. ChainInv'
    BY StepChain DEF UInv
<1>5. Quiet'
    BY StepQuiet DEF UInv
<1> QED BY <1>3, <1>4, <1>5, StepCore DEF UInv

\* The steps of a startup are sequential in an unattended namespace: whatever
\* fails, is retried, probed or diffed, and whether or not it is being stopped, no
\* application has two workers that pull, initialise, start or probe it without
\* having been cancelled.
THEOREM StartupsAreSequential == Unattended => (Spec => []StartupIsSequential)
<1> SUFFICES ASSUME Unattended PROVE Spec => []StartupIsSequential
    OBVIOUS
<1>1. UInv => StartupIsSequential
  <2> SUFFICES ASSUME UInv, NEW x \in Apps
               PROVE  Cardinality({o \in {"pull", "init", "start", "probe"} :
                          task[x][o].ph # "none" /\ ~task[x][o].cancel}) <= 1
      BY DEF StartupIsSequential
  <2> DEFINE L == {o \in {"pull", "init", "start", "probe"} :
                       task[x][o].ph # "none" /\ ~task[x][o].cancel}
  <2>1. \A o, q \in L : o = q
    <3>1. \A o \in L : o \in Startup /\ Active(x, o)
        BY DEF Startup, Starting, Active, Live
    <3> QED BY <3>1 DEF UInv, Core, StatusTells
  <2>2. CASE L = {}
      BY <2>2, FS_EmptySet
  <2>3. CASE L # {}
    <3>1. \E o : L = {o}
        BY <2>1, <2>3
    <3> HIDE DEF L
    <3>2. Cardinality(L) = 1
        BY <3>1, FS_Singleton
    <3> QED BY <3>2 DEF L
  <2> QED BY <2>2, <2>3
<1>2. IInv /\ UInv /\ [Next]_vars => UInv'
    BY UnattendedInv
<1> QED BY <1>1, <1>2, InitUInv, InitInv, NextInv, PTL DEF Spec
-----------------------------------------------------------------------------
(* The end of a stop, where nothing fails.                                 *)

\* When the network is being removed, and ever after, no startup is under way.
LEMMA DownAtTheEnd ==
    ASSUME UInv, net # "none" \/ closed
    PROVE  \A x \in Apps, o \in Startup : ~Active(x, o)
<1>1. CASE closed
    BY <1>1, NotStarting DEF UInv, Core, StopCovers
<1>2. CASE net # "none"
  <2>1. nsStatus = "STOPPING" /\ conts = <<>>
      BY <1>2 DEF UInv, ChainInv
  <2>2. \A x \in Known : Status(x) \in Terminal
      BY <2>1 DEF UInv, Core, StopCovers
  <2> QED BY <2>2, NotStarting DEF UInv, Terminal
<1> QED BY <1>1, <1>2

\* The loop and the API start no worker then: a start slot stays or is freed.
LEMMA StartSlots ==
    ASSUME IInv, OnlyStops, \A x \in Apps, o \in Startup : ~Active(x, o),
           LoopInside \/ LoopSelect \/ RetryPullFailedApps \/ Stop \/ UNCHANGED vars
    PROVE  \A x \in Apps : task'[x]["start"].ph \in {"none", task[x]["start"].ph}
<1>1. "start" \in Ops /\ "start" \in Startup /\ "live" \in Ops
    BY DEF Ops, Startup, Starting
<1>2. CASE task' = task
    BY <1>2
<1>3. ASSUME NEW a \in Apps, NEW o \in Ops, task' = Forgotten(task, a, o)
      PROVE  \A x \in Apps : task'[x]["start"].ph \in {"none", task[x]["start"].ph}
  <2>1. /\ task'[a][o] = Idle
        /\ \A x \in Apps, q \in Ops : x # a \/ q # o => task'[x][q] = task[x][q]
      BY <1>3, Facts, ForgottenKeeps
  <2> QED BY <1>1, <2>1 DEF Idle
<1>4. CASE LoopDispatch
  <2>1. PICK p \in plans : task' = Dispatched(task, p) /\ plans' = plans \ {p}
      BY <1>4 DEF LoopDispatch
  <2>2. \A x \in Apps, o \in Ops : x # p.app \/ o # p.op => task'[x][o] = task[x][o]
      BY <2>1, Facts, DispatchedKeeps
  <2>3. \A x \in Apps : x # p.app \/ "start" # p.op
      BY <1>1 DEF Active, Planned
  <2> QED BY <1>1, <2>2, <2>3
<1>5. ASSUME NEW G, GroupStop(G)
      PROVE  \A x \in Apps : task'[x]["start"].ph \in {"none", task[x]["start"].ph}
  <2>1. PICK S, T : task' = Cancelled(Cancelled(task, S, Ops), T, Ops \ {"stop"})
      BY <1>5 DEF GroupStop, GroupCancelled
  <2> DEFINE t == Cancelled(task, S, Ops)
  <2>2. t \in [Apps -> [Ops -> Task]] /\ \A x \in Apps : t[x]["start"].ph = task[x]["start"].ph
      BY <1>1, Facts, CancelledType, CancelledKeeps DEF TaskType
  <2> HIDE DEF t
  <2>3. \A x \in Apps : task'[x]["start"].ph = t[x]["start"].ph
      BY <1>1, <2>1, <2>2, CancelledKeeps DEF t
  <2> QED BY <2>2, <2>3
<1>6. CASE LoopInside
  <2>1. ~RegenBegin /\ ~RegenCommit
    <3>1. todo # <<>> => Head(todo).tag = "stop"
        BY DEF OnlyStops, CmdStop
    <3> QED BY <3>1, Zenon DEF RegenBegin, RegenCommit, Applying, At, OnlyStops
  <2>2. DrainNext \/ ApplyDone \/ StepAll \/ EvalDone \/ UpdateNsStatus => task' = task
      BY Zenon DEF DrainNext, ApplyDone, StepAll, StepAllWith, EvalDone, UpdateNsStatus, workVars
  <2>3. DoStop \/ EvalNext => task' = task \/ \E G : GroupStop(G)
      BY Zenon DEF DoStop, EvalNext
  <2>4. \A a \in Apps : LivenessRestart(a) => task' = Forgotten(task, a, "live")
      BY DEF LivenessRestart
  <2> QED BY <1>1, <1>2, <1>3, <1>4, <1>5, <1>6, <2>1, <2>2, <2>3, <2>4, Zenon DEF LoopInside
<1>7. CASE LoopSelect
  <2>1. SelectCommand \/ SelectExit \/ ApplyReconcileResult \/ ApplyRemoveNetworkResult
            => task' = task
      BY DEF SelectCommand, SelectExit, ApplyReconcileResult, ApplyRemoveNetworkResult, workVars
  <2>2. CASE Tick
    <3>1. PICK over : task' = Cancelled(task, over, {"stop"})
        BY <2>2, Zenon DEF Tick, TickWith
    <3> QED BY <1>1, <3>1, Facts, CancelledKeeps DEF TaskType
  <2>3. ASSUME NEW a \in Apps, ApplyAppResult(a)
        PROVE  \A x \in Apps : task'[x]["start"].ph \in {"none", task[x]["start"].ph}
    <3>1. CASE ApplyLivenessResult(a)
      <4>1. CASE Post(a, "live", "diag")
        <5>1. "diag" \in Phases \ {"none"} /\ task[a]["live"].ph # "none"
            BY <3>1 DEF Phases, ApplyLivenessResult
        <5>2. \A x \in Apps, q \in Ops : x # a \/ q # "live" => task'[x][q].ph = task[x][q].ph
            BY <1>1, <4>1, <5>1, Facts, PostKeeps
        <5> QED BY <1>1, <5>2
      <4>2. CASE task' = Forgotten(task, a, "live")
          BY <1>1, <1>3, <4>2
      <4> QED BY <3>1, <4>1, <4>2 DEF ApplyLivenessResult, Post
    <3>2. CASE ~ApplyLivenessResult(a)
      <4>1. \E o \in Ops : task' = Forgotten(task, a, o)
          BY <2>3, <3>2 DEF ApplyAppResult, ApplyPullResult, ApplyInitResult,
             ApplyStartResult, ApplyProbeResult, ApplyStopResult, Result, Ops
      <4> QED BY <1>3, <4>1
    <3> QED BY <3>1, <3>2
  <2> QED BY <1>2, <1>7, <2>1, <2>2, <2>3, Zenon DEF LoopSelect
<1>8. RetryPullFailedApps \/ Stop \/ UNCHANGED vars => task' = task
    BY DEF RetryPullFailedApps, Stop, vars, workVars
<1> QED BY <1>2, <1>6, <1>7, <1>8

\* Only the worker that removes the network takes a stop to its end.
LEMMA EndReached ==
    ASSUME IInv, [Next]_vars, Unattended, Quiet, ~RemoveNetworkWorker, net' = "done" \/ closed'
    PROVE  net = "done" \/ closed
<1>1. LoopInside => net' \in {net, "run"} /\ closed' = closed
    BY DEF LoopInside, LoopDispatch, DrainNext, ApplyDone, DoStop, RegenBegin, RegenCommit,
       LivenessRestart, Handled, StepAll, StepAllWith, EvalNext, EvalDone, UpdateNsStatus,
       workVars
<1>2. LoopSelect => \/ UNCHANGED <<net, closed>>
                    \/ net = "done"
    BY DEF LoopSelect, SelectCommand, SelectExit, Tick, TickWith, ApplyAppResult,
       ApplyPullResult, ApplyInitResult, ApplyStartResult, ApplyProbeResult,
       ApplyStopResult, ApplyLivenessResult, Handled, ApplyReconcileResult,
       ApplyRemoveNetworkResult, workVars
<1>3. (\E a \in Apps : AppWorker(a)) \/ (\E a \in Apps : Crash(a)) \/ ReconcileWorker
          => UNCHANGED <<net, closed>>
    BY DEF AppWorker, WorkerEnds, StopWorker, StartWorker, WorkerFrame, Crash, loopVars,
       ReconcileWorker
<1>4. RetryPullFailedApps \/ Stop \/ UNCHANGED vars => UNCHANGED <<net, closed>>
    BY DEF RetryPullFailedApps, Stop, APIFrame, vars, loopVars, workVars
<1>5. \/ net' \in {net, "run"} /\ closed' = closed
      \/ UNCHANGED <<net, closed>>
      \/ net = "done"
    BY <1>1, <1>2, <1>3, <1>4, UnattendedStep, Zenon
<1> QED BY <1>5

\* Where nothing fails the sweep of RemoveNetwork leaves no container, and no
\* worker brings one up after it.
LEMMA StepSwept ==
    ASSUME MaxFaults = 0, Unattended, IInv, UInv, Swept, [Next]_vars PROVE Swept'
<1> SUFFICES ASSUME net' = "done" \/ closed'
             PROVE  \A x \in Apps :
                       /\ docker'[x].state \in {"none", "created"}
                       /\ task'[x]["start"].ph = "start" => docker'[x].state = "none"
    BY DEF Swept
<1>0. faults = 0 /\ docker \in [Apps -> Container] /\ IsFiniteSet(Apps) /\ ~Fault
    BY ShapeAssumption DEF IInv, TypeOK, ApiTypeOK, WorkTypeOK, Fault
<1>1. CASE RemoveNetworkWorker
  <2>1. PICK left \in SUBSET Apps :
            /\ faults + Cardinality(left) <= MaxFaults
            /\ docker' = [a \in Apps |-> IF a \in left THEN docker[a] ELSE NoContainer]
      BY <1>1 DEF RemoveNetworkWorker
  <2>2. IsFiniteSet(left)
      BY <1>0, FS_Subset
  <2>3. Cardinality(left) = 0
      BY <1>0, <2>1, <2>2, FS_CardinalityType
  <2>4. left = {}
      BY <2>2, <2>3, FS_EmptySet
  <2> QED BY <2>1, <2>4 DEF NoContainer
<1>2. CASE ~RemoveNetworkWorker
  <2>1. net = "done" \/ closed
      BY <1>2, EndReached DEF UInv
  <2>2. \A x \in Apps :
            /\ docker[x].state \in {"none", "created"}
            /\ task[x]["start"].ph = "start" => docker[x].state = "none"
      BY <2>1 DEF Swept
  <2>3. \A x \in Apps, o \in Startup : ~Active(x, o)
      BY <2>1, DownAtTheEnd
  <2>4. \A x \in Apps : task[x]["start"].ph # "none" => task[x]["start"].cancel
      BY <2>3, Facts DEF Active, Live, Startup, Starting
  <2>5. CASE LoopInside \/ LoopSelect \/ RetryPullFailedApps \/ Stop \/ UNCHANGED vars
    <3>1. docker' = docker
      <4>1. LoopInside => docker' = docker
          BY DEF LoopInside, LoopDispatch, DrainNext, ApplyDone, DoStop, RegenBegin, RegenCommit,
             LivenessRestart, Handled, StepAll, StepAllWith, EvalNext, EvalDone,
             UpdateNsStatus, workVars
      <4>2. LoopSelect => docker' = docker
          BY DEF LoopSelect, SelectCommand, SelectExit, Tick, TickWith, ApplyAppResult,
             ApplyPullResult, ApplyInitResult, ApplyStartResult, ApplyProbeResult,
             ApplyStopResult, ApplyLivenessResult, Handled, ApplyReconcileResult,
             ApplyRemoveNetworkResult, workVars
      <4>3. RetryPullFailedApps \/ Stop \/ UNCHANGED vars => docker' = docker
          BY DEF RetryPullFailedApps, Stop, APIFrame, vars, workVars
      <4> QED BY <2>5, <4>1, <4>2, <4>3
    <3>2. \A x \in Apps : task'[x]["start"].ph \in {"none", task[x]["start"].ph}
        BY <2>3, <2>5, StartSlots DEF UInv
    <3> QED BY <2>2, <3>1, <3>2
  <2>6. ASSUME NEW a \in Apps, AppWorker(a) \/ Crash(a)
        PROVE  \A x \in Apps :
                  /\ docker'[x].state \in {"none", "created"}
                  /\ task'[x]["start"].ph = "start" => docker'[x].state = "none"
    <3>0. "start" \in Ops /\ "stop" \in Ops /\ task \in [Apps -> [Ops -> Task]]
        BY Facts DEF Ops, TaskType
    <3>1. ~Crash(a)
        BY <1>0 DEF Crash
    <3>2. CASE \E o \in {"pull", "init", "probe", "live"} : WorkerEnds(a, o)
      <4>1. PICK o \in Ops \ {"start"}, ph \in Phases : Post(a, o, ph)
          BY <3>2 DEF WorkerEnds, Ops, Phases
      <4>2. \A x \in Apps : task'[x]["start"] = task[x]["start"]
          BY <3>0, <4>1 DEF Post
      <4>3. docker' = docker
          BY <3>2 DEF WorkerEnds
      <4> QED BY <2>2, <4>2, <4>3
    <3>3. CASE StopWorker(a)
      <4>1. \E ph : Post(a, "stop", ph)
          BY <3>3 DEF StopWorker
      <4>2. \A x \in Apps : task'[x]["start"] = task[x]["start"]
          BY <3>0, <4>1 DEF Post
      <4>3. docker' = docker \/ docker' = [docker EXCEPT ![a] = NoContainer]
          BY <2>2, <3>3 DEF StopWorker
      <4> QED BY <1>0, <2>2, <4>2, <4>3 DEF NoContainer
    <3>4. CASE StartWorker(a)
      <4>1. task[a]["start"].ph # "none" => task[a]["start"].cancel
          BY <2>4
      <4>2. CASE StartFails(a)
        <5>1. docker' = docker /\ task' = [task EXCEPT ![a]["start"].ph = "err"]
            BY <4>2 DEF StartFails, Post
        <5>2. \A x \in Apps : task'[x]["start"].ph \in {"err", task[x]["start"].ph}
            BY <3>0, <5>1 DEF Task
        <5> QED BY <2>2, <5>1, <5>2
      <4>3. CASE StartCreate(a)
        <5>1. /\ docker' = [docker EXCEPT ![a] =
                     [state |-> "created", def |-> task[a]["start"].arg]]
              /\ task' = [task EXCEPT ![a]["start"].ph = "err"]
            BY <4>1, <4>3 DEF StartCreate, Post
        <5>2. /\ task'[a]["start"].ph = "err"
              /\ \A x \in Apps \ {a} : task'[x] = task[x]
            BY <3>0, <5>1 DEF Task
        <5> QED BY <1>0, <2>2, <5>1, <5>2
      <4>4. ~StartClean(a)
          BY <4>1 DEF StartClean
      <4>5. ~StartRun(a)
          BY <2>2 DEF StartRun
      <4> QED BY <3>4, <4>2, <4>3, <4>4, <4>5 DEF StartWorker
    <3> QED BY <2>6, <3>1, <3>2, <3>3, <3>4, Zenon DEF AppWorker
  <2>7. CASE ReconcileWorker
      BY <2>2, <2>7 DEF ReconcileWorker
  <2> QED BY <1>2, <2>5, <2>6, <2>7, UnattendedStep DEF UInv
<1> QED BY <1>1, <1>2

\* Once the loop of a stopped namespace may exit none of its containers runs, not
\* even one whose start a stop has cancelled at any of its steps, where no request
\* to Docker fails (a container that resists the sweep is left, and only logged).
THEOREM StopLeavesNothingRunning ==
    Unattended /\ MaxFaults = 0 => (Spec => []NothingRunsAfterStop)
<1> SUFFICES ASSUME Unattended, MaxFaults = 0 PROVE Spec => []NothingRunsAfterStop
    OBVIOUS
<1>1. Init => Swept
    BY DEF Init, Swept
<1>2. Swept => NothingRunsAfterStop
    BY DEF Swept, NothingRunsAfterStop
<1>3. IInv /\ UInv /\ Swept /\ [Next]_vars => Swept'
    BY StepSwept
<1>4. IInv /\ UInv /\ [Next]_vars => UInv'
    BY UnattendedInv
<1> QED BY <1>1, <1>2, <1>3, <1>4, InitUInv, InitInv, NextInv, PTL DEF Spec
-----------------------------------------------------------------------------
(* The order of a stop.                                                    *)

\* While the namespace stops, only the next group of its chain goes down.
LEMMA OnlyChainStops ==
    ASSUME Unattended, IInv, UInv, [Next]_vars, nsStatus = "STOPPING", nsStatus' = "STOPPING",
           NEW x \in Known, Status(x) = "RUNNING", apps'[x].status = "STOPPING"
    PROVE  EvalNext
<1>0. apps' # apps
    BY DEF Status
<1>1. CASE LoopInside
  <2>1. ~RegenBegin /\ ~RegenCommit
    <3>1. todo # <<>> => Head(todo).tag = "stop"
        BY DEF UInv, OnlyStops, CmdStop
    <3> QED BY <3>1, Zenon DEF RegenBegin, RegenCommit, Applying, At, UInv, OnlyStops
  <2>2. LoopDispatch \/ DrainNext \/ ApplyDone \/ EvalDone \/ UpdateNsStatus => apps' = apps
      BY DEF LoopDispatch, DrainNext, ApplyDone, EvalDone, UpdateNsStatus, nsVars
  <2>3. DoStop \/ StepAll => apps' = apps
      BY Zenon DEF DoStop, StopInFlight, StepAll, StepAllWith
  <2>4. ASSUME NEW a \in Apps, LivenessRestart(a)
        PROVE  FALSE
    <3>1. /\ a \in Known /\ apps[a] \in AppRuntime
          /\ apps' = [apps EXCEPT ![a] =
                [SetAppStatus(apps[a], "UPDATING") EXCEPT !.next = "READY_TO_PULL"]]
        BY <1>0, <2>4, Facts DEF LivenessRestart, Dropped, StillRunning, In, Known
    <3>2. [SetAppStatus(apps[a], "UPDATING") EXCEPT !.next = "READY_TO_PULL"].status
              = "UPDATING"
        BY <3>1, StatusOf
    <3> QED BY <3>1, <3>2 DEF Known, Status
  <2> QED BY <1>0, <1>1, <2>1, <2>2, <2>3, <2>4, Zenon DEF LoopInside
<1>2. ~LoopSelect
  <2>1. SelectCommand \/ SelectExit => apps' = apps
      BY DEF SelectCommand, SelectExit, nsVars
  <2>2. ~Tick
    <3> SUFFICES ASSUME Tick PROVE FALSE
        OBVIOUS
    <3>1. PICK over \in SUBSET In(Going) :
              apps' = [y \in Known |-> IF y \in over
                   THEN [SetAppStatus(apps[y], "STOPPING_FAILED") EXCEPT !.next = ""]
                   ELSE apps[y]]
        BY Zenon DEF Tick, TickWith
    <3>2. x \notin over
        BY DEF In, Going
    <3> QED BY <3>1, <3>2 DEF Status
  <2>3. ~ApplyReconcileResult
    <3>1. apps[x] \in AppRuntime
        BY Facts
    <3>2. [SetAppStatus(apps[x], "READY_TO_PULL") EXCEPT !.cid = FALSE].status = "READY_TO_PULL"
        BY <3>1, StatusOf
    <3> QED BY <3>2 DEF ApplyReconcileResult, Status
  <2>4. ~ApplyRemoveNetworkResult
      BY DEF ApplyRemoveNetworkResult
  <2>5. ASSUME NEW a \in Apps, ApplyAppResult(a)
        PROVE  FALSE
    <3>1. CASE ApplyLivenessResult(a)
      <4>1. a \in Known /\ \E n : apps' = [apps EXCEPT ![a].fails = n]
          BY <1>0, <3>1 DEF ApplyLivenessResult, In
      <4> QED BY <4>1, Facts DEF AppRuntime, Known, Status
    <3>2. CASE ~ApplyLivenessResult(a)
      <4>1. /\ a \in Known /\ Status(a) # "RUNNING"
            /\ \E app : apps' = [apps EXCEPT ![a] = app]
          BY <1>0, <2>5, <3>2 DEF ApplyAppResult, ApplyPullResult, ApplyInitResult,
             ApplyStartResult, ApplyProbeResult, ApplyStopResult, Dropped, Transition, In,
             Going, Known
      <4>2. x # a
          BY <4>1
      <4> QED BY <4>1, <4>2 DEF Known, Status
    <3> QED BY <3>1, <3>2
  <2> QED BY <1>0, <2>1, <2>2, <2>3, <2>4, <2>5, Zenon DEF LoopSelect
<1>3. ~RetryPullFailedApps
    BY DEF RetryPullFailedApps, In, Status
<1>4. (\E a \in Apps : AppWorker(a)) \/ (\E a \in Apps : Crash(a)) \/ ReconcileWorker
          \/ RemoveNetworkWorker \/ Stop \/ UNCHANGED vars => apps' = apps
    BY DEF AppWorker, WorkerEnds, StopWorker, StartWorker, WorkerFrame, Crash,
       ReconcileWorker, RemoveNetworkWorker, Stop, vars, nsVars
<1> QED BY <1>0, <1>1, <1>2, <1>3, <1>4, UnattendedStep, Zenon DEF UInv

\* A namespace stops group by group, whatever fails, times out or heals on the way:
\* an application goes down only when every application of an earlier group is down
\* (GracefulShutdownGroups, evaluateContinuations).
THEOREM GroupsStopInOrder == Unattended => (Spec => StopsInOrder)
<1> SUFFICES ASSUME Unattended PROVE Spec => StopsInOrder
    OBVIOUS
<1>1. ASSUME IInv, UInv, [Next]_vars, nsStatus = "STOPPING", nsStatus' = "STOPPING",
             NEW x \in Known, Status(x) = "RUNNING", apps'[x].status = "STOPPING",
             NEW y \in Known, Group[y] < Group[x]
      PROVE  Status(y) \in Terminal
  <2>1. EvalNext
      BY <1>1, OnlyChainStops
  <2>2. scan.at \in Nat /\ scan.at < scan.end /\ scan.end <= Len(conts) /\ scan.end \in Nat
        /\ Len(conts) \in Nat
      BY <1>1, <2>1 DEF EvalNext, At, IInv, ScanOK, TypeOK, LoopTypeOK
  <2>3. Len(conts) = 1 /\ conts # <<>>
    <3>1. Len(conts) # 0
        BY <2>2
    <3> QED BY <1>1, <3>1 DEF UInv, ChainInv
  <2>4. scan.at + 1 = 1
      BY <2>2, <2>3
  <2> DEFINE c == conts[1]
  <2>5. Drained(c.wait) /\ GroupStop(FirstGroup(c.rest) \cap Known)
      BY <1>1, <2>1, <2>4 DEF EvalNext, Status
  <2>6. Status(y) \in Terminal \/ y \in c.rest
    <3>1. Status(y) \in Terminal \/ y \in c.wait \cup c.rest
        BY <1>1, <2>3 DEF UInv, Core, StopCovers
    <3> QED BY <2>5, <3>1 DEF Drained, In
  <2>7. x \in FirstGroup(c.rest)
      BY <1>1, <2>5 DEF GroupStop, Status
  <2>8. y \in c.rest => Group[x] <= Group[y]
      BY <2>7 DEF FirstGroup
  <2>9. Group[x] \in 1..4 /\ Group[y] \in 1..4
      BY <1>1, Facts, ShapeAssumption
  <2> QED BY <1>1, <2>6, <2>8, <2>9
<1>2. IInv /\ UInv /\ [Next]_vars =>
        (nsStatus = "STOPPING" /\ nsStatus' = "STOPPING" =>
            \A x \in Known \ detached' :
                Status(x) = "RUNNING" /\ apps'[x].status = "STOPPING" =>
                    \A y \in Known : Group[y] < Group[x] => Status(y) \in Terminal)
    BY <1>1
<1>3. IInv /\ UInv /\ [Next]_vars => UInv'
    BY UnattendedInv
<1> QED BY <1>2, <1>3, InitUInv, InitInv, NextInv, PTL DEF Spec, StopsInOrder
=============================================================================
