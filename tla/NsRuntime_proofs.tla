-------------------------- MODULE NsRuntime_proofs --------------------------
(***************************************************************************)
(* Proofs about the namespace runtime, for every value of the constants.   *)
(*                                                                         *)
(* TypeOK is not inductive alone: evaluateContinuations takes elements of  *)
(* conts at positions up to scan.end, and the second section of            *)
(* doRegenerate the command its first section left at the head of todo.    *)
(* IInv adds that they exist, and carries the second theorem as well: no   *)
(* application that the operator stopped is ever pulled or started.        *)
(*                                                                         *)
(* Without reloads more holds: such an application goes down and stays     *)
(* down, and a stop of the namespace is one chain of groups, which ends    *)
(* with the network.  doRegenerate works on a copy of the detached set and *)
(* makes a stopping namespace STARTING, and breaks both.                   *)
(***************************************************************************)
EXTENDS NsRuntimeProps, TLAPS, FiniteSetTheorems

\* The scan of evaluateContinuations stays within the list it scans.
ScanOK == pc = "eval" => scan.end <= Len(conts)

\* Between its two sections doRegenerate is at work on a regenerate command.
RegenOK == pc = "regen" => todo # <<>> /\ Head(todo).tag = "regenerate"

\* The inductive invariant.
IInv == TypeOK /\ ScanOK /\ RegenOK
-----------------------------------------------------------------------------
(* The helpers of the state machine return values of their types.          *)

\* setAppStatus changes an application's entry into another entry.
LEMMA SetAppStatusType ==
    ASSUME NEW app \in AppRuntime, NEW s \in AppStatuses
    PROVE  SetAppStatus(app, s) \in AppRuntime
BY DEF SetAppStatus, AppRuntime

\* The fields that handlers set together with the status.
LEMMA FieldsType ==
    ASSUME NEW app \in AppRuntime, NEW n \in {"", "READY_TO_PULL"}, NEW ver \in Versions
    PROVE  /\ [app EXCEPT !.next = n] \in AppRuntime
           /\ [app EXCEPT !.cid = TRUE] \in AppRuntime
           /\ [app EXCEPT !.cid = FALSE] \in AppRuntime
           /\ [app EXCEPT !.next = n, !.cid = FALSE] \in AppRuntime
           /\ [app EXCEPT !.marked = TRUE, !.next = n] \in AppRuntime
           /\ [app EXCEPT !.def = ver, !.next = n] \in AppRuntime
BY DEF AppRuntime

\* A fresh entry is an entry.
LEMMA FreshType ==
    ASSUME NEW def \in Versions, NEW s \in AppStatuses
    PROVE  Fresh(def, s) \in AppRuntime
BY DEF Fresh, AppRuntime

\* beginGroupStopUnderLock changes an entry into another one.
LEMMA GroupStoppedType ==
    ASSUME NEW app \in AppRuntime
    PROVE  GroupStopped(app) \in AppRuntime
<1>1. /\ SetAppStatus(app, "STOPPING") \in AppRuntime
      /\ SetAppStatus(app, "STOPPED") \in AppRuntime
    BY SetAppStatusType DEF AppStatuses
<1> QED BY <1>1 DEF GroupStopped, AppRuntime

\* Cancelling marks tasks and adds none.
LEMMA CancelledType ==
    ASSUME NEW t \in [Apps -> [Ops -> Task]], NEW S, NEW ops
    PROVE  Cancelled(t, S, ops) \in [Apps -> [Ops -> Task]]
<1>1. ASSUME NEW a \in Apps, NEW o \in Ops
      PROVE  [t[a][o] EXCEPT !.cancel = TRUE] \in Task /\ t[a][o] \in Task
  <2>1. t[a][o] \in Task
      OBVIOUS
  <2> QED BY <2>1 DEF Task
<1> QED BY <1>1 DEF Cancelled

\* Dispatching a plan puts a task into its slot.
LEMMA DispatchedType ==
    ASSUME NEW t \in [Apps -> [Ops -> Task]], NEW p \in Plan
    PROVE  Dispatched(t, p) \in [Apps -> [Ops -> Task]]
<1>1. [ph |-> "run", cancel |-> FALSE, arg |-> p.arg] \in Task
    BY DEF Plan, Task, Phases
<1> QED BY <1>1 DEF Dispatched, Plan

\* Forgetting a task empties its slot.
LEMMA ForgottenType ==
    ASSUME NEW t \in [Apps -> [Ops -> Task]], NEW a \in Apps, NEW o \in Ops
    PROVE  Forgotten(t, a, o) \in [Apps -> [Ops -> Task]]
<1>1. Idle \in Task
    BY DEF Idle, Task, Phases
<1> QED BY <1>1 DEF Forgotten

\* The plans of the state machine are plans.
LEMMA PlanTypes ==
    ASSUME NsTypeOK, NEW a \in Apps
    PROVE  /\ StopPlan(a) \in Plan /\ PullPlan(a) \in Plan
           /\ a \in Known => StartPlan(a) \in Plan /\ FirstPlan(a) \in Plan
           /\ \A i \in Nat : InitPlan(a, i) \in Plan
<1>1. a \in Known => apps[a].def \in Nat
    BY ShapeAssumption DEF NsTypeOK, AppRuntime, Known
<1> QED BY <1>1 DEF StopPlan, PullPlan, StartPlan, FirstPlan, InitPlan, Plan, Ops

\* A command of the model is the stop or a regenerate of a desired set.
LEMMA CommandCases ==
    ASSUME NEW c \in Commands
    PROVE  \/ c = CmdStop /\ c.tag = "stop"
           \/ /\ c.tag = "regenerate" /\ c.apps \in Desired
              /\ c = CmdRegenerate(c.apps, "", FALSE) /\ c.refresh = FALSE
              /\ c \in [tag: {"regenerate"}, apps: Desired, cfg: {""}, refresh: {FALSE}]
<1>1. CmdStop.tag = "stop"
    BY DEF CmdStop
<1>2. ASSUME NEW w \in Desired
      PROVE  /\ CmdRegenerate(w, "", FALSE).tag = "regenerate"
             /\ CmdRegenerate(w, "", FALSE).apps = w
             /\ CmdRegenerate(w, "", FALSE).refresh = FALSE
    BY DEF CmdRegenerate
<1>3. ASSUME NEW w \in Desired
      PROVE  CmdRegenerate(w, "", FALSE)
                \in [tag: {"regenerate"}, apps: Desired, cfg: {""}, refresh: {FALSE}]
    BY DEF CmdRegenerate
<1>4. c = CmdStop \/ \E w \in Desired : c = CmdRegenerate(w, "", FALSE)
    BY DEF Commands
<1> QED BY <1>1, <1>2, <1>3, <1>4

\* Coalescing yields a sequence of commands again.
LEMMA CoalesceType ==
    ASSUME NEW s \in Seq(Commands), NEW c \in Commands
    PROVE  Coalesce(s, c) \in Seq(Commands)
<1>1. ASSUME NEW x \in Commands
      PROVE  Merged(x, c) \in Commands
  <2>1. x.tag # "start" /\ c.tag # "start"
      BY CommandCases
  <2>2. CASE x.tag = "regenerate" /\ c.tag = "regenerate"
    <3>1. x.refresh = FALSE /\ c.refresh = FALSE
        BY <2>2, CommandCases
    <3>2. c \in [tag: {"regenerate"}, apps: Desired, cfg: {""}, refresh: {FALSE}]
        BY <2>2, CommandCases
    <3>3. [c EXCEPT !.refresh = x.refresh \/ c.refresh] = c
        BY <3>1, <3>2
    <3> QED BY <2>1, <2>2, <3>3 DEF Merged
  <2>3. CASE ~(x.tag = "regenerate" /\ c.tag = "regenerate")
      BY <2>1, <2>3 DEF Merged
  <2> QED BY <2>2, <2>3
<1>2. CASE s # <<>> /\ Collapsible(s[Len(s)], c)
  <2>1. s[Len(s)] \in Commands
      BY <1>2
  <2> QED BY <1>1, <1>2, <2>1 DEF Coalesce
<1>3. CASE ~(s # <<>> /\ Collapsible(s[Len(s)], c))
    BY <1>3 DEF Coalesce
<1> QED BY <1>2, <1>3
-----------------------------------------------------------------------------
(* Every step of the loop, of a worker and of an API goroutine preserves   *)
(* the inductive invariant: one lemma per action, one step per part.       *)

USE DEF IInv, TypeOK, ScanOK, RegenOK, NsTypeOK, LoopTypeOK, WorkTypeOK, ApiTypeOK

\* A plan handed to the dispatcher.
LEMMA LoopDispatchInv == ASSUME IInv, LoopDispatch PROVE IInv'
<1>1. PICK p \in plans : task' = Dispatched(task, p) /\ plans' = plans \ {p}
    BY DEF LoopDispatch
<1>2. task' \in [Apps -> [Ops -> Task]]
    BY <1>1, DispatchedType
<1> QED BY <1>1, <1>2 DEF LoopDispatch, nsVars, apiVars

\* Receiving a command keeps the invariant.
LEMMA SelectCommandInv == ASSUME IInv, SelectCommand PROVE IInv'
BY DEF SelectCommand, nsVars, workVars, apiVars, LoopPhases

\* The end of the commands of an iteration keeps the invariant.
LEMMA ApplyDoneInv == ASSUME IInv, ApplyDone PROVE IInv'
BY DEF ApplyDone, nsVars, workVars, apiVars, LoopPhases

\* Leaving the loop, once shutdownComplete is closed, keeps the invariant.
LEMMA SelectExitInv == ASSUME IInv, SelectExit PROVE IInv'
BY DEF SelectExit, nsVars, workVars, apiVars, LoopPhases

\* The end of evaluateContinuations keeps the invariant.
LEMMA EvalDoneInv == ASSUME IInv, EvalDone PROVE IInv'
BY DEF EvalDone, nsVars, workVars, apiVars, LoopPhases

\* updateNsStatus assigns a namespace status.
LEMMA UpdateNsStatusInv == ASSUME IInv, UpdateNsStatus PROVE IInv'
<1>1. NsDerived \in NsStatuses
    BY DEF NsDerived, NsStatuses
<1> QED BY <1>1 DEF UpdateNsStatus, workVars, apiVars, LoopPhases

\* Draining: the survivors remain a sequence of commands.
LEMMA DrainNextInv == ASSUME IInv, DrainNext PROVE IInv'
<1>1. CASE queue # <<>>
  <2>1. Head(queue) \in Commands /\ Tail(queue) \in Seq(Commands)
      BY <1>1
  <2>2. todo' \in Seq(Commands) /\ queue' \in Seq(Commands) /\ pc' = pc
      BY <1>1, <2>1, CoalesceType DEF DrainNext
  <2> QED BY <2>2 DEF DrainNext, At, nsVars, workVars, apiVars
<1>2. CASE queue = <<>>
    BY <1>2 DEF DrainNext, nsVars, workVars, apiVars, LoopPhases
<1> QED BY <1>1, <1>2

\* An entry updated with setAppStatus, and the fields a handler sets with it.
LEMMA TransitionType ==
    ASSUME NsTypeOK, NEW a \in Known, NEW s \in AppStatuses, Transition(a, s)
    PROVE  DOMAIN apps' = DOMAIN apps /\ apps' \in [DOMAIN apps -> AppRuntime]
<1>1. SetAppStatus(apps[a], s) \in AppRuntime
    BY SetAppStatusType DEF Known
<1> QED BY <1>1 DEF Transition, Known

\* A group that is stopped: its entries, the cancellations and the plans.
LEMMA GroupStopType ==
    ASSUME IInv, NEW G \in SUBSET Known, GroupStop(G)
    PROVE  /\ DOMAIN apps' = DOMAIN apps /\ apps' \in [DOMAIN apps -> AppRuntime]
           /\ task' \in [Apps -> [Ops -> Task]]
           /\ plans' \subseteq Plan
<1>1. \A x \in Known : GroupStopped(apps[x]) \in AppRuntime
    BY GroupStoppedType DEF Known
<1>2. task' \in [Apps -> [Ops -> Task]]
  <2>1. \A S, T, ops : Cancelled(Cancelled(task, S, Ops), T, ops) \in [Apps -> [Ops -> Task]]
      BY CancelledType
  <2> QED BY <2>1 DEF GroupStop, GroupCancelled
<1>3. plans' \subseteq Plan
    BY PlanTypes DEF GroupStop, Known
<1> QED BY <1>1, <1>2, <1>3 DEF GroupStop, Known

\* The group of a set that stops first is part of it.
LEMMA FirstGroupSubset == ASSUME NEW S PROVE FirstGroup(S) \subseteq S
BY DEF FirstGroup

\* doStop stops a subset of the applications and appends a continuation.
LEMMA DoStopInv == ASSUME IInv, DoStop PROVE IInv'
<1>1. todo' \in Seq(Commands)
    BY DEF DoStop, Applying
<1>2. CASE StopInFlight
    BY <1>1, <1>2 DEF DoStop, Applying, At, apiVars
<1>3. CASE ~StopInFlight
  <2>1. PICK first \in SUBSET Known :
            /\ nsStatus' = "STOPPING"
            /\ GroupStop(first)
            /\ conts' = Append(conts, [wait |-> first, rest |-> Known \ first])
      BY <1>3, FirstGroupSubset DEF DoStop
  <2>2. [wait |-> first, rest |-> Known \ first] \in Continuation
      BY DEF Continuation, Known
  <2>3. conts' \in Seq(Continuation)
      BY <2>1, <2>2
  <2> QED BY <1>1, <2>1, <2>3, GroupStopType DEF DoStop, Applying, At, apiVars, NsStatuses
<1> QED BY <1>2, <1>3

\* The first section of doRegenerate takes its desired set from a regenerate
\* command, which stays at the head of todo.
LEMMA RegenBeginInv == ASSUME IInv, RegenBegin PROVE IInv'
<1>1. Head(todo) \in Commands /\ Head(todo).tag = "regenerate"
    BY DEF RegenBegin, Applying
<1>2. Head(todo).apps \in Desired
  <2>1. "regenerate" # "stop"
      OBVIOUS
  <2> QED BY <1>1, <2>1, CommandCases
<1> QED BY <1>2 DEF RegenBegin, Applying, workVars, apiVars, NsStatuses, LoopPhases

\* doRegenerate: every entry of the old and of the new set.
LEMMA RegenCommitInv == ASSUME IInv, RegenCommit PROVE IInv'
<1> DEFINE want == Head(todo).apps
           W == DOMAIN want
<1>1. PICK changed \in SUBSET ((Known \cap W) \ snap), swept \in SUBSET Known :
        /\ apps' = [a \in Known \cup W |->
             CASE a \in Known \ W -> Removed(apps[a], a \in swept)
               [] a \in changed -> Recreated(apps[a], a \in swept, want[a])
               [] a \in Known \cap W \cap snap ->
                    [SetAppStatus(apps[a], "STOPPED") EXCEPT !.def = want[a], !.next = ""]
               [] a \in (Known \cap W) \ (snap \cup changed) -> apps[a]
               [] OTHER -> Fresh(want[a], IF a \in snap THEN "STOPPED" ELSE "READY_TO_PULL")]
        /\ task' = Cancelled(Cancelled(task, swept, Ops \ {"stop"}),
                             ((Known \ W) \cup changed) \ swept, Ops)
        /\ plans' = {StopPlan(a) : a \in swept}
    BY Zenon DEF RegenCommit
<1>2. want \in Desired /\ todo' \in Seq(Commands)
  <2>1. pc = "regen" /\ todo' = Tail(todo)
      BY Zenon DEF RegenCommit, At
  <2>2. Head(todo) \in Commands /\ Head(todo).tag = "regenerate" /\ todo' \in Seq(Commands)
      BY <2>1
  <2> QED BY <2>2, CommandCases
<1>3. W \subseteq Apps /\ \A a \in W : want[a] \in Versions
    BY <1>2 DEF Desired
<1>4. \A a \in Known :
        /\ apps[a] \in AppRuntime
        /\ \A s \in AppStatuses : SetAppStatus(apps[a], s) \in AppRuntime
    BY SetAppStatusType DEF Known
<1>5. Versions # {}
    BY ShapeAssumption
<1>6. apps' \in [Known \cup W -> AppRuntime]
  <2>1. ASSUME NEW a \in Known
        PROVE  Removed(apps[a], a \in swept) \in AppRuntime
    <3>1. SetAppStatus(apps[a], IF a \in swept THEN "STOPPING" ELSE "STOPPED") \in AppRuntime
        BY <1>4 DEF AppStatuses
    <3> QED BY <3>1, <1>5, FieldsType DEF Removed
  <2>2. ASSUME NEW a \in Known, NEW ver \in Versions
        PROVE  Recreated(apps[a], a \in swept, ver) \in AppRuntime
    <3>1. SetAppStatus(apps[a], IF a \in swept THEN "UPDATING" ELSE "READY_TO_PULL")
              \in AppRuntime
        BY <1>4 DEF AppStatuses
    <3> QED BY <3>1, FieldsType DEF Recreated
  <2>3. ASSUME NEW a \in Known, NEW ver \in Versions
        PROVE  [SetAppStatus(apps[a], "STOPPED") EXCEPT !.def = ver, !.next = ""]
                   \in AppRuntime
    <3>1. SetAppStatus(apps[a], "STOPPED") \in AppRuntime
        BY <1>4 DEF AppStatuses
    <3> QED BY <3>1, FieldsType
  <2>4. ASSUME NEW a \in W
        PROVE  Fresh(want[a], IF a \in snap THEN "STOPPED" ELSE "READY_TO_PULL") \in AppRuntime
      BY <1>3, FreshType DEF AppStatuses
  <2> HIDE DEF want, W
  <2> DEFINE entry(a) ==
        CASE a \in Known \ W -> Removed(apps[a], a \in swept)
          [] a \in changed -> Recreated(apps[a], a \in swept, want[a])
          [] a \in Known \cap W \cap snap ->
               [SetAppStatus(apps[a], "STOPPED") EXCEPT !.def = want[a], !.next = ""]
          [] a \in (Known \cap W) \ (snap \cup changed) -> apps[a]
          [] OTHER -> Fresh(want[a], IF a \in snap THEN "STOPPED" ELSE "READY_TO_PULL")
  <2>5. ASSUME NEW a \in Known \cup W
        PROVE  entry(a) \in AppRuntime
    <3>1. CASE a \in Known \ W
        BY <3>1, <2>1
    <3>2. CASE a \in changed
      <4>1. a \in Known /\ a \in W /\ want[a] \in Versions
          BY <3>2, <1>3
      <4>2. a \notin Known \ W /\ a \notin Known \cap W \cap snap
          BY <3>2, <4>1
      <4>3. a \notin (Known \cap W) \ (snap \cup changed)
          BY <3>2
      <4>4. entry(a) = Recreated(apps[a], a \in swept, want[a])
          BY <3>2, <4>2, <4>3
      <4> QED BY <4>1, <4>4, <2>2
    <3>3. CASE a \in (Known \cap W) \ changed
        BY <3>3, <1>3, <1>4, <2>3
    <3>4. CASE a \in W \ Known
        BY <3>4, <2>4
    <3> QED BY <3>1, <3>2, <3>3, <3>4
  <2> HIDE DEF entry
  <2>6. apps' = [a \in Known \cup W |-> entry(a)]
      BY <1>1 DEF entry
  <2> QED BY <2>5, <2>6
<1>7. task' \in [Apps -> [Ops -> Task]]
    BY <1>1, CancelledType
<1>8. plans' \subseteq Plan
    BY <1>1, PlanTypes DEF Known
<1> HIDE DEF want, W
<1> QED BY <1>2, <1>3, <1>6, <1>7, <1>8 DEF RegenCommit, Known, LoopPhases, apiVars

\* The frame of a handler of one Result.
LEMMA HandledInv ==
    ASSUME IInv, NEW a \in Apps, NEW o \in Ops, Handled,
           DOMAIN apps' = DOMAIN apps, apps' \in [DOMAIN apps -> AppRuntime],
           blocked' \subseteq Apps, plans' \subseteq Plan,
           task' = Forgotten(task, a, o)
    PROVE  IInv'
<1>1. task' \in [Apps -> [Ops -> Task]]
    BY ForgottenType
<1> QED BY <1>1 DEF Handled, apiVars, LoopPhases

\* handlePullResult moves an entry and may block the application.
LEMMA ApplyPullResultInv == ASSUME IInv, NEW a \in Apps, ApplyPullResult(a) PROVE IInv'
<1>1. Handled /\ task' = Forgotten(task, a, "pull")
    BY DEF ApplyPullResult, Result
<1>2. CASE a \notin In({"PULLING"})
    BY <1>1, <1>2, HandledInv DEF ApplyPullResult, Dropped, Ops
<1>3. CASE a \in In({"PULLING"})
  <2>1. PICK s \in {"READY_TO_START", "PULL_FAILED"} : Transition(a, s)
      BY <1>3 DEF ApplyPullResult
  <2>2. a \in Known /\ blocked' \subseteq Apps /\ plans' = plans
      BY <1>3 DEF ApplyPullResult, In
  <2> QED BY <1>1, <2>1, <2>2, TransitionType, HandledInv DEF Ops, AppStatuses
<1> QED BY <1>2, <1>3

\* handleInitResult plans the next init container, or the start, of a known application.
LEMMA ApplyInitResultInv == ASSUME IInv, NEW a \in Apps, ApplyInitResult(a) PROVE IInv'
<1>1. Handled /\ task' = Forgotten(task, a, "init")
    BY DEF ApplyInitResult, Result
<1>2. CASE a \notin In({"STARTING"})
    BY <1>1, <1>2, HandledInv DEF ApplyInitResult, Dropped, Ops
<1>3. CASE a \in In({"STARTING"}) /\ task[a]["init"].ph = "ok"
  <2>1. /\ plans' = AfterInit(a, task[a]["init"].arg)
        /\ UNCHANGED <<apps, blocked>>
      BY <1>3 DEF ApplyInitResult
  <2>2. task[a]["init"].arg \in Nat /\ a \in Known
      BY <1>3 DEF In, Ops, Task
  <2>3. task[a]["init"].arg + 1 \in Nat
      BY <2>2
  <2>4. plans' \subseteq Plan
      BY <2>1, <2>2, <2>3, PlanTypes DEF AfterInit
  <2> QED BY <1>1, <2>1, <2>4, HandledInv DEF Ops
<1>4. CASE a \in In({"STARTING"}) /\ task[a]["init"].ph # "ok"
    BY <1>1, <1>4, TransitionType, HandledInv DEF ApplyInitResult, In, Ops, AppStatuses
<1> QED BY <1>2, <1>3, <1>4

\* handleStartResult moves an entry or plans its startup probe.
LEMMA ApplyStartResultInv == ASSUME IInv, NEW a \in Apps, ApplyStartResult(a) PROVE IInv'
<1>1. Handled /\ task' = Forgotten(task, a, "start")
    BY DEF ApplyStartResult, Result
<1>2. CASE a \notin In({"STARTING"})
    BY <1>1, <1>2, HandledInv DEF ApplyStartResult, Dropped, Ops
<1>3. CASE a \in In({"STARTING"}) /\ task[a]["start"].ph # "ok"
    BY <1>1, <1>3, TransitionType, HandledInv DEF ApplyStartResult, In, Ops, AppStatuses
<1>4. CASE a \in In({"STARTING"}) /\ task[a]["start"].ph = "ok"
  <2>1. a \in Known /\ apps[a] \in AppRuntime /\ blocked' = blocked
      BY <1>4 DEF ApplyStartResult, In, Known
  <2>2. SetAppStatus(apps[a], "RUNNING") \in AppRuntime
      BY <2>1, SetAppStatusType DEF AppStatuses
  <2>3. [SetAppStatus(apps[a], "RUNNING") EXCEPT !.cid = TRUE] \in AppRuntime
      BY <2>2 DEF AppRuntime
  <2>4. [apps[a] EXCEPT !.cid = TRUE] \in AppRuntime
      BY <2>1 DEF AppRuntime
  <2>5. \/ apps' = [apps EXCEPT ![a] = [@ EXCEPT !.cid = TRUE]]
        \/ apps' = [apps EXCEPT ![a] = [SetAppStatus(@, "RUNNING") EXCEPT !.cid = TRUE]]
      BY <1>4 DEF ApplyStartResult
  <2>6. plans' \subseteq Plan
      BY <1>4 DEF ApplyStartResult, Plan, Ops
  <2>7. DOMAIN apps' = DOMAIN apps /\ apps' \in [DOMAIN apps -> AppRuntime]
      BY <2>1, <2>3, <2>4, <2>5
  <2> QED BY <1>1, <2>1, <2>6, <2>7, HandledInv DEF Ops
<1> QED BY <1>2, <1>3, <1>4

\* handleProbeResult moves an entry.
LEMMA ApplyProbeResultInv == ASSUME IInv, NEW a \in Apps, ApplyProbeResult(a) PROVE IInv'
<1>1. Handled /\ task' = Forgotten(task, a, "probe")
    BY DEF ApplyProbeResult, Result
<1>2. CASE a \notin In({"STARTING"})
    BY <1>1, <1>2, HandledInv DEF ApplyProbeResult, Dropped, Ops
<1>3. CASE a \in In({"STARTING"})
  <2>1. PICK s \in {"RUNNING", "START_FAILED"} : Transition(a, s)
      BY <1>3 DEF ApplyProbeResult
  <2>2. a \in Known /\ UNCHANGED <<blocked, plans>>
      BY <1>3 DEF ApplyProbeResult, In
  <2> QED BY <1>1, <2>1, <2>2, TransitionType, HandledInv DEF Ops, AppStatuses
<1> QED BY <1>2, <1>3

\* handleStopResult moves an entry to STOPPED, or to where its restart leads.
LEMMA ApplyStopResultInv == ASSUME IInv, NEW a \in Apps, ApplyStopResult(a) PROVE IInv'
<1>1. Handled /\ task' = Forgotten(task, a, "stop")
    BY DEF ApplyStopResult, Result
<1>2. CASE a \notin In(Going)
    BY <1>1, <1>2, HandledInv DEF ApplyStopResult, Dropped, Ops
<1>3. CASE a \in In(Going)
  <2>1. a \in Known /\ apps[a] \in AppRuntime /\ UNCHANGED <<blocked, plans>>
      BY <1>3 DEF ApplyStopResult, In, Known
  <2>2. AfterStop(a) \in AppStatuses
      BY <2>1 DEF AfterStop, AppRuntime, AppStatuses
  <2>3. \A s \in AppStatuses : SetAppStatus(apps[a], s) \in AppRuntime
      BY <2>1, SetAppStatusType
  <2>4. /\ [SetAppStatus(apps[a], "STOPPING_FAILED") EXCEPT !.next = ""] \in AppRuntime
        /\ [SetAppStatus(apps[a], AfterStop(a)) EXCEPT !.next = "", !.cid = FALSE]
               \in AppRuntime
      BY <2>2, <2>3, FieldsType, ShapeAssumption DEF AppStatuses
  <2>5. \/ apps' = [apps EXCEPT ![a] =
                       [SetAppStatus(@, "STOPPING_FAILED") EXCEPT !.next = ""]]
        \/ apps' = [apps EXCEPT ![a] =
                       [SetAppStatus(@, AfterStop(a)) EXCEPT !.next = "", !.cid = FALSE]]
      BY <1>3 DEF ApplyStopResult
  <2>6. DOMAIN apps' = DOMAIN apps /\ apps' \in [DOMAIN apps -> AppRuntime]
      BY <2>1, <2>4, <2>5
  <2> QED BY <1>1, <2>1, <2>6, HandledInv DEF Ops
<1> QED BY <1>2, <1>3

\* A result of a liveness probe: the counter of failures, then the restart.
LEMMA ApplyLivenessResultInv ==
    ASSUME IInv, NEW a \in Apps, ApplyLivenessResult(a) PROVE IInv'
<1>1. /\ DOMAIN apps' = DOMAIN apps
      /\ apps' \in [DOMAIN apps -> AppRuntime]
  <2>1. CASE a \notin In({"RUNNING"})
      BY <2>1 DEF ApplyLivenessResult
  <2>2. CASE a \in In({"RUNNING"})
    <3>1. a \in Known /\ apps[a] \in AppRuntime
        BY <2>2 DEF In, Known
    <3>2. \A n \in Nat : [apps[a] EXCEPT !.fails = n] \in AppRuntime
        BY <3>1 DEF AppRuntime
    <3>3. PICK n \in {0, apps[a].fails + 1} : apps' = [apps EXCEPT ![a].fails = n]
        BY <2>2 DEF ApplyLivenessResult
    <3>4. n \in Nat
      <4>1. apps[a].fails \in Nat
          BY <3>1 DEF AppRuntime
      <4> QED BY <4>1
    <3>5. apps' = [apps EXCEPT ![a] = [apps[a] EXCEPT !.fails = n]]
        BY <3>1, <3>3
    <3> QED BY <3>1, <3>2, <3>4, <3>5
  <2> QED BY <2>1, <2>2
<1>2. task' \in [Apps -> [Ops -> Task]] /\ pc' \in {"step", "diag"}
  <2>1. [task EXCEPT ![a]["live"].ph = "diag"] \in [Apps -> [Ops -> Task]]
    <3>1. task[a]["live"] \in Task
        BY DEF Ops
    <3>2. [task[a]["live"] EXCEPT !.ph = "diag"] \in Task
        BY <3>1 DEF Task, Phases
    <3> QED BY <3>2
  <2>2. Forgotten(task, a, "live") \in [Apps -> [Ops -> Task]]
      BY ForgottenType DEF Ops
  <2> QED BY <2>1, <2>2 DEF ApplyLivenessResult
<1> QED BY <1>1, <1>2 DEF ApplyLivenessResult, LoopPhases, apiVars

\* The restart after a failed liveness probe plans a stop.
LEMMA LivenessRestartInv == ASSUME IInv, NEW a \in Apps, LivenessRestart(a) PROVE IInv'
<1>1. Handled /\ task' = Forgotten(task, a, "live")
    BY DEF LivenessRestart
<1>2. CASE ~StillRunning(a)
    BY <1>1, <1>2, HandledInv DEF LivenessRestart, Dropped, Ops
<1>3. CASE StillRunning(a)
  <2>1. a \in Known /\ apps[a] \in AppRuntime
      BY <1>3 DEF StillRunning, In, Known
  <2>2. SetAppStatus(apps[a], "UPDATING") \in AppRuntime
      BY <2>1, SetAppStatusType DEF AppStatuses
  <2>3. [SetAppStatus(apps[a], "UPDATING") EXCEPT !.next = "READY_TO_PULL"] \in AppRuntime
      BY <2>2 DEF AppRuntime
  <2>4. /\ apps' = [apps EXCEPT ![a] =
                       [SetAppStatus(@, "UPDATING") EXCEPT !.next = "READY_TO_PULL"]]
        /\ plans' = {StopPlan(a)} /\ UNCHANGED blocked
      BY <1>3 DEF LivenessRestart
  <2>5. plans' \subseteq Plan
      BY <2>4, PlanTypes
  <2> QED BY <1>1, <2>1, <2>3, <2>4, <2>5, HandledInv DEF Ops
<1> QED BY <1>2, <1>3

\* handleReconcileDiffResult queues the applications that it restarts.
LEMMA ApplyReconcileResultInv == ASSUME IInv, ApplyReconcileResult PROVE IInv'
<1>1. \A x \in Known :
          [SetAppStatus(apps[x], "READY_TO_PULL") EXCEPT !.cid = FALSE] \in AppRuntime
  <2>1. ASSUME NEW x \in Known
        PROVE  [SetAppStatus(apps[x], "READY_TO_PULL") EXCEPT !.cid = FALSE] \in AppRuntime
    <3>1. SetAppStatus(apps[x], "READY_TO_PULL") \in AppRuntime
        BY SetAppStatusType DEF Known, AppStatuses
    <3> QED BY <3>1 DEF AppRuntime
  <2> QED BY <2>1
<1>2. DOMAIN apps' = DOMAIN apps /\ apps' \in [DOMAIN apps -> AppRuntime]
    BY <1>1 DEF ApplyReconcileResult, Known
<1> QED BY <1>2 DEF ApplyReconcileResult, LoopPhases, apiVars

\* handleRemoveNetworkResult resets every entry.
LEMMA ApplyRemoveNetworkResultInv == ASSUME IInv, ApplyRemoveNetworkResult PROVE IInv'
<1>1. \A x \in Known : apps[x].def \in Versions
    BY DEF Known, AppRuntime
<1>2. DOMAIN apps' = DOMAIN apps /\ apps' \in [DOMAIN apps -> AppRuntime]
    BY <1>1, FreshType DEF ApplyRemoveNetworkResult, Known, AppStatuses
<1> QED BY <1>2 DEF ApplyRemoveNetworkResult, LoopPhases, NsStatuses, apiVars

\* A tick: the budgets it ends are counted against the bound on faults.
LEMMA TickInv ==
    ASSUME IInv, NEW over \in SUBSET In(Going), NEW due \in SUBSET In({"RUNNING"}),
           NEW diff \in BOOLEAN, TickWith(over, due, diff)
    PROVE  IInv'
<1>1. Known \subseteq Apps /\ over \subseteq Known /\ due \subseteq Apps
    BY DEF Known, In
<1>2. apps' = [x \in Known |-> IF x \in over
                   THEN [SetAppStatus(apps[x], "STOPPING_FAILED") EXCEPT !.next = ""]
                   ELSE apps[x]]
    BY DEF TickWith
<1>3. \A x \in Known :
          [SetAppStatus(apps[x], "STOPPING_FAILED") EXCEPT !.next = ""] \in AppRuntime
  <2>1. ASSUME NEW x \in Known
        PROVE  [SetAppStatus(apps[x], "STOPPING_FAILED") EXCEPT !.next = ""] \in AppRuntime
    <3>1. SetAppStatus(apps[x], "STOPPING_FAILED") \in AppRuntime
        BY SetAppStatusType DEF Known, AppStatuses
    <3> QED BY <3>1 DEF AppRuntime
  <2> QED BY <2>1
<1>4. DOMAIN apps' = DOMAIN apps /\ apps' \in [DOMAIN apps -> AppRuntime]
    BY <1>2, <1>3 DEF Known
<1>5. task' \in [Apps -> [Ops -> Task]]
    BY CancelledType DEF TickWith
<1>6. plans' \subseteq Plan
  <2>1. \A x \in Apps : [app |-> x, op |-> "live", arg |-> 0] \in Plan
      BY DEF Plan, Ops
  <2>2. plans' = {[app |-> x, op |-> "live", arg |-> 0] : x \in due}
      BY DEF TickWith
  <2> QED BY <1>1, <2>1, <2>2
<1>7. recon' \in [ph: {"none", "run", "ok", "err"}, apps: SUBSET Apps]
    BY <1>1 DEF TickWith, In
<1>8. faults' \in 0..MaxFaults
  <2> DEFINE late == {x \in over : ~Stuck(x)}
  <2>1. IsFiniteSet(late)
      BY <1>1, FS_Subset, ShapeAssumption
  <2>2. Cardinality(late) \in Nat
      BY <2>1, FS_CardinalityType
  <2>3. faults' = faults + Cardinality(late) /\ faults + Cardinality(late) <= MaxFaults
      BY DEF TickWith
  <2> HIDE DEF late
  <2> QED BY <2>2, <2>3, UseAssumption
<1> QED BY <1>4, <1>5, <1>6, <1>7, <1>8 DEF TickWith, LoopPhases, apiVars

\* stepAllApps: every entry that stays keeps its type, every plan is one.
LEMMA StepAllInv == ASSUME IInv, NEW over, StepAllWith(over) PROVE IInv'
<1>1. DOMAIN apps' \subseteq DOMAIN apps /\ apps' \in [DOMAIN apps' -> AppRuntime]
      /\ plans' \subseteq Plan
  <2>1. CASE nsStatus = "STOPPING"
      BY <2>1 DEF StepAllWith
  <2>2. CASE nsStatus # "STOPPING"
    <3> DEFINE live == {a \in Known : ~(apps[a].marked /\ Status(a) = "STOPPED")}
               in(s) == {a \in Movable(live) : Status(a) = s}
               pull == in("READY_TO_PULL") \ Imageless
               begin == {a \in in("READY_TO_START") \cup in("DEPS_WAITING") :
                            DepsSatisfied(a, live)}
               wait == in("READY_TO_START") \ begin
               ready == (in("READY_TO_PULL") \cap Imageless)
                        \cup (in("START_FAILED") \cap over)
               again == (in("PULL_FAILED") \cap over) \ blocked
               heal == in("STOPPING_FAILED") \cap over
    <3>1. /\ apps' = [a \in live |->
                 CASE a \in pull  -> SetAppStatus(apps[a], "PULLING")
                   [] a \in begin -> SetAppStatus(apps[a], "STARTING")
                   [] a \in wait  -> SetAppStatus(apps[a], "DEPS_WAITING")
                   [] a \in ready -> SetAppStatus(apps[a], "READY_TO_START")
                   [] a \in again -> SetAppStatus(apps[a], "READY_TO_PULL")
                   [] a \in heal  -> [SetAppStatus(apps[a], "UPDATING") EXCEPT !.next =
                                          IF apps[a].marked THEN "" ELSE "READY_TO_PULL"]
                   [] OTHER -> apps[a]]
          /\ plans' = {PullPlan(a) : a \in pull} \cup {FirstPlan(a) : a \in begin}
                      \cup {StopPlan(a) : a \in heal}
        BY <2>2, Zenon DEF StepAllWith
    <3>0. /\ live \subseteq Known /\ pull \subseteq Known
          /\ begin \subseteq Known /\ heal \subseteq Known
        BY DEF Movable
    <3> HIDE DEF live, in, pull, begin, wait, ready, again, heal
    <3>2. ASSUME NEW a \in Known
          PROVE  /\ apps[a] \in AppRuntime
                 /\ \A s \in AppStatuses : SetAppStatus(apps[a], s) \in AppRuntime
                 /\ [SetAppStatus(apps[a], "UPDATING") EXCEPT !.next =
                        IF apps[a].marked THEN "" ELSE "READY_TO_PULL"] \in AppRuntime
      <4>1. apps[a] \in AppRuntime
          BY DEF Known
      <4>2. SetAppStatus(apps[a], "UPDATING") \in AppRuntime
          BY <4>1, SetAppStatusType DEF AppStatuses
      <4> QED BY <4>1, <4>2, SetAppStatusType DEF AppRuntime
    <3>3. DOMAIN apps' = live /\ apps' \in [live -> AppRuntime]
        BY <3>1, <3>2, <3>0 DEF AppStatuses
    <3>4. plans' \subseteq Plan
        BY <3>1, <3>0, PlanTypes DEF Known
    <3> QED BY <3>3, <3>4, <3>0 DEF Known
  <2> QED BY <2>1, <2>2
<1>2. pc' \in LoopPhases /\ scan' \in [at: Nat, end: Nat] /\ ScanOK' /\ pc' # "regen"
  <2>1. conts' = conts
      BY Zenon DEF StepAllWith
  <2>2. \/ pc' = "status" /\ scan' = scan
        \/ pc' = "eval" /\ scan' = [at |-> 0, end |-> Len(conts)]
      BY DEF StepAllWith
  <2>3. Len(conts) \in Nat
      OBVIOUS
  <2> QED BY <2>1, <2>2, <2>3 DEF LoopPhases
<1> QED BY <1>1, <1>2 DEF StepAllWith, workVars, apiVars

\* evaluateContinuations: a continuation that fires leaves the list, the one
\* that stops the next group is appended.
LEMMA EvalNextInv == ASSUME IInv, EvalNext PROVE IInv'
<1> DEFINE i == scan.at + 1
           c == conts[i]
           others == [j \in 1..(Len(conts) - 1) |-> conts[IF j < i THEN j ELSE j + 1]]
           next == FirstGroup(c.rest)
<1>1. /\ scan.at \in Nat /\ scan.end \in Nat /\ scan.at < scan.end
      /\ scan.end <= Len(conts) /\ pc = "eval" /\ pc' = "eval"
    BY DEF EvalNext, At
<1>2. i \in 1..Len(conts) /\ c \in Continuation
    BY <1>1
<1>3. others \in Seq(Continuation) /\ Len(others) = Len(conts) - 1
  <2>1. \A j \in 1..(Len(conts) - 1) : conts[IF j < i THEN j ELSE j + 1] \in Continuation
      BY <1>1
  <2>2. Len(conts) - 1 \in Nat
      BY <1>1
  <2> QED BY <2>1, <2>2
<1>4. \A n \in Nat : /\ [scan EXCEPT !.at = n] \in [at: Nat, end: Nat]
                     /\ [scan EXCEPT !.end = n] \in [at: Nat, end: Nat]
                     /\ [scan EXCEPT !.at = n].end = scan.end
                     /\ [scan EXCEPT !.end = n].end = n
    OBVIOUS
<1>5. i \in Nat /\ scan.end - 1 \in Nat
    BY <1>1
<1>6. CASE ~Drained(c.wait)
  <2>1. /\ scan' = [scan EXCEPT !.at = i]
        /\ UNCHANGED <<conts, net, apps, task, plans>>
      BY <1>6 DEF EvalNext
  <2>2. scan' \in [at: Nat, end: Nat] /\ scan'.end <= Len(conts')
      BY <1>1, <1>4, <1>5, <2>1
  <2> QED BY <1>1, <2>1, <2>2 DEF EvalNext, apiVars
<1>7. CASE Drained(c.wait) /\ c.rest = {}
  <2>1. /\ scan' = [scan EXCEPT !.end = scan.end - 1]
        /\ conts' = others /\ net' = "run" /\ UNCHANGED <<apps, task, plans>>
      BY <1>7 DEF EvalNext
  <2>2. scan' \in [at: Nat, end: Nat] /\ scan'.end <= Len(conts')
      BY <1>1, <1>3, <1>4, <1>5, <2>1
  <2> QED BY <1>1, <1>3, <2>1, <2>2 DEF EvalNext, apiVars
<1>8. CASE Drained(c.wait) /\ c.rest # {}
  <2>1. /\ GroupStop(next \cap Known)
        /\ conts' = Append(others, [wait |-> next, rest |-> c.rest \ next])
        /\ scan' = [scan EXCEPT !.end = scan.end - 1]
        /\ UNCHANGED net
      BY <1>8 DEF EvalNext
  <2>2. [wait |-> next, rest |-> c.rest \ next] \in Continuation
      BY <1>2, FirstGroupSubset DEF Continuation
  <2> HIDE DEF others, next, i, c
  <2>3. conts' \in Seq(Continuation) /\ Len(conts') = Len(conts)
      BY <1>1, <1>3, <2>1, <2>2
  <2>4. /\ DOMAIN apps' = DOMAIN apps /\ apps' \in [DOMAIN apps -> AppRuntime]
        /\ task' \in [Apps -> [Ops -> Task]] /\ plans' \subseteq Plan
      BY <2>1, GroupStopType
  <2>5. scan' \in [at: Nat, end: Nat] /\ scan'.end <= Len(conts')
      BY <1>1, <1>4, <1>5, <2>1, <2>3
  <2> QED BY <1>1, <2>1, <2>3, <2>4, <2>5 DEF EvalNext, apiVars
<1> QED BY <1>6, <1>7, <1>8

\* A step of a worker changes a task, a container and the faults counted.
LEMMA WorkerInv ==
    ASSUME IInv, WorkerFrame, Free \/ Fault,
           task' \in [Apps -> [Ops -> Task]], docker' \in [Apps -> Container]
    PROVE  IInv'
<1>1. faults' \in 0..MaxFaults
    BY UseAssumption DEF Free, Fault
<1> QED BY <1>1 DEF WorkerFrame, nsVars, loopVars, apiVars

\* A worker posts a result or enters another phase.
LEMMA PostType ==
    ASSUME WorkTypeOK, NEW a \in Apps, NEW o \in Ops, NEW ph \in Phases, Post(a, o, ph)
    PROVE  task' \in [Apps -> [Ops -> Task]]
<1>1. task[a][o] \in Task
    OBVIOUS
<1>2. [task[a][o] EXCEPT !.ph = ph] \in Task
    BY <1>1 DEF Task
<1> QED BY <1>2 DEF Post

\* What the workers make of a container.
LEMMA ContainerType ==
    ASSUME WorkTypeOK, NEW a \in Apps
    PROVE  /\ [docker EXCEPT ![a] = NoContainer] \in [Apps -> Container]
           /\ \A s \in {"none", "created", "running", "exited"} :
                  [docker EXCEPT ![a].state = s] \in [Apps -> Container]
           /\ \A n \in Nat : [docker EXCEPT ![a] = [state |-> "created", def |-> n]]
                  \in [Apps -> Container]
<1>1. docker[a] \in Container /\ NoContainer \in Container
    BY DEF Container, NoContainer
<1>2. \A s \in {"none", "created", "running", "exited"} :
          [docker[a] EXCEPT !.state = s] \in Container
    BY <1>1 DEF Container
<1> QED BY <1>1, <1>2 DEF Container

\* The workers that only observe post a result.
LEMMA WorkerEndsInv ==
    ASSUME IInv, NEW a \in Apps, NEW o \in Ops, WorkerEnds(a, o) PROVE IInv'
<1>1. PICK ph \in {"ok", "err", "auth"} : Post(a, o, ph) /\ (Free \/ Fault)
    BY DEF WorkerEnds
<1>2. task' \in [Apps -> [Ops -> Task]]
    BY <1>1, PostType DEF Phases
<1> QED BY <1>1, <1>2, WorkerInv DEF WorkerEnds

\* runStopTask stops or removes one container.
LEMMA StopWorkerInv == ASSUME IInv, NEW a \in Apps, StopWorker(a) PROVE IInv'
<1>1. PICK ph \in {"ok", "hung", "err"} : Post(a, "stop", ph) /\ (Free \/ Fault)
    BY DEF StopWorker
<1>2. task' \in [Apps -> [Ops -> Task]]
    BY <1>1, PostType DEF Phases, Ops
<1>3. docker' \in [Apps -> Container]
  <2>0. [docker EXCEPT ![a].state = "exited"] \in [Apps -> Container]
      BY ContainerType
  <2>1. \/ docker' = docker \/ docker' = [docker EXCEPT ![a] = NoContainer]
        \/ docker' = [docker EXCEPT ![a].state = "exited"]
      BY DEF StopWorker
  <2>2. [docker EXCEPT ![a] = NoContainer] \in [Apps -> Container]
      BY ContainerType
  <2> QED BY <2>0, <2>1, <2>2
<1> QED BY <1>1, <1>2, <1>3, WorkerInv DEF StopWorker

\* runStartTask creates and starts one container of the version it was given.
LEMMA StartWorkerInv == ASSUME IInv, NEW a \in Apps, StartWorker(a) PROVE IInv'
<1>1. PICK ph \in Phases : Post(a, "start", ph) /\ (Free \/ Fault)
    BY DEF StartWorker, StartClean, StartCreate, StartRun, StartFails, Phases
<1>2. task' \in [Apps -> [Ops -> Task]]
    BY <1>1, PostType DEF Ops
<1>3. docker' \in [Apps -> Container]
  <2>0. [docker EXCEPT ![a].state = "running"] \in [Apps -> Container]
      BY ContainerType
  <2>1. task[a]["start"].arg \in Nat
      BY DEF Ops, Task
  <2>2. \/ docker' = docker \/ docker' = [docker EXCEPT ![a] = NoContainer]
        \/ docker' = [docker EXCEPT ![a] = [state |-> "created", def |-> task[a]["start"].arg]]
        \/ docker' = [docker EXCEPT ![a].state = "running"]
      BY DEF StartWorker, StartClean, StartCreate, StartRun, StartFails
  <2>3. /\ [docker EXCEPT ![a] = NoContainer] \in [Apps -> Container]
        /\ [docker EXCEPT ![a] = [state |-> "created", def |-> task[a]["start"].arg]]
               \in [Apps -> Container]
      BY <2>1, ContainerType
  <2> QED BY <2>0, <2>2, <2>3
<1> QED BY <1>1, <1>2, <1>3, WorkerInv DEF StartWorker

\* runReconcileDiffTask reports a subset of the applications it was given.
LEMMA ReconcileWorkerInv == ASSUME IInv, ReconcileWorker PROVE IInv'
<1>1. faults' \in 0..MaxFaults
    BY UseAssumption DEF ReconcileWorker, Free, Fault
<1>2. recon' \in [ph: {"none", "run", "ok", "err"}, apps: SUBSET Apps]
    BY DEF ReconcileWorker
<1> QED BY <1>1, <1>2 DEF ReconcileWorker, nsVars, loopVars, apiVars

\* The removal of the network counts the containers that resist against the
\* bound on faults.
LEMMA RemoveNetworkWorkerInv == ASSUME IInv, RemoveNetworkWorker PROVE IInv'
<1>1. PICK left \in SUBSET {a \in Apps : docker[a].state # "none"} :
        /\ faults + Cardinality(left) <= MaxFaults
        /\ faults' = faults + Cardinality(left)
        /\ docker' = [a \in Apps |-> IF a \in left THEN docker[a] ELSE NoContainer]
    BY DEF RemoveNetworkWorker
<1>2. Cardinality(left) \in Nat
  <2>1. IsFiniteSet(left)
      BY FS_Subset, ShapeAssumption
  <2> QED BY <2>1, FS_CardinalityType
<1>3. faults' \in 0..MaxFaults
    BY <1>1, <1>2, UseAssumption
<1>4. docker' \in [Apps -> Container]
    BY <1>1 DEF NoContainer, Container
<1> QED BY <1>3, <1>4 DEF RemoveNetworkWorker, nsVars, loopVars, apiVars

\* A crash of a container is counted as a fault.
LEMMA CrashInv == ASSUME IInv, NEW a \in Apps, Crash(a) PROVE IInv'
<1>1. faults' \in 0..MaxFaults
    BY UseAssumption DEF Crash, Fault
<1>2. docker' \in [Apps -> Container]
    BY ContainerType DEF Crash
<1> QED BY <1>1, <1>2 DEF Crash, nsVars, loopVars, apiVars

\* A step of an API goroutine: what it may change keeps its type.
LEMMA ApiInv ==
    ASSUME IInv, APIFrame,
           DOMAIN apps' = DOMAIN apps, apps' \in [DOMAIN apps -> AppRuntime],
           detached' \subseteq Apps, blocked' \subseteq Apps, queue' \in Seq(Commands),
           task' \in [Apps -> [Ops -> Task]], held' \in [Apps -> Nat],
           restarting' \in [Apps -> {"no", "first", "second", "third"}],
           calls' \in 0..MaxCalls
    PROVE  IInv'
BY DEF APIFrame

\* An API call is counted, a stop plan is held.
LEMMA CallType == ASSUME IInv, NEW op, Call(op) PROVE calls' \in 0..MaxCalls
BY UseAssumption DEF Call

\* A stop plan that an API goroutine commits is counted.
LEMMA HoldType ==
    ASSUME IInv, NEW a \in Apps, Hold(a) \/ UNCHANGED held PROVE held' \in [Apps -> Nat]
<1>1. held[a] + 1 \in Nat
    OBVIOUS
<1>2. held' = held \/ held' = [held EXCEPT ![a] = held[a] + 1]
    BY DEF Hold
<1> QED BY <1>1, <1>2

\* An entry moved to a status, with or without its pending restart.
LEMMA MovedType ==
    ASSUME NsTypeOK, NEW a \in Known, NEW s \in AppStatuses
    PROVE  /\ SetAppStatus(apps[a], s) \in AppRuntime
           /\ [SetAppStatus(apps[a], s) EXCEPT !.next = ""] \in AppRuntime
           /\ [SetAppStatus(apps[a], s) EXCEPT !.next = "READY_TO_PULL"] \in AppRuntime
           /\ [SetAppStatus(apps[a], s) EXCEPT !.cid = FALSE] \in AppRuntime
           /\ [SetAppStatus(apps[a], s) EXCEPT !.next = "", !.cid = FALSE] \in AppRuntime
<1>1. SetAppStatus(apps[a], s) \in AppRuntime
    BY SetAppStatusType DEF Known
<1> QED BY <1>1 DEF AppRuntime

\* One entry of the applications replaced.
LEMMA ReplacedType ==
    ASSUME NsTypeOK, NEW a \in Known, NEW app \in AppRuntime, apps' = [apps EXCEPT ![a] = app]
    PROVE  DOMAIN apps' = DOMAIN apps /\ apps' \in [DOMAIN apps -> AppRuntime]
BY DEF Known

\* StopApp moves one entry in each of its cases.
LEMMA StopAppInv == ASSUME IInv, NEW a \in Apps, StopApp(a) PROVE IInv'
<1>1. /\ a \in Known /\ detached' \subseteq Apps /\ calls' \in 0..MaxCalls
      /\ UNCHANGED <<blocked, queue, restarting>> /\ APIFrame
    BY CallType DEF StopApp
<1>2. /\ DOMAIN apps' = DOMAIN apps /\ apps' \in [DOMAIN apps -> AppRuntime]
      /\ task' \in [Apps -> [Ops -> Task]] /\ held' \in [Apps -> Nat]
  <2>1. \A S, ops : Cancelled(task, S, ops) \in [Apps -> [Ops -> Task]]
      BY CancelledType
  <2>2. CASE Status(a) \in Containerless
    <3>1. /\ apps' = [apps EXCEPT ![a] = [SetAppStatus(apps[a], "STOPPED") EXCEPT !.cid = FALSE]]
          /\ task' = Cancelled(task, {a}, Ops)
          /\ UNCHANGED held
        BY <1>1, <2>2 DEF StopApp, Containerless, Known
    <3> QED BY <1>1, <2>1, <3>1, MovedType, ReplacedType DEF AppStatuses
  <2>3. CASE Status(a) \in {"STARTING", "RUNNING", "START_FAILED", "STOPPING_FAILED"}
    <3>1. /\ apps' = [apps EXCEPT ![a] = [SetAppStatus(apps[a], "STOPPING") EXCEPT !.next = ""]]
          /\ task' = Cancelled(task, {a}, Ops \ {"stop"})
          /\ Hold(a)
        BY <1>1, <2>3 DEF StopApp, Containerless, Known
    <3> QED BY <1>1, <2>1, <3>1, MovedType, ReplacedType, HoldType DEF AppStatuses
  <2>4. CASE Status(a) = "UPDATING"
    <3>1. /\ apps' = [apps EXCEPT ![a] = [SetAppStatus(apps[a], "STOPPING") EXCEPT !.next = ""]]
          /\ UNCHANGED <<task, held>>
        BY <1>1, <2>4 DEF StopApp, Containerless, Known
    <3> QED BY <1>1, <3>1, MovedType, ReplacedType DEF AppStatuses
  <2>5. CASE Status(a) \notin Containerless \cup {"STARTING", "RUNNING", "START_FAILED",
                                                  "STOPPING_FAILED", "UPDATING"}
      BY <2>5 DEF StopApp, Containerless
  <2> QED BY <2>2, <2>3, <2>4, <2>5
<1> QED BY <1>1, <1>2, ApiInv

\* StartApp moves one entry, or hands it to RestartApp.
LEMMA StartAppInv == ASSUME IInv, NEW a \in Apps, StartApp(a) PROVE IInv'
<1>1. /\ a \in Known /\ calls' \in 0..MaxCalls
      /\ UNCHANGED <<blocked, queue, task>> /\ APIFrame
    BY CallType DEF StartApp
<1>2. /\ DOMAIN apps' = DOMAIN apps /\ apps' \in [DOMAIN apps -> AppRuntime]
      /\ detached' \subseteq Apps /\ held' \in [Apps -> Nat]
      /\ restarting' \in [Apps -> {"no", "first", "second", "third"}]
  <2>1. CASE Status(a) \in {"STOPPED", "READY_TO_PULL", "PULL_FAILED"}
    <3>1. /\ Transition(a, "READY_TO_PULL") /\ detached' = detached \ {a}
          /\ UNCHANGED <<held, restarting>>
        BY <2>1 DEF StartApp
    <3> QED BY <1>1, <3>1, TransitionType DEF AppStatuses
  <2>2. CASE Status(a) = "START_FAILED"
    <3>1. /\ Transition(a, "READY_TO_START") /\ detached' = detached \ {a}
          /\ UNCHANGED <<held, restarting>>
        BY <2>2 DEF StartApp
    <3> QED BY <1>1, <3>1, TransitionType DEF AppStatuses
  <2>3. CASE Status(a) = "STOPPING_FAILED"
    <3>1. /\ apps' = [apps EXCEPT ![a] =
                 [SetAppStatus(apps[a], "UPDATING") EXCEPT !.next = "READY_TO_PULL"]]
          /\ detached' = detached \ {a} /\ Hold(a) /\ UNCHANGED restarting
        BY <1>1, <2>3 DEF StartApp, Known
    <3> QED BY <1>1, <3>1, MovedType, ReplacedType, HoldType DEF AppStatuses
  <2>4. CASE Status(a) \notin {"STOPPED", "READY_TO_PULL", "PULL_FAILED", "START_FAILED",
                               "STOPPING_FAILED"}
    <3>1. /\ restarting' = [restarting EXCEPT ![a] = "first"]
          /\ UNCHANGED <<apps, detached, held>>
        BY <2>4 DEF StartApp
    <3> QED BY <3>1
  <2> QED BY <2>1, <2>2, <2>3, <2>4
<1> QED BY <1>1, <1>2, ApiInv

\* The first section of RestartApp may enqueue a regenerate of lastApps.
LEMMA RestartCheckInv ==
    ASSUME IInv, NEW a \in Apps, RestartCheck(a), calls' \in 0..MaxCalls PROVE IInv'
<1>1. restarting' \in [Apps -> {"no", "first", "second", "third"}]
    BY DEF RestartCheck
<1>2. queue' \in Seq(Commands)
  <2>1. CmdRegenerate(lastApps, "", FALSE) \in Commands
      BY DEF Commands
  <2>2. PICK c \in Commands : queue' = queue \/ queue' = Append(queue, c)
      BY <2>1, Zenon DEF RestartCheck
  <2>3. Append(queue, c) \in Seq(Commands)
      OBVIOUS
  <2> QED BY <2>2, <2>3, Zenon
<1> QED BY <1>1, <1>2, ApiInv DEF RestartCheck

\* The second section of RestartApp moves one entry.
LEMMA RestartSecondInv == ASSUME IInv, NEW a \in Apps, RestartSecond(a) PROVE IInv'
<1>1. /\ detached' \subseteq Apps /\ UNCHANGED <<blocked, queue, calls>> /\ APIFrame
      /\ restarting' \in [Apps -> {"no", "first", "second", "third"}]
    BY DEF RestartSecond
<1>2. task' \in [Apps -> [Ops -> Task]]
    BY CancelledType DEF RestartSecond
<1>3. held' \in [Apps -> Nat]
    BY HoldType DEF RestartSecond
<1>4. \/ UNCHANGED apps
      \/ /\ a \in Known
         /\ apps' = [apps EXCEPT ![a] =
                [SetAppStatus(apps[a], "UPDATING") EXCEPT !.next = "READY_TO_PULL"]]
      \/ a \in Known /\ Transition(a, "READY_TO_PULL")
    BY DEF RestartSecond
<1>5. DOMAIN apps' = DOMAIN apps /\ apps' \in [DOMAIN apps -> AppRuntime]
    BY <1>4, MovedType, ReplacedType, TransitionType DEF AppStatuses
<1> QED BY <1>1, <1>2, <1>3, <1>5, ApiInv

\* The third section of RestartApp moves one entry.
LEMMA RestartThirdInv == ASSUME IInv, NEW a \in Apps, RestartThird(a) PROVE IInv'
<1>1. CASE a \in In({"UPDATING"})
  <2>1. a \in Known /\ apps' = [apps EXCEPT ![a] =
            [SetAppStatus(apps[a], "READY_TO_PULL") EXCEPT !.next = "", !.cid = FALSE]]
      BY <1>1 DEF RestartThird, In, Known
  <2> QED BY <2>1, MovedType, ReplacedType, ApiInv DEF RestartThird, AppStatuses
<1>2. CASE a \notin In({"UPDATING"})
    BY <1>2, ApiInv DEF RestartThird
<1> QED BY <1>1, <1>2

\* The dispatch of a held stop plan fills a slot.
LEMMA APIDispatchInv == ASSUME IInv, NEW a \in Apps, APIDispatch(a) PROVE IInv'
<1>1. held' \in [Apps -> Nat]
    BY DEF APIDispatch
<1>2. task' \in [Apps -> [Ops -> Task]]
    BY PlanTypes, DispatchedType DEF APIDispatch
<1> QED BY <1>1, <1>2, ApiInv DEF APIDispatch

\* RetryPullFailedApps moves every entry that failed to be pulled.
LEMMA RetryPullFailedAppsInv == ASSUME IInv, RetryPullFailedApps PROVE IInv'
<1>1. calls' \in 0..MaxCalls
    BY CallType DEF RetryPullFailedApps
<1>2. \A x \in Known : SetAppStatus(apps[x], "READY_TO_PULL") \in AppRuntime
    BY MovedType DEF AppStatuses
<1>3. DOMAIN apps' = DOMAIN apps /\ apps' \in [DOMAIN apps -> AppRuntime]
    BY <1>2 DEF RetryPullFailedApps, Known
<1> QED BY <1>1, <1>3, ApiInv DEF RetryPullFailedApps

\* Regenerate and Stop enqueue a command.
LEMMA EnqueueInv ==
    ASSUME IInv, Stop \/ \E want \in DesiredSets : Regenerate(want) PROVE IInv'
<1>1. CmdStop \in Commands /\ \A want \in DesiredSets : CmdRegenerate(want, "", FALSE) \in Commands
    BY UseAssumption DEF Commands, Desired
<1>2. queue' \in Seq(Commands)
  <2>1. PICK c \in Commands : queue' = Append(queue, c)
      BY <1>1, Zenon DEF Stop, Regenerate
  <2> QED BY <2>1
<1>3. calls' \in 0..MaxCalls
    BY CallType DEF Stop, Regenerate
<1> QED BY <1>2, <1>3, ApiInv DEF Stop, Regenerate

\* The state doStart commits satisfies the inductive invariant.
LEMMA InitInv == Init => IInv
<1> SUFFICES ASSUME Init PROVE IInv
    OBVIOUS
<1>1. PICK how \in [Apps -> Found], ver \in Versions :
        /\ nsStatus = "STARTING"
        /\ apps = [a \in Apps |-> Adopted(how[a], ver)]
        /\ detached = {a \in Apps : how[a] = "detached"}
        /\ blocked = {} /\ lastApps = Names(ver)
        /\ queue = <<>> /\ todo = <<>> /\ pc = "step" /\ snap = {}
        /\ conts = <<>> /\ scan = [at |-> 0, end |-> 0]
        /\ plans = {StopPlan(a) : a \in {b \in Apps : how[b] = "stale"}}
        /\ task = [a \in Apps |-> [o \in Ops |-> Idle]]
        /\ recon = [ph |-> "none", apps |-> {}] /\ net = "none"
        /\ held = [a \in Apps |-> 0] /\ restarting = [a \in Apps |-> "no"]
        /\ closed = FALSE
        /\ docker = [a \in Apps |->
              IF how[a] \in {"match", "stale"} THEN [state |-> "running", def |-> ver]
              ELSE NoContainer]
        /\ calls = 0 /\ faults = 0
    BY Zenon DEF Init
<1>2. NsTypeOK
  <2>1. ASSUME NEW h PROVE Adopted(h, ver) \in AppRuntime
    <3>1. \A s \in AppStatuses : Fresh(ver, s) \in AppRuntime
        BY FreshType
    <3>2. /\ Fresh(ver, "RUNNING") \in AppRuntime /\ Fresh(ver, "UPDATING") \in AppRuntime
          /\ Fresh(ver, "READY_TO_PULL") \in AppRuntime /\ Fresh(ver, "STOPPED") \in AppRuntime
        BY <3>1 DEF AppStatuses
    <3>3. /\ [Fresh(ver, "RUNNING") EXCEPT !.cid = TRUE] \in AppRuntime
          /\ [Fresh(ver, "UPDATING") EXCEPT !.cid = TRUE, !.next = "READY_TO_PULL"]
                 \in AppRuntime
        BY <3>2 DEF AppRuntime
    <3> QED BY <3>2, <3>3 DEF Adopted
  <2>2. lastApps \in Desired
      BY <1>1 DEF Names, Desired
  <2> QED BY <1>1, <2>1, <2>2 DEF NsStatuses
<1>3. plans \subseteq Plan
    BY <1>1, <1>2, PlanTypes
<1>4. LoopTypeOK
  <2>1. queue \in Seq(Commands) /\ todo \in Seq(Commands) /\ conts \in Seq(Continuation)
      BY <1>1
  <2>2. scan \in [at: Nat, end: Nat]
      BY <1>1
  <2>3. pc \in LoopPhases /\ snap \subseteq Apps /\ closed \in BOOLEAN
      BY <1>1 DEF LoopPhases
  <2> QED BY <1>3, <2>1, <2>2, <2>3
<1>5. WorkTypeOK
  <2>1. Idle \in Task
      BY DEF Idle, Task, Phases
  <2>2. NoContainer \in Container /\ [state |-> "running", def |-> ver] \in Container
      BY ShapeAssumption DEF NoContainer, Container
  <2> QED BY <1>1, <2>1, <2>2
<1>6. ApiTypeOK
    BY <1>1, UseAssumption
<1> QED BY <1>1, <1>2, <1>4, <1>5, <1>6

\* Every step preserves it: each action by its lemma.
LEMMA NextInv == IInv /\ [Next]_vars => IInv'
<1> SUFFICES ASSUME IInv, [Next]_vars PROVE IInv'
    OBVIOUS
<1>1. CASE LoopInside
    BY <1>1, LoopDispatchInv, DrainNextInv, ApplyDoneInv, DoStopInv, RegenBeginInv,
       RegenCommitInv, LivenessRestartInv, StepAllInv, EvalNextInv, EvalDoneInv,
       UpdateNsStatusInv, Zenon DEF LoopInside, StepAll
<1>2. CASE LoopSelect
    BY <1>2, SelectCommandInv, SelectExitInv, TickInv, ApplyPullResultInv,
       ApplyInitResultInv, ApplyStartResultInv, ApplyProbeResultInv, ApplyStopResultInv,
       ApplyLivenessResultInv, ApplyReconcileResultInv, ApplyRemoveNetworkResultInv, Zenon
       DEF LoopSelect, Tick, ApplyAppResult
<1>3. ASSUME NEW a \in Apps, AppWorker(a)
      PROVE  IInv'
  <2>1. {"pull", "init", "probe", "live"} \subseteq Ops
      BY DEF Ops
  <2> QED BY <1>3, <2>1, WorkerEndsInv, StopWorkerInv, StartWorkerInv DEF AppWorker
<1>4. ASSUME NEW a \in Apps, Crash(a) \/ APITail(a)
      PROVE  IInv'
  <2>1. CASE RestartDelegated(a)
    <3>1. RestartCheck(a) /\ calls' = calls
        BY <2>1, Zenon DEF RestartDelegated
    <3> QED BY <3>1, RestartCheckInv
  <2> QED BY <1>4, <2>1, CrashInv, RestartSecondInv, RestartThirdInv, APIDispatchInv, Zenon
          DEF APITail
<1>5. CASE ReconcileWorker \/ RemoveNetworkWorker
    BY <1>5, ReconcileWorkerInv, RemoveNetworkWorkerInv
<1>6. CASE APICall
  <2>1. ASSUME NEW a \in Apps, RestartApp(a)
        PROVE  IInv'
      BY <2>1, CallType, RestartCheckInv DEF RestartApp
  <2> QED BY <1>6, <2>1, StopAppInv, StartAppInv, RetryPullFailedAppsInv, EnqueueInv, Zenon
          DEF APICall
<1>7. CASE UNCHANGED vars
    BY <1>7 DEF vars, nsVars, loopVars, workVars, apiVars
<1> QED BY <1>1, <1>2, <1>3, <1>4, <1>5, <1>6, <1>7, Zenon DEF Next

\* The runtime never leaves the states its types describe, whatever the
\* applications, their dependencies, the desired sets and the calls: no handler
\* of runtimeLoop, of a worker or of the API assigns an entry it does not have.
THEOREM TypeCorrect == Spec => []TypeOK
<1>1. IInv => TypeOK
    BY DEF IInv
<1> QED BY <1>1, InitInv, NextInv, PTL DEF Spec

-----------------------------------------------------------------------------
(* A detached application is never pulled, started or running.             *)
(*                                                                         *)
(* DetachedParked is inductive given IInv.  A handler that moves an         *)
(* application up requires a status no detached application has (PULLING,  *)
(* STARTING, RUNNING, ...), stepAllApps skips it, and the API operations   *)
(* that move it up end its detachment in the same critical section.        *)
(* DetachedStaysDown is inductive in the same way where nothing reloads:   *)
(* only doRegenerate can queue or recreate a detached application, and     *)
(* RestartApp, which dequeues one that is UPDATING, has ended the          *)
(* detachment of it before.  The lemmas are about any set P of statuses    *)
(* between the two.                                                        *)

Down == {"STOPPED", "STOPPING", "STOPPING_FAILED"}

Parked == Down \cup {"READY_TO_PULL", "UPDATING"}

\* The statuses of detached applications.
DetachedIn(P) == \A x \in detached \cap Known : Status(x) \in P

\* A step that detaches nothing, and leaves or parks what was detached.
LEMMA StillParked ==
    ASSUME NEW P \in {Down, Parked}, DetachedIn(P), detached' \subseteq detached,
           \A x \in DOMAIN apps' : x \in detached' =>
               \/ x \in Known /\ apps'[x].status = apps[x].status
               \/ apps'[x].status \in P
    PROVE  DetachedIn(P)'
BY DEF DetachedIn, Known, Status

\* Leaving every application and every detachment as they are is such a step.
LEMMA FrameParked ==
    ASSUME NEW P, DetachedIn(P), UNCHANGED <<apps, detached>> PROVE DetachedIn(P)'
BY DEF DetachedIn, Known, Status

\* Moving one application that is not detached, or to a status it may have.
LEMMA OneParked ==
    ASSUME NEW P \in {Down, Parked}, IInv, DetachedIn(P), NEW a \in Known, NEW app, apps' = [apps EXCEPT ![a] = app],
           detached' \subseteq detached, a \notin detached' \/ app.status \in P
    PROVE  DetachedIn(P)'
BY StillParked DEF Known

\* setAppStatus, and the other fields set with it, give the status asked for.
LEMMA StatusOf ==
    ASSUME NEW app \in AppRuntime, NEW s
    PROVE  /\ SetAppStatus(app, s).status = s
           /\ \A n : [SetAppStatus(app, s) EXCEPT !.next = n].status = s
           /\ [SetAppStatus(app, s) EXCEPT !.cid = TRUE].status = s
           /\ [SetAppStatus(app, s) EXCEPT !.cid = FALSE].status = s
           /\ \A n : [SetAppStatus(app, s) EXCEPT !.next = n, !.cid = FALSE].status = s
           /\ \A n : [SetAppStatus(app, s) EXCEPT !.marked = TRUE, !.next = n].status = s
           /\ \A d, n : [SetAppStatus(app, s) EXCEPT !.def = d, !.next = n].status = s
BY DEF SetAppStatus, AppRuntime

\* The group stop of a namespace stops what it moves.
LEMMA GroupStopParked ==
    ASSUME NEW P \in {Down, Parked}, IInv, DetachedIn(P), NEW G, GroupStop(G), UNCHANGED detached
    PROVE  DetachedIn(P)'
<1>1. apps' = [a \in Known |-> IF a \in G THEN GroupStopped(apps[a]) ELSE apps[a]]
    BY DEF GroupStop
<1>2. ASSUME NEW a \in Known
      PROVE  \/ GroupStopped(apps[a]).status = apps[a].status
             \/ GroupStopped(apps[a]).status \in Down
  <2>1. apps[a] \in AppRuntime
      BY DEF Known
  <2> QED BY <2>1, StatusOf DEF GroupStopped, Down
<1> QED BY <1>1, <1>2, StillParked DEF Parked

\* A status outside Parked tells that the application is not detached.
LEMMA NotDetached ==
    ASSUME NEW P \in {Down, Parked}, DetachedIn(P), NEW a \in Known, Status(a) \notin Parked
    PROVE  a \notin detached
BY DEF DetachedIn, Parked, Down

\* The handlers of results: each has checked the status first.
LEMMA ResultParked ==
    ASSUME NEW P \in {Down, Parked}, IInv, DetachedIn(P), NEW a \in Apps, ApplyAppResult(a) PROVE DetachedIn(P)'
<1> USE DEF Parked, Down
<1>1. UNCHANGED detached
    BY DEF ApplyAppResult, ApplyPullResult, ApplyInitResult, ApplyStartResult,
       ApplyProbeResult, ApplyStopResult, ApplyLivenessResult, Handled
<1>2. CASE UNCHANGED apps
    BY <1>1, <1>2, FrameParked
<1>3. CASE apps' # apps /\ ~ApplyStopResult(a)
  <2>1. a \in Known /\ Status(a) \in {"PULLING", "STARTING", "RUNNING"}
      BY <1>3 DEF ApplyAppResult, ApplyPullResult, ApplyInitResult, ApplyStartResult,
         ApplyProbeResult, ApplyLivenessResult, Dropped, In
  <2>2. a \notin detached
      BY <2>1, NotDetached
  <2>3. PICK app : apps' = [apps EXCEPT ![a] = app]
      BY <1>3, <2>1 DEF ApplyAppResult, ApplyPullResult, ApplyInitResult, ApplyStartResult,
         ApplyProbeResult, ApplyLivenessResult, Dropped, Transition, Known
  <2> QED BY <1>1, <2>1, <2>2, <2>3, OneParked
<1>4. CASE apps' # apps /\ ApplyStopResult(a)
  <2>1. a \in Known /\ apps[a] \in AppRuntime
      BY <1>4 DEF ApplyStopResult, Dropped, In, Known
  <2>2. \/ apps' = [apps EXCEPT ![a] =
               [SetAppStatus(apps[a], "STOPPING_FAILED") EXCEPT !.next = ""]]
        \/ apps' = [apps EXCEPT ![a] =
               [SetAppStatus(apps[a], AfterStop(a)) EXCEPT !.next = "", !.cid = FALSE]]
      BY <1>4, <2>1 DEF ApplyStopResult, Dropped, Known
  <2>3. a \in detached => AfterStop(a) = "STOPPED"
      BY DEF AfterStop
  <2>4. /\ [SetAppStatus(apps[a], "STOPPING_FAILED") EXCEPT !.next = ""].status
               = "STOPPING_FAILED"
        /\ [SetAppStatus(apps[a], AfterStop(a)) EXCEPT !.next = "", !.cid = FALSE].status
               = AfterStop(a)
      BY <2>1, StatusOf
  <2>5. PICK app : /\ apps' = [apps EXCEPT ![a] = app]
                   /\ app.status = "STOPPING_FAILED" \/ app.status = AfterStop(a)
      BY <2>2, <2>4, Zenon
  <2>6. a \notin detached' \/ app.status \in P
      BY <1>1, <2>3, <2>5
  <2>7. detached' \subseteq detached
      BY <1>1
  <2> QED BY <2>1, <2>5, <2>6, <2>7, OneParked
<1> QED BY <1>2, <1>3, <1>4

\* The liveness restart and the diff: only what is RUNNING.
LEMMA RestartParked ==
    ASSUME NEW P \in {Down, Parked}, IInv, DetachedIn(P),
           ApplyReconcileResult \/ \E a \in Apps : LivenessRestart(a)
    PROVE  DetachedIn(P)'
<1>1. CASE ApplyReconcileResult
  <2>1. /\ detached' = detached /\ DOMAIN apps' = Known
        /\ \A x \in Known : apps'[x] = apps[x] \/ Status(x) = "RUNNING"
      BY <1>1 DEF ApplyReconcileResult, Missing, In
  <2>2. \A x \in Known : Status(x) = "RUNNING" => x \notin detached
      BY NotDetached DEF Parked, Down
  <2> QED BY <2>1, <2>2, StillParked
<1>2. ASSUME NEW a \in Apps, LivenessRestart(a)
      PROVE  DetachedIn(P)'
  <2>1. UNCHANGED detached
      BY <1>2 DEF LivenessRestart, Handled
  <2>2. CASE StillRunning(a)
    <3>1. a \in Known /\ apps[a] \in AppRuntime
        BY <2>2 DEF StillRunning, In, Known
    <3>2. apps' = [apps EXCEPT ![a] =
              [SetAppStatus(apps[a], "UPDATING") EXCEPT !.next = "READY_TO_PULL"]]
        BY <1>2, <2>2, <3>1 DEF LivenessRestart, Known
    <3>3. [SetAppStatus(apps[a], "UPDATING") EXCEPT !.next = "READY_TO_PULL"].status
              = "UPDATING"
        BY <3>1, StatusOf
    <3>4. PICK app : apps' = [apps EXCEPT ![a] = app] /\ app.status = "UPDATING"
        BY <3>2, <3>3, Zenon
    <3>5. a \notin detached
        BY <2>2, <3>1, NotDetached DEF StillRunning, In, Parked, Down
    <3> QED BY <2>1, <3>1, <3>4, <3>5, OneParked
  <2>3. CASE ~StillRunning(a)
      BY <1>2, <2>1, <2>3, FrameParked DEF LivenessRestart, Dropped
  <2> QED BY <2>2, <2>3
<1> QED BY <1>1, <1>2

\* A stop budget that ends fails the stop; a stopped namespace is all STOPPED.
LEMMA TickParked ==
    ASSUME NEW P \in {Down, Parked}, IInv, DetachedIn(P), Tick \/ ApplyRemoveNetworkResult PROVE DetachedIn(P)'
<1>1. CASE Tick
  <2>1. PICK over \in SUBSET In(Going) :
            /\ detached' = detached
            /\ apps' = [x \in Known |-> IF x \in over
                   THEN [SetAppStatus(apps[x], "STOPPING_FAILED") EXCEPT !.next = ""]
                   ELSE apps[x]]
      BY <1>1, Zenon DEF Tick, TickWith
  <2>2. \A x \in Known :
            [SetAppStatus(apps[x], "STOPPING_FAILED") EXCEPT !.next = ""].status \in P
      BY StatusOf DEF Parked, Down, Known
  <2> QED BY <2>1, <2>2, StillParked
<1>2. CASE ApplyRemoveNetworkResult
    BY <1>2, StillParked DEF ApplyRemoveNetworkResult, Fresh, Parked, Down
<1> QED BY <1>1, <1>2

\* stepAllApps skips detached applications.
LEMMA StepAllParked ==
    ASSUME NEW P \in {Down, Parked}, IInv, DetachedIn(P), NEW over, StepAllWith(over) PROVE DetachedIn(P)'
<1>1. UNCHANGED detached
    BY Zenon DEF StepAllWith
<1>2. CASE nsStatus = "STOPPING"
    BY <1>1, <1>2, FrameParked DEF StepAllWith
<1>3. CASE nsStatus # "STOPPING"
  <2>1. PICK live \in SUBSET Known :
            /\ DOMAIN apps' = live
            /\ \A x \in live : x \in detached => apps'[x] = apps[x]
      BY <1>3 DEF StepAllWith, Movable
  <2> QED BY <1>1, <2>1, StillParked
<1> QED BY <1>2, <1>3

\* The stop of the namespace, group by group.
LEMMA StoppingParked ==
    ASSUME NEW P \in {Down, Parked}, IInv, DetachedIn(P), DoStop \/ EvalNext PROVE DetachedIn(P)'
<1>1. UNCHANGED detached
    BY DEF DoStop, EvalNext
<1>2. UNCHANGED apps \/ \E G : GroupStop(G)
    BY Zenon DEF DoStop, EvalNext
<1> QED BY <1>1, <1>2, FrameParked, GroupStopParked

\* StopApp parks what it detaches, whatever its status.
LEMMA StopAppParked ==
    ASSUME NEW P \in {Down, Parked}, IInv, DetachedIn(P), NEW a \in Apps, StopApp(a) PROVE DetachedIn(P)'
<1>1. a \in Known /\ detached' = detached \cup {a} /\ apps[a] \in AppRuntime
    BY DEF StopApp, Known
<1>2. Status(a) \in AppStatuses
    BY <1>1 DEF Status, AppRuntime
<1>3. DOMAIN apps' = Known /\ \A x \in Known \ {a} : apps'[x] = apps[x]
    BY DEF StopApp, Known
<1>4. apps'[a].status \in {"STOPPED", "STOPPING"}
  <2>1. CASE Status(a) \in Containerless
    <3>1. apps' = [apps EXCEPT ![a] = [SetAppStatus(apps[a], "STOPPED") EXCEPT !.cid = FALSE]]
        BY <1>1, <2>1 DEF StopApp, Containerless, Known
    <3>2. [SetAppStatus(apps[a], "STOPPED") EXCEPT !.cid = FALSE].status = "STOPPED"
        BY <1>1, StatusOf
    <3> QED BY <1>1, <3>1, <3>2 DEF Known
  <2>2. CASE Status(a) \in {"STARTING", "RUNNING", "START_FAILED", "STOPPING_FAILED",
                            "UPDATING"}
    <3>1. apps' = [apps EXCEPT ![a] = [SetAppStatus(apps[a], "STOPPING") EXCEPT !.next = ""]]
        BY <1>1, <2>2 DEF StopApp, Containerless, Known
    <3>2. [SetAppStatus(apps[a], "STOPPING") EXCEPT !.next = ""].status = "STOPPING"
        BY <1>1, StatusOf
    <3> QED BY <1>1, <3>1, <3>2 DEF Known
  <2>3. CASE Status(a) \in {"STOPPED", "STOPPING"}
    <3>1. apps' = apps
        BY <2>3 DEF StopApp, Containerless
    <3> QED BY <2>3, <3>1 DEF Status
  <2> QED BY <1>2, <2>1, <2>2, <2>3 DEF AppStatuses, Containerless
<1> QED BY <1>1, <1>3, <1>4 DEF DetachedIn, Known, Status, Parked, Down

\* StartApp and RestartApp end the detachment of what they move up.
LEMMA RestartsParked ==
    ASSUME NEW P \in {Down, Parked}, IInv, DetachedIn(P), NEW a \in Apps,
           StartApp(a) \/ RestartSecond(a) \/ RestartThird(a)
    PROVE  DetachedIn(P)'
<1>1. detached' = detached \/ (detached' = detached \ {a} /\ a \in Known)
    BY DEF StartApp, RestartSecond, RestartThird
<1>2. CASE apps' = apps
    BY <1>1, <1>2 DEF DetachedIn, Known, Status
<1>3. CASE apps' # apps /\ ~RestartThird(a)
  <2>1. detached' = detached \ {a} /\ a \in Known
      BY <1>3 DEF StartApp, RestartSecond
  <2>2. PICK app : apps' = [apps EXCEPT ![a] = app]
      BY <1>3, <2>1 DEF StartApp, RestartSecond, Transition, Known
  <2> QED BY <2>1, <2>2, OneParked
<1>4. CASE apps' # apps /\ RestartThird(a)
  <2>1. a \in Known /\ apps[a] \in AppRuntime /\ detached' = detached
      BY <1>4 DEF RestartThird, In, Known
  <2>2. apps' = [apps EXCEPT ![a] =
            [SetAppStatus(apps[a], "READY_TO_PULL") EXCEPT !.next = "", !.cid = FALSE]]
      BY <1>4, <2>1 DEF RestartThird, Known
  <2>3. [SetAppStatus(apps[a], "READY_TO_PULL") EXCEPT !.next = "", !.cid = FALSE].status
            = "READY_TO_PULL"
      BY <2>1, StatusOf
  <2>4. PICK app : apps' = [apps EXCEPT ![a] = app] /\ app.status = "READY_TO_PULL"
      BY <2>2, <2>3, Zenon
  <2>5. a \notin detached' \/ "READY_TO_PULL" \in P
      BY <1>4, <2>1 DEF RestartThird, In, DetachedIn, Parked, Down
  <2> QED BY <2>1, <2>4, <2>5, OneParked
<1> QED BY <1>2, <1>3, <1>4

\* RetryPullFailedApps moves only what failed to be pulled.
LEMMA RetryParked ==
    ASSUME NEW P \in {Down, Parked}, IInv, DetachedIn(P), RetryPullFailedApps PROVE DetachedIn(P)'
<1>1. /\ detached' = detached /\ DOMAIN apps' = Known
      /\ \A x \in Known : apps'[x] = apps[x] \/ Status(x) = "PULL_FAILED"
    BY DEF RetryPullFailedApps, In
<1>2. \A x \in Known : Status(x) = "PULL_FAILED" => x \notin detached
    BY NotDetached DEF Parked, Down
<1> QED BY <1>1, <1>2, StillParked

\* Every step but the second section of doRegenerate keeps detached applications
\* where they are or moves them down.
LEMMA StepParked ==
    ASSUME NEW P \in {Down, Parked}, IInv, DetachedIn(P), [Next]_vars, ~RegenCommit
    PROVE  DetachedIn(P)'
<1>1. CASE UNCHANGED <<apps, detached>>
    BY <1>1, FrameParked
<1>2. CASE LoopInside
  <2>1. LoopDispatch \/ DrainNext \/ ApplyDone \/ RegenBegin \/ EvalDone \/ UpdateNsStatus
            => UNCHANGED <<apps, detached>>
      BY DEF LoopDispatch, DrainNext, ApplyDone, RegenBegin, EvalDone, UpdateNsStatus, nsVars
  <2> QED BY <1>1, <1>2, <2>1, StoppingParked, RestartParked, StepAllParked, Zenon
          DEF LoopInside, StepAll
<1>3. CASE LoopSelect
  <2>1. SelectCommand \/ SelectExit => UNCHANGED <<apps, detached>>
      BY DEF SelectCommand, SelectExit, nsVars
  <2> QED BY <1>1, <1>3, <2>1, ResultParked, RestartParked, TickParked, Zenon DEF LoopSelect
<1>4. CASE APICall
  <2>1. ASSUME NEW a \in Apps, RestartApp(a)
        PROVE  UNCHANGED <<apps, detached>>
      BY <2>1, Zenon DEF RestartApp, RestartCheck
  <2>2. Stop \/ (\E want \in DesiredSets : Regenerate(want)) => UNCHANGED <<apps, detached>>
      BY DEF Stop, Regenerate
  <2> QED BY <1>1, <1>4, <2>1, <2>2, StopAppParked, RestartsParked, RetryParked, Zenon
          DEF APICall
<1>5. ASSUME NEW a \in Apps, AppWorker(a) \/ Crash(a) \/ APITail(a)
      PROVE  DetachedIn(P)'
  <2>1. AppWorker(a) \/ Crash(a) => UNCHANGED <<apps, detached>>
      BY DEF AppWorker, WorkerEnds, StopWorker, StartWorker, WorkerFrame, Crash, nsVars
  <2>2. RestartDelegated(a) \/ APIDispatch(a) => UNCHANGED <<apps, detached>>
      BY DEF RestartDelegated, RestartCheck, APIDispatch
  <2> QED BY <1>1, <1>5, <2>1, <2>2, RestartsParked, Zenon DEF APITail
<1>6. ReconcileWorker \/ RemoveNetworkWorker \/ UNCHANGED vars => UNCHANGED <<apps, detached>>
    BY DEF ReconcileWorker, RemoveNetworkWorker, vars, nsVars
<1> QED BY <1>1, <1>2, <1>3, <1>4, <1>5, <1>6, Zenon DEF Next

\* doRegenerate recreates an application detached since its copy of the set was
\* taken, but only as far as its stop, or queues it.
LEMMA RegenCommitParked ==
    ASSUME IInv, DetachedIn(Parked), RegenCommit PROVE DetachedIn(Parked)'
<1> DEFINE want == Head(todo).apps
           W == DOMAIN want
<1>1. PICK changed \in SUBSET ((Known \cap W) \ snap), swept \in SUBSET Known :
        apps' = [a \in Known \cup W |->
             CASE a \in Known \ W -> Removed(apps[a], a \in swept)
               [] a \in changed -> Recreated(apps[a], a \in swept, want[a])
               [] a \in Known \cap W \cap snap ->
                    [SetAppStatus(apps[a], "STOPPED") EXCEPT !.def = want[a], !.next = ""]
               [] a \in (Known \cap W) \ (snap \cup changed) -> apps[a]
               [] OTHER -> Fresh(want[a], IF a \in snap THEN "STOPPED" ELSE "READY_TO_PULL")]
    BY Zenon DEF RegenCommit
<1>2. detached' = detached
    BY Zenon DEF RegenCommit
<1> HIDE DEF want, W
<1>3. ASSUME NEW a \in Known
      PROVE  /\ Removed(apps[a], a \in swept).status \in Parked
             /\ \A d : Recreated(apps[a], a \in swept, d).status \in Parked
             /\ \A d : [SetAppStatus(apps[a], "STOPPED") EXCEPT !.def = d, !.next = ""].status
                           \in Parked
  <2>1. apps[a] \in AppRuntime
      BY DEF Known
  <2> QED BY <2>1, StatusOf DEF Removed, Recreated, Parked, Down
<1>4. ASSUME NEW d, NEW a
      PROVE  Fresh(d, IF a \in snap THEN "STOPPED" ELSE "READY_TO_PULL").status \in Parked
    BY DEF Fresh, Parked, Down
<1>5. ASSUME NEW a \in Known \cup W
      PROVE  (a \in Known /\ apps'[a].status = apps[a].status) \/ apps'[a].status \in Parked
  <2>1. CASE a \in Known \ W
      BY <1>1, <1>3, <2>1
  <2>2. CASE a \in changed
    <3>1. a \in Known /\ a \in W /\ a \notin snap
        BY <2>2
    <3>2. apps'[a] = Recreated(apps[a], a \in swept, want[a])
        BY <1>1, <2>2, <3>1
    <3> QED BY <1>3, <3>1, <3>2
  <2>3. CASE a \in (Known \cap W \cap snap)
      BY <1>1, <1>3, <2>3
  <2>4. CASE a \in (Known \cap W) \ (snap \cup changed)
      BY <1>1, <2>4
  <2>5. CASE a \in W \ Known
      BY <1>1, <1>4, <2>5
  <2> QED BY <2>1, <2>2, <2>3, <2>4, <2>5
<1>6. DOMAIN apps' = Known \cup W
    BY <1>1
<1> QED BY <1>2, <1>5, <1>6, StillParked

\* The detached applications of doStart have no container and are STOPPED.
LEMMA InitParked == Init => DetachedIn(Down)
<1> SUFFICES ASSUME Init PROVE DetachedIn(Down)
    OBVIOUS
<1>1. PICK how \in [Apps -> Found], ver \in Versions :
          /\ apps = [a \in Apps |-> Adopted(how[a], ver)]
          /\ detached = {a \in Apps : how[a] = "detached"}
    BY Zenon DEF Init
<1> QED BY <1>1 DEF DetachedIn, Known, Status, Adopted, Fresh, Down

\* No application that the operator has stopped is started again behind his back,
\* for any number of applications, calls and faults, even when a reload works on
\* a copy of the detached set taken before the stop (doRegenerate).
THEOREM DetachedStayParked == Spec => []DetachedParked
<1>1. DetachedIn(Parked) <=> DetachedParked
    BY DEF DetachedParked, DetachedIn, Parked, Down
<1>2. Init => DetachedIn(Parked)
    BY InitParked DEF DetachedIn, Parked
<1>3. IInv /\ DetachedIn(Parked) /\ [Next]_vars => DetachedIn(Parked)'
    BY StepParked, RegenCommitParked
<1> QED BY <1>1, <1>2, <1>3, InitInv, NextInv, PTL DEF Spec

-----------------------------------------------------------------------------
(* A namespace that is not reloaded: Regenerate is not called, and no       *)
(* restart turns into a regenerate (RegenOnRestart is empty).  Every        *)
(* command is then a stop, and the loop never reaches doRegenerate.         *)

NoReloads == "Regenerate" \notin Calls /\ RegenOnRestart = {}

\* Nothing but stops is queued, drained or applied.
OnlyStops == queue \in Seq({CmdStop}) /\ todo \in Seq({CmdStop}) /\ pc # "regen"

\* Coalescing stops yields stops.
LEMMA CoalesceStops ==
    ASSUME NEW s \in Seq({CmdStop}) PROVE Coalesce(s, CmdStop) \in Seq({CmdStop})
<1>1. Merged(CmdStop, CmdStop) = CmdStop
    BY DEF Merged, CmdStop
<1>2. s # <<>> => s[Len(s)] = CmdStop
    OBVIOUS
<1>3. CASE s # <<>> /\ Collapsible(s[Len(s)], CmdStop)
    BY <1>1, <1>2, <1>3 DEF Coalesce
<1>4. CASE ~(s # <<>> /\ Collapsible(s[Len(s)], CmdStop))
    BY <1>4 DEF Coalesce
<1> QED BY <1>3, <1>4

\* No step enqueues a regenerate or begins one, if no call of it does.
LEMMA StepOnlyStops ==
    ASSUME "Regenerate" \notin Calls, IInv, OnlyStops, [Next]_vars,
           \A a \in Apps : RestartApp(a) \/ RestartDelegated(a) => UNCHANGED queue
    PROVE  OnlyStops'
<1>1. todo # <<>> => Head(todo).tag = "stop" /\ Tail(todo) \in Seq({CmdStop})
    BY DEF OnlyStops, CmdStop
<1>2. CASE UNCHANGED <<queue, todo, pc>>
    BY <1>2 DEF OnlyStops
<1>3. CASE LoopInside
  <2>1. CASE DrainNext
    <3>1. CASE queue # <<>>
      <4>1. Head(queue) = CmdStop /\ Tail(queue) \in Seq({CmdStop})
          BY <3>1 DEF OnlyStops
      <4> QED BY <2>1, <3>1, <4>1, CoalesceStops DEF DrainNext, OnlyStops
    <3>2. CASE queue = <<>>
        BY <2>1, <3>2 DEF DrainNext, OnlyStops
    <3> QED BY <3>1, <3>2
  <2>2. ~RegenBegin /\ ~RegenCommit
      BY <1>1, Zenon DEF RegenBegin, RegenCommit, Applying, At, OnlyStops
  <2>3. CASE DoStop
      BY <1>1, <2>3 DEF DoStop, Applying, At, OnlyStops
  <2>4. LoopDispatch => UNCHANGED <<queue, todo, pc>>
      BY DEF LoopDispatch
  <2>5. /\ ApplyDone \/ (\E a \in Apps : LivenessRestart(a)) \/ StepAll \/ EvalDone
            \/ UpdateNsStatus \/ EvalNext
               => UNCHANGED <<queue, todo>>
        /\ ApplyDone \/ (\E a \in Apps : LivenessRestart(a)) \/ StepAll \/ EvalDone
            \/ UpdateNsStatus \/ EvalNext
               => pc' # "regen"
      BY DEF ApplyDone, LivenessRestart, Handled, StepAll, StepAllWith, EvalDone,
         UpdateNsStatus, EvalNext, OnlyStops
  <2> QED BY <1>2, <1>3, <2>1, <2>2, <2>3, <2>4, <2>5 DEF LoopInside, OnlyStops
<1>4. CASE LoopSelect
  <2>1. UNCHANGED <<queue, todo>> /\ pc' # "regen"
      BY <1>4 DEF LoopSelect, SelectCommand, SelectExit, Tick, TickWith, ApplyAppResult,
         ApplyPullResult, ApplyInitResult, ApplyStartResult, ApplyProbeResult,
         ApplyStopResult, ApplyLivenessResult, Handled, ApplyReconcileResult,
         ApplyRemoveNetworkResult
  <2> QED BY <2>1 DEF OnlyStops
<1>5. CASE APICall
  <2>1. UNCHANGED <<todo, pc>>
      BY <1>5 DEF APICall, StopApp, StartApp, RestartApp, RestartCheck, RetryPullFailedApps,
         Stop, Regenerate, APIFrame
  <2>2. queue' = queue \/ queue' = Append(queue, CmdStop)
      BY <1>5 DEF APICall, StopApp, StartApp, RetryPullFailedApps, Stop, Regenerate, Call
  <2>3. queue' \in Seq({CmdStop})
    <3>1. queue \in Seq({CmdStop}) /\ CmdStop \in {CmdStop}
        BY DEF OnlyStops
    <3>2. Append(queue, CmdStop) \in Seq({CmdStop})
        BY <3>1
    <3>3. CASE queue' = queue
        BY <3>1, <3>3
    <3>4. CASE queue' = Append(queue, CmdStop)
        BY <3>2, <3>4
    <3> QED BY <2>2, <3>3, <3>4
  <2> QED BY <2>1, <2>3 DEF OnlyStops
<1>6. ASSUME NEW a \in Apps, AppWorker(a) \/ Crash(a) \/ APITail(a)
      PROVE  OnlyStops'
  <2>1. UNCHANGED <<queue, todo, pc>>
      BY <1>6, Zenon DEF AppWorker, WorkerEnds, StopWorker, StartWorker, WorkerFrame, Crash, loopVars,
         APITail, RestartDelegated, RestartCheck, RestartSecond, RestartThird, APIDispatch,
         APIFrame
  <2> QED BY <1>2, <2>1
<1>7. ReconcileWorker \/ RemoveNetworkWorker \/ UNCHANGED vars => UNCHANGED <<queue, todo, pc>>
    BY DEF ReconcileWorker, RemoveNetworkWorker, vars, loopVars
<1> QED BY <1>2, <1>3, <1>4, <1>5, <1>6, <1>7, Zenon DEF Next

\* A restart enqueues nothing where no application has dependent configurations.
LEMMA RestartsEnqueueNothing ==
    ASSUME NoReloads
    PROVE  \A a \in Apps : RestartApp(a) \/ RestartDelegated(a) => UNCHANGED queue
BY DEF RestartApp, RestartDelegated, RestartCheck, NoReloads

\* The loop starts with no command.
LEMMA InitOnlyStops == Init => OnlyStops
BY DEF Init, OnlyStops

\* What the operator has stopped is stopped, being stopped or failed to stop,
\* whatever result, timeout, retry or restart comes after StopApp, in a namespace
\* that is not reloaded: nothing queues it, and nothing recreates it.
THEOREM DetachedStayDown == NoReloads => (Spec => []DetachedStaysDown)
<1> SUFFICES ASSUME NoReloads PROVE Spec => []DetachedStaysDown
    OBVIOUS
<1>1. DetachedIn(Down) <=> DetachedStaysDown
    BY DEF DetachedStaysDown, DetachedIn, Down
<1>2. IInv /\ OnlyStops /\ DetachedIn(Down) /\ [Next]_vars => DetachedIn(Down)'
  <2>1. OnlyStops => ~RegenCommit
      BY Zenon DEF OnlyStops, RegenCommit, At
  <2> QED BY <2>1, StepParked
<1>3. IInv /\ OnlyStops /\ [Next]_vars => OnlyStops'
    BY StepOnlyStops, RestartsEnqueueNothing DEF NoReloads
<1> QED BY <1>1, <1>2, <1>3, InitParked, InitOnlyStops, InitInv, NextInv, PTL DEF Spec

-----------------------------------------------------------------------------
(* The stop of a namespace is one chain: doStop begins it, each            *)
(* continuation that fires appends the next or dispatches RemoveNetwork,   *)
(* whose result ends it.  OneStopChain needs what holds outside the stop,  *)
(* that nothing of a chain is left, and that the loop evaluates only the   *)
(* continuation it found.                                                  *)

ChainInv ==
    IF nsStatus = "STOPPING"
    THEN \/ Len(conts) = 1 /\ net = "none"
         \/ conts = <<>> /\ net # "none"
    ELSE conts = <<>> /\ net = "none"

\* doStop begins a chain only where there is none.
LEMMA DoStopChain == ASSUME IInv, ChainInv, DoStop PROVE ChainInv'
<1>1. net' = net
    BY DEF DoStop
<1>2. CASE StopInFlight
    BY <1>1, <1>2 DEF DoStop, ChainInv
<1>3. CASE ~StopInFlight
  <2>1. nsStatus' = "STOPPING" /\ \E c : conts' = Append(conts, c)
      BY <1>3 DEF DoStop
  <2>2. conts = <<>> /\ net = "none"
      BY <1>3 DEF ChainInv, StopInFlight
  <2> QED BY <1>1, <2>1, <2>2 DEF ChainInv
<1> QED BY <1>2, <1>3

\* The continuation that fires is replaced by the next one or by RemoveNetwork.
LEMMA EvalNextChain == ASSUME IInv, ChainInv, EvalNext PROVE ChainInv'
<1> DEFINE i == scan.at + 1
           others == [j \in 1..(Len(conts) - 1) |-> conts[IF j < i THEN j ELSE j + 1]]
<1>1. nsStatus' = nsStatus /\ conts # <<>>
    BY DEF EvalNext, At
<1>2. nsStatus = "STOPPING" /\ Len(conts) = 1 /\ net = "none"
    BY <1>1 DEF ChainInv
<1>3. others = <<>>
    BY <1>2
<1>4. \/ conts' = others /\ net' = "run"
      \/ (\E c : conts' = Append(others, c)) /\ net' = net
      \/ UNCHANGED <<conts, net>>
    BY Zenon DEF EvalNext
<1> HIDE DEF others
<1> QED BY <1>1, <1>2, <1>3, <1>4 DEF ChainInv

\* updateNsStatus neither begins nor ends a stop.
LEMMA NsDerivedStop == NsDerived = "STOPPING" <=> nsStatus = "STOPPING"
<1>1. CASE nsStatus \in {"STARTING", "RUNNING", "STALLED"}
  <2>1. NsDerived \in {"STALLED", "RUNNING", "STARTING"}
      BY <1>1 DEF NsDerived
  <2> QED BY <1>1, <2>1
<1>2. CASE nsStatus \notin {"STARTING", "RUNNING", "STALLED"}
  <2>1. NsDerived = nsStatus
      BY <1>2 DEF NsDerived
  <2> QED BY <2>1
<1> QED BY <1>1, <1>2

\* No step of a namespace that is not reloaded breaks the chain or adds another.
LEMMA StepChain ==
    ASSUME IInv, OnlyStops, ChainInv, [Next]_vars PROVE ChainInv'
<1>1. CASE UNCHANGED <<nsStatus, conts, net>>
    BY <1>1 DEF ChainInv
<1>2. CASE LoopInside
  <2>1. ~RegenBegin /\ ~RegenCommit
    <3>1. todo # <<>> => Head(todo).tag = "stop"
        BY DEF OnlyStops, CmdStop
    <3> QED BY <3>1, Zenon DEF RegenBegin, RegenCommit, Applying, At, OnlyStops
  <2>2. CASE UpdateNsStatus
      BY <2>2, NsDerivedStop DEF UpdateNsStatus, workVars, ChainInv
  <2>3. LoopDispatch \/ DrainNext \/ ApplyDone \/ (\E a \in Apps : LivenessRestart(a))
            \/ StepAll \/ EvalDone => UNCHANGED <<nsStatus, conts, net>>
      BY DEF LoopDispatch, DrainNext, ApplyDone, LivenessRestart, Handled, StepAll,
         StepAllWith, EvalDone, nsVars, workVars
  <2> QED BY <1>1, <1>2, <2>1, <2>2, <2>3, DoStopChain, EvalNextChain, Zenon DEF LoopInside
<1>3. CASE LoopSelect
  <2>1. CASE ApplyRemoveNetworkResult
      BY <2>1 DEF ApplyRemoveNetworkResult, ChainInv
  <2>2. CASE ~ApplyRemoveNetworkResult
    <3>1. UNCHANGED <<nsStatus, conts, net>>
        BY <1>3, <2>2 DEF LoopSelect, SelectCommand, SelectExit, Tick, TickWith,
           ApplyAppResult, ApplyPullResult, ApplyInitResult, ApplyStartResult,
           ApplyProbeResult, ApplyStopResult, ApplyLivenessResult, Handled,
           ApplyReconcileResult, nsVars, workVars
    <3> QED BY <1>1, <3>1
  <2> QED BY <2>1, <2>2
<1>4. CASE RemoveNetworkWorker
    BY <1>4 DEF RemoveNetworkWorker, nsVars, loopVars, ChainInv
<1>5. APICall \/ (\E a \in Apps : APITail(a)) => UNCHANGED <<nsStatus, conts, net>>
    BY DEF APICall, StopApp, StartApp, RestartApp, RestartCheck, RetryPullFailedApps, Stop,
       Regenerate, APIFrame, APITail, RestartDelegated, RestartSecond, RestartThird,
       APIDispatch
<1>6. (\E a \in Apps : AppWorker(a) \/ Crash(a)) \/ ReconcileWorker \/ UNCHANGED vars
          => UNCHANGED <<nsStatus, conts, net>>
    BY DEF AppWorker, WorkerEnds, StopWorker, StartWorker, WorkerFrame, Crash, loopVars,
       nsVars, workVars, ReconcileWorker, vars
<1> QED BY <1>1, <1>2, <1>3, <1>4, <1>5, <1>6, Zenon DEF Next

\* A namespace that stops has one chain in flight, a continuation or the removal
\* of its network, however many stops are requested, during the chain or after
\* it, and whatever else the operator does meanwhile (doStop, StopInFlight).  A
\* reload must be excluded: doRegenerate would end the stop and leave its chain.
THEOREM StopsAreOneChain == NoReloads => (Spec => []OneStopChain)
<1> SUFFICES ASSUME NoReloads PROVE Spec => []OneStopChain
    OBVIOUS
<1>1. Init => ChainInv
    BY DEF Init, ChainInv
<1>2. ChainInv => OneStopChain
    BY DEF ChainInv, OneStopChain
<1>3. IInv /\ OnlyStops /\ ChainInv /\ [Next]_vars => ChainInv'
    BY StepChain
<1>4. IInv /\ OnlyStops /\ [Next]_vars => OnlyStops'
    BY StepOnlyStops, RestartsEnqueueNothing DEF NoReloads
<1> QED BY <1>1, <1>2, <1>3, <1>4, InitOnlyStops, InitInv, NextInv, PTL DEF Spec
=============================================================================
