--------------------------- MODULE Supervisor_proofs ---------------------------
(***************************************************************************)
(* Proofs about Supervisor, for any payloads and bounds, and for a         *)
(* readyLoop as slow as may be.                                            *)
(***************************************************************************)
EXTENDS Supervisor, TLAPS

\* What spawn hands back to the loop is a child not yet reaped.
NotReaped == sup \in {"wait", "reset"} => ~cur.done

\* While the loop is at work, there is budget left for one more failure.
BudgetLeft == sup \notin {"gaveup", "end"} => failures < MaxFailures

\* The inductive invariant.
IInv == TypeOK /\ NotReaped /\ BudgetLeft

\* The first child is not reaped, and no failure has been counted.
LEMMA InitIInv == Init => IInv
<1> SUFFICES ASSUME Init PROVE IInv
    OBVIOUS
<1>1. PICK best \in Versions : cur = Supervised(best) /\ job = Boot(best)
    BY DEF Init
<1>2. cur \in Child /\ ~cur.done
    BY <1>1 DEF Supervised, Child
<1>3. job \in [Jobs -> Job]
    BY <1>1 DEF Boot, Job, Jobs, JobPhases
<1>4. 0 \in 0..MaxFailures /\ 0 \in 0..MaxExits /\ 0 < MaxFailures
    BY BoundsAssumption
<1> QED
    BY <1>2, <1>3, <1>4 DEF Init, IInv, TypeOK, NotReaped, BudgetLeft, SupPhases, Versions

\* Counting a failure stays within the budget, and gives up at its end.
LEMMA FailedKeeps ==
    ASSUME NEW n \in 0..MaxFailures, Failed(n)
    PROVE  /\ sup' \in {"backoff", "gaveup"} /\ failures' \in 0..MaxFailures
           /\ BudgetLeft'
BY BoundsAssumption DEF Failed, BudgetLeft

\* A step of superviseLoop keeps the invariant: only Reap closes the channel of
\* the child, and the loop returns to Wait only through SpawnRecord.
LEMMA LoopKeeps == ASSUME IInv, SuperviseLoop PROVE IInv'
<1> USE DEF IInv, TypeOK, NotReaped, BudgetLeft, Elsewhere, SupPhases
<1>1. CASE Reap
    BY <1>1 DEF Reap, Child
<1>2. CASE AfterExit
  <2>1. failures + 1 \in 0..MaxFailures /\ 0 \in 0..MaxFailures
      BY <1>2, BoundsAssumption DEF AfterExit
  <2>2. CASE Failed(failures + 1) \/ Failed(0)
    <3>1. /\ sup' \in {"backoff", "gaveup"} /\ failures' \in 0..MaxFailures
          /\ BudgetLeft'
        BY <2>1, <2>2, FailedKeeps
    <3> QED
        BY <1>2, <3>1 DEF AfterExit
  <2>3. CASE sup' = "end" /\ UNCHANGED <<failures, intentional>>
      BY <1>2, <2>3 DEF AfterExit
  <2>4. CASE sup' = "spawn" /\ failures' = 0 /\ intentional' = FALSE
    <3>1. BudgetLeft'
        BY <2>4, BoundsAssumption
    <3>2. UNCHANGED <<cur, fresh, ready, job, exits, manifest, kind, poll, stopping, ctxDone>>
        BY <1>2 DEF AfterExit
    <3> QED
        BY <2>4, <2>1, <3>1, <3>2
  <2> QED
      BY <1>2, <2>2, <2>3, <2>4 DEF AfterExit
<1>3. CASE BackoffOver
    BY <1>3 DEF BackoffOver
<1>4. CASE GaveUp
    BY <1>4 DEF GaveUp
<1>5. CASE SpawnStart
  <2>1. CASE fresh' \in Versions /\ sup' = "record" /\ UNCHANGED <<failures, exits>>
      BY <1>5, <2>1 DEF SpawnStart
  <2>2. CASE /\ ctxDone \/ exits < MaxExits
             /\ exits' = IF ctxDone THEN exits ELSE exits + 1
             /\ AfterSpawnFailed /\ UNCHANGED fresh
    <3>1. failures + 1 \in 0..MaxFailures
        BY <1>5, BoundsAssumption DEF SpawnStart
    <3>2. /\ sup' \in {"backoff", "gaveup"} /\ failures' \in 0..MaxFailures
          /\ BudgetLeft'
        BY <2>2, <3>1, FailedKeeps DEF AfterSpawnFailed
    <3>3. exits' \in 0..MaxExits
        BY <2>2, BoundsAssumption
    <3> QED
        BY <1>5, <2>2, <3>2, <3>3 DEF SpawnStart
  <2> QED
      BY <1>5, <2>1, <2>2 DEF SpawnStart
<1>6. CASE SpawnRecord
  <2>1. cur' \in Child /\ ~cur'.done
      BY <1>6 DEF SpawnRecord, Supervised, Child
  <2>2. job' \in [Jobs -> Job]
      BY <1>6 DEF SpawnRecord, Job
  <2> QED
      BY <1>6, <2>1, <2>2 DEF SpawnRecord, Versions
<1>7. CASE SpawnReset
    BY <1>7 DEF SpawnReset
<1> QED
    BY <1>1, <1>2, <1>3, <1>4, <1>5, <1>6, <1>7 DEF SuperviseLoop

\* So does a step of readyLoop and of the daemon: none closes the channel.
LEMMA DaemonKeeps == ASSUME IInv, Ask \/ Store \/ Exit \/ Crash PROVE IInv'
<1> USE DEF IInv, TypeOK, NotReaped, BudgetLeft
<1>1. CASE Ask \/ Store
    BY <1>1 DEF Ask, Store
<1>2. CASE Exit \/ Crash
  <2>1. cur' \in Child /\ cur'.done = cur.done
      BY <1>2 DEF Exit, Crash, Dies, Child
  <2>2. exits' \in 0..MaxExits
      BY <1>2, BoundsAssumption DEF Exit, Crash
  <2> QED
      BY <1>2, <2>1, <2>2 DEF Exit, Crash, Dies
<1> QED
    BY <1>1, <1>2

\* A goroutine that moves to another place keeps its type.
LEMMA GoKeeps ==
    ASSUME job \in [Jobs -> Job], NEW j \in Jobs, NEW pc \in JobPhases, Go(j, pc)
    PROVE  job' \in [Jobs -> Job]
BY DEF Go, Job

\* Restart, Stop and Wait keep it: they kill and ask, and leave reaping to the loop.
LEMMA JobKeeps == ASSUME IInv, NEW j \in Jobs, JobStep(j) PROVE IInv'
<1> USE DEF IInv, TypeOK, NotReaped, BudgetLeft, JobFrame
<1>0. {"post", "snap", "clear", "end", "ready", "flag", "wait"} \subseteq JobPhases
    BY DEF JobPhases
<1>1. CASE Flag(j)
    BY <1>0, <1>1, GoKeeps DEF Flag
<1>2. CASE Post(j)
  <2>1. cur' \in Child /\ cur'.done = cur.done
      BY <1>2 DEF Post, Child, Serving
  <2> QED
      BY <1>0, <1>2, <2>1, GoKeeps DEF Post
<1>3. CASE Snap(j)
  <2>1. job' \in [Jobs -> Job]
      BY <1>3 DEF Snap, Job, JobPhases
  <2> QED
      BY <1>3, <2>1 DEF Snap
<1>4. CASE Kill(j)
  <2>1. cur' \in Child /\ cur'.done = cur.done
      BY <1>4 DEF Kill, Child
  <2> QED
      BY <1>4, <2>1 DEF Kill
<1>5. CASE Waited(j)
    BY <1>0, <1>5, GoKeeps DEF Waited
<1>6. CASE Clear(j)
    BY <1>0, <1>6, GoKeeps DEF Clear
<1>7. CASE Passes(j)
  <2>1. manifest' \in [Payloads -> States]
      BY <1>7 DEF Passes, States
  <2> QED
      BY <1>0, <1>7, <2>1, GoKeeps DEF Passes
<1>8. CASE Fails(j)
  <2>1. manifest' \in [Payloads -> States]
      BY <1>8 DEF Fails, States
  <2>2. job' \in [Jobs -> Job]
      BY <1>8 DEF Fails, Go, Job, JobPhases
  <2> QED
      BY <1>8, <2>1, <2>2 DEF Fails
<1> QED
    BY <1>1, <1>2, <1>3, <1>4, <1>5, <1>6, <1>7, <1>8 DEF JobStep

\* And so do the user's calls.
LEMMA UserKeeps == ASSUME IInv, Quit \/ \E v \in Payloads : Apply(v) PROVE IInv'
<1> USE DEF IInv, TypeOK, NotReaped, BudgetLeft, JobFrame
<1>1. CASE Quit
    BY <1>1, GoKeeps DEF Quit, Jobs, JobPhases
<1>2. ASSUME NEW v \in Payloads, Apply(v) PROVE IInv'
  <2>1. manifest' \in [Payloads -> States]
      BY <1>2 DEF Apply, States
  <2>2. job' \in [Jobs -> Job]
      BY <1>2 DEF Apply, Go, Job, JobPhases, Versions
  <2> QED
      BY <1>2, <2>1, <2>2 DEF Apply
<1> QED
    BY <1>1, <1>2

\* The invariant holds in every reachable state.
THEOREM IInvHolds == Spec => []IInv
<1>1. IInv /\ [Next]_vars => IInv'
  <2> SUFFICES ASSUME IInv, [Next]_vars PROVE IInv'
      OBVIOUS
  <2>1. CASE UNCHANGED vars
      BY <2>1 DEF vars, IInv, TypeOK, NotReaped, BudgetLeft
  <2>2. CASE Next
      BY <2>2, LoopKeeps, DaemonKeeps, JobKeeps, UserKeeps DEF Next
  <2> QED
      BY <2>1, <2>2
<1> QED
    BY <1>1, InitIInv, PTL DEF Spec

\* Every reachable state of the supervisor is well formed; in particular the
\* count of failures never passes supervisorMaxFailures.
THEOREM TypeCorrect == Spec => []TypeOK
BY IInvHolds, PTL DEF IInv

\* superviseLoop never waits again for a child it has reaped (respawn): the done
\* channel is closed once, whatever spawns fail and whoever restarts or stops.
THEOREM NoDoubleClose == Spec => []NeverRewaits
<1>1. IInv => NeverRewaits
    BY DEF IInv, NotReaped, NeverRewaits
<1> QED
    BY <1>1, IInvHolds, PTL
-----------------------------------------------------------------------------
(* Only what works is promoted.                                            *)
(*                                                                         *)
(* Whatever is selectable is no newer than what runs, until an update is   *)
(* applied; from then on the update is the newest, and every child spawned *)
(* is of its version.  An answer that is not stored yet keeps its child    *)
(* from being reaped, so that it is never older than the ready flag that   *)
(* a restart has cleared.                                                  *)

\* Nothing selectable is newer than version v.
Top(v) == \A w \in Payloads : manifest[w] \in {"good", "pending"} => w <= v

\* An answer that is not stored yet was given by the child that is supervised.
AnswerIsCurrent == poll = "yes" => sup = "wait" /\ kind[cur.ver] = "fine"

GateJudging == job["gate"].pc = "ready" /\ ~job["gate"].back
SwapJudging == job["swap"].pc \notin {"idle", "end"} /\ ~job["swap"].back

\* The boot gate restarts only to roll back, and a quit judges nothing.
JobShape ==
    /\ job["gate"].back \/ job["gate"].pc \in {"ready", "end"}
    /\ job["quit"].pc # "ready"

NewestRuns == job["swap"].pc = "idle" => Top(cur.ver) /\ (sup = "record" => Top(fresh))

\* What the boot gate judges is what runs, and is known to work once an update
\* was applied by it.
GateIsRight ==
    GateJudging =>
        /\ job["gate"].ver \in Payloads
        /\ job["swap"].pc = "idle" =>
              /\ cur.ver = job["gate"].ver /\ manifest[job["gate"].ver] = "pending"
              /\ sup = "record" => fresh = job["gate"].ver
              /\ ready => kind[job["gate"].ver] = "fine"
        /\ job["swap"].pc # "idle" => kind[job["gate"].ver] = "fine"
        /\ SwapJudging => job["gate"].ver < job["swap"].ver

\* What a swap judges is the newest, and what answers after its restart.
SwapIsRight ==
    SwapJudging =>
        /\ job["swap"].ver \in Payloads
        /\ manifest[job["swap"].ver] = "pending" /\ Top(job["swap"].ver)
        /\ sup = "record" => fresh = job["swap"].ver
        /\ job["swap"].pc = "wait" /\ job["swap"].on = "old" => cur.ver = job["swap"].ver
        /\ job["swap"].pc \in {"clear", "ready"} => cur.ver = job["swap"].ver \/ cur.done
        /\ job["swap"].pc = "ready" /\ ready => kind[job["swap"].ver] = "fine"

RightInv ==
    AnswerIsCurrent /\ JobShape /\ NewestRuns /\ GateIsRight /\ SwapIsRight /\ PromotesOnlyWorking

\* The version selected at the start is the newest, and what the gate judges.
LEMMA InitRight == Init => RightInv
<1> SUFFICES ASSUME Init PROVE RightInv
    OBVIOUS
<1>1. PICK best \in Versions : Best(best) /\ cur = Supervised(best) /\ job = Boot(best)
    BY DEF Init
<1>2. /\ job["swap"].pc = "idle" /\ job["quit"].pc = "idle"
      /\ job["gate"].pc \in {"ready", "end"} /\ job["gate"].ver = best
      /\ job["gate"].pc = "ready" => best \in Payloads /\ manifest[best] = "pending"
    BY <1>1 DEF Boot, Jobs
<1>3. Top(cur.ver) /\ cur.ver = best
    BY <1>1 DEF Top, Best, Newest, Supervised
<1>4. AnswerIsCurrent /\ PromotesOnlyWorking /\ sup = "wait" /\ ~ready
    BY PayloadsAssumption DEF Init, AnswerIsCurrent, PromotesOnlyWorking, Versions
<1> QED
    BY <1>2, <1>3, <1>4 DEF RightInv, JobShape, NewestRuns, GateIsRight, SwapIsRight,
                            GateJudging, SwapJudging

\* superviseLoop: a spawn selects what is judged, and nothing is reaped while an
\* answer waits to be stored.
LEMMA LoopRight ==
    ASSUME ~SlowPoll, IInv, RightInv, SuperviseLoop
    PROVE  RightInv'
<1> USE DEF RightInv, AnswerIsCurrent, JobShape, NewestRuns, GateIsRight, SwapIsRight,
            GateJudging, SwapJudging, PromotesOnlyWorking, Top, Elsewhere
<1>1. CASE Reap
  <2>1. cur'.ver = cur.ver /\ cur'.done
      BY <1>1 DEF Reap, IInv, TypeOK, Child
  <2> QED
      BY <1>1, <2>1 DEF Reap
<1>2. CASE AfterExit
  <2>1. sup' # "record" /\ sup # "wait"
      BY <1>2 DEF AfterExit, Failed
  <2> QED
      BY <1>2, <2>1 DEF AfterExit
<1>3. CASE BackoffOver \/ GaveUp
    BY <1>3 DEF BackoffOver, GaveUp
<1>4. CASE SpawnStart
  <2>1. CASE fresh' \in Versions /\ Best(fresh') /\ sup' = "record"
    <3>1. Top(fresh')
        BY <2>1 DEF Best, Newest
    <3>2. ASSUME NEW w \in Payloads, manifest[w] = "pending", Top(w) PROVE fresh' = w
      <4>1. fresh' \in Payloads /\ w <= fresh' /\ fresh' <= w
          BY <2>1, <3>2 DEF Best, Newest
      <4> QED
          BY <4>1, PayloadsAssumption
    <3> QED
        BY <1>4, <2>1, <3>1, <3>2 DEF SpawnStart
  <2>2. CASE AfterSpawnFailed /\ UNCHANGED fresh
      BY <1>4, <2>2 DEF SpawnStart, AfterSpawnFailed, Failed
  <2> QED
      BY <1>4, <2>1, <2>2 DEF SpawnStart
<1>5. CASE SpawnRecord
  <2>1. cur'.ver = fresh
      BY <1>5 DEF SpawnRecord, Supervised
  <2>2. \A j \in Jobs : job'[j].pc = job[j].pc /\ job'[j].ver = job[j].ver /\ job'[j].back = job[j].back
      BY <1>5 DEF SpawnRecord, IInv, TypeOK, Job
  <2> QED
      BY <1>5, <2>1, <2>2 DEF SpawnRecord, Jobs
<1>6. CASE SpawnReset
    BY <1>6 DEF SpawnReset
<1> QED
    BY <1>1, <1>2, <1>3, <1>4, <1>5, <1>6 DEF SuperviseLoop

\* readyLoop and the processes: what is stored is the answer of what runs.
LEMMA DaemonRight ==
    ASSUME IInv, RightInv, Ask \/ Store \/ Exit \/ Crash
    PROVE  RightInv'
<1> USE DEF RightInv, AnswerIsCurrent, JobShape, NewestRuns, GateIsRight, SwapIsRight,
            GateJudging, SwapJudging, PromotesOnlyWorking, Top
<1>1. CASE Ask
    BY <1>1 DEF Ask, Serving
<1>2. CASE Store
    BY <1>2 DEF Store, IInv, NotReaped
<1>3. CASE Exit \/ Crash
  <2>1. cur'.ver = cur.ver /\ cur'.done = cur.done
      BY <1>3 DEF Exit, Crash, Dies, IInv, TypeOK, Child
  <2> QED
      BY <1>3, <2>1 DEF Exit, Crash, Dies
<1> QED
    BY <1>1, <1>2, <1>3

\* What a goroutine that only moves on changes of the jobs.
LEMMA GoMoves ==
    ASSUME IInv, NEW j \in Jobs, NEW pc \in JobPhases, Go(j, pc)
    PROVE  /\ job'[j].pc = pc /\ job'[j].ver = job[j].ver
           /\ job'[j].back = job[j].back /\ job'[j].on = job[j].on
           /\ \A k \in Jobs \ {j} : job'[k] = job[k]
BY DEF Go, IInv, TypeOK, Job

\* A verdict on a version that is not newer than v leaves v the newest.
LEMMA TopKept ==
    ASSUME NEW u, NEW v, u <= v, Top(v), \A w \in Payloads \ {u} : manifest'[w] = manifest[w]
    PROVE  \A w \in Payloads : manifest'[w] \in {"good", "pending"} => w <= v
BY DEF Top

\* Restart, Stop, Wait and the verdicts: a restart clears the ready flag when the
\* child that gave the last answer is reaped.
LEMMA JobRight ==
    ASSUME IInv, RightInv, NEW j \in Jobs, JobStep(j)
    PROVE  RightInv'
<1> USE DEF RightInv, AnswerIsCurrent, JobShape, NewestRuns, GateIsRight, SwapIsRight,
            GateJudging, SwapJudging, PromotesOnlyWorking, Top, JobFrame
<1>0. {"post", "snap", "clear", "end", "ready", "flag", "wait"} \subseteq JobPhases
    BY DEF JobPhases
<1>a. Jobs = {"gate", "swap", "quit"}
    BY DEF Jobs
<1>1. CASE Flag(j)
    BY <1>0, <1>a, <1>1, GoMoves DEF Flag
<1>2. CASE Post(j)
  <2>1. cur'.ver = cur.ver /\ cur'.done = cur.done
      BY <1>2 DEF Post, IInv, TypeOK, Child
  <2> QED
      BY <1>0, <1>a, <1>2, <2>1, GoMoves DEF Post
<1>3. CASE Snap(j)
  <2>1. /\ job'[j].pc = "wait" /\ job'[j].on = "cur" /\ job'[j].ver = job[j].ver
        /\ job'[j].back = job[j].back /\ \A k \in Jobs \ {j} : job'[k] = job[k]
      BY <1>3 DEF Snap, IInv, TypeOK, Job
  <2>2. job[j].pc = "snap" /\ UNCHANGED <<manifest, kind, cur, fresh, sup, ready, poll>>
      BY <1>3 DEF Snap
  <2>3. CASE j = "gate"
      BY <1>a, <2>1, <2>2, <2>3
  <2>4. CASE j = "swap"
      BY <1>a, <2>1, <2>2, <2>4
  <2>5. CASE j = "quit"
      BY <1>a, <2>1, <2>2, <2>5
  <2> QED
      BY <1>a, <2>3, <2>4, <2>5
<1>4. CASE Kill(j)
  <2>1. cur'.ver = cur.ver /\ cur'.done = cur.done
      BY <1>4 DEF Kill, IInv, TypeOK, Child
  <2> QED
      BY <1>4, <2>1 DEF Kill
<1>5. CASE Waited(j)
    BY <1>0, <1>a, <1>5, GoMoves DEF Waited, IInv, TypeOK, Job
<1>6. CASE Clear(j)
    BY <1>0, <1>a, <1>6, GoMoves DEF Clear
<1>7. CASE Passes(j)
  <2>1. /\ job'[j].pc = "end" /\ job'[j].back = job[j].back /\ job'[j].ver = job[j].ver
        /\ \A k \in Jobs \ {j} : job'[k] = job[k]
      BY <1>0, <1>7, GoMoves DEF Passes
  <2>2. CASE job[j].back
      BY <1>a, <1>7, <2>1, <2>2 DEF Passes, Promotes
  <2>3. CASE ~job[j].back
    <3>1. manifest' = [manifest EXCEPT ![job[j].ver] = "good"]
        BY <1>7, <2>3 DEF Passes, Promotes
    <3>2. j \in {"gate", "swap"} /\ job[j].ver \in Payloads /\ kind[job[j].ver] = "fine"
        BY <1>a, <1>7, <2>3 DEF Passes
    <3>3. manifest' \in [Payloads -> States] /\ manifest'[job[j].ver] = "good"
          /\ \A w \in Payloads \ {job[j].ver} : manifest'[w] = manifest[w]
        BY <3>1, <3>2 DEF IInv, TypeOK, States
    <3>4. job[j].pc = "ready" /\ UNCHANGED <<kind, cur, fresh, sup, ready, poll>>
        BY <1>7 DEF Passes
    <3>5. PromotesOnlyWorking'
        BY <3>2, <3>3, <3>4
    <3>6. CASE j = "gate"
      <4>1. /\ job'["gate"].pc = "end" /\ job'["swap"] = job["swap"] /\ job'["quit"] = job["quit"]
            /\ job["gate"].ver \in Nat
          BY <1>a, <2>1, <3>2, <3>6, PayloadsAssumption
      <4>2. NewestRuns'
          BY <2>3, <3>3, <3>4, <3>6, <4>1
      <4>3. SwapIsRight'
        <5>1. CASE ~SwapJudging
            BY <4>1, <5>1
        <5>2. CASE SwapJudging
          <6>0. \A m, n \in Nat : m < n => m # n /\ m <= n
              OBVIOUS
          <6>1. /\ job["gate"].ver < job["swap"].ver
                /\ job["swap"].ver \in Payloads \ {job["gate"].ver}
            <7>1. GateJudging
                BY <2>3, <3>4, <3>6
            <7>2. job["gate"].ver < job["swap"].ver /\ job["swap"].ver \in Payloads
                BY <5>2, <7>1
            <7> QED
                BY <4>1, <6>0, <7>2, PayloadsAssumption
          <6>2. manifest'[job["swap"].ver] = "pending" /\ Top(job["swap"].ver)'
            <7>1. manifest[job["swap"].ver] = "pending" /\ Top(job["swap"].ver)
                BY <5>2
            <7>2. job["gate"].ver <= job["swap"].ver
                BY <4>1, <6>0, <6>1, PayloadsAssumption
            <7>3. \A w \in Payloads \ {job["gate"].ver} : manifest'[w] = manifest[w]
                BY <3>3, <3>6
            <7>4. \A w \in Payloads : manifest'[w] \in {"good", "pending"} => w <= job["swap"].ver
                BY <7>1, <7>2, <7>3, TopKept
            <7> QED
                BY <4>1, <6>1, <7>1, <7>3, <7>4
          <6> QED
              BY <3>4, <4>1, <5>2, <6>1, <6>2
        <5> QED
            BY <5>1, <5>2
      <4>4. AnswerIsCurrent' /\ JobShape' /\ GateIsRight'
          BY <3>4, <4>1
      <4> QED
          BY <3>5, <4>2, <4>3, <4>4
    <3>7. CASE j = "swap"
        BY <1>a, <2>1, <2>3, <3>2, <3>3, <3>4, <3>5, <3>7, PayloadsAssumption
    <3> QED
        BY <3>2, <3>6, <3>7
  <2> QED
      BY <2>2, <2>3
<1>8. CASE Fails(j)
  <2>1. CASE ~Judged(j)
      BY <1>0, <1>a, <1>8, <2>1, GoMoves DEF Fails
  <2>2. CASE Judged(j)
    <3>1. /\ manifest' = [manifest EXCEPT ![job[j].ver] = "failed"]
          /\ job[j].pc = "ready" /\ ~job[j].back
        BY <1>8, <2>2 DEF Fails, Judged
    <3>2. /\ job'[j].back /\ job'[j].pc = "flag" /\ job'[j].ver = job[j].ver
          /\ \A k \in Jobs \ {j} : job'[k] = job[k]
        BY <1>8, <2>2 DEF Fails, IInv, TypeOK, Job
    <3>3. j \in {"gate", "swap"} /\ job[j].ver \in Payloads
        BY <1>a, <3>1
    <3>4. manifest'[job[j].ver] = "failed"
          /\ \A w \in Payloads \ {job[j].ver} : manifest'[w] = manifest[w]
        BY <3>1, <3>3 DEF IInv, TypeOK
    <3>5. CASE j = "gate"
        BY <1>a, <1>8, <3>1, <3>2, <3>3, <3>4, <3>5, PayloadsAssumption DEF Fails
    <3>6. CASE j = "swap"
        BY <1>a, <1>8, <3>1, <3>2, <3>3, <3>4, <3>6, PayloadsAssumption DEF Fails
    <3> QED
        BY <3>3, <3>5, <3>6
  <2> QED
      BY <2>1, <2>2
<1> QED
    BY <1>1, <1>2, <1>3, <1>4, <1>5, <1>6, <1>7, <1>8 DEF JobStep

\* The user's calls: what applies an update works, and the update is newer.
LEMMA UserRight ==
    ASSUME IInv, RightInv, Quit \/ \E v \in Payloads : Apply(v)
    PROVE  RightInv'
<1> USE DEF RightInv, AnswerIsCurrent, JobShape, NewestRuns, GateIsRight, SwapIsRight,
            GateJudging, SwapJudging, PromotesOnlyWorking, Top, JobFrame
<1>a. Jobs = {"gate", "swap", "quit"} /\ {"flag", "end"} \subseteq JobPhases
    BY DEF Jobs, JobPhases
<1>1. CASE Quit
    BY <1>a, <1>1, GoMoves DEF Quit
<1>2. ASSUME NEW v \in Payloads, Apply(v) PROVE RightInv'
  <2>1. /\ manifest'[v] = "pending"
        /\ \A w \in Payloads \ {v} : manifest'[w] = manifest[w]
      BY <1>2 DEF Apply, IInv, TypeOK
  <2>2. Top(v)' /\ cur.ver < v /\ sup = "wait" /\ kind[cur.ver] = "fine"
      BY <1>2, <2>1, PayloadsAssumption DEF Apply, Serving, IInv, TypeOK, Child, Versions, Bundled
  <2>3. CASE Go("swap", "end")
      BY <1>a, <1>2, <2>1, <2>2, <2>3, GoMoves DEF Apply
  <2>4. CASE job' = [job EXCEPT !["swap"].pc = "flag", !["swap"].ver = v]
    <3>1. /\ job'["swap"].pc = "flag" /\ job'["swap"].ver = v
          /\ job'["gate"] = job["gate"] /\ job'["quit"] = job["quit"]
        BY <1>a, <2>4 DEF IInv, TypeOK, Job
    <3> QED
        BY <1>2, <2>1, <2>2, <3>1 DEF Apply
  <2> QED
      BY <1>2, <2>3, <2>4 DEF Apply
<1> QED
    BY <1>1, <1>2

\* Only a payload that works is promoted (applyDaemonSwap, GatePendingPayload),
\* whatever is staged, crashes, hangs or is quit, if an answer of the health check
\* is stored before the child that gave it is reaped.
THEOREM OnlyWorkingPromoted == ~SlowPoll => (Spec => []PromotesOnlyWorking)
<1> SUFFICES ASSUME ~SlowPoll PROVE Spec => []PromotesOnlyWorking
    OBVIOUS
<1>1. IInv /\ RightInv /\ [Next]_vars => RightInv'
  <2> SUFFICES ASSUME IInv, RightInv, [Next]_vars PROVE RightInv'
      OBVIOUS
  <2>1. CASE UNCHANGED vars
      BY <2>1 DEF vars, RightInv, AnswerIsCurrent, JobShape, NewestRuns, GateIsRight, SwapIsRight,
                  GateJudging, SwapJudging, PromotesOnlyWorking, Top
  <2>2. CASE Next
      BY <2>2, LoopRight, DaemonRight, JobRight, UserRight DEF Next
  <2> QED
      BY <2>1, <2>2
<1>2. RightInv => PromotesOnlyWorking
    BY DEF RightInv
<1> QED
    BY <1>1, <1>2, InitRight, IInvHolds, PTL DEF Spec
=============================================================================
