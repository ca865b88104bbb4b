---------------------------- MODULE Diagnostics ----------------------------
(***************************************************************************)
(* What the launcher asks of a running JVM: the commands of an operator    *)
(* (jcmd, jstack, jmap), during which the liveness probe is suspended, the *)
(* thread dump that the loop takes before it restarts an application that  *)
(* does not answer its probes, and the heap dumps that are left on disk.   *)
(*                                                                         *)
(* One application and its containers, one after another.  A heap dump     *)
(* stops the JVM: while it is written no probe is answered.  A period of   *)
(* the probe is longer than its timeout, and the timeout longer than the   *)
(* ticks of the loop.                                                      *)
(***************************************************************************)
EXTENDS Naturals, Sequences, SequencesExt, FiniteSets

CONSTANTS
  Jobs,        \* bound: the commands operators ever give
  Threshold,   \* FailureThreshold of the probe
  MaxGen,      \* bound: containers of the application
  DiagFaults   \* hazards let loose: see the definitions below

\* A command begins while the loop takes its diagnostics.
Gap == "gap" \in DiagFaults
\* The operator leaves, and the JVM goes on with what the exec has asked of it.
Cancelled == "cancel" \in DiagFaults
\* The diagnostics of another application keep the loop from its ticks.
Blocked == "blocked" \in DiagFaults
\* Two commands use the attach client of one container at a time.
SharedClass == "shared_class" \in DiagFaults
\* The JVM cannot write the whole of a dump, and answers all the same.
DiskFull == "disk" \in DiagFaults
\* A container ends in the middle of a dump.
CutDump == "cut_dump" \in DiagFaults
\* Two heap dumps are asked for in one second, and have one name.
SameSecond == "same_second" \in DiagFaults
\* The attach client cannot be removed.
RmFails == "rm_fails" \in DiagFaults

VARIABLES
  app,     \* its status, with or without a container, and the container's number
  held,    \* livenessSuspended
  watch,   \* livenessFailures; how many are due to a command; has a tick seen the pause
  probe,   \* the probe: none, under way, or its result on its way
  loop,    \* "select", or "diag": the loop is in captureDiagnostics
  jvm,     \* in the container: who stops the world, SIGQUIT, listener, trigger, class
  job,     \* the commands, and the loop's own
  dumps    \* the export directory, the oldest dump first

vars == <<app, held, watch, probe, loop, jvm, job, dumps>>

Absent == "none"
Loop == "loop"
Oom == "oom"
All == Jobs \cup {Loop}
Unwatched == [fails |-> 0, ours |-> 0, ticked |-> FALSE]
FreshJvm == [pause |-> {}, quit |-> FALSE, listener |-> FALSE, trigger |-> Absent, class |-> FALSE]
Idle == [pc |-> "idle", heap |-> FALSE, gen |-> 0, made |-> FALSE, inside |-> FALSE, ok |-> FALSE]

Init ==
  /\ app = [status |-> "running", gen |-> 1]
  /\ held = 0 /\ watch = Unwatched /\ probe = Absent /\ loop = "select"
  /\ jvm = FreshJvm /\ job = [j \in All |-> Idle] /\ dumps = <<>>

HasContainer == app.status # "absent"
Alive(j) == HasContainer /\ job[j].gen = app.gen
Written == {dumps[i].name : i \in DOMAIN dumps}
\* A dump that the JVM has begun: its file is there, and not yet whole.
Begun(name) ==
  Append(dumps, [name |-> name, gen |-> app.gen, whole |-> FALSE,
                 nr |-> IF dumps = <<>> THEN 1 ELSE Last(dumps).nr + 1])
File(j) == IF SameSecond THEN "dump" ELSE j
At(j, pc) == job[j].pc = pc
Go(j, pc) == job' = [job EXCEPT ![j].pc = pc]
\* What is over leaves its answer, which speaks of a heap dump or does not.
Over(j, pc) == job' = [job EXCEPT ![j] = [Idle EXCEPT !.pc = pc,
                                                 !.heap = pc = "done" /\ job[j].heap]]
-----------------------------------------------------------------------------
(* The runtime's loop and its probe *)

\* livenessPlanForAppUnderLock, at a tick: a suspended probe is put off, and the
\* failures so far are forgotten.  One that is not suspended may be due once the
\* last one has ended.
Tick ==
  /\ loop = "select" /\ app.status = "running"
  /\ \/ held > 0 /\ watch' = [Unwatched EXCEPT !.ticked = jvm.pause # {}] /\ UNCHANGED probe
     \/ held = 0 /\ probe # "out" /\ probe' = "out" /\ UNCHANGED watch
  /\ UNCHANGED <<app, held, loop, jvm, job, dumps>>

\* The probe ends: an application answers it unless its world is stopped, and
\* whatever else keeps it from answering is a failure of its own.
ProbeEnds ==
  /\ probe = "out"
  /\ \/ jvm.pause = {} /\ probe' \in {"well", "ill"}
     \/ jvm.pause \cap Jobs # {} /\ (watch.ticked \/ Blocked) /\ probe' = "ours"
     \/ jvm.pause \cap Jobs = {} /\ jvm.pause # {} /\ probe' = "ill"
  /\ UNCHANGED <<app, held, watch, loop, jvm, job, dumps>>

\* Mutation of Watched: a probe sent before the suspension counts.
RunningIsWatched == app.status = "running"
Watched == app.status = "running" /\ held = 0

\* handleLivenessProbeResult: dropped for an application that is not running or
\* whose probe is suspended; at the threshold, diagnostics come first.
LivenessResult ==
  /\ loop = "select" /\ probe \in {"well", "ill", "ours"}
  /\ probe' = Absent
  /\ LET counted == CASE ~Watched -> watch
                      [] Watched /\ probe = "well" -> [watch EXCEPT !.fails = 0, !.ours = 0]
                      [] Watched /\ probe = "ill" -> [watch EXCEPT !.fails = @ + 1]
                      [] Watched /\ probe = "ours" -> [watch EXCEPT !.fails = @ + 1, !.ours = @ + 1]
     IN /\ watch' = counted
        /\ \/ counted.fails < Threshold /\ UNCHANGED <<loop, job>>
           \/ /\ counted.fails >= Threshold /\ loop' = "diag"
              /\ \E pc \in {"attach", "copy"} :
                   job' = [job EXCEPT ![Loop] = [Idle EXCEPT !.pc = pc, !.gen = app.gen]]
  /\ UNCHANGED <<app, held, jvm, dumps>>

\* setAppStatus: who leaves RUNNING has no failures.
Becomes(status) ==
  /\ app' = [app EXCEPT !.status = status]
  /\ watch' = [watch EXCEPT !.fails = 0, !.ours = 0]

\* signalThreadDump, where the attach client has not helped: with a trigger in
\* its way the JVM starts a listener instead.
SignalThreadDump ==
  /\ At(Loop, "quit") /\ Go(Loop, "idle")
  /\ jvm' = IF Alive(Loop) THEN [jvm EXCEPT !.quit = TRUE] ELSE jvm
  /\ UNCHANGED <<app, held, watch, probe, loop, dumps>>

\* The second section of handleLivenessProbeResult.
LivenessRestart ==
  /\ loop = "diag" /\ At(Loop, "idle") /\ loop' = "select" /\ Over(Loop, "idle")
  /\ IF app.status = "running" THEN Becomes("updating") ELSE UNCHANGED <<app, watch>>
  /\ UNCHANGED <<held, probe, jvm, dumps>>
-----------------------------------------------------------------------------
(* A command *)

\* jvmTargetContainer: the gate is the container, not the status.
Ask(j) ==
  /\ At(j, "idle") /\ job[j].gen = 0 /\ HasContainer /\ app.status # "stopping"
  /\ loop = "select" \/ Gap
  /\ job' = [job EXCEPT ![j].pc = "suspend", ![j].gen = app.gen]
  /\ UNCHANGED <<app, held, watch, probe, loop, jvm, dumps>>

\* SuspendLivenessProbe.  Where the host does not see the JVM, or may not signal
\* it, the attach client is next.
Suspend(j) ==
  /\ At(j, "suspend") /\ (loop = "select" \/ Gap)
  /\ held' = held + 1
  /\ Go(j, "attach") \/ Go(j, "copy")
  /\ UNCHANGED <<app, watch, probe, loop, jvm, dumps>>

\* The client that speaks to the JVM: the launcher itself, or the attach client
\* in the container, who does the same.  One that fails is followed by the other.
Otherwise(j) == IF job[j].inside THEN "rm" ELSE "copy"
Answered(j) == IF job[j].inside THEN "rm" ELSE IF j = Loop THEN "idle" ELSE "release"

\* Command and startListener: without a listener a trigger is created, if there
\* is none, and the JVM signaled.
Attach(j) ==
  /\ At(j, "attach")
  /\ \/ ~Alive(j) /\ Go(j, Otherwise(j)) /\ UNCHANGED jvm
     \/ Alive(j) /\ jvm.listener /\ Go(j, "send") /\ UNCHANGED jvm
     \/ /\ Alive(j) /\ ~jvm.listener
        /\ job' = [job EXCEPT ![j].pc = "wait", ![j].made = (jvm.trigger = Absent)]
        /\ jvm' = [jvm EXCEPT !.quit = TRUE, !.trigger = IF @ = Absent THEN j ELSE @]
  /\ UNCHANGED <<app, held, watch, probe, loop, dumps>>

\* SIGQUIT: a listener where there is a trigger, threads to stdout otherwise.
JvmHandlesQuit ==
  /\ jvm.quit /\ jvm.pause = {}
  /\ jvm' = [jvm EXCEPT !.quit = FALSE, !.listener = @ \/ jvm.trigger # Absent]
  /\ UNCHANGED <<app, held, watch, probe, loop, job, dumps>>

\* The end of startListener, the listener there or the time up: it removes the
\* trigger that it has made, and no other.
Wait(j) ==
  /\ At(j, "wait")
  /\ \E pc \in {Otherwise(j)} \cup IF Alive(j) /\ jvm.listener THEN {"send"} ELSE {} :
       job' = [job EXCEPT ![j].pc = pc, ![j].made = FALSE]
  /\ jvm' = IF Alive(j) /\ job[j].made THEN [jvm EXCEPT !.trigger = Absent] ELSE jvm
  /\ UNCHANGED <<app, held, watch, probe, loop, dumps>>

\* exchange: the JVM takes a command when its world runs, and answers at once
\* what is no heap dump (which it is shows here).  A heap dump has its file from
\* the beginning; an existing one is not overwritten, and the refusal is an
\* ordinary answer.  Only the loop's command has a deadline.
Exchange(j) ==
  \/ /\ At(j, "send") /\ Alive(j) /\ jvm.pause = {}
     /\ \E heap \in IF j \in Jobs THEN {job[j].heap, TRUE} ELSE {FALSE} :
          LET begins == heap /\ File(j) \notin Written
          IN /\ job' = [job EXCEPT ![j].pc = IF begins THEN "answer" ELSE Answered(j),
                                   ![j].heap = heap, ![j].ok = TRUE]
             /\ jvm' = [jvm EXCEPT !.pause = IF begins THEN {j} ELSE {}]
             /\ dumps' = IF begins THEN Begun(File(j)) ELSE dumps
     /\ UNCHANGED <<app, held, watch, probe, loop>>
  \/ /\ At(j, "send") /\ (~Alive(j) \/ j = Loop) /\ Go(j, Otherwise(j))
     /\ UNCHANGED <<app, held, watch, probe, loop, jvm, dumps>>

\* A heap dump is complete, and the world goes on.
DumpEnds(d) ==
  /\ d \in jvm.pause
  /\ jvm' = [jvm EXCEPT !.pause = {}]
  /\ \E whole \in IF DiskFull THEN BOOLEAN ELSE {TRUE} :
       dumps' = [dumps EXCEPT ![Len(dumps)].whole = whole]
  /\ watch' = [watch EXCEPT !.ticked = FALSE]
  /\ UNCHANGED <<app, held, probe, loop, job>>

Answer(j) ==
  /\ At(j, "answer")
  /\ \/ Alive(j) /\ j \notin jvm.pause /\ Go(j, Answered(j))
     \/ /\ ~Alive(j) \/ (Cancelled /\ job[j].inside)
        /\ job' = [job EXCEPT ![j].pc = Otherwise(j), ![j].ok = FALSE]
  /\ UNCHANGED <<app, held, watch, probe, loop, jvm, dumps>>

\* runAttachInContainer: the class is copied; what cannot be copied needs no rm.
UsesClass(j) == Alive(j) /\ (job[j].inside \/ job[j].pc \in {"exec", "rm"})
NoClass(j) == IF j = Loop THEN "quit" ELSE "release"
Copy(j) ==
  /\ At(j, "copy")
  /\ SharedClass \/ \A k \in All \ {j} : ~UsesClass(k)
  /\ \/ Alive(j) /\ Go(j, "exec") /\ jvm' = [jvm EXCEPT !.class = TRUE]
     \/ Go(j, NoClass(j)) /\ UNCHANGED jvm
  /\ UNCHANGED <<app, held, watch, probe, loop, dumps>>

\* The class runs on the image's own java; the exec may fail, and then it is still
\* removed.
Exec(j) ==
  /\ At(j, "exec")
  /\ \/ Alive(j) /\ jvm.class /\ job' = [job EXCEPT ![j].pc = "attach", ![j].inside = TRUE]
     \/ Go(j, "rm")
  /\ UNCHANGED <<app, held, watch, probe, loop, jvm, dumps>>

\* removeAttachClass, whatever came of it, on a context of its own.
Rm(j) ==
  /\ At(j, "rm")
  /\ jvm' \in {[jvm EXCEPT !.class = IF Alive(j) THEN FALSE ELSE @]} \cup IF RmFails THEN {jvm} ELSE {}
  /\ job' = [job EXCEPT ![j].inside = FALSE,
                      ![j].pc = IF job[j].ok /\ j = Loop THEN "idle" ELSE NoClass(j)]
  /\ UNCHANGED <<app, held, watch, probe, loop, dumps>>

\* The deferred release; then the answer.  The file on disk is the verdict on a
\* heap dump, not what the JVM says.
Release(j) ==
  /\ At(j, "release")
  /\ held' = held - 1
  /\ IF job[j].ok THEN Go(j, "verdict") ELSE Over(j, "failed")
  /\ UNCHANGED <<app, watch, probe, loop, jvm, dumps>>
Verdict(j) ==
  /\ At(j, "verdict")
  /\ Over(j, IF (job[j].heap => File(j) \in Written) THEN "done" ELSE "failed")
  /\ UNCHANGED <<app, held, watch, probe, loop, jvm, dumps>>
-----------------------------------------------------------------------------
(* The containers *)

\* StopApp, or an operator's restart.
StopApp ==
  /\ app.status \in {"running", "starting"} /\ Becomes("stopping")
  /\ UNCHANGED <<held, probe, loop, jvm, job, dumps>>

\* The container is stopped or ends by itself, and what was in it is gone.
ContainerEnds ==
  /\ HasContainer /\ (jvm.pause = {} \/ CutDump)
  /\ app.gen < MaxGen
  /\ app' = [app EXCEPT !.status = "absent"] /\ watch' = Unwatched /\ jvm' = FreshJvm
  /\ UNCHANGED <<held, probe, loop, job, dumps>>

\* HeapDumpOnOutOfMemoryError: one path, which is never overwritten.
OutOfMemory ==
  /\ HasContainer /\ jvm.pause = {} /\ Oom \notin Written
  /\ jvm' = [jvm EXCEPT !.pause = {Oom}]
  /\ dumps' = Begun(Oom)
  /\ UNCHANGED <<app, held, watch, probe, loop, job>>

\* RotateHeapDumps: the newest stays and leaves the path of the next one.
RotateHeapDumps ==
  dumps' = IF dumps = <<>> THEN <<>>
           ELSE <<[Last(dumps) EXCEPT !.name = IF @ = Oom THEN "kept" ELSE @]>>

\* runStartTask, and the result that makes it RUNNING.
RunStartTask ==
  /\ ~HasContainer
  /\ RotateHeapDumps
  /\ app' = [status |-> "starting", gen |-> app.gen + 1]
  /\ UNCHANGED <<held, watch, probe, loop, jvm, job>>
Started ==
  /\ app.status = "starting" /\ Becomes("running")
  /\ UNCHANGED <<held, probe, loop, jvm, job, dumps>>

Next ==
  \/ Tick \/ ProbeEnds \/ LivenessResult \/ SignalThreadDump \/ LivenessRestart
  \/ \E j \in Jobs : Ask(j) \/ Suspend(j) \/ Release(j) \/ Verdict(j)
  \/ \E j \in All :
       Attach(j) \/ Wait(j) \/ Exchange(j) \/ Answer(j) \/ Copy(j) \/ Exec(j) \/ Rm(j)
  \/ \E d \in Jobs \cup {Oom} : DumpEnds(d)
  \/ JvmHandlesQuit \/ StopApp \/ ContainerEnds \/ OutOfMemory \/ RunStartTask \/ Started

Spec == Init /\ [][Next]_vars
-----------------------------------------------------------------------------
Suspended == {j \in Jobs : job[j].pc \notin {"idle", "suspend", "verdict", "done", "failed"}}

\* The probe of an application is suspended exactly while a command is at work
\* on it, however many there are and however they end.
SuspendedWhileBusy == held = Cardinality(Suspended)

\* A command costs an application at most one failure of those that restart it:
\* that of the probe that was under way when it began.
OwnPauseIsForgiven == watch.ours <= 1

\* A command that was given while no restart was due is not cut by one.
RestartSpares ==
  loop = "diag" /\ loop' = "select" /\ app'.status = "updating" => held = 0

\* Who made a trigger finds it there as long as it waits, and leaves none: one
\* left behind would swallow the next thread dump.  So it is with the class.
NothingIsLeft ==
  /\ \A j \in All : At(j, "wait") /\ Alive(j) /\ job[j].made => jvm.trigger = j
  /\ jvm.trigger # Absent => At(jvm.trigger, "wait") /\ Alive(jvm.trigger)
  /\ \A j \in All : At(j, "exec") /\ Alive(j) => jvm.class
  /\ jvm.class => \E j \in All : UsesClass(j)

\* A dump that is reported is whole.
ReportsAreTrue ==
  \A j \in Jobs : At(j, "done") /\ job[j].heap =>
    \A i \in DOMAIN dumps : dumps[i].name = File(j) => dumps[i].whole

\* The latest dump that is whole is never given up for an older one or for one
\* that is not, and the first OutOfMemoryError of every container has its path.
Whole(ds) == {ds[i].nr : i \in {k \in DOMAIN ds : ds[k].whole}}
EvidenceIsKept == \A n \in Whole(dumps) : \E m \in Whole(dumps') : m >= n
PathIsFree == HasContainer => \A i \in DOMAIN dumps : dumps[i].name = Oom => dumps[i].gen = app.gen

DiagnosticsAreSafe ==
  /\ [](SuspendedWhileBusy /\ OwnPauseIsForgiven /\ NothingIsLeft /\ ReportsAreTrue /\ PathIsFree)
  /\ [][RestartSpares /\ EvidenceIsKept]_vars
=============================================================================
