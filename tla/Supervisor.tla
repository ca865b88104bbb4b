------------------------------ MODULE Supervisor ------------------------------
(***************************************************************************)
(* The desktop wrapper's supervisor of the daemon process                  *)
(* (internal/desktop/supervisor.go), the health gate of a staged update at *)
(* boot (pending_gate.go) and on request (cmd/citeck-desktop/swap.go), and *)
(* the manifest they judge (internal/update/manifest.go).                  *)
(*                                                                         *)
(* The goroutines are superviseLoop, readyLoop, the boot gate, the swap and *)
(* the wrapper's OnShutdown.  A step is what one of them does between two   *)
(* accesses to shared state; the fields are mutexes and atomics of their    *)
(* own, so that nothing protects a sequence of accesses.                    *)
(*                                                                         *)
(* Time: a grace period, a backoff or a health timeout may end at any       *)
(* moment, except that a fine daemon becomes ready, and a respawn under way *)
(* completes, within UpdateHealthTimeout, and that a child takes longer to  *)
(* serve its socket, or to exit, than spawn takes to record it.             *)
(***************************************************************************)
EXTENDS Naturals, FiniteSets

CONSTANTS
    Payloads,     \* versions that may be staged, newer than the bundled one
    MaxFailures,  \* supervisorMaxFailures
    SlowPoll,     \* may readyLoop store an answer after its child was reaped?
    MaxExits      \* bound: crashes of a daemon that works, failed spawns

ASSUME PayloadsAssumption == Payloads \subseteq Nat \ {0} /\ IsFiniteSet(Payloads)
ASSUME BoundsAssumption == MaxFailures \in Nat \ {0} /\ MaxExits \in Nat
                           /\ SlowPoll \in BOOLEAN

Bundled == 0
Versions == Payloads \cup {Bundled}

VARIABLES
    manifest,     \* state of each payload in manifest.json
    kind,         \* how each version behaves (chosen by the environment)
    cur,          \* s.cmd and s.done: the child that is supervised
    fresh,        \* the version of a child started and not yet recorded
    sup,          \* where superviseLoop is
    failures,     \* consecutive failures
    ready,        \* s.ready
    poll,         \* readyLoop: an answer that is not stored yet
    intentional,  \* s.intentionalRestart
    stopping,     \* s.stopping, with stopCh
    ctxDone,      \* the wrapper's context is canceled
    job,          \* the goroutines that restart, judge and stop
    exits         \* crashes and failed spawns so far

vars == <<manifest, kind, cur, fresh, sup, failures, ready, poll, intentional,
          stopping, ctxDone, job, exits>>

Kinds == {"fine", "hangs", "crashes"}
States == {"none", "pending", "good", "failed"}
SupPhases == {"wait", "exited", "backoff", "spawn", "record", "reset", "gaveup", "end"}

\* asked: it has received the shutdown request; done: its channel is closed.
Child == [ver: Versions, alive: BOOLEAN, asked: BOOLEAN, done: BOOLEAN]

Jobs == {"gate", "swap", "quit"}
JobPhases == {"idle", "flag", "post", "snap", "wait", "clear", "ready", "end"}

\* on: the child whose done channel Wait has read, still current or replaced;
\* back: this is the restart that rolls back.
Job == [pc: JobPhases, ver: Versions, on: {"cur", "old"}, back: BOOLEAN]

\* v is the newest of the payloads of S, or the bundled version if there is none.
Newest(v, S) == IF S = {} THEN v = Bundled ELSE v \in S /\ \A w \in S : w <= v

\* Mutation of Best: a failed payload stays selectable.
BestOfAll(v) == Newest(v, {w \in Payloads : manifest[w] # "none"})

\* SelectBest: v is what a spawn selects, the newest payload good or pending.
Best(v) == Newest(v, {w \in Payloads : manifest[w] \in {"good", "pending"}})

Supervised(ver) == [ver |-> ver, alive |-> TRUE, asked |-> FALSE, done |-> FALSE]

\* The daemon answers on its socket.
Serving == sup = "wait" /\ cur.alive /\ kind[cur.ver] = "fine"

\* The boot gate has something to judge if the selected version ver is pending.
Boot(ver) ==
    [j \in Jobs |->
        [pc |-> IF j # "gate" THEN "idle"
                ELSE IF ver \in Payloads /\ manifest[ver] = "pending" THEN "ready" ELSE "end",
         ver |-> ver, on |-> "cur", back |-> FALSE]]

\* The wrapper has started, and the first child with it.
Init ==
    /\ manifest \in [Payloads -> States]
    /\ kind \in {k \in [Versions -> Kinds] :
          k[Bundled] = "fine" /\ \A v \in Payloads : manifest[v] = "good" => k[v] = "fine"}
    /\ \E best \in {v \in Versions : Best(v)} :
          cur = Supervised(best) /\ job = Boot(best)
    /\ fresh = Bundled
    /\ sup = "wait" /\ failures = 0
    /\ ready = FALSE /\ poll = "idle"
    /\ intentional = FALSE /\ stopping = FALSE /\ ctxDone = FALSE
    /\ exits = 0
-----------------------------------------------------------------------------
(* superviseLoop.                                                          *)

Elsewhere == UNCHANGED <<manifest, kind, poll, stopping, ctxDone>>

\* cmd.Wait returns and done is closed.
Reap ==
    /\ sup = "wait" /\ ~cur.alive
    /\ SlowPoll \/ poll = "idle"
    /\ cur' = [cur EXCEPT !.done = TRUE]
    /\ sup' = "exited"
    /\ UNCHANGED <<fresh, failures, ready, intentional, job, exits>> /\ Elsewhere

Quitting == ctxDone \/ stopping

\* Mutation of Failed: the loop never gives up.
FailedAgain(n) == sup' = "backoff" /\ failures' = n

\* One more failure: a backoff, or the end of the budget.
Failed(n) == sup' = (IF n >= MaxFailures THEN "gaveup" ELSE "backoff") /\ failures' = n

\* What the exit means: a shutdown, a restart, or a crash, which is forgotten
\* when the child had been up for supervisorHealthyUptime.
AfterExit ==
    /\ sup = "exited"
    /\ \/ /\ Quitting
          /\ sup' = "end" /\ UNCHANGED <<failures, intentional>>
       \/ /\ ~Quitting /\ intentional
          /\ sup' = "spawn" /\ failures' = 0 /\ intentional' = FALSE
       \/ /\ ~Quitting /\ ~intentional
          /\ Failed(failures + 1) \/ (kind[cur.ver] # "crashes" /\ Failed(0))
          /\ UNCHANGED intentional
    /\ UNCHANGED <<cur, fresh, ready, job, exits>> /\ Elsewhere

\* The backoff ends, or the stop channel or the context ends it.
BackoffOver ==
    /\ sup = "backoff"
    /\ sup' = IF Quitting THEN "end" ELSE "spawn"
    /\ UNCHANGED <<cur, fresh, failures, ready, intentional, job, exits>> /\ Elsewhere

GaveUp ==
    /\ sup = "gaveup" /\ ctxDone
    /\ sup' = "end"
    /\ UNCHANGED <<cur, fresh, failures, ready, intentional, job, exits>> /\ Elsewhere

\* Mutation of AfterSpawnFailed: the loop goes on to wait for the child that has
\* exited.
WaitAfterSpawnFailed == sup' = "wait" /\ failures' = failures + 1

\* respawn tries again after a backoff.
AfterSpawnFailed == Failed(failures + 1)

\* spawn: the binary is selected and started.  A canceled context starts none.
SpawnStart ==
    /\ sup = "spawn"
    /\ \/ /\ ~ctxDone
          /\ fresh' \in {v \in Versions : Best(v)}
          /\ sup' = "record"
          /\ UNCHANGED <<failures, exits>>
       \/ /\ ctxDone \/ exits < MaxExits
          /\ exits' = IF ctxDone THEN exits ELSE exits + 1
          /\ AfterSpawnFailed
          /\ UNCHANGED fresh
    /\ UNCHANGED <<cur, ready, intentional, job>> /\ Elsewhere

\* spawn: cmd, pid and done are replaced.  Who waits for the old done channel
\* keeps waiting for that one.
SpawnRecord ==
    /\ sup = "record"
    /\ cur' = Supervised(fresh)
    /\ fresh' = Bundled
    /\ job' = [j \in Jobs |-> [job[j] EXCEPT !.on = "old"]]
    /\ sup' = "reset"
    /\ UNCHANGED <<failures, ready, intentional, exits>> /\ Elsewhere

\* spawn: the new child is not ready.
SpawnReset ==
    /\ sup = "reset"
    /\ ready' = FALSE
    /\ sup' = "wait"
    /\ UNCHANGED <<cur, fresh, failures, intentional, job, exits>> /\ Elsewhere

SuperviseLoop ==
    Reap \/ AfterExit \/ BackoffOver \/ GaveUp \/ SpawnStart \/ SpawnRecord \/ SpawnReset
-----------------------------------------------------------------------------
(* readyLoop and the processes.                                            *)

\* The health check is answered; the answer is stored in a later step.
Ask ==
    /\ poll = "idle" /\ Serving
    /\ poll' = "yes"
    /\ UNCHANGED <<manifest, kind, cur, fresh, sup, failures, ready, intentional,
                   stopping, ctxDone, job, exits>>

Store ==
    /\ poll = "yes"
    /\ poll' = "idle"
    /\ ready' = TRUE
    /\ UNCHANGED <<manifest, kind, cur, fresh, sup, failures, intentional,
                   stopping, ctxDone, job, exits>>

Dies ==
    /\ cur.alive
    /\ cur' = [cur EXCEPT !.alive = FALSE]
    /\ UNCHANGED <<manifest, kind, fresh, sup, failures, ready, poll, intentional,
                   stopping, ctxDone, job>>

\* Mutation of Bound: the child does not depend on the context.
Unbound == FALSE

\* exec.CommandContext kills the child when the context is canceled.
Bound == ctxDone

\* The child was asked to shut down, crashes by its nature, or is killed with
\* the context.
Exit == (cur.asked \/ kind[cur.ver] = "crashes" \/ Bound) /\ Dies /\ UNCHANGED exits

\* A daemon that works crashes.
Crash == exits < MaxExits /\ Serving /\ Dies /\ exits' = exits + 1
-----------------------------------------------------------------------------
(* The goroutines that restart, judge and stop: Restart, Stop and Wait.    *)

Go(j, pc) == job' = [job EXCEPT ![j].pc = pc]
JobFrame == UNCHANGED <<kind, sup, failures, poll, exits>>

\* Restart and Stop first say what the exit that follows will mean.
Flag(j) ==
    /\ job[j].pc = "flag"
    /\ IF j = "quit" THEN stopping' = TRUE /\ UNCHANGED intentional
                     ELSE intentional' = TRUE /\ UNCHANGED stopping
    /\ Go(j, "post")
    /\ UNCHANGED <<manifest, cur, fresh, ready, ctxDone>> /\ JobFrame

\* postDaemonShutdown: who answers on the socket, if anyone, will exit.  Stop does
\* not use the wrapper's context, and can post after it is canceled.
Post(j) ==
    /\ job[j].pc = "post"
    /\ cur' = [cur EXCEPT !.asked = @ \/ (Serving /\ (j = "quit" \/ ~ctxDone))]
    /\ Go(j, "snap")
    /\ UNCHANGED <<manifest, fresh, ready, intentional, stopping, ctxDone>> /\ JobFrame

\* Wait reads cmd and done.
Snap(j) ==
    /\ job[j].pc = "snap"
    /\ job' = [job EXCEPT ![j].pc = "wait", ![j].on = "cur"]
    /\ UNCHANGED <<manifest, cur, fresh, ready, intentional, stopping, ctxDone>> /\ JobFrame

\* Wait: the grace period is over.
Kill(j) ==
    /\ job[j].pc = "wait" /\ job[j].on = "cur" /\ cur.alive
    /\ cur' = [cur EXCEPT !.alive = FALSE]
    /\ UNCHANGED <<manifest, fresh, ready, intentional, stopping, ctxDone, job>> /\ JobFrame

Waited(j) ==
    /\ job[j].pc = "wait" /\ (job[j].on = "old" \/ cur.done)
    /\ Go(j, "clear")
    /\ UNCHANGED <<manifest, cur, fresh, ready, intentional, stopping, ctxDone>> /\ JobFrame

\* After Wait: Restart clears the ready flag, OnShutdown cancels the context.
Clear(j) ==
    /\ job[j].pc = "clear"
    /\ IF j = "quit" THEN ctxDone' = TRUE /\ Go(j, "end") /\ UNCHANGED ready
                     ELSE ready' = FALSE /\ Go(j, "ready") /\ UNCHANGED ctxDone
    /\ UNCHANGED <<manifest, cur, fresh, intentional, stopping>> /\ JobFrame

\* Mutation of Promotes: the payload that was rolled back is promoted.
AlwaysPromotes(j) == TRUE

\* After a rollback nothing is judged.
Promotes(j) == ~job[j].back

\* WaitReady returns nil: the payload is good.
Passes(j) ==
    /\ job[j].pc = "ready" /\ ready
    /\ manifest' = IF Promotes(j) THEN [manifest EXCEPT ![job[j].ver] = "good"] ELSE manifest
    /\ Go(j, "end")
    /\ UNCHANGED <<cur, fresh, ready, intentional, stopping, ctxDone>> /\ JobFrame

\* The health timeout may end: nothing that would become ready is under way.
Late ==
    /\ ~ready
    /\ \/ sup \in {"backoff", "gaveup", "end"}
       \/ sup = "wait" /\ cur.alive /\ kind[cur.ver] # "fine"

\* Is a WaitReady that returned an error a verdict?  For the swap always, for
\* the boot gate unless the wrapper is shutting down.
Judged(j) == ~job[j].back /\ (j = "swap" \/ ~ctxDone)

\* WaitReady times out or is canceled: the payload failed, and is rolled back.
Fails(j) ==
    /\ job[j].pc = "ready" /\ (Late \/ ctxDone)
    /\ IF Judged(j)
       THEN /\ manifest' = [manifest EXCEPT ![job[j].ver] = "failed"]
            /\ job' = [job EXCEPT ![j].pc = "flag", ![j].back = TRUE]
       ELSE UNCHANGED manifest /\ Go(j, "end")
    /\ UNCHANGED <<cur, fresh, ready, intentional, stopping, ctxDone>> /\ JobFrame

JobStep(j) ==
    Flag(j) \/ Post(j) \/ Snap(j) \/ Kill(j) \/ Waited(j) \/ Clear(j) \/ Passes(j) \/ Fails(j)

\* The user applies an update, once in a run of the wrapper: the daemon stages it
\* and calls the wrapper, which may not receive the call.
Apply(v) ==
    /\ Serving /\ manifest[v] # "failed" /\ v > cur.ver
    /\ job["swap"].pc = "idle"
    /\ manifest' = [manifest EXCEPT ![v] = "pending"]
    /\ \/ job' = [job EXCEPT !["swap"].pc = "flag", !["swap"].ver = v]
       \/ Go("swap", "end")
    /\ UNCHANGED <<cur, fresh, ready, intentional, stopping, ctxDone>> /\ JobFrame

\* The user quits: OnShutdown runs.
Quit ==
    /\ job["quit"].pc = "idle"
    /\ Go("quit", "flag")
    /\ UNCHANGED <<manifest, cur, fresh, ready, intentional, stopping, ctxDone>> /\ JobFrame

Next ==
    \/ SuperviseLoop
    \/ Ask \/ Store \/ Exit \/ Crash
    \/ \E j \in Jobs : JobStep(j)
    \/ \E v \in Payloads : Apply(v)
    \/ Quit

Spec == Init /\ [][Next]_vars

\* Every goroutine keeps running; a process that must exit does; a health
\* timeout ends even if the daemon keeps crashing and coming back meanwhile.
Fairness ==
    /\ WF_vars(SuperviseLoop) /\ WF_vars(Ask) /\ WF_vars(Store) /\ WF_vars(Exit)
    /\ \A j \in Jobs : WF_vars(JobStep(j)) /\ SF_vars(Fails(j))

FairSpec == Spec /\ Fairness
-----------------------------------------------------------------------------
(* Properties.                                                             *)

TypeOK ==
    /\ manifest \in [Payloads -> States]
    /\ kind \in [Versions -> Kinds]
    /\ cur \in Child /\ fresh \in Versions
    /\ sup \in SupPhases /\ failures \in 0..MaxFailures
    /\ ready \in BOOLEAN /\ poll \in {"idle", "yes"}
    /\ intentional \in BOOLEAN /\ stopping \in BOOLEAN /\ ctxDone \in BOOLEAN
    /\ job \in [Jobs -> Job]
    /\ exits \in 0..MaxExits

\* superviseLoop never waits again for a child that has exited, which would close
\* its done channel twice and panic, however many spawns fail.
NeverRewaits == sup = "wait" => ~cur.done

\* Only a payload that works is promoted: the answer that WaitReady sees is the
\* new daemon's, never one of the daemon that it replaces.
PromotesOnlyWorking == \A v \in Payloads : manifest[v] = "good" => kind[v] = "fine"

\* A staged payload that nobody is judging: the call that applies it was lost.
Ungated ==
    \E v \in Payloads : manifest[v] = "pending"
        /\ \A j \in {"gate", "swap"} : job[j].pc \notin JobPhases \ {"idle", "end"}

\* After any crashes, and an update that hangs or keeps crashing, the wrapper ends
\* up with a daemon that works, unless the user quits or it has given up.
Serves ==
    <>[](stopping \/ sup = "gaveup" \/ Ungated \/ (ready /\ Serving))

\* Once the user quits no daemon is left, even if one was being spawned.
QuitIsFinal == <>[](stopping => ~cur.alive /\ sup = "end")
=============================================================================
