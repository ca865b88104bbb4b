----------------------------- MODULE Installer -----------------------------
(***************************************************************************)
(* The daemon of a server as citeck install, citeck start and stop and     *)
(* systemd start, replace and end it, while the containers of the platform *)
(* go on running: the upgrade and the rollback of the binary, the guard    *)
(* that lets one daemon run, the two ways to shut a daemon down.           *)
(***************************************************************************)
EXTENDS Naturals

CONSTANTS
  Pids,           \* processes alive at the same time
  MaxVersion,     \* versions 0 .. MaxVersion; 0 is one before 2.1.0
  None, Dead,     \* no file of the socket; a file nobody answers on
  MaxKills,       \* bound: daemons that crash
  MaxVisits,      \* bound: commands of the operator
  InstallFaults   \* subset of {"noroot", "overlap", "oldunit"}: an installer that cannot
                  \* write units, a command or a crash while a daemon comes up or the
                  \* installer works, a service restarted before its unit was migrated

VARIABLES
  proc,      \* pid -> what that daemon does, its version, whether a detach was posted
  sock,      \* who answers on the file of the socket, or None, or Dead
  target,    \* the version of /usr/local/bin/citeck
  bak,       \* that of citeck.bak, or None
  unit,      \* citeck.service: "none", "old" (without KillMode=none) or "new"
  main,      \* the process systemd takes for the service, or None
  restart,   \* systemd waits RestartSec
  dropIn,    \* Restart=no of a running installer
  root,      \* the installer may write units
  cli,       \* the installer: what it does and the version it installs
  platform,  \* the containers run
  stopped,   \* the persisted status of the namespace
  asked,     \* ghost: the operator asked for the platform to stop
  kills, visits

vars == <<proc, sock, target, bak, unit, main, restart, dropIn, root, cli, platform, stopped,
          asked, kills, visits>>

Versions == 0 .. MaxVersion
Gone == [pc |-> "gone", ver |-> 0, posted |-> FALSE]
Is(p, pcs) == proc[p].pc \in pcs
Alive(p) == ~Is(p, {"gone"})
HasRuntime(p) == Is(p, {"run", "up", "detach", "stop"})
Listening == sock \in Pids
Idle == cli.pc \in {"idle", "complete", "failed"}
Allowed(fault) == fault \in InstallFaults
Settled == ~restart /\ \A p \in Pids : ~Is(p, {"guard", "boot", "run"})

Init ==
  /\ \E v \in Versions \ {MaxVersion} :
       /\ target = v
       /\ \E p \in Pids :
            /\ proc = [q \in Pids |-> IF q = p THEN [pc |-> "up", ver |-> v, posted |-> FALSE] ELSE Gone]
            /\ sock = p /\ unit \in {"none", "old", "new"}
            /\ main = IF unit = "none" THEN None ELSE p
  /\ bak = None /\ restart = FALSE /\ dropIn = FALSE /\ root \in {TRUE, ~Allowed("noroot")}
  /\ cli = [pc |-> "idle", ver |-> 0, rollback |-> FALSE]
  /\ platform = TRUE /\ stopped = FALSE /\ asked = FALSE /\ kills = 0 /\ visits = 0

files == <<target, bak, unit, root>>
ghosts == <<asked, kills, visits>>

To(p, pc) == proc' = [proc EXCEPT ![p].pc = pc]

\* A process starts from the binary that is there now.
Spawned(p) == [pc |-> "guard", ver |-> target, posted |-> FALSE]
Fork(p) == ~Alive(p) /\ proc' = [proc EXCEPT ![p] = Spawned(p)]

\* What systemd does when its process ends: Restart=on-failure.
Exited(p, failed) ==
  /\ main' = IF p = main THEN None ELSE main
  /\ restart' = (restart \/ (p = main /\ failed /\ ~dropIn))

-----------------------------------------------------------------------------
(* A daemon.                                                               *)

\* guardSingleDaemonInstance: a daemon that answers refuses another; a file
\* nobody answers on is removed.
Guard(p) ==
  /\ Is(p, {"guard"})
  /\ IF Listening THEN proc' = [proc EXCEPT ![p] = Gone] /\ Exited(p, TRUE) /\ UNCHANGED sock
                  ELSE To(p, "boot") /\ sock' = None /\ UNCHANGED <<main, restart>>
  /\ UNCHANGED <<files, dropIn, cli, platform, stopped, ghosts>>

\* Start starts the runtime, unless the namespace was stopped.
StartRuntime(p) ==
  /\ Is(p, {"boot"}) /\ To(p, "run") /\ platform' = (platform \/ ~stopped)
  /\ UNCHANGED <<sock, files, main, restart, dropIn, cli, stopped, ghosts>>

\* initUnixServer: the file of another daemon is an error.
InitUnixServer(p) ==
  /\ Is(p, {"run"})
  /\ IF sock = None THEN To(p, "up") /\ sock' = p /\ UNCHANGED <<main, restart>>
                    ELSE proc' = [proc EXCEPT ![p] = Gone] /\ Exited(p, TRUE) /\ UNCHANGED sock
  /\ UNCHANGED <<files, dropIn, cli, platform, stopped, ghosts>>

\* handleDaemonShutdown answers, waits a moment and detaches; shutdownOnce
\* takes the first of a detach and a SIGTERM.
Detach(p) ==
  /\ Is(p, {"up"}) /\ proc[p].posted /\ To(p, "detach")
  /\ UNCHANGED <<sock, files, main, restart, dropIn, cli, platform, stopped, ghosts>>

\* doShutdown has detached from the containers, or stopped them; the process
\* ends with its listener.
ShutdownEnds(p) ==
  /\ Is(p, {"detach", "stop"})
  /\ platform' = (platform /\ Is(p, {"detach"})) /\ stopped' = (stopped \/ Is(p, {"stop"}))
  /\ proc' = [proc EXCEPT ![p] = Gone] /\ sock' = None /\ Exited(p, FALSE)
  /\ UNCHANGED <<files, dropIn, cli, ghosts>>

Crash(p) ==
  /\ Is(p, {"boot", "run", "up"}) /\ kills < MaxKills /\ kills' = kills + 1
  /\ Idle \/ Allowed("overlap")
  /\ proc' = [proc EXCEPT ![p] = Gone] /\ Exited(p, TRUE)
  /\ sock' = IF sock = p THEN Dead ELSE sock
  /\ UNCHANGED <<files, dropIn, cli, platform, stopped, asked, visits>>

\* systemd restarts a service that failed.
Restart ==
  /\ restart /\ restart' = FALSE /\ \E p \in Pids : Fork(p) /\ main' = p
  /\ UNCHANGED <<sock, files, dropIn, cli, platform, stopped, ghosts>>

\* systemctl start: nothing where the service runs.
SystemctlStart ==
  IF main # None THEN UNCHANGED <<proc, main, restart>>
  ELSE \E p \in Pids : Fork(p) /\ main' = p /\ restart' = FALSE

-----------------------------------------------------------------------------
(* The operator.                                                           *)

Visit ==
  /\ Idle /\ visits < MaxVisits /\ visits' = visits + 1
  /\ Settled \/ Allowed("overlap")

NoInstaller == cli' = [cli EXCEPT !.pc = "idle"]

\* citeck start: without a daemon, systemd's service or a process of its own,
\* which leaves a stopped namespace stopped; with one, the namespace of that.
CiteckStart ==
  /\ Visit /\ NoInstaller
  /\ \/ /\ Listening /\ Is(sock, {"up"}) /\ platform' = TRUE /\ asked' = FALSE /\ stopped' = FALSE
        /\ UNCHANGED <<proc, main, restart>>
     \/ /\ ~Listening
        /\ \/ unit # "none" /\ SystemctlStart
           \/ (\E p \in Pids : Fork(p)) /\ UNCHANGED <<main, restart>>
        /\ UNCHANGED <<platform, stopped, asked>>
  /\ UNCHANGED <<sock, files, dropIn, kills>>

\* citeck stop --shutdown, and a SIGTERM.
CiteckStop ==
  /\ Visit /\ NoInstaller /\ Listening /\ Is(sock, {"up"}) /\ To(sock, "stop") /\ asked' = TRUE
  /\ UNCHANGED <<sock, files, main, restart, dropIn, platform, stopped, kills>>

\* KillMode=none: systemd sends no signal when ExecStop has returned.
SendsSigterm == unit = "old"

\* systemctl restart: ExecStop posts a detach, and the next process starts
\* while the first is still there.
SystemctlRestart ==
  /\ Visit /\ NoInstaller /\ (unit = "new" \/ (unit = "old" /\ Allowed("oldunit")))
  /\ main # None /\ sock = main /\ Is(main, {"up"})
  /\ \E p \in Pids :
       /\ ~Alive(p) /\ main' = p /\ restart' = FALSE
       /\ proc' = [proc EXCEPT ![p] = Spawned(p), ![main].posted = TRUE,
                               ![main].pc = IF SendsSigterm THEN "stop" ELSE "up"]
  /\ UNCHANGED <<sock, files, dropIn, platform, stopped, asked, kills>>

\* hashesMatch: the installer is another binary.  (One of version 0 has no such
\* command.)
Differs(v) == v \notin {0, target}

\* handleInstallerLifecycle finds another binary; runRollback finds a backup.
LifecycleUpgrade ==
  /\ Visit /\ \E v \in Versions : Differs(v) /\ cli' = [pc |-> "backup", ver |-> v, rollback |-> FALSE]
  /\ UNCHANGED <<proc, sock, files, main, restart, dropIn, platform, stopped, asked, kills>>
RunRollback ==
  /\ Visit /\ bak # None /\ cli' = [pc |-> "stop", ver |-> bak, rollback |-> TRUE]
  /\ UNCHANGED <<proc, sock, files, main, restart, dropIn, platform, stopped, asked, kills>>

-----------------------------------------------------------------------------
(* The installer.                                                          *)

Step(pc) == cli' = [cli EXCEPT !.pc = pc]

Backup ==
  /\ cli.pc = "backup" /\ Step("stop") /\ bak' = target
  /\ UNCHANGED <<proc, sock, target, unit, root, main, restart, dropIn, platform, stopped, ghosts>>

\* versionAtLeast asks the binary, not the daemon.  Mutation: all are asked to
\* detach.
CanDetachAll == TRUE
CanDetach == target >= 1

\* A daemon before 2.1.0 has no leave_running and stops its containers.
PostDetach(p) ==
  proc' = [proc EXCEPT ![p].posted = TRUE, ![p].pc = IF @ = "up" /\ proc[p].ver = 0 THEN "stop" ELSE @]

\* stopDaemonPreservePlatform: no daemon, a detach and the wait for its end
\* (which may take too long), or a SIGKILL.
StopDaemonPreservePlatform ==
  /\ cli.pc = "stop"
  /\ \/ ~Listening /\ Step("copy") /\ UNCHANGED proc
     \/ Listening /\ CanDetach /\ PostDetach(sock) /\ Step("wait")
     \/ Listening /\ ~CanDetach /\ Step("kill") /\ UNCHANGED proc
  /\ UNCHANGED <<sock, files, main, restart, dropIn, platform, stopped, ghosts>>
WaitForDaemonStop ==
  /\ cli.pc = "wait" /\ \/ ~Listening /\ Step("copy")
                        \/ Listening /\ Step("failed")
  /\ UNCHANGED <<proc, sock, files, main, restart, dropIn, platform, stopped, ghosts>>

\* sigkillPreservePlatform: first no restart by systemd, where the installer
\* may say so.
NoDropIn == FALSE
DropIn == root /\ unit # "none"
InstallSystemdNoRestartDropIn ==
  /\ cli.pc = "kill" /\ Step("sigkill") /\ dropIn' = DropIn
  /\ UNCHANGED <<proc, sock, files, main, restart, platform, stopped, ghosts>>
SigkillPreservePlatform ==
  /\ cli.pc = "sigkill" /\ Step("copy")
  /\ IF Listening THEN proc' = [proc EXCEPT ![sock] = Gone] /\ Exited(sock, TRUE)
                  ELSE UNCHANGED <<proc, main, restart>>
  /\ sock' = None
  /\ UNCHANGED <<files, dropIn, platform, stopped, ghosts>>

\* copyBinaryAtomic over the target, or its failure; migrateSystemdUnitIfStale
\* only on an upgrade.
CopyBinary ==
  /\ cli.pc = "copy"
  /\ \/ /\ Step("start") /\ target' = cli.ver
        /\ bak' = IF cli.rollback THEN None ELSE bak
        /\ unit' = IF ~cli.rollback /\ root /\ unit = "old" THEN "new" ELSE unit
     \/ Step("failed") /\ UNCHANGED <<target, bak, unit>>
  /\ UNCHANGED <<proc, sock, root, main, restart, dropIn, platform, stopped, ghosts>>

\* startDaemonAfterSwap: systemctl start, or start --detach, which waits.
StartDaemonAfterSwap ==
  /\ cli.pc = "start" /\ dropIn' = FALSE
  /\ IF unit # "none" THEN SystemctlStart /\ Step("complete")
     ELSE /\ UNCHANGED <<main, restart>>
          /\ IF Listening THEN Step("complete") /\ UNCHANGED proc
                          ELSE Step("forked") /\ \E p \in Pids : Fork(p)
  /\ UNCHANGED <<sock, files, platform, stopped, ghosts>>
WaitForDaemon ==
  /\ cli.pc = "forked"
  /\ \/ Listening /\ Step("complete")
     \/ (\A p \in Pids : ~Alive(p)) /\ Step("failed")
  /\ UNCHANGED <<proc, sock, files, main, restart, dropIn, platform, stopped, ghosts>>

Daemon(p) ==
  Guard(p) \/ StartRuntime(p) \/ InitUnixServer(p) \/ Detach(p) \/ ShutdownEnds(p)
Installing ==
  \/ Backup \/ StopDaemonPreservePlatform \/ WaitForDaemonStop \/ InstallSystemdNoRestartDropIn
  \/ SigkillPreservePlatform \/ CopyBinary \/ StartDaemonAfterSwap \/ WaitForDaemon
Operator == CiteckStart \/ CiteckStop \/ SystemctlRestart \/ LifecycleUpgrade \/ RunRollback

Next == Installing \/ Operator \/ Restart \/ \E p \in Pids : Daemon(p) \/ Crash(p)

Spec == Init /\ [][Next]_vars /\ WF_vars(Installing) /\ WF_vars(Restart) /\ \A p \in Pids : WF_vars(Daemon(p))
-----------------------------------------------------------------------------
\* "The Docker containers stay running the entire time": no upgrade, rollback,
\* restart by systemd or crash takes the platform down, only the operator.
PlatformKept == platform \/ asked

\* Two daemons never have a runtime at work on the same containers.
OneRuntime == \A p, q \in Pids : HasRuntime(p) /\ HasRuntime(q) => p = q

InstallIsSafe == PlatformKept /\ OneRuntime

\* An upgrade or a rollback that was completed gets its version to serve, or
\* the operator goes on to something else; without systemd, unless the daemon
\* crashed.  No restart policy of the installer is left behind.
Serves(v) == Listening /\ Is(sock, {"up"}) /\ proc[sock].ver = v /\ ~dropIn
UpgradeLands ==
  cli.pc = "complete"
    ~> (Serves(cli.ver) \/ cli.pc # "complete" \/ (unit = "none" /\ kills > 0))
=============================================================================
