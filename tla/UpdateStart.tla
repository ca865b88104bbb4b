---------------------------- MODULE UpdateStart ----------------------------
(***************************************************************************)
(* "Update and start" of the daemon: handleStartNamespace raises a flag and*)
(* updateAndStartAsync queues at most one pass behind reloadMu.  A click   *)
(* that finds a pass queued folds into it and leaves it its force and its  *)
(* namespace in two further atomics.  One action per atomic operation.     *)
(***************************************************************************)
EXTENDS Naturals

CONSTANTS
  Clicks,   \* requests to start, each made once; also names its pass
  Forced,   \* those with force=true
  Nss,      \* namespaces
  None,
  MaxMoves  \* bound: changes of the active namespace or its status

VARIABLES
  pending, pendingForce, pendingNs,  \* the three atomics of the queue
  inFlight, inFlightNs,              \* the flag and its namespace
  shown,     \* After of the last event namespace_updating
  reloadMu,  \* the pass that holds it
  active,    \* [ns, status] of the active namespace
  click,     \* click -> [pc, ns]
  pass,      \* click -> [pc, force, ns]
  mine,      \* ghost: click -> the clicks that its pass works for
  done,      \* ghost: the clicks served, those served forced
  moves

queue == <<pending, pendingForce, pendingNs>>
flag == <<inFlight, inFlightNs, shown>>
vars == <<queue, flag, reloadMu, active, click, pass, mine, done, moves>>

NoPass == [pc |-> "none", force |-> FALSE, ns |-> None]

Init ==
  /\ pending = FALSE /\ pendingForce = FALSE /\ pendingNs = None
  /\ inFlight = FALSE /\ inFlightNs = None /\ shown = FALSE
  /\ reloadMu = None
  /\ active \in [ns : Nss, status : {"STOPPED", "RUNNING"}]
  /\ click = [c \in Clicks |-> [pc |-> "idle", ns |-> None]]
  /\ pass = [c \in Clicks |-> NoPass]
  /\ mine = [c \in Clicks |-> {}] /\ done = [served |-> {}, forced |-> {}]
  /\ moves = 0

Go(c, pc) == click' = [click EXCEPT ![c].pc = pc]
Run(c, pc) == pass' = [pass EXCEPT ![c].pc = pc]
-----------------------------------------------------------------------------
(* setUpdateInFlight: the namespace, the swap, and an event on a change.   *)

HandleStartNamespace(c) ==
  /\ click[c].pc = "idle"
  /\ click' = [click EXCEPT ![c] = [pc |-> "swap", ns |-> active.ns]]
  /\ inFlightNs' = active.ns
  /\ UNCHANGED <<queue, inFlight, shown, reloadMu, active, pass, mine, done, moves>>

ClickSwap(c) ==
  /\ click[c].pc = "swap"
  /\ click' = [click EXCEPT ![c].pc = IF inFlight THEN "force" ELSE "cast"]
  /\ inFlight' = TRUE
  /\ UNCHANGED <<queue, inFlightNs, shown, reloadMu, active, pass, mine, done, moves>>

ClickCast(c) ==
  /\ click[c].pc = "cast" /\ Go(c, "force") /\ shown' = TRUE
  /\ UNCHANGED <<queue, inFlight, inFlightNs, reloadMu, active, pass, mine, done, moves>>
-----------------------------------------------------------------------------
(* updateAndStartAsync on the goroutine of the request.                    *)

RecordForce(c) ==
  /\ click[c].pc = "force" /\ Go(c, "target")
  /\ pendingForce' = (pendingForce \/ c \in Forced)
  /\ UNCHANGED <<pending, pendingNs, flag, reloadMu, active, pass, mine, done, moves>>

RecordTarget(c) ==
  /\ click[c].pc = "target" /\ Go(c, "cas") /\ pendingNs' = click[c].ns
  /\ UNCHANGED <<pending, pendingForce, flag, reloadMu, active, pass, mine, done, moves>>

\* The pass that is queued, not having released the slot.
Queued(p) == pass[p].pc \in {"lock", "release"}

\* A click whose force an earlier pass has taken is that pass's already.
New(c) == IF c \in done.served \cup UNION {mine[p] : p \in Clicks} THEN {} ELSE {c}

CompareAndSwap(c) ==
  /\ click[c].pc = "cas" /\ Go(c, "end")
  /\ IF pending
     THEN /\ mine' = [p \in Clicks |-> IF Queued(p) THEN mine[p] \cup New(c) ELSE mine[p]]
          /\ UNCHANGED <<pending, pass>>
     ELSE /\ pending' = TRUE /\ mine' = [mine EXCEPT ![c] = New(c)]
          /\ pass' = [pass EXCEPT ![c] = [NoPass EXCEPT !.pc = "lock", !.ns = click[c].ns]]
  /\ UNCHANGED <<pendingForce, pendingNs, flag, reloadMu, active, done, moves>>
-----------------------------------------------------------------------------
(* The pass.                                                               *)

Lock(c) ==
  /\ pass[c].pc = "lock" /\ reloadMu = None /\ reloadMu' = c /\ Run(c, "release")
  /\ UNCHANGED <<queue, flag, active, click, mine, done, moves>>

\* The slot first, then what folded clicks left.
ReleaseSlot(c) ==
  /\ pass[c].pc = "release" /\ Run(c, "force") /\ pending' = FALSE
  /\ UNCHANGED <<pendingForce, pendingNs, flag, reloadMu, active, click, mine, done, moves>>

ConsumeOwnForce(c) ==
  /\ pass[c].pc = "force"
  /\ pass' = [pass EXCEPT ![c].pc = "target", ![c].force = c \in Forced]
  /\ pendingForce' = FALSE
  /\ UNCHANGED <<pending, pendingNs, flag, reloadMu, active, click, mine, done, moves>>
ConsumeForce(c) ==
  /\ pass[c].pc = "force"
  /\ pass' = [pass EXCEPT ![c].pc = "target", ![c].force = pendingForce \/ c \in Forced]
  /\ pendingForce' = FALSE
  /\ LET took == {d \in Forced \cap Clicks :
                    \/ click[d].pc \in {"target", "cas"} /\ pendingForce /\ New(d) # {}
                    \/ \E p \in Clicks : Queued(p) /\ d \in mine[p]}
     IN mine' = [p \in Clicks |-> IF p = c THEN mine[p] \cup took ELSE mine[p] \ took]
  /\ UNCHANGED <<pending, pendingNs, flag, reloadMu, active, click, done, moves>>

ConsumeTarget(c) ==
  /\ pass[c].pc = "target"
  /\ pass' = [pass EXCEPT ![c].pc = "note", ![c].ns = IF pendingNs = None THEN @ ELSE pendingNs]
  /\ pendingNs' = None
  /\ UNCHANGED <<pending, pendingForce, flag, reloadMu, active, click, mine, done, moves>>

\* The flag is raised again: an earlier pass may have lowered it.
Reassert(c) ==
  /\ pass[c].pc = "note" /\ Run(c, "swap") /\ inFlightNs' = pass[c].ns
  /\ UNCHANGED <<queue, inFlight, shown, reloadMu, active, click, mine, done, moves>>

ReassertSwap(c) ==
  /\ pass[c].pc = "swap" /\ Run(c, IF inFlight THEN "work" ELSE "cast") /\ inFlight' = TRUE
  /\ UNCHANGED <<queue, inFlightNs, shown, reloadMu, active, click, mine, done, moves>>

ReassertCast(c) ==
  /\ pass[c].pc = "cast" /\ Run(c, "work") /\ shown' = TRUE
  /\ UNCHANGED <<queue, inFlight, inFlightNs, reloadMu, active, click, mine, done, moves>>

\* updateStartActionFor, and invokeReloadEx or the failure that is recorded.
UpdateStartAction(st) ==
  CASE st = "STOPPED" -> "start" [] st = "STOPPING" -> "skip" [] OTHER -> "regenerate"

Work(c) ==
  /\ pass[c].pc = "work" /\ Run(c, "check")
  /\ IF pass[c].ns = active.ns /\ UpdateStartAction(active.status) = "start"
     THEN active' \in {active, [active EXCEPT !.status = "RUNNING"]}
     ELSE UNCHANGED active
  /\ done' = [served |-> done.served \cup mine[c],
              forced |-> IF pass[c].force THEN done.forced \cup mine[c] ELSE done.forced]
  /\ mine' = [mine EXCEPT ![c] = {}]
  /\ UNCHANGED <<queue, flag, reloadMu, click, moves>>

\* The deferred function: lowers the flag unless a pass is queued.
Lower(c) ==
  /\ pass[c].pc = "check"
  /\ IF pending THEN Run(c, "unlock") /\ UNCHANGED inFlightNs
                ELSE Run(c, "lower") /\ inFlightNs' = None
  /\ UNCHANGED <<queue, inFlight, shown, reloadMu, active, click, mine, done, moves>>

LowerSwap(c) ==
  /\ pass[c].pc = "lower" /\ Run(c, IF inFlight THEN "uncast" ELSE "unlock") /\ inFlight' = FALSE
  /\ UNCHANGED <<queue, inFlightNs, shown, reloadMu, active, click, mine, done, moves>>

LowerCast(c) ==
  /\ pass[c].pc = "uncast" /\ Run(c, "unlock") /\ shown' = FALSE
  /\ UNCHANGED <<queue, inFlight, inFlightNs, reloadMu, active, click, mine, done, moves>>

Unlock(c) ==
  /\ pass[c].pc = "unlock" /\ Run(c, "none") /\ reloadMu' = None
  /\ UNCHANGED <<queue, flag, active, click, mine, done, moves>>

\* Another namespace is activated under reloadMu; the runtime stops.
Move ==
  /\ moves < MaxMoves /\ moves' = moves + 1
  /\ \/ reloadMu = None /\ active.status = "STOPPED"
        /\ \E n \in Nss \ {active.ns} : active' = [active EXCEPT !.ns = n]
     \/ active.status = "RUNNING" /\ active' = [active EXCEPT !.status = "STOPPING"]
     \/ active.status = "STOPPING" /\ active' = [active EXCEPT !.status = "STOPPED"]
  /\ UNCHANGED <<queue, flag, reloadMu, click, pass, mine, done>>

ClickStep(c) ==
  ClickSwap(c) \/ ClickCast(c) \/ RecordForce(c) \/ RecordTarget(c) \/ CompareAndSwap(c)
PassStep(c) ==
  \/ Lock(c) \/ ReleaseSlot(c) \/ ConsumeForce(c) \/ ConsumeTarget(c)
  \/ Reassert(c) \/ ReassertSwap(c) \/ ReassertCast(c) \/ Work(c)
  \/ Lower(c) \/ LowerSwap(c) \/ LowerCast(c) \/ Unlock(c)

Next ==
  \/ \E c \in Clicks : HandleStartNamespace(c) \/ ClickStep(c) \/ PassStep(c)
  \/ Move

\* The scheduler runs every goroutine; clicks and moves need not come.
Fair == \A c \in Clicks : WF_vars(ClickStep(c)) /\ WF_vars(PassStep(c))

Spec == Init /\ [][Next]_vars /\ Fair
-----------------------------------------------------------------------------
ClickPcs == {"idle", "swap", "cast", "force", "target", "cas", "end"}
PassPcs == {"none", "lock", "release", "force", "target", "note", "swap", "cast", "work", "check",
            "lower", "uncast", "unlock"}
ClickStates == [pc : ClickPcs, ns : Nss \cup {None}]
PassStates == [pc : PassPcs, force : BOOLEAN, ns : Nss \cup {None}]

\* Every atomic, flag and goroutine is in one of its states.
UpdateTypeOK ==
  /\ pending \in BOOLEAN /\ pendingForce \in BOOLEAN /\ pendingNs \in Nss \cup {None}
  /\ inFlight \in BOOLEAN /\ inFlightNs \in Nss \cup {None} /\ shown \in BOOLEAN
  /\ reloadMu \in Clicks \cup {None}
  /\ active \in [ns : Nss, status : {"STOPPED", "STOPPING", "RUNNING"}]
  /\ click \in [Clicks -> ClickStates] /\ pass \in [Clicks -> PassStates]
  /\ mine \in [Clicks -> SUBSET Clicks]
  /\ done \in [served : SUBSET Clicks, forced : SUBSET Clicks]

\* The slot is taken exactly while one pass has yet to release it.
OneQueued ==
  /\ \A p, q \in Clicks : Queued(p) /\ Queued(q) => p = q
  /\ pending <=> \E p \in Clicks : Queued(p)

\* "only this order leaves no interleaving that strands a force": a force
\* that is set has a pass, or a click on its way to one, that consumes it.
NoStrandedForce ==
  pendingForce => \/ \E p \in Clicks : Queued(p) \/ pass[p].pc = "force"
                  \/ \E c \in Clicks : click[c].pc \in {"target", "cas"}

\* The flag is up while a pass works, whatever the pass before it did.
RaisedWhileWorking == \A c \in Clicks : pass[c].pc = "work" => inFlight

\* Once all clicks are over the flag is down, and so is the indicator.
GoesDown == <>[](~inFlight /\ ~shown)

\* What the queue promises: the clicks that wait are those that have queued
\* or folded and whose pass has not worked yet.
Served == INSTANCE ServedClicks WITH
  waiting <- UNION {mine[c] : c \in Clicks}, served <- done.served, forced <- done.forced
ServesClicks == Served!Spec

\* Both.
ClicksAreServed == ServesClicks /\ GoesDown
=============================================================================
