----------------------------- MODULE Api_proofs -----------------------------
(***************************************************************************)
(* Proofs about the daemon and its API, for any clicks, namespaces,        *)
(* processes and versions.                                                 *)
(*                                                                         *)
(* Update & Start: the queue holds at most one pass, strands no force, and *)
(* every step of it is a step of ServedClicks or none.  The refinement     *)
(* needs to know where the force of a click is at each moment: recorded    *)
(* before the compare and swap, still recorded while the pass that works   *)
(* for the click is queued, and the pass's own from then.                  *)
(*                                                                         *)
(* Installer: the platform stays up and one daemon has a runtime.  For     *)
(* that, daemons come up one at a time, the file of the socket is that of  *)
(* the one that has come up, the installer replaces a binary that nobody   *)
(* runs, and so the version of the binary is that of the daemon.           *)
(*                                                                         *)
(* EventStream: no event reaches a client twice or out of order.  For      *)
(* that, the numbers in the ring follow one another, and the cutoff parts  *)
(* what is replayed from what the channel carries.                         *)
(***************************************************************************)
EXTENDS MCApi, TLAPS


-----------------------------------------------------------------------------
\* The value of no pass is the name of none.
Apart == None \notin Clicks

\* reloadMu is held from the release of the slot to the end of a pass.
Holding == \A c \in Clicks : pass[c].pc \notin {"none", "lock"} => reloadMu = c

\* A pass, and what it works for, come from a click that is over.
ClickFirst == \A c \in Clicks : pass[c].pc # "none" \/ mine[c] # {} => click[c].pc = "end"

\* A click is worked for by one pass, and not after it was served.
WorkedForOnce ==
  /\ \A p, q \in Clicks : p # q => mine[p] \cap mine[q] = {}
  /\ \A p \in Clicks : mine[p] \cap done.served = {}

\* The force of a click before it is anybody's, while its pass is queued, and after.
ForceKept ==
  /\ \A d \in Forced \cap Clicks : click[d].pc \in {"target", "cas"} /\ New(d) # {} => pendingForce
  /\ \A p \in Clicks : pass[p].pc \in {"lock", "release", "force"} /\ mine[p] \cap Forced # {} => pendingForce
  /\ \A p \in Clicks : pass[p].pc \in {"target", "note", "swap", "cast", "work"} /\ mine[p] \cap Forced # {}
                         => pass[p].force

IInv == UpdateTypeOK /\ OneQueued /\ Holding /\ ClickFirst /\ WorkedForOnce /\ ForceKept

-----------------------------------------------------------------------------
\* The moves of one goroutine.
LEMMA GoFacts ==
    ASSUME NEW c \in Clicks, NEW pc \in ClickPcs, click \in [Clicks -> ClickStates], Go(c, pc)
    PROVE  /\ click' \in [Clicks -> ClickStates]
           /\ \A d \in Clicks : /\ click'[d].ns = click[d].ns
                                /\ click'[d].pc = IF d = c THEN pc ELSE click[d].pc
BY DEF Go, ClickStates

\* The moves of one pass.
LEMMA RunFacts ==
    ASSUME NEW c \in Clicks, NEW pc \in PassPcs, pass \in [Clicks -> PassStates], Run(c, pc)
    PROVE  /\ pass' \in [Clicks -> PassStates]
           /\ \A p \in Clicks : /\ pass'[p].ns = pass[p].ns /\ pass'[p].force = pass[p].force
                                /\ pass'[p].pc = IF p = c THEN pc ELSE pass[p].pc
BY DEF Run, PassStates

\* A click begins.
LEMMA HandleStartFacts ==
    ASSUME UpdateTypeOK, NEW c \in Clicks, HandleStartNamespace(c)
    PROVE  /\ click' \in [Clicks -> ClickStates]
           /\ \A d \in Clicks : /\ click'[d].pc = IF d = c THEN "swap" ELSE click[d].pc
                                /\ d # c => click'[d].ns = click[d].ns
           /\ click'[c].ns = active.ns /\ active.ns \in Nss
BY DEF HandleStartNamespace, UpdateTypeOK, ClickStates, ClickPcs

\* A click makes a pass, or leaves what it wants to the pass that is queued.
LEMMA SwapFacts ==
    ASSUME UpdateTypeOK, NEW c \in Clicks, CompareAndSwap(c)
    PROVE  /\ click' \in [Clicks -> ClickStates] /\ pass' \in [Clicks -> PassStates]
           /\ mine' \in [Clicks -> SUBSET Clicks]
           /\ click[c].pc = "cas"
           /\ \A d \in Clicks : /\ click'[d].ns = click[d].ns
                                /\ click'[d].pc = IF d = c THEN "end" ELSE click[d].pc
           /\ pending' = TRUE
           /\ pending => /\ pass' = pass
                         /\ \A p \in Clicks : mine'[p] = IF Queued(p) THEN mine[p] \cup New(c) ELSE mine[p]
           /\ ~pending => /\ \A p \in Clicks : /\ mine'[p] = IF p = c THEN New(c) ELSE mine[p]
                                               /\ p # c => pass'[p] = pass[p]
                          /\ pass'[c] = [pc |-> "lock", force |-> FALSE, ns |-> click[c].ns]
           /\ UNCHANGED <<pendingForce, pendingNs, inFlight, inFlightNs, shown, reloadMu, active, done>>
<1>1. click \in [Clicks -> ClickStates] /\ pass \in [Clicks -> PassStates] /\ mine \in [Clicks -> SUBSET Clicks]
    BY DEF UpdateTypeOK
<1>2. Go(c, "end") /\ "end" \in ClickPcs /\ click[c].pc = "cas"
      /\ UNCHANGED <<pendingForce, pendingNs, inFlight, inFlightNs, shown, reloadMu, active, done>>
    BY DEF CompareAndSwap, ClickPcs, flag
<1>3. New(c) \subseteq Clicks
    BY DEF New
<1>4. click[c].ns \in Nss \cup {None}
    BY <1>1 DEF ClickStates
<1> HIDE DEF New
<1>5. CASE pending
  <2>1. mine' = [p \in Clicks |-> IF Queued(p) THEN mine[p] \cup New(c) ELSE mine[p]]
        /\ pass' = pass /\ pending' = TRUE
      BY <1>5 DEF CompareAndSwap, UpdateTypeOK
  <2> QED
      BY <1>1, <1>2, <1>3, <1>5, <2>1, GoFacts
<1>6. CASE ~pending
  <2>1. /\ pending' = TRUE /\ mine' = [mine EXCEPT ![c] = New(c)]
        /\ pass' = [pass EXCEPT ![c] = [pc |-> "lock", force |-> FALSE, ns |-> click[c].ns]]
      BY <1>6 DEF CompareAndSwap, NoPass
  <2>2. [pc |-> "lock", force |-> FALSE, ns |-> click[c].ns] \in PassStates
      BY <1>4 DEF PassStates, PassPcs
  <2> QED
      BY <1>1, <1>2, <1>3, <1>6, <2>1, <2>2, GoFacts
<1> QED
    BY <1>5, <1>6

\* The clicks whose force is taken: what ConsumeForce moves to its pass.
Took ==
  {d \in Forced \cap Clicks : \/ click[d].pc \in {"target", "cas"} /\ pendingForce /\ New(d) # {}
                          \/ \E p \in Clicks : Queued(p) /\ d \in mine[p]}

\* A pass takes the force.
LEMMA ConsumeForceFacts ==
    ASSUME UpdateTypeOK, NEW c \in Clicks, ConsumeForce(c)
    PROVE  /\ pass' \in [Clicks -> PassStates] /\ mine' \in [Clicks -> SUBSET Clicks]
           /\ pass[c].pc = "force" /\ pendingForce' = FALSE
           /\ \A p \in Clicks : /\ pass'[p].ns = pass[p].ns
                                /\ pass'[p].pc = IF p = c THEN "target" ELSE pass[p].pc
                                /\ p # c => pass'[p].force = pass[p].force
                                /\ mine'[p] = IF p = c THEN mine[p] \cup Took ELSE mine[p] \ Took
           /\ pass'[c].force = (pendingForce \/ c \in Forced)
           /\ UNCHANGED <<pending, pendingNs, inFlight, inFlightNs, shown, reloadMu, active, click, done>>
<1>1. pass \in [Clicks -> PassStates] /\ mine \in [Clicks -> SUBSET Clicks]
    BY DEF UpdateTypeOK
<1>2. Took \subseteq Clicks
    BY DEF Took
<1>3. mine' = [p \in Clicks |-> IF p = c THEN mine[p] \cup Took ELSE mine[p] \ Took]
    BY DEF ConsumeForce, Took
<1>4. pass' = [pass EXCEPT ![c].pc = "target", ![c].force = pendingForce \/ c \in Forced]
      /\ pass[c].pc = "force" /\ pendingForce' = FALSE
      /\ UNCHANGED <<pending, pendingNs, inFlight, inFlightNs, shown, reloadMu, active, click, done>>
    BY DEF ConsumeForce, flag
<1>5. (pendingForce \/ c \in Forced) \in BOOLEAN
    OBVIOUS
<1> HIDE DEF Took
<1>6. mine' \in [Clicks -> SUBSET Clicks]
      /\ \A p \in Clicks : mine'[p] = IF p = c THEN mine[p] \cup Took ELSE mine[p] \ Took
    BY <1>1, <1>2, <1>3
<1>7. pass' \in [Clicks -> PassStates]
      /\ \A p \in Clicks : /\ pass'[p].ns = pass[p].ns
                           /\ pass'[p].pc = IF p = c THEN "target" ELSE pass[p].pc
                           /\ p # c => pass'[p].force = pass[p].force
      /\ pass'[c].force = (pendingForce \/ c \in Forced)
    BY <1>1, <1>4, <1>5 DEF PassStates, PassPcs
<1> QED
    BY <1>4, <1>6, <1>7

\* A pass takes the namespace.
LEMMA ConsumeTargetFacts ==
    ASSUME UpdateTypeOK, NEW c \in Clicks, ConsumeTarget(c)
    PROVE  /\ pass' \in [Clicks -> PassStates]
           /\ \A p \in Clicks : /\ pass'[p].force = pass[p].force
                                /\ pass'[p].pc = IF p = c THEN "note" ELSE pass[p].pc
                                /\ p # c => pass'[p].ns = pass[p].ns
           /\ pass'[c].ns = IF pendingNs = None THEN pass[c].ns ELSE pendingNs
           /\ pass[c].pc = "target" /\ pendingNs' = None
           /\ UNCHANGED <<pending, pendingForce, inFlight, inFlightNs, shown, reloadMu, active, click, mine, done>>
<1>1. pass \in [Clicks -> PassStates] /\ pendingNs \in Nss \cup {None}
    BY DEF UpdateTypeOK
<1>2. pass' = [pass EXCEPT ![c].pc = "note", ![c].ns = IF pendingNs = None THEN pass[c].ns ELSE pendingNs]
      /\ pass[c].pc = "target" /\ pendingNs' = None
      /\ UNCHANGED <<pending, pendingForce, inFlight, inFlightNs, shown, reloadMu, active, click, mine, done>>
    BY DEF ConsumeTarget, flag
<1>3. \E n \in Nss \cup {None} : n = IF pendingNs = None THEN pass[c].ns ELSE pendingNs
    BY <1>1 DEF PassStates
<1> QED
    BY <1>1, <1>2, <1>3 DEF PassStates, PassPcs

-----------------------------------------------------------------------------
\* The beginning: nothing is queued and nobody waits.
LEMMA InitOK == Init => IInv
<1> SUFFICES ASSUME Init PROVE IInv
    OBVIOUS
<1>1. UpdateTypeOK
    BY DEF Init, UpdateTypeOK, NoPass, ClickStates, PassStates, ClickPcs, PassPcs
<1>2. ASSUME NEW c \in Clicks PROVE pass[c].pc = "none" /\ mine[c] = {} /\ click[c].pc = "idle"
  <2>1. pass[c] = [pc |-> "none", force |-> FALSE, ns |-> None] /\ mine[c] = {}
      BY DEF Init, NoPass
  <2>2. click[c] = [pc |-> "idle", ns |-> None]
      BY DEF Init
  <2> QED
      BY <2>1, <2>2
<1>3. OneQueued /\ Holding /\ ClickFirst
    BY <1>2 DEF OneQueued, Queued, Holding, ClickFirst, Init
<1>4. WorkedForOnce /\ ForceKept
    BY <1>2 DEF WorkedForOnce, ForceKept
<1> QED
    BY <1>1, <1>3, <1>4 DEF IInv

\* The shape of the state under every action.
LEMMA TypeStep == UpdateTypeOK /\ [Next]_vars => UpdateTypeOK'
<1> SUFFICES ASSUME UpdateTypeOK, [Next]_vars PROVE UpdateTypeOK'
    OBVIOUS
<1> USE DEF UpdateTypeOK, queue, flag, ClickPcs, PassPcs
<1>1. ASSUME NEW c \in Clicks, HandleStartNamespace(c) PROVE UpdateTypeOK'
    BY <1>1, HandleStartFacts DEF HandleStartNamespace
<1>2. ASSUME NEW c \in Clicks, ClickSwap(c) PROVE UpdateTypeOK'
    BY <1>2 DEF ClickSwap, ClickStates
<1>3. ASSUME NEW c \in Clicks, ClickCast(c) PROVE UpdateTypeOK'
    BY <1>3, GoFacts DEF ClickCast
<1>4. ASSUME NEW c \in Clicks, RecordForce(c) PROVE UpdateTypeOK'
    BY <1>4, GoFacts DEF RecordForce
<1>5. ASSUME NEW c \in Clicks, RecordTarget(c) PROVE UpdateTypeOK'
  <2>1. click[c].ns \in Nss \cup {None}
      BY DEF ClickStates
  <2> QED
      BY <1>5, <2>1, GoFacts DEF RecordTarget
<1>6. ASSUME NEW c \in Clicks, CompareAndSwap(c) PROVE UpdateTypeOK'
  <2>1. /\ click' \in [Clicks -> ClickStates] /\ pass' \in [Clicks -> PassStates]
        /\ mine' \in [Clicks -> SUBSET Clicks] /\ pending' = TRUE
      BY <1>6, SwapFacts
  <2>2. UNCHANGED <<pendingForce, pendingNs, inFlight, inFlightNs, shown, reloadMu, active, done>>
      BY <1>6, SwapFacts
  <2> QED
      BY <2>1, <2>2
<1>7. ASSUME NEW c \in Clicks, Lock(c) PROVE UpdateTypeOK'
    BY <1>7, RunFacts DEF Lock
<1>8. ASSUME NEW c \in Clicks, ReleaseSlot(c) PROVE UpdateTypeOK'
    BY <1>8, RunFacts DEF ReleaseSlot
<1>9. ASSUME NEW c \in Clicks, ConsumeForce(c) PROVE UpdateTypeOK'
    BY <1>9, ConsumeForceFacts
<1>10. ASSUME NEW c \in Clicks, ConsumeTarget(c) PROVE UpdateTypeOK'
    BY <1>10, ConsumeTargetFacts
<1>11. ASSUME NEW c \in Clicks, Reassert(c) PROVE UpdateTypeOK'
    BY <1>11, RunFacts DEF Reassert, PassStates
<1>12. ASSUME NEW c \in Clicks, ReassertSwap(c) PROVE UpdateTypeOK'
    BY <1>12, RunFacts DEF ReassertSwap
<1>13. ASSUME NEW c \in Clicks, ReassertCast(c) PROVE UpdateTypeOK'
    BY <1>13, RunFacts DEF ReassertCast
<1>14. ASSUME NEW c \in Clicks, Work(c) PROVE UpdateTypeOK'
    BY <1>14, RunFacts DEF Work
<1>15. ASSUME NEW c \in Clicks, Lower(c) PROVE UpdateTypeOK'
    BY <1>15, RunFacts DEF Lower
<1>16. ASSUME NEW c \in Clicks, LowerSwap(c) PROVE UpdateTypeOK'
    BY <1>16, RunFacts DEF LowerSwap
<1>17. ASSUME NEW c \in Clicks, LowerCast(c) PROVE UpdateTypeOK'
    BY <1>17, RunFacts DEF LowerCast
<1>18. ASSUME NEW c \in Clicks, Unlock(c) PROVE UpdateTypeOK'
    BY <1>18, RunFacts DEF Unlock
<1>19. CASE Move
    BY <1>19 DEF Move
<1>20. CASE UNCHANGED vars
    BY <1>20 DEF vars
<1> QED
    BY <1>1, <1>2, <1>3, <1>4, <1>5, <1>6, <1>7, <1>8, <1>9, <1>10, <1>11, <1>12, <1>13, <1>14,
       <1>15, <1>16, <1>17, <1>18, <1>19, <1>20 DEF Next, ClickStep, PassStep

\* One pass is queued, one holds reloadMu, and each comes from a click that is over.
LEMMA QueueStep == Apart /\ IInv /\ [Next]_vars => (OneQueued /\ Holding /\ ClickFirst)'
<1> SUFFICES ASSUME Apart, IInv, [Next]_vars PROVE (OneQueued /\ Holding /\ ClickFirst)'
    OBVIOUS
<1>0. UpdateTypeOK /\ click \in [Clicks -> ClickStates] /\ pass \in [Clicks -> PassStates]
      /\ mine \in [Clicks -> SUBSET Clicks] /\ done.served \in SUBSET Clicks
    BY DEF IInv, UpdateTypeOK
<1>1. ASSUME NEW c \in Clicks, HandleStartNamespace(c) PROVE (OneQueued /\ Holding /\ ClickFirst)'
    BY <1>0, <1>1, HandleStartFacts DEF HandleStartNamespace, queue, flag, IInv, OneQueued, Queued, Holding, ClickFirst, ClickPcs, PassPcs
<1>2. ASSUME NEW c \in Clicks, ClickSwap(c) PROVE (OneQueued /\ Holding /\ ClickFirst)'
    BY <1>0, <1>2 DEF ClickSwap, queue, flag, IInv, OneQueued, Queued, Holding, ClickFirst, ClickPcs, PassPcs, ClickStates
<1>3. ASSUME NEW c \in Clicks, ClickCast(c) PROVE (OneQueued /\ Holding /\ ClickFirst)'
    BY <1>0, <1>3, GoFacts DEF ClickCast, queue, flag, IInv, OneQueued, Queued, Holding, ClickFirst, ClickPcs, PassPcs
<1>4. ASSUME NEW c \in Clicks, RecordForce(c) PROVE (OneQueued /\ Holding /\ ClickFirst)'
    BY <1>0, <1>4, GoFacts DEF RecordForce, queue, flag, IInv, OneQueued, Queued, Holding, ClickFirst, ClickPcs, PassPcs
<1>5. ASSUME NEW c \in Clicks, RecordTarget(c) PROVE (OneQueued /\ Holding /\ ClickFirst)'
    BY <1>0, <1>5, GoFacts DEF RecordTarget, queue, flag, IInv, OneQueued, Queued, Holding, ClickFirst, ClickPcs, PassPcs
<1>6. ASSUME NEW c \in Clicks, CompareAndSwap(c) PROVE (OneQueued /\ Holding /\ ClickFirst)'
  <2>1. /\ click[c].pc = "cas" /\ pending' = TRUE /\ reloadMu' = reloadMu
        /\ \A d \in Clicks : click'[d].pc = IF d = c THEN "end" ELSE click[d].pc
    <3>1. Go(c, "end") /\ "end" \in ClickPcs
        BY <1>6 DEF CompareAndSwap, ClickPcs
    <3>2. \A d \in Clicks : click'[d].pc = IF d = c THEN "end" ELSE click[d].pc
        BY <1>0, <3>1, GoFacts
    <3>3. click[c].pc = "cas" /\ UNCHANGED <<pendingForce, reloadMu, done>> /\ pending' = TRUE
        BY <1>0, <1>6, SwapFacts
    <3> QED
        BY <3>2, <3>3
  <2>2. pass[c].pc = "none" /\ mine[c] = {}
      BY <2>1 DEF IInv, ClickFirst
  <2>3. CASE pending
    <3>1. pass' = pass /\ \A p \in Clicks : mine'[p] = IF Queued(p) THEN mine[p] \cup New(c) ELSE mine[p]
        BY <1>0, <1>6, <2>3, SwapFacts
    <3>2. OneQueued' /\ Holding'
        BY <2>1, <2>3, <3>1 DEF IInv, OneQueued, Holding, Queued
    <3>3. ClickFirst'
        BY <2>1, <3>1 DEF IInv, ClickFirst, Queued
    <3> QED
        BY <3>2, <3>3
  <2>4. CASE ~pending
    <3>1. /\ \A p \in Clicks : p # c => pass'[p] = pass[p] /\ mine'[p] = mine[p]
          /\ pass'[c] = [pc |-> "lock", force |-> FALSE, ns |-> click[c].ns]
        BY <1>0, <1>6, <2>4, SwapFacts
    <3>2. OneQueued' /\ Holding'
        BY <2>1, <2>2, <2>4, <3>1 DEF IInv, OneQueued, Holding, Queued
    <3>3. ClickFirst'
        BY <2>1, <3>1 DEF IInv, ClickFirst
    <3> QED
        BY <3>2, <3>3
  <2> QED
      BY <2>3, <2>4
<1>7. ASSUME NEW c \in Clicks, Lock(c) PROVE (OneQueued /\ Holding /\ ClickFirst)'
  <2>1. /\ pass[c].pc = "lock" /\ reloadMu = None /\ reloadMu' = c
        /\ UNCHANGED <<pending, click, mine>>
      BY <1>7 DEF Lock, queue
  <2>2. \A p \in Clicks : pass'[p].pc = IF p = c THEN "release" ELSE pass[p].pc
      BY <1>0, <1>7, RunFacts DEF Lock, PassPcs
  <2>3. \A p \in Clicks : pass[p].pc \in {"none", "lock"}
      BY <2>1 DEF Apart, IInv, Holding
  <2> QED
      BY <2>1, <2>2, <2>3 DEF IInv, OneQueued, Queued, Holding, ClickFirst
<1>8. ASSUME NEW c \in Clicks, ReleaseSlot(c) PROVE (OneQueued /\ Holding /\ ClickFirst)'
    BY <1>0, <1>8, RunFacts DEF ReleaseSlot, queue, flag, IInv, OneQueued, Queued, Holding, ClickFirst, ClickPcs, PassPcs
<1>9. ASSUME NEW c \in Clicks, ConsumeForce(c) PROVE (OneQueued /\ Holding /\ ClickFirst)'
  <2>1. /\ pass[c].pc = "force" /\ UNCHANGED <<pending, reloadMu, click>>
        /\ \A p \in Clicks : /\ pass'[p].pc = IF p = c THEN "target" ELSE pass[p].pc
                             /\ mine'[p] = IF p = c THEN mine[p] \cup Took ELSE mine[p] \ Took
      BY <1>0, <1>9, ConsumeForceFacts
  <2> QED
      BY <2>1 DEF IInv, OneQueued, Queued, Holding, ClickFirst
<1>10. ASSUME NEW c \in Clicks, ConsumeTarget(c) PROVE (OneQueued /\ Holding /\ ClickFirst)'
    BY <1>0, <1>10, ConsumeTargetFacts DEF IInv, OneQueued, Queued, Holding, ClickFirst, ClickPcs, PassPcs
<1>11. ASSUME NEW c \in Clicks, Reassert(c) PROVE (OneQueued /\ Holding /\ ClickFirst)'
    BY <1>0, <1>11, RunFacts DEF Reassert, queue, flag, IInv, OneQueued, Queued, Holding, ClickFirst, ClickPcs, PassPcs
<1>12. ASSUME NEW c \in Clicks, ReassertSwap(c) PROVE (OneQueued /\ Holding /\ ClickFirst)'
    BY <1>0, <1>12, RunFacts DEF ReassertSwap, queue, flag, IInv, OneQueued, Queued, Holding, ClickFirst, ClickPcs, PassPcs
<1>13. ASSUME NEW c \in Clicks, ReassertCast(c) PROVE (OneQueued /\ Holding /\ ClickFirst)'
    BY <1>0, <1>13, RunFacts DEF ReassertCast, queue, flag, IInv, OneQueued, Queued, Holding, ClickFirst, ClickPcs, PassPcs
<1>14. ASSUME NEW c \in Clicks, Work(c) PROVE (OneQueued /\ Holding /\ ClickFirst)'
  <2>1. /\ pass[c].pc = "work" /\ mine' = [mine EXCEPT ![c] = {}]
        /\ UNCHANGED <<pending, reloadMu, click>>
      BY <1>14 DEF Work, queue, flag
  <2>2. \A p \in Clicks : pass'[p].pc = IF p = c THEN "check" ELSE pass[p].pc
      BY <1>0, <1>14, RunFacts DEF Work, PassPcs
  <2> QED
      BY <1>0, <2>1, <2>2 DEF IInv, OneQueued, Queued, Holding, ClickFirst
<1>15. ASSUME NEW c \in Clicks, Lower(c) PROVE (OneQueued /\ Holding /\ ClickFirst)'
    BY <1>0, <1>15, RunFacts DEF Lower, queue, flag, IInv, OneQueued, Queued, Holding, ClickFirst, ClickPcs, PassPcs
<1>16. ASSUME NEW c \in Clicks, LowerSwap(c) PROVE (OneQueued /\ Holding /\ ClickFirst)'
    BY <1>0, <1>16, RunFacts DEF LowerSwap, queue, flag, IInv, OneQueued, Queued, Holding, ClickFirst, ClickPcs, PassPcs
<1>17. ASSUME NEW c \in Clicks, LowerCast(c) PROVE (OneQueued /\ Holding /\ ClickFirst)'
    BY <1>0, <1>17, RunFacts DEF LowerCast, queue, flag, IInv, OneQueued, Queued, Holding, ClickFirst, ClickPcs, PassPcs
<1>18. ASSUME NEW c \in Clicks, Unlock(c) PROVE (OneQueued /\ Holding /\ ClickFirst)'
    BY <1>0, <1>18, RunFacts DEF Unlock, queue, flag, IInv, OneQueued, Queued, Holding, ClickFirst, ClickPcs, PassPcs
<1>19. CASE Move
    BY <1>0, <1>19 DEF Move, queue, flag, IInv, OneQueued, Queued, Holding, ClickFirst, ClickPcs, PassPcs
<1>20. CASE UNCHANGED vars
    BY <1>0, <1>20 DEF vars, queue, flag, IInv, OneQueued, Queued, Holding, ClickFirst, ClickPcs, PassPcs
<1> QED
    BY <1>1, <1>2, <1>3, <1>4, <1>5, <1>6, <1>7, <1>8, <1>9, <1>10, <1>11, <1>12, <1>13, <1>14, <1>15, <1>16, <1>17, <1>18, <1>19, <1>20 DEF Next, ClickStep, PassStep

\* Only the three actions that move clicks between passes matter.
LEMMA OnceStep == IInv /\ [Next]_vars => (WorkedForOnce)'
<1> SUFFICES ASSUME IInv, [Next]_vars PROVE (WorkedForOnce)'
    OBVIOUS
<1>0. UpdateTypeOK /\ click \in [Clicks -> ClickStates] /\ pass \in [Clicks -> PassStates]
      /\ mine \in [Clicks -> SUBSET Clicks] /\ done.served \in SUBSET Clicks
    BY DEF IInv, UpdateTypeOK
<1>1. ASSUME NEW c \in Clicks, HandleStartNamespace(c) PROVE (WorkedForOnce)'
    BY <1>1 DEF HandleStartNamespace, IInv, WorkedForOnce
<1>2. ASSUME NEW c \in Clicks, ClickSwap(c) PROVE (WorkedForOnce)'
    BY <1>2 DEF ClickSwap, IInv, WorkedForOnce
<1>3. ASSUME NEW c \in Clicks, ClickCast(c) PROVE (WorkedForOnce)'
    BY <1>3 DEF ClickCast, IInv, WorkedForOnce
<1>4. ASSUME NEW c \in Clicks, RecordForce(c) PROVE (WorkedForOnce)'
    BY <1>4 DEF RecordForce, IInv, WorkedForOnce
<1>5. ASSUME NEW c \in Clicks, RecordTarget(c) PROVE (WorkedForOnce)'
    BY <1>5 DEF RecordTarget, IInv, WorkedForOnce
<1>6. ASSUME NEW c \in Clicks, CompareAndSwap(c) PROVE (WorkedForOnce)'
  <2>1. click[c].pc = "cas" /\ done' = done
      BY <1>0, <1>6, SwapFacts
  <2>2. mine[c] = {}
      BY <2>1 DEF IInv, ClickFirst
  <2>3. \A p \in Clicks : New(c) \cap mine[p] = {} /\ New(c) \cap done.served = {}
      BY <1>0 DEF New
  <2>4. CASE pending
    <3>1. \A p \in Clicks : mine'[p] = IF Queued(p) THEN mine[p] \cup New(c) ELSE mine[p]
        BY <1>0, <1>6, <2>4, SwapFacts
    <3>2. \A p, q \in Clicks : Queued(p) /\ Queued(q) => p = q
        BY DEF IInv, OneQueued
    <3>3. ASSUME NEW p \in Clicks, NEW q \in Clicks, p # q PROVE mine'[p] \cap mine'[q] = {}
        BY <2>3, <3>1, <3>2, <3>3 DEF IInv, WorkedForOnce
    <3> QED
        BY <2>1, <2>3, <3>1, <3>3 DEF IInv, WorkedForOnce
  <2>5. CASE ~pending
    <3>1. \A p \in Clicks : mine'[p] = IF p = c THEN New(c) ELSE mine[p]
        BY <1>0, <1>6, <2>5, SwapFacts
    <3> QED
        BY <2>1, <2>3, <3>1 DEF IInv, WorkedForOnce
  <2> QED
      BY <2>4, <2>5
<1>7. ASSUME NEW c \in Clicks, Lock(c) PROVE (WorkedForOnce)'
    BY <1>7 DEF Lock, IInv, WorkedForOnce
<1>8. ASSUME NEW c \in Clicks, ReleaseSlot(c) PROVE (WorkedForOnce)'
    BY <1>8 DEF ReleaseSlot, IInv, WorkedForOnce
<1>9. ASSUME NEW c \in Clicks, ConsumeForce(c) PROVE (WorkedForOnce)'
  <2>1. done' = done
        /\ \A p \in Clicks : mine'[p] = IF p = c THEN mine[p] \cup Took ELSE mine[p] \ Took
      BY <1>0, <1>9, ConsumeForceFacts
  <2>2. Took \cap done.served = {}
      BY DEF Took, New, IInv, WorkedForOnce
  <2>3. \A p \in Clicks : mine'[p] \cap done'.served = {}
      BY <2>1, <2>2 DEF IInv, WorkedForOnce
  <2>4. ASSUME NEW p \in Clicks, NEW q \in Clicks, p # q PROVE mine'[p] \cap mine'[q] = {}
      BY <2>1, <2>4 DEF IInv, WorkedForOnce
  <2> QED
      BY <2>3, <2>4 DEF WorkedForOnce
<1>10. ASSUME NEW c \in Clicks, ConsumeTarget(c) PROVE (WorkedForOnce)'
    BY <1>10 DEF ConsumeTarget, IInv, WorkedForOnce
<1>11. ASSUME NEW c \in Clicks, Reassert(c) PROVE (WorkedForOnce)'
    BY <1>11 DEF Reassert, IInv, WorkedForOnce
<1>12. ASSUME NEW c \in Clicks, ReassertSwap(c) PROVE (WorkedForOnce)'
    BY <1>12 DEF ReassertSwap, IInv, WorkedForOnce
<1>13. ASSUME NEW c \in Clicks, ReassertCast(c) PROVE (WorkedForOnce)'
    BY <1>13 DEF ReassertCast, IInv, WorkedForOnce
<1>14. ASSUME NEW c \in Clicks, Work(c) PROVE (WorkedForOnce)'
  <2>1. /\ done'.served = done.served \cup mine[c]
        /\ \A p \in Clicks : mine'[p] = IF p = c THEN {} ELSE mine[p]
      BY <1>0, <1>14 DEF Work
  <2> QED
      BY <1>0, <2>1 DEF IInv, WorkedForOnce
<1>15. ASSUME NEW c \in Clicks, Lower(c) PROVE (WorkedForOnce)'
    BY <1>15 DEF Lower, IInv, WorkedForOnce
<1>16. ASSUME NEW c \in Clicks, LowerSwap(c) PROVE (WorkedForOnce)'
    BY <1>16 DEF LowerSwap, IInv, WorkedForOnce
<1>17. ASSUME NEW c \in Clicks, LowerCast(c) PROVE (WorkedForOnce)'
    BY <1>17 DEF LowerCast, IInv, WorkedForOnce
<1>18. ASSUME NEW c \in Clicks, Unlock(c) PROVE (WorkedForOnce)'
    BY <1>18 DEF Unlock, IInv, WorkedForOnce
<1>19. CASE Move
    BY <1>0, <1>19 DEF Move, queue, flag, IInv, WorkedForOnce
<1>20. CASE UNCHANGED vars
    BY <1>0, <1>20 DEF vars, queue, flag, IInv, WorkedForOnce
<1> QED
    BY <1>1, <1>2, <1>3, <1>4, <1>5, <1>6, <1>7, <1>8, <1>9, <1>10, <1>11, <1>12, <1>13, <1>14, <1>15, <1>16, <1>17, <1>18, <1>19, <1>20 DEF Next, ClickStep, PassStep

\* The force goes where its click goes.
LEMMA ForceStep == IInv /\ [Next]_vars => (ForceKept)'
<1> SUFFICES ASSUME IInv, [Next]_vars PROVE (ForceKept)'
    OBVIOUS
<1>0. UpdateTypeOK /\ click \in [Clicks -> ClickStates] /\ pass \in [Clicks -> PassStates]
      /\ mine \in [Clicks -> SUBSET Clicks] /\ done.served \in SUBSET Clicks
    BY DEF IInv, UpdateTypeOK
<1>1. ASSUME NEW c \in Clicks, HandleStartNamespace(c) PROVE (ForceKept)'
    BY <1>0, <1>1, HandleStartFacts DEF HandleStartNamespace, queue, flag, IInv, ForceKept, New, ClickPcs, PassPcs
<1>2. ASSUME NEW c \in Clicks, ClickSwap(c) PROVE (ForceKept)'
    BY <1>0, <1>2 DEF ClickSwap, queue, flag, IInv, ForceKept, New, ClickPcs, PassPcs, ClickStates
<1>3. ASSUME NEW c \in Clicks, ClickCast(c) PROVE (ForceKept)'
    BY <1>0, <1>3, GoFacts DEF ClickCast, queue, flag, IInv, ForceKept, New, ClickPcs, PassPcs
<1>4. ASSUME NEW c \in Clicks, RecordForce(c) PROVE (ForceKept)'
  <2>1. /\ pendingForce' = (pendingForce \/ c \in Forced) /\ UNCHANGED <<pass, mine, done>>
      BY <1>4 DEF RecordForce
  <2>2. \A d \in Clicks : click'[d].pc = IF d = c THEN "target" ELSE click[d].pc
      BY <1>0, <1>4, GoFacts DEF RecordForce, ClickPcs
  <2>3. \A d \in Clicks : New(d)' = New(d)
      BY <2>1 DEF New
  <2> QED
      BY <2>1, <2>2, <2>3 DEF IInv, ForceKept
<1>5. ASSUME NEW c \in Clicks, RecordTarget(c) PROVE (ForceKept)'
    BY <1>0, <1>5, GoFacts DEF RecordTarget, queue, flag, IInv, ForceKept, New, ClickPcs, PassPcs
<1>6. ASSUME NEW c \in Clicks, CompareAndSwap(c) PROVE (ForceKept)'
  <2>1. /\ click[c].pc = "cas" /\ UNCHANGED <<pendingForce, done>>
        /\ \A d \in Clicks : click'[d].pc = IF d = c THEN "end" ELSE click[d].pc
    <3>1. Go(c, "end") /\ "end" \in ClickPcs
        BY <1>6 DEF CompareAndSwap, ClickPcs
    <3>2. \A d \in Clicks : click'[d].pc = IF d = c THEN "end" ELSE click[d].pc
        BY <1>0, <3>1, GoFacts
    <3>3. click[c].pc = "cas" /\ UNCHANGED <<pendingForce, reloadMu, done>> /\ pending' = TRUE
        BY <1>0, <1>6, SwapFacts
    <3> QED
        BY <3>2, <3>3
  <2>2. pass[c].pc = "none" /\ mine[c] = {}
      BY <2>1 DEF IInv, ClickFirst
  <2>3. New(c) \cap Forced # {} => pendingForce
      BY <1>0, <2>1 DEF New, IInv, ForceKept
  <2>4. CASE pending
    <3>1. pass' = pass
          /\ \A p \in Clicks : mine'[p] = IF Queued(p) THEN mine[p] \cup New(c) ELSE mine[p]
        BY <1>0, <1>6, <2>4, SwapFacts
    <3>2. ASSUME NEW d \in Clicks, New(d)' # {} PROVE New(d) # {}
      <4>1. d \notin done.served /\ \A p \in Clicks : d \notin mine'[p]
          BY <2>1, <3>2 DEF New
      <4>2. \A p \in Clicks : d \notin mine[p]
          BY <3>1, <4>1
      <4> QED
          BY <4>1, <4>2 DEF New
    <3>3. ASSUME NEW p \in Clicks, pass[p].pc \in {"target", "note", "swap", "cast", "work"}
          PROVE  mine'[p] = mine[p]
        BY <3>1, <3>3 DEF Queued
    <3> QED
        BY <2>1, <2>3, <3>1, <3>2, <3>3 DEF IInv, ForceKept
  <2>5. CASE ~pending
    <3>1. /\ \A p \in Clicks : /\ mine'[p] = IF p = c THEN New(c) ELSE mine[p]
                               /\ p # c => pass'[p] = pass[p]
          /\ pass'[c] = [pc |-> "lock", force |-> FALSE, ns |-> click[c].ns]
        BY <1>0, <1>6, <2>5, SwapFacts
    <3>2. \A d \in Clicks : New(d)' # {} => New(d) # {}
        BY <2>1, <2>2, <3>1 DEF New
    <3>3. pass'[c].pc = "lock"
        BY <3>1
    <3> QED
        BY <2>1, <2>3, <3>1, <3>2, <3>3 DEF IInv, ForceKept
  <2> QED
      BY <2>4, <2>5
<1>7. ASSUME NEW c \in Clicks, Lock(c) PROVE (ForceKept)'
    BY <1>0, <1>7, RunFacts DEF Lock, queue, flag, IInv, ForceKept, New, ClickPcs, PassPcs
<1>8. ASSUME NEW c \in Clicks, ReleaseSlot(c) PROVE (ForceKept)'
    BY <1>0, <1>8, RunFacts DEF ReleaseSlot, queue, flag, IInv, ForceKept, New, ClickPcs, PassPcs
<1>9. ASSUME NEW c \in Clicks, ConsumeForce(c) PROVE (ForceKept)'
  <2>1. /\ pass[c].pc = "force" /\ pendingForce' = FALSE /\ UNCHANGED <<click, done>>
        /\ \A p \in Clicks : /\ pass'[p].pc = IF p = c THEN "target" ELSE pass[p].pc
                             /\ p # c => pass'[p].force = pass[p].force
                             /\ mine'[p] = IF p = c THEN mine[p] \cup Took ELSE mine[p] \ Took
        /\ pass'[c].force = (pendingForce \/ c \in Forced)
      BY <1>0, <1>9, ConsumeForceFacts
  <2>2. ASSUME NEW d \in Forced \cap Clicks, click'[d].pc \in {"target", "cas"} PROVE New(d)' = {}
    <3>1. New(d) # {} => d \in mine'[c]
        BY <2>1, <2>2 DEF Took, IInv, ForceKept
    <3>2. ASSUME New(d) = {} PROVE d \in done.served \/ \E p \in Clicks : d \in mine'[p]
      <4>1. d \in done.served \/ \E p \in Clicks : d \in mine[p]
          BY <3>2 DEF New
      <4>2. \A p \in Clicks : d \in mine[p] => d \in mine'[p] \/ d \in mine'[c]
          BY <2>1
      <4> QED
          BY <4>1, <4>2
    <3> QED
        BY <2>1, <3>1, <3>2 DEF New
  <2>3. \A p \in Clicks : pass[p].pc \in {"lock", "release"} => mine'[p] \cap Forced = {}
      BY <1>0, <2>1 DEF Took, Queued
  <2>4. \A p \in Clicks : pass[p].pc \notin {"none", "lock"} => p = c
      BY <2>1 DEF IInv, Holding
  <2>5. mine'[c] \cap Forced # {} => pass'[c].force
    <3>1. mine[c] \cap Forced # {} => pendingForce
        BY <2>1 DEF IInv, ForceKept
    <3>2. Took # {} => pendingForce
        BY <1>0 DEF Took, Queued, IInv, ForceKept
    <3> QED
        BY <2>1, <3>1, <3>2
  <2> QED
      BY <2>1, <2>2, <2>3, <2>4, <2>5 DEF ForceKept
<1>10. ASSUME NEW c \in Clicks, ConsumeTarget(c) PROVE (ForceKept)'
    BY <1>0, <1>10, ConsumeTargetFacts DEF IInv, ForceKept, New, ClickPcs, PassPcs
<1>11. ASSUME NEW c \in Clicks, Reassert(c) PROVE (ForceKept)'
    BY <1>0, <1>11, RunFacts DEF Reassert, queue, flag, IInv, ForceKept, New, ClickPcs, PassPcs
<1>12. ASSUME NEW c \in Clicks, ReassertSwap(c) PROVE (ForceKept)'
    BY <1>0, <1>12, RunFacts DEF ReassertSwap, queue, flag, IInv, ForceKept, New, ClickPcs, PassPcs
<1>13. ASSUME NEW c \in Clicks, ReassertCast(c) PROVE (ForceKept)'
    BY <1>0, <1>13, RunFacts DEF ReassertCast, queue, flag, IInv, ForceKept, New, ClickPcs, PassPcs
<1>14. ASSUME NEW c \in Clicks, Work(c) PROVE (ForceKept)'
  <2>1. /\ done'.served = done.served \cup mine[c] /\ UNCHANGED <<pendingForce, click>>
        /\ \A p \in Clicks : mine'[p] = IF p = c THEN {} ELSE mine[p]
      BY <1>0, <1>14 DEF Work, queue
  <2>2. \A p \in Clicks : /\ pass'[p].pc = IF p = c THEN "check" ELSE pass[p].pc
                          /\ pass'[p].force = pass[p].force
      BY <1>0, <1>14, RunFacts DEF Work, PassPcs
  <2>3. \A d \in Clicks : New(d)' # {} => New(d) # {}
      BY <2>1 DEF New
  <2> QED
      BY <2>1, <2>2, <2>3 DEF IInv, ForceKept
<1>15. ASSUME NEW c \in Clicks, Lower(c) PROVE (ForceKept)'
    BY <1>0, <1>15, RunFacts DEF Lower, queue, flag, IInv, ForceKept, New, ClickPcs, PassPcs
<1>16. ASSUME NEW c \in Clicks, LowerSwap(c) PROVE (ForceKept)'
    BY <1>0, <1>16, RunFacts DEF LowerSwap, queue, flag, IInv, ForceKept, New, ClickPcs, PassPcs
<1>17. ASSUME NEW c \in Clicks, LowerCast(c) PROVE (ForceKept)'
    BY <1>0, <1>17, RunFacts DEF LowerCast, queue, flag, IInv, ForceKept, New, ClickPcs, PassPcs
<1>18. ASSUME NEW c \in Clicks, Unlock(c) PROVE (ForceKept)'
    BY <1>0, <1>18, RunFacts DEF Unlock, queue, flag, IInv, ForceKept, New, ClickPcs, PassPcs
<1>19. CASE Move
    BY <1>0, <1>19 DEF Move, queue, flag, IInv, ForceKept, New, ClickPcs, PassPcs
<1>20. CASE UNCHANGED vars
    BY <1>0, <1>20 DEF vars, queue, flag, IInv, ForceKept, New, ClickPcs, PassPcs
<1> QED
    BY <1>1, <1>2, <1>3, <1>4, <1>5, <1>6, <1>7, <1>8, <1>9, <1>10, <1>11, <1>12, <1>13, <1>14, <1>15, <1>16, <1>17, <1>18, <1>19, <1>20 DEF Next, ClickStep, PassStep

\* A force that is recorded has somebody that takes it.
LEMMA StrandedStep == IInv /\ NoStrandedForce /\ [Next]_vars => NoStrandedForce'
<1> SUFFICES ASSUME IInv, NoStrandedForce, [Next]_vars PROVE NoStrandedForce'
    OBVIOUS
<1>0. UpdateTypeOK /\ click \in [Clicks -> ClickStates] /\ pass \in [Clicks -> PassStates]
      /\ inFlight \in BOOLEAN /\ pendingForce \in BOOLEAN
    BY DEF IInv, UpdateTypeOK
<1>1. ASSUME NEW c \in Clicks, HandleStartNamespace(c) PROVE NoStrandedForce'
    BY <1>0, <1>1, HandleStartFacts DEF HandleStartNamespace, queue, flag, NoStrandedForce, Queued, ClickPcs, PassPcs
<1>2. ASSUME NEW c \in Clicks, ClickSwap(c) PROVE NoStrandedForce'
    BY <1>0, <1>2 DEF ClickSwap, queue, flag, NoStrandedForce, Queued, ClickPcs, PassPcs, ClickStates
<1>3. ASSUME NEW c \in Clicks, ClickCast(c) PROVE NoStrandedForce'
    BY <1>0, <1>3, GoFacts DEF ClickCast, queue, flag, NoStrandedForce, Queued, ClickPcs, PassPcs
<1>4. ASSUME NEW c \in Clicks, RecordForce(c) PROVE NoStrandedForce'
    BY <1>0, <1>4, GoFacts DEF RecordForce, queue, flag, NoStrandedForce, Queued, ClickPcs, PassPcs
<1>5. ASSUME NEW c \in Clicks, RecordTarget(c) PROVE NoStrandedForce'
    BY <1>0, <1>5, GoFacts DEF RecordTarget, queue, flag, NoStrandedForce, Queued, ClickPcs, PassPcs
<1>6. ASSUME NEW c \in Clicks, CompareAndSwap(c) PROVE NoStrandedForce'
  <2>1. CASE pending
    <3>1. pass' = pass
        BY <1>0, <1>6, <2>1, SwapFacts
    <3>2. \E p \in Clicks : Queued(p)
        BY <2>1 DEF IInv, OneQueued
    <3> QED
        BY <3>1, <3>2 DEF NoStrandedForce, Queued
  <2>2. CASE ~pending
    <3>1. pass'[c] = [pc |-> "lock", force |-> FALSE, ns |-> click[c].ns]
        BY <1>0, <1>6, <2>2, SwapFacts
    <3>2. pass'[c].pc = "lock"
        BY <3>1
    <3> QED
        BY <3>2 DEF NoStrandedForce, Queued
  <2> QED
      BY <2>1, <2>2
<1>7. ASSUME NEW c \in Clicks, Lock(c) PROVE NoStrandedForce'
    BY <1>0, <1>7, RunFacts DEF Lock, queue, flag, NoStrandedForce, Queued, ClickPcs, PassPcs
<1>8. ASSUME NEW c \in Clicks, ReleaseSlot(c) PROVE NoStrandedForce'
    BY <1>0, <1>8, RunFacts DEF ReleaseSlot, queue, flag, NoStrandedForce, Queued, ClickPcs, PassPcs
<1>9. ASSUME NEW c \in Clicks, ConsumeForce(c) PROVE NoStrandedForce'
    BY <1>0, <1>9, ConsumeForceFacts DEF NoStrandedForce, Queued, ClickPcs, PassPcs
<1>10. ASSUME NEW c \in Clicks, ConsumeTarget(c) PROVE NoStrandedForce'
    BY <1>0, <1>10, ConsumeTargetFacts DEF NoStrandedForce, Queued, ClickPcs, PassPcs
<1>11. ASSUME NEW c \in Clicks, Reassert(c) PROVE NoStrandedForce'
    BY <1>0, <1>11, RunFacts DEF Reassert, queue, flag, NoStrandedForce, Queued, ClickPcs, PassPcs
<1>12. ASSUME NEW c \in Clicks, ReassertSwap(c) PROVE NoStrandedForce'
    BY <1>0, <1>12, RunFacts DEF ReassertSwap, queue, flag, NoStrandedForce, Queued, ClickPcs, PassPcs
<1>13. ASSUME NEW c \in Clicks, ReassertCast(c) PROVE NoStrandedForce'
    BY <1>0, <1>13, RunFacts DEF ReassertCast, queue, flag, NoStrandedForce, Queued, ClickPcs, PassPcs
<1>14. ASSUME NEW c \in Clicks, Work(c) PROVE NoStrandedForce'
    BY <1>0, <1>14, RunFacts DEF Work, queue, flag, NoStrandedForce, Queued, ClickPcs, PassPcs
<1>15. ASSUME NEW c \in Clicks, Lower(c) PROVE NoStrandedForce'
    BY <1>0, <1>15, RunFacts DEF Lower, queue, flag, NoStrandedForce, Queued, ClickPcs, PassPcs
<1>16. ASSUME NEW c \in Clicks, LowerSwap(c) PROVE NoStrandedForce'
    BY <1>0, <1>16, RunFacts DEF LowerSwap, queue, flag, NoStrandedForce, Queued, ClickPcs, PassPcs
<1>17. ASSUME NEW c \in Clicks, LowerCast(c) PROVE NoStrandedForce'
    BY <1>0, <1>17, RunFacts DEF LowerCast, queue, flag, NoStrandedForce, Queued, ClickPcs, PassPcs
<1>18. ASSUME NEW c \in Clicks, Unlock(c) PROVE NoStrandedForce'
    BY <1>0, <1>18, RunFacts DEF Unlock, queue, flag, NoStrandedForce, Queued, ClickPcs, PassPcs
<1>19. CASE Move
    BY <1>0, <1>19 DEF Move, queue, flag, NoStrandedForce, Queued, ClickPcs, PassPcs
<1>20. CASE UNCHANGED vars
    BY <1>0, <1>20 DEF vars, queue, flag, NoStrandedForce, Queued, ClickPcs, PassPcs
<1> QED
    BY <1>1, <1>2, <1>3, <1>4, <1>5, <1>6, <1>7, <1>8, <1>9, <1>10, <1>11, <1>12, <1>13, <1>14, <1>15, <1>16, <1>17, <1>18, <1>19, <1>20 DEF Next, ClickStep, PassStep

\* The flag is up from the moment a pass has raised it.
Raised == \A c \in Clicks : pass[c].pc \in {"cast", "work"} => inFlight

\* Only the pass that holds reloadMu lowers it.
LEMMA RaisedStep == IInv /\ Raised /\ [Next]_vars => Raised'
<1> SUFFICES ASSUME IInv, Raised, [Next]_vars PROVE Raised'
    OBVIOUS
<1>0. UpdateTypeOK /\ click \in [Clicks -> ClickStates] /\ pass \in [Clicks -> PassStates]
      /\ inFlight \in BOOLEAN /\ pendingForce \in BOOLEAN
    BY DEF IInv, UpdateTypeOK
<1>1. ASSUME NEW c \in Clicks, HandleStartNamespace(c) PROVE Raised'
    BY <1>0, <1>1, HandleStartFacts DEF HandleStartNamespace, queue, flag, Raised, ClickPcs, PassPcs
<1>2. ASSUME NEW c \in Clicks, ClickSwap(c) PROVE Raised'
    BY <1>0, <1>2 DEF ClickSwap, queue, flag, Raised, ClickPcs, PassPcs, ClickStates
<1>3. ASSUME NEW c \in Clicks, ClickCast(c) PROVE Raised'
    BY <1>0, <1>3, GoFacts DEF ClickCast, queue, flag, Raised, ClickPcs, PassPcs
<1>4. ASSUME NEW c \in Clicks, RecordForce(c) PROVE Raised'
    BY <1>0, <1>4, GoFacts DEF RecordForce, queue, flag, Raised, ClickPcs, PassPcs
<1>5. ASSUME NEW c \in Clicks, RecordTarget(c) PROVE Raised'
    BY <1>0, <1>5, GoFacts DEF RecordTarget, queue, flag, Raised, ClickPcs, PassPcs
<1>6. ASSUME NEW c \in Clicks, CompareAndSwap(c) PROVE Raised'
  <2>1. UNCHANGED inFlight
      BY <1>0, <1>6, SwapFacts
  <2>2. CASE pending
    <3>1. pass' = pass
        BY <1>0, <1>6, <2>2, SwapFacts
    <3> QED
        BY <2>1, <3>1 DEF Raised
  <2>3. CASE ~pending
    <3>1. /\ pass'[c] = [pc |-> "lock", force |-> FALSE, ns |-> click[c].ns]
          /\ \A p \in Clicks : p # c => pass'[p] = pass[p]
        BY <1>0, <1>6, <2>3, SwapFacts
    <3>2. pass'[c].pc = "lock"
        BY <3>1
    <3> QED
        BY <2>1, <3>1, <3>2 DEF Raised
  <2> QED
      BY <2>2, <2>3
<1>7. ASSUME NEW c \in Clicks, Lock(c) PROVE Raised'
    BY <1>0, <1>7, RunFacts DEF Lock, queue, flag, Raised, ClickPcs, PassPcs
<1>8. ASSUME NEW c \in Clicks, ReleaseSlot(c) PROVE Raised'
    BY <1>0, <1>8, RunFacts DEF ReleaseSlot, queue, flag, Raised, ClickPcs, PassPcs
<1>9. ASSUME NEW c \in Clicks, ConsumeForce(c) PROVE Raised'
    BY <1>0, <1>9, ConsumeForceFacts DEF Raised, ClickPcs, PassPcs
<1>10. ASSUME NEW c \in Clicks, ConsumeTarget(c) PROVE Raised'
    BY <1>0, <1>10, ConsumeTargetFacts DEF Raised, ClickPcs, PassPcs
<1>11. ASSUME NEW c \in Clicks, Reassert(c) PROVE Raised'
    BY <1>0, <1>11, RunFacts DEF Reassert, queue, flag, Raised, ClickPcs, PassPcs
<1>12. ASSUME NEW c \in Clicks, ReassertSwap(c) PROVE Raised'
    BY <1>0, <1>12, RunFacts DEF ReassertSwap, queue, flag, Raised, ClickPcs, PassPcs
<1>13. ASSUME NEW c \in Clicks, ReassertCast(c) PROVE Raised'
    BY <1>0, <1>13, RunFacts DEF ReassertCast, queue, flag, Raised, ClickPcs, PassPcs
<1>14. ASSUME NEW c \in Clicks, Work(c) PROVE Raised'
    BY <1>0, <1>14, RunFacts DEF Work, queue, flag, Raised, ClickPcs, PassPcs
<1>15. ASSUME NEW c \in Clicks, Lower(c) PROVE Raised'
    BY <1>0, <1>15, RunFacts DEF Lower, queue, flag, Raised, ClickPcs, PassPcs
<1>16. ASSUME NEW c \in Clicks, LowerSwap(c) PROVE Raised'
  <2>1. pass[c].pc = "lower"
        /\ \A p \in Clicks : p # c => pass'[p].pc = pass[p].pc
      BY <1>0, <1>16, RunFacts DEF LowerSwap, PassPcs
  <2>2. pass'[c].pc \in {"uncast", "unlock"}
      BY <1>0, <1>16, RunFacts DEF LowerSwap, PassPcs
  <2>3. \A p \in Clicks : pass[p].pc \in {"cast", "work"} => p = c
      BY <2>1 DEF IInv, Holding
  <2> QED
      BY <2>1, <2>2, <2>3 DEF Raised
<1>17. ASSUME NEW c \in Clicks, LowerCast(c) PROVE Raised'
    BY <1>0, <1>17, RunFacts DEF LowerCast, queue, flag, Raised, ClickPcs, PassPcs
<1>18. ASSUME NEW c \in Clicks, Unlock(c) PROVE Raised'
    BY <1>0, <1>18, RunFacts DEF Unlock, queue, flag, Raised, ClickPcs, PassPcs
<1>19. CASE Move
    BY <1>0, <1>19 DEF Move, queue, flag, Raised, ClickPcs, PassPcs
<1>20. CASE UNCHANGED vars
    BY <1>0, <1>20 DEF vars, queue, flag, Raised, ClickPcs, PassPcs
<1> QED
    BY <1>1, <1>2, <1>3, <1>4, <1>5, <1>6, <1>7, <1>8, <1>9, <1>10, <1>11, <1>12, <1>13, <1>14, <1>15, <1>16, <1>17, <1>18, <1>19, <1>20 DEF Next, ClickStep, PassStep

\* What is proved about the queue rests on this.
LEMMA Inductive == Apart => (Spec => []IInv)
<1> SUFFICES ASSUME Apart PROVE Spec => []IInv
    OBVIOUS
<1>1. IInv /\ [Next]_vars => IInv'
    BY TypeStep, QueueStep, OnceStep, ForceStep DEF IInv
<1> QED
    BY InitOK, <1>1, PTL DEF Spec

\* Every reachable state of the queue, the flag and the goroutines is well formed
\* (updateAndStartAsync).
THEOREM TypeCorrect == Apart => (Spec => []UpdateTypeOK)
<1> SUFFICES ASSUME Apart PROVE Spec => []UpdateTypeOK
    OBVIOUS
<1>1. IInv => UpdateTypeOK
    BY DEF IInv
<1> QED
    BY Inductive, <1>1, PTL

\* At most one pass is queued behind reloadMu, and the flag pendingStart tells
\* which clicks may fold, however clicks and passes interleave.
THEOREM OnePassQueued == Apart => (Spec => []OneQueued)
<1> SUFFICES ASSUME Apart PROVE Spec => []OneQueued
    OBVIOUS
<1>1. IInv => OneQueued
    BY DEF IInv
<1> QED
    BY Inductive, <1>1, PTL

\* No interleaving of the compare and swap with the release of the slot strands a
\* force, as the comment of updateAndStartAsync claims of its order.
THEOREM NoForceIsStranded == Apart => (Spec => []NoStrandedForce)
<1> SUFFICES ASSUME Apart PROVE Spec => []NoStrandedForce
    OBVIOUS
<1>1. Init => NoStrandedForce
    BY DEF Init, NoStrandedForce
<1> QED
    BY Inductive, <1>1, StrandedStep, PTL DEF Spec

\* The flag that hides a namespace behind "updating" is up while a pass works,
\* though the pass before it lowers the same flag.
THEOREM FlagIsRaised == Apart => (Spec => []RaisedWhileWorking)
<1> SUFFICES ASSUME Apart PROVE Spec => []RaisedWhileWorking
    OBVIOUS
<1>1. Init => Raised
  <2>1. ASSUME Init, NEW c \in Clicks PROVE pass[c].pc = "none"
    <3>1. pass[c] = [pc |-> "none", force |-> FALSE, ns |-> None]
        BY <2>1 DEF Init, NoPass
    <3> QED
        BY <3>1
  <2> QED
      BY <2>1 DEF Raised
<1>2. Raised => RaisedWhileWorking
    BY DEF Raised, RaisedWhileWorking
<1> QED
    BY Inductive, <1>1, <1>2, RaisedStep, PTL DEF Spec
-----------------------------------------------------------------------------
(* The refinement of ServedClicks, its safety.                             *)

\* The clicks that wait.
Waiting == UNION {mine[c] : c \in Clicks}

\* A click waits when a pass works for it, now and after a step.
LEMMA WaitingIs ==
  /\ \A d : d \in Waiting <=> \E p \in Clicks : d \in mine[p]
  /\ \A d : d \in Waiting' <=> \E p \in Clicks : d \in mine'[p]
BY DEF Waiting

\* What does not move clicks is no step of ServedClicks.
LEMMA Stutter == UNCHANGED <<mine, done>> => UNCHANGED Served!clickVars
BY DEF Served!clickVars

\* The three that do are a click or more, and a pass.
LEMMA SwapServes ==
    ASSUME IInv, NEW c \in Clicks, CompareAndSwap(c)
    PROVE  [Served!Next]_(Served!clickVars)
<1> UpdateTypeOK
    BY DEF IInv
<1>0. New(c) \subseteq Clicks /\ done' = done /\ click[c].pc = "cas"
  <2>1. New(c) \subseteq Clicks
      BY DEF New
  <2>2. done' = done /\ click[c].pc = "cas"
      BY SwapFacts
  <2> QED
      BY <2>1, <2>2
<1>1. Waiting' = Waiting \cup New(c)
  <2>1. CASE pending
    <3>1. \A p \in Clicks : mine'[p] = IF Queued(p) THEN mine[p] \cup New(c) ELSE mine[p]
        BY <1>0, <2>1, SwapFacts
    <3>2. \E p \in Clicks : Queued(p)
        BY <2>1 DEF IInv, OneQueued
    <3> QED
        BY <3>1, <3>2, WaitingIs
  <2>2. CASE ~pending
    <3>1. \A p \in Clicks : mine'[p] = IF p = c THEN New(c) ELSE mine[p]
        BY <1>0, <2>2, SwapFacts
    <3>2. mine[c] = {}
        BY <1>0 DEF IInv, ClickFirst
    <3> QED
        BY <3>1, <3>2, WaitingIs
  <2> QED
      BY <2>1, <2>2
<1>2. New(c) \cap (Waiting \cup done.served) = {}
    BY DEF New, Waiting
<1>3. CASE New(c) = {}
    BY <1>0, <1>1, <1>3 DEF Served!clickVars, Waiting
<1>4. CASE New(c) # {}
  <2>1. Served!Click(New(c))
      BY <1>0, <1>1, <1>2, <1>4 DEF Served!Click, Waiting
  <2>2. New(c) \in SUBSET Clicks
      BY <1>0
  <2>3. \E S \in SUBSET Clicks : Served!Click(S)
    <3> USE <2>2 DEF Served!Click
    <3> WITNESS New(c) \in SUBSET Clicks
    <3> QED
        BY <2>1
  <2> QED
      BY <2>3 DEF Served!Next
<1> QED
    BY <1>3, <1>4

\* A pass may take clicks that have not folded yet.
LEMMA ConsumeServes ==
    ASSUME IInv, NEW c \in Clicks, ConsumeForce(c)
    PROVE  [Served!Next]_(Served!clickVars)
<1> DEFINE S == Took \ Waiting
<1>1. done' = done
      /\ \A p \in Clicks : mine'[p] = IF p = c THEN mine[p] \cup Took ELSE mine[p] \ Took
    BY ConsumeForceFacts DEF IInv
<1>2. Waiting' = Waiting \cup S
  <2> HIDE DEF Took, Waiting
  <2>1. ASSUME NEW d, d \in Waiting' PROVE d \in Waiting \cup Took
    <3>1. PICK p \in Clicks : d \in mine'[p]
        BY <2>1, WaitingIs
    <3>2. d \in mine[p] \cup Took
        BY <1>1, <3>1
    <3> QED
        BY <3>1, <3>2, WaitingIs
  <2>2. ASSUME NEW d, d \in Waiting \cup Took PROVE d \in Waiting'
    <3>1. CASE d \in Took
        BY <1>1, <3>1, WaitingIs
    <3>2. CASE d \notin Took
        BY <1>1, <2>2, <3>2, WaitingIs
    <3> QED
        BY <3>1, <3>2
  <2> QED
      BY <2>1, <2>2
<1>3. S \subseteq Clicks /\ S \cap (Waiting \cup done.served) = {}
  <2>1. ASSUME NEW d \in Took, d \notin Waiting PROVE d \in Clicks /\ d \notin done.served
      BY <2>1, WaitingIs DEF Took, New
  <2> QED
      BY <2>1
<1>4. CASE S = {}
    BY <1>1, <1>2, <1>4 DEF Served!clickVars, Waiting
<1>5. CASE S # {}
  <2> HIDE DEF S
  <2>1. Served!Click(S)
      BY <1>1, <1>2, <1>3, <1>5 DEF Served!Click, Waiting
  <2>2. S \in SUBSET Clicks
      BY <1>3
  <2>3. \E T \in SUBSET Clicks : Served!Click(T)
    <3> USE <2>2 DEF Served!Click
    <3> WITNESS S \in SUBSET Clicks
    <3> QED
        BY <2>1
  <2> QED
      BY <2>3 DEF Served!Next
<1> QED
    BY <1>4, <1>5

\* A pass serves what it works for, by force if one of them wants it.
LEMMA WorkServes ==
    ASSUME IInv, NEW c \in Clicks, Work(c)
    PROVE  [Served!Next]_(Served!clickVars)
<1>0. /\ mine \in [Clicks -> SUBSET Clicks] /\ done \in [served : SUBSET Clicks, forced : SUBSET Clicks]
      /\ pass \in [Clicks -> PassStates]
    BY DEF IInv, UpdateTypeOK
<1>1. /\ pass[c].pc = "work" /\ pass[c].force \in BOOLEAN
      /\ done' = [served |-> done.served \cup mine[c],
                  forced |-> IF pass[c].force THEN done.forced \cup mine[c] ELSE done.forced]
      /\ mine' = [mine EXCEPT ![c] = {}]
    BY <1>0 DEF Work, PassStates
<1>2. Waiting' = Waiting \ mine[c] /\ mine[c] \subseteq Waiting
  <2>1. \A p \in Clicks : mine'[p] = IF p = c THEN {} ELSE mine[p]
      BY <1>0, <1>1
  <2>2. \A p \in Clicks : p # c => mine[p] \cap mine[c] = {}
      BY DEF IInv, WorkedForOnce
  <2> QED
      BY <2>1, <2>2 DEF Waiting
<1>3. mine[c] \cap Forced # {} => pass[c].force
    BY <1>1 DEF IInv, ForceKept
<1>4. done'.served = done.served \cup mine[c]
      /\ done'.forced = IF pass[c].force THEN done.forced \cup mine[c] ELSE done.forced
    BY <1>1
<1>5. CASE mine[c] = {}
    BY <1>2, <1>4, <1>5 DEF Served!clickVars, Waiting
<1>6. CASE mine[c] # {}
  <2>1. Served!Pass(mine[c], pass[c].force)
      BY <1>2, <1>3, <1>4, <1>6 DEF Served!Pass, Waiting
  <2>2. mine[c] \in SUBSET Waiting /\ pass[c].force \in BOOLEAN
      BY <1>1, <1>2
  <2>3. \E T \in SUBSET Waiting, f \in BOOLEAN : Served!Pass(T, f)
    <3> USE <2>2 DEF Served!Pass
    <3> WITNESS mine[c] \in SUBSET Waiting, pass[c].force \in BOOLEAN
    <3> QED
        BY <2>1
  <2> QED
      BY <2>3 DEF Served!Next, Waiting
<1> QED
    BY <1>5, <1>6

\* Every step of the clicks and the passes is one of ServedClicks: no click is lost
\* in the fold, none is served twice, and no forced one by a pass that is not.
THEOREM ServesSafely == Apart => (Spec => Served!Init /\ [][Served!Next]_(Served!clickVars))
<1> SUFFICES ASSUME Apart PROVE Spec => Served!Init /\ [][Served!Next]_(Served!clickVars)
    OBVIOUS
<1>1. Init => Served!Init
    BY DEF Init, Served!Init
<1>2. IInv /\ [Next]_vars => [Served!Next]_(Served!clickVars)
  <2> SUFFICES ASSUME IInv, [Next]_vars PROVE [Served!Next]_(Served!clickVars)
      OBVIOUS
  <2>1. ASSUME NEW c \in Clicks, ClickStep(c) \/ PassStep(c) \/ HandleStartNamespace(c)
        PROVE  \/ CompareAndSwap(c) \/ ConsumeForce(c) \/ Work(c) \/ UNCHANGED <<mine, done>>
      BY <2>1 DEF ClickStep, PassStep, HandleStartNamespace, ClickSwap, ClickCast, RecordForce,
                  RecordTarget, Lock, ReleaseSlot, ConsumeTarget, Reassert, ReassertSwap, ReassertCast,
                  Lower, LowerSwap, LowerCast, Unlock
  <2>2. Move \/ UNCHANGED vars => UNCHANGED <<mine, done>>
      BY DEF Move, vars
  <2> QED
      BY <2>1, <2>2, Stutter, SwapServes, ConsumeServes, WorkServes DEF Next
<1> QED
    BY Inductive, <1>1, <1>2, PTL DEF Spec

-----------------------------------------------------------------------------
(* The daemon as it is installed, replaced and ended.                      *)

\* Nobody's name is the absence of a file, or a file nobody answers on.
Unnamed == None \notin Clicks /\ Dead \notin Clicks /\ None # Dead

DaemonPcs == {"gone", "guard", "boot", "run", "up", "detach", "stop"}
Working == {"backup", "stop", "wait", "kill", "sigkill", "copy", "start"}
CliPcs == Working \cup {"idle", "forked", "complete", "failed"}
BinVersions == I!Versions \cup {0}

ProcType == [Clicks -> [pc : DaemonPcs, ver : BinVersions, posted : BOOLEAN]]
CliType == [pc : CliPcs, ver : BinVersions, rollback : BOOLEAN]
InstallTypeOK ==
  /\ proc \in ProcType
  /\ cli \in CliType
  /\ target \in BinVersions /\ bak \in BinVersions \cup {None}
  /\ sock \in Clicks \cup {None, Dead} /\ main \in Clicks \cup {None}
  /\ restart \in BOOLEAN /\ dropIn \in BOOLEAN /\ platform \in BOOLEAN /\ asked \in BOOLEAN
  /\ root = TRUE

\* The file of the socket is that of the daemon that has come up, of whom there
\* is one.
SockIsHis == \A p \in Clicks : I!Is(p, {"up", "detach", "stop"}) <=> sock = p

\* One daemon comes up at a time: it is the service's or there is none, nobody
\* else is due, and past the guard nobody listens.
Coming(p) == I!Is(p, {"guard", "boot", "run"})
ComesAlone ==
  \A p \in Clicks :
    /\ Coming(p) => ~restart /\ main \in {None, p} /\ \A q \in Clicks : Coming(q) => q = p
    /\ I!Is(p, {"boot", "run"}) => sock = None

\* systemd knows of a process as long as it lives.
MainLives == /\ main # None => I!Alive(main)
             /\ unit = "none" => main = None /\ ~restart

\* The installer works while no daemon comes up, and replaces a binary that
\* nobody runs; systemd restarts nothing that it kills.
InstallerOK ==
  /\ cli.pc \in Working => ~restart /\ \A p \in Clicks : ~Coming(p)
  /\ cli.pc \in {"copy", "start"} => \A p \in Clicks : ~I!Alive(p)
  /\ cli.pc = "sigkill" => (dropIn <=> unit # "none")

\* Hence what runs is what is installed: the binary answers for the daemon.
RunsWhatIsThere == \A p \in Clicks : I!Alive(p) => proc[p].ver = target

\* Only the operator's stop takes the containers along.
StopIsAsked == \A p \in Clicks : I!Is(p, {"stop"}) => asked

InstallInv ==
  /\ InstallTypeOK /\ SockIsHis /\ ComesAlone /\ MainLives /\ InstallerOK
  /\ RunsWhatIsThere /\ StopIsAsked /\ I!PlatformKept

\* A daemon goes on to something else.
LEMMA ToFacts ==
    ASSUME proc \in ProcType, NEW p \in Clicks, NEW pc \in DaemonPcs, I!To(p, pc)
    PROVE  /\ proc' \in ProcType
           /\ \A q \in Clicks : /\ proc'[q].pc = (IF q = p THEN pc ELSE proc[q].pc)
                                /\ proc'[q].ver = proc[q].ver /\ proc'[q].posted = proc[q].posted
BY DEF I!To, ProcType

\* A daemon ends.
LEMMA GoneFacts ==
    ASSUME proc \in ProcType, NEW p \in Clicks, proc' = [proc EXCEPT ![p] = I!Gone]
    PROVE  /\ proc' \in ProcType
           /\ \A q \in Clicks : /\ proc'[q].pc = (IF q = p THEN "gone" ELSE proc[q].pc)
                                /\ q # p => proc'[q].ver = proc[q].ver
<1>1. I!Gone \in [pc : DaemonPcs, ver : BinVersions, posted : BOOLEAN] /\ I!Gone.pc = "gone"
    BY DEF I!Gone, DaemonPcs, BinVersions
<1> QED
    BY <1>1 DEF ProcType

\* A daemon begins.
LEMMA ForkFacts ==
    ASSUME proc \in ProcType, target \in BinVersions, NEW p \in Clicks, I!Fork(p)
    PROVE  /\ proc' \in ProcType /\ proc[p].pc = "gone"
           /\ \A q \in Clicks : /\ proc'[q].pc = (IF q = p THEN "guard" ELSE proc[q].pc)
                                /\ proc'[q].ver = (IF q = p THEN target ELSE proc[q].ver)
BY DEF I!Fork, I!Spawned, I!Alive, I!Is, ProcType, DaemonPcs

\* The installer goes on to something else.
LEMMA StepFacts ==
    ASSUME cli \in CliType, NEW pc \in CliPcs, I!Step(pc)
    PROVE  cli' \in CliType /\ cli'.pc = pc /\ cli'.ver = cli.ver /\ cli'.rollback = cli.rollback
BY DEF I!Step, CliType


\* Where no daemon answers and none comes up, none lives.
LEMMA NobodyLives ==
    ASSUME InstallInv, ~I!Listening, \A p \in Clicks : ~Coming(p)
    PROVE  main = None /\ \A p \in Clicks : proc[p].pc = "gone"
<1> USE DEF InstallInv, InstallTypeOK
<1>1. ASSUME NEW p \in Clicks PROVE proc[p].pc = "gone"
  <2>1. proc[p].pc \in DaemonPcs
      BY DEF ProcType
  <2> QED
      BY <2>1 DEF DaemonPcs, SockIsHis, Coming, I!Is, I!Listening
<1> QED
    BY <1>1 DEF MainLives, I!Alive, I!Is

\* Each step of a daemon, of systemd, of the operator and of the installer keeps what
\* holds: first its effect, then what it leaves of each part of the invariant.
LEMMA GuardInv == ASSUME Unnamed, InstallInv, NEW p \in Clicks, I!Guard(p) PROVE InstallInv'
<1> USE DEF InstallInv, InstallTypeOK
<1>1. proc[p].pc = "guard" /\ UNCHANGED <<target, bak, unit, root, dropIn, cli, platform, stopped, asked>>
    BY DEF I!Guard, I!files, I!ghosts, I!Is
<1>2. CASE I!Listening
  <2>1. proc' = [proc EXCEPT ![p] = I!Gone] /\ I!Exited(p, TRUE) /\ UNCHANGED sock
      BY <1>2 DEF I!Guard
  <2>2. /\ proc' \in ProcType
        /\ \A q \in Clicks : /\ proc'[q].pc = (IF q = p THEN "gone" ELSE proc[q].pc)
                             /\ q # p => proc'[q].ver = proc[q].ver
      BY <2>1, GoneFacts
  <2>3. InstallTypeOK'
      BY <1>1, <2>1, <2>2 DEF BinVersions, I!Exited
  <2>4. SockIsHis' /\ ComesAlone'
      BY <1>1, <2>1, <2>2 DEF SockIsHis, ComesAlone, Coming, I!Is, I!Exited
  <2>5. MainLives'
      BY <1>1, <2>1, <2>2 DEF Unnamed, MainLives, I!Alive, I!Is, I!Exited
  <2>6. InstallerOK'
      BY <1>1, <2>1, <2>2 DEF InstallerOK, Coming, Working, I!Alive, I!Is, I!Exited
  <2>7. RunsWhatIsThere' /\ StopIsAsked' /\ I!PlatformKept'
      BY <1>1, <2>1, <2>2 DEF RunsWhatIsThere, StopIsAsked, I!PlatformKept, I!Alive, I!Is, I!Exited
  <2> QED
      BY <2>3, <2>4, <2>5, <2>6, <2>7
<1>3. CASE ~I!Listening
  <2>1. I!To(p, "boot") /\ sock' = None /\ UNCHANGED <<main, restart>>
      BY <1>3 DEF I!Guard
  <2>2. /\ proc' \in ProcType
        /\ \A q \in Clicks : /\ proc'[q].pc = (IF q = p THEN "boot" ELSE proc[q].pc)
                             /\ proc'[q].ver = proc[q].ver /\ proc'[q].posted = proc[q].posted
      BY <2>1, ToFacts DEF DaemonPcs
  <2>3. InstallTypeOK'
      BY <1>1, <1>3, <2>1, <2>2 DEF BinVersions, Unnamed, I!Listening
  <2>4. SockIsHis' /\ ComesAlone'
      BY <1>1, <1>3, <2>1, <2>2 DEF SockIsHis, ComesAlone, Coming, I!Is, Unnamed, I!Listening
  <2>5. MainLives'
      BY <1>1, <1>3, <2>1, <2>2 DEF Unnamed, MainLives, I!Alive, I!Is, Unnamed, I!Listening
  <2>6. InstallerOK'
      BY <1>1, <1>3, <2>1, <2>2
         DEF InstallerOK, Coming, Working, I!Alive, I!Is, Unnamed, I!Listening
  <2>7. RunsWhatIsThere' /\ StopIsAsked' /\ I!PlatformKept'
      BY <1>1, <1>3, <2>1, <2>2
         DEF RunsWhatIsThere, StopIsAsked, I!PlatformKept, I!Alive, I!Is, Unnamed, I!Listening
  <2> QED
      BY <2>3, <2>4, <2>5, <2>6, <2>7
<1> QED
    BY <1>2, <1>3

LEMMA StartRuntimeInv ==
    ASSUME Unnamed, InstallInv, NEW p \in Clicks, I!StartRuntime(p) PROVE InstallInv'
<1> USE DEF InstallInv, InstallTypeOK
<1>1. /\ proc[p].pc = "boot" /\ I!To(p, "run") /\ platform' = (platform \/ ~stopped)
      /\ UNCHANGED <<target, bak, unit, root, dropIn, cli, stopped, asked, sock, main, restart>>
    BY DEF I!StartRuntime, I!files, I!ghosts, I!Is
<1>2. /\ proc' \in ProcType
      /\ \A q \in Clicks : /\ proc'[q].pc = (IF q = p THEN "run" ELSE proc[q].pc)
                           /\ proc'[q].ver = proc[q].ver /\ proc'[q].posted = proc[q].posted
    BY <1>1, ToFacts DEF DaemonPcs
<1>3. platform \in BOOLEAN /\ stopped \in BOOLEAN => platform' \in BOOLEAN
    BY <1>1
<1>4. InstallTypeOK'
    BY <1>1, <1>2 DEF BinVersions
<1>5. SockIsHis' /\ ComesAlone'
    BY <1>1, <1>2 DEF SockIsHis, ComesAlone, Coming, I!Is
<1>6. MainLives'
    BY <1>1, <1>2 DEF Unnamed, MainLives, I!Alive, I!Is
<1>7. InstallerOK'
    BY <1>1, <1>2 DEF InstallerOK, Coming, Working, I!Alive, I!Is
<1>8. RunsWhatIsThere' /\ StopIsAsked' /\ I!PlatformKept'
    BY <1>1, <1>2 DEF RunsWhatIsThere, StopIsAsked, I!PlatformKept, I!Alive, I!Is
<1> QED
    BY <1>4, <1>5, <1>6, <1>7, <1>8

LEMMA InitUnixServerInv ==
    ASSUME Unnamed, InstallInv, NEW p \in Clicks, I!InitUnixServer(p) PROVE InstallInv'
<1> USE DEF InstallInv, InstallTypeOK
<1>1. proc[p].pc = "run" /\ sock = None
    BY DEF I!InitUnixServer, I!Is, ComesAlone
<1>2. /\ I!To(p, "up") /\ sock' = p
      /\ UNCHANGED <<target, bak, unit, root, dropIn, cli, platform, stopped, asked, main, restart>>
    BY <1>1 DEF I!InitUnixServer, I!files, I!ghosts
<1>3. /\ proc' \in ProcType
      /\ \A q \in Clicks : /\ proc'[q].pc = (IF q = p THEN "up" ELSE proc[q].pc)
                           /\ proc'[q].ver = proc[q].ver /\ proc'[q].posted = proc[q].posted
    BY <1>2, ToFacts DEF DaemonPcs
<1>4. InstallTypeOK'
    BY <1>1, <1>2, <1>3 DEF BinVersions, Unnamed
<1>5. SockIsHis' /\ ComesAlone'
    BY <1>1, <1>2, <1>3 DEF SockIsHis, ComesAlone, Coming, I!Is, Unnamed
<1>6. MainLives'
    BY <1>1, <1>2, <1>3 DEF Unnamed, MainLives, I!Alive, I!Is
<1>7. InstallerOK'
    BY <1>1, <1>2, <1>3 DEF InstallerOK, Coming, Working, I!Alive, I!Is, Unnamed
<1>8. RunsWhatIsThere' /\ StopIsAsked' /\ I!PlatformKept'
    BY <1>1, <1>2, <1>3 DEF RunsWhatIsThere, StopIsAsked, I!PlatformKept, I!Alive, I!Is, Unnamed
<1> QED
    BY <1>4, <1>5, <1>6, <1>7, <1>8

LEMMA DetachInv == ASSUME Unnamed, InstallInv, NEW p \in Clicks, I!Detach(p) PROVE InstallInv'
<1> USE DEF InstallInv, InstallTypeOK
<1>1. /\ proc[p].pc = "up" /\ I!To(p, "detach") /\ UNCHANGED <<sock, main, restart>>
      /\ UNCHANGED <<target, bak, unit, root, dropIn, cli, platform, stopped, asked>>
    BY DEF I!Detach, I!files, I!ghosts, I!Is
<1>2. /\ proc' \in ProcType
      /\ \A q \in Clicks : /\ proc'[q].pc = (IF q = p THEN "detach" ELSE proc[q].pc)
                           /\ proc'[q].ver = proc[q].ver /\ proc'[q].posted = proc[q].posted
    BY <1>1, ToFacts DEF DaemonPcs
<1>3. InstallTypeOK'
    BY <1>1, <1>2 DEF BinVersions
<1>4. SockIsHis' /\ ComesAlone'
    BY <1>1, <1>2 DEF SockIsHis, ComesAlone, Coming, I!Is
<1>5. MainLives'
    BY <1>1, <1>2 DEF Unnamed, MainLives, I!Alive, I!Is
<1>6. InstallerOK'
    BY <1>1, <1>2 DEF InstallerOK, Coming, Working, I!Alive, I!Is
<1>7. RunsWhatIsThere' /\ StopIsAsked' /\ I!PlatformKept'
    BY <1>1, <1>2 DEF RunsWhatIsThere, StopIsAsked, I!PlatformKept, I!Alive, I!Is
<1> QED
    BY <1>3, <1>4, <1>5, <1>6, <1>7

LEMMA ShutdownEndsInv ==
    ASSUME Unnamed, InstallInv, NEW p \in Clicks, I!ShutdownEnds(p) PROVE InstallInv'
<1> USE DEF InstallInv, InstallTypeOK
<1>1. /\ proc[p].pc \in {"detach", "stop"} /\ proc' = [proc EXCEPT ![p] = I!Gone]
      /\ sock' = None /\ I!Exited(p, FALSE) /\ platform' = (platform /\ proc[p].pc = "detach")
      /\ UNCHANGED <<target, bak, unit, root, dropIn, cli, asked>>
    BY DEF I!ShutdownEnds, I!files, I!ghosts, I!Is
<1>2. /\ proc' \in ProcType
      /\ \A q \in Clicks : /\ proc'[q].pc = (IF q = p THEN "gone" ELSE proc[q].pc)
                           /\ q # p => proc'[q].ver = proc[q].ver
    BY <1>1, GoneFacts
<1>3. sock = p
    BY <1>1 DEF SockIsHis, I!Is
<1>4. InstallTypeOK'
    BY <1>1, <1>2, <1>3 DEF BinVersions, I!Exited, Unnamed
<1>5. SockIsHis' /\ ComesAlone'
    BY <1>1, <1>2, <1>3 DEF SockIsHis, ComesAlone, Coming, I!Is, I!Exited, Unnamed
<1>6. MainLives'
    BY <1>1, <1>2, <1>3 DEF Unnamed, MainLives, I!Alive, I!Is, I!Exited
<1>7. InstallerOK'
    BY <1>1, <1>2, <1>3 DEF InstallerOK, Coming, Working, I!Alive, I!Is, I!Exited, Unnamed
<1>8. RunsWhatIsThere' /\ StopIsAsked' /\ I!PlatformKept'
    BY <1>1, <1>2, <1>3
       DEF RunsWhatIsThere, StopIsAsked, I!PlatformKept, I!Alive, I!Is, I!Exited, Unnamed
<1> QED
    BY <1>4, <1>5, <1>6, <1>7, <1>8

LEMMA CrashInv ==
    ASSUME Unnamed, InstallInv, InstallFaults = {}, NEW p \in Clicks, I!Crash(p)
    PROVE  InstallInv'
<1> USE DEF InstallInv, InstallTypeOK
<1>1. /\ proc[p].pc \in {"boot", "run", "up"} /\ proc' = [proc EXCEPT ![p] = I!Gone]
      /\ sock' = (IF sock = p THEN Dead ELSE sock) /\ I!Exited(p, TRUE) /\ cli.pc \notin Working
      /\ UNCHANGED <<target, bak, unit, root, dropIn, cli, platform, stopped, asked>>
    BY DEF I!Crash, I!files, I!ghosts, I!Is, I!Idle, I!Allowed, Working
<1>2. /\ proc' \in ProcType
      /\ \A q \in Clicks : /\ proc'[q].pc = (IF q = p THEN "gone" ELSE proc[q].pc)
                           /\ q # p => proc'[q].ver = proc[q].ver
    BY <1>1, GoneFacts
<1>3. InstallTypeOK'
    BY <1>1, <1>2 DEF BinVersions, I!Exited, Unnamed
<1>4. SockIsHis' /\ ComesAlone'
    BY <1>1, <1>2 DEF SockIsHis, ComesAlone, Coming, I!Is, I!Exited, Unnamed
<1>5. MainLives'
    BY <1>1, <1>2 DEF Unnamed, MainLives, I!Alive, I!Is, I!Exited
<1>6. InstallerOK'
    BY <1>1, <1>2 DEF InstallerOK, Coming, Working, I!Alive, I!Is, I!Exited, Unnamed
<1>7. RunsWhatIsThere' /\ StopIsAsked' /\ I!PlatformKept'
    BY <1>1, <1>2 DEF RunsWhatIsThere, StopIsAsked, I!PlatformKept, I!Alive, I!Is, I!Exited, Unnamed
<1> QED
    BY <1>3, <1>4, <1>5, <1>6, <1>7

LEMMA RestartInv == ASSUME Unnamed, InstallInv, I!Restart PROVE InstallInv'
<1> USE DEF InstallInv, InstallTypeOK
<1>1. PICK p \in Clicks : I!Fork(p) /\ main' = p
    BY DEF I!Restart
<1>2. /\ restart /\ restart' = FALSE /\ UNCHANGED sock
      /\ UNCHANGED <<target, bak, unit, root, dropIn, cli, platform, stopped, asked>>
    BY DEF I!Restart, I!files, I!ghosts
<1>3. /\ proc' \in ProcType /\ proc[p].pc = "gone"
      /\ \A q \in Clicks : /\ proc'[q].pc = (IF q = p THEN "guard" ELSE proc[q].pc)
                           /\ proc'[q].ver = (IF q = p THEN target ELSE proc[q].ver)
    BY <1>1, ForkFacts
<1>4. unit # "none" /\ cli.pc \notin Working /\ \A q \in Clicks : ~Coming(q)
    BY <1>2 DEF MainLives, InstallerOK, ComesAlone
<1>5. InstallTypeOK'
    BY <1>1, <1>2, <1>3, <1>4 DEF BinVersions, Unnamed
<1>6. SockIsHis' /\ ComesAlone'
    BY <1>1, <1>2, <1>3, <1>4 DEF SockIsHis, ComesAlone, Coming, I!Is, Unnamed
<1>7. MainLives'
    BY <1>1, <1>2, <1>3, <1>4 DEF Unnamed, MainLives, I!Alive, I!Is
<1>8. InstallerOK'
    BY <1>1, <1>2, <1>3, <1>4 DEF InstallerOK, Coming, Working, I!Alive, I!Is, Unnamed
<1>9. RunsWhatIsThere' /\ StopIsAsked' /\ I!PlatformKept'
    BY <1>1, <1>2, <1>3, <1>4
       DEF RunsWhatIsThere, StopIsAsked, I!PlatformKept, I!Alive, I!Is, Unnamed
<1> QED
    BY <1>5, <1>6, <1>7, <1>8, <1>9

\* The operator comes when nothing else is under way.
LEMMA VisitFacts ==
    ASSUME InstallInv, InstallFaults = {}, I!Visit
    PROVE  ~restart /\ cli.pc \notin Working /\ \A p \in Clicks : ~Coming(p)
BY DEF I!Visit, I!Idle, I!Settled, I!Allowed, Working, Coming, I!Is

\* systemd or the operator starts a daemon where there is none.
LEMMA ForkInv ==
    ASSUME Unnamed, InstallInv, NEW p \in Clicks, I!Fork(p), main' \in {main, p},
           main' = p => unit # "none", restart' = FALSE \/ restart' = restart,
           ~I!Listening, \A q \in Clicks : ~Coming(q), cli' \in CliType, cli'.pc \notin Working,
           ~restart, UNCHANGED <<target, bak, unit, root, sock, platform, asked>>, dropIn' \in BOOLEAN
    PROVE  InstallInv'
<1> USE DEF InstallInv, InstallTypeOK
<1>1. /\ proc' \in ProcType /\ proc[p].pc = "gone"
      /\ \A q \in Clicks : /\ proc'[q].pc = (IF q = p THEN "guard" ELSE proc[q].pc)
                           /\ proc'[q].ver = (IF q = p THEN target ELSE proc[q].ver)
    BY ForkFacts
<1>2. main = None /\ \A q \in Clicks : proc[q].pc = "gone"
    BY NobodyLives
<1>3. InstallTypeOK'
    BY <1>1, <1>2 DEF BinVersions, Unnamed, I!Listening
<1>4. SockIsHis' /\ ComesAlone'
    BY <1>1, <1>2 DEF SockIsHis, ComesAlone, Coming, I!Is, Unnamed, I!Listening
<1>5. MainLives'
    BY <1>1, <1>2 DEF Unnamed, MainLives, I!Alive, I!Is, Unnamed, I!Listening
<1>6. InstallerOK'
    BY <1>1, <1>2 DEF InstallerOK, Coming, Working, I!Alive, I!Is, Unnamed, I!Listening
<1>7. RunsWhatIsThere' /\ StopIsAsked' /\ I!PlatformKept'
    BY <1>1, <1>2
       DEF RunsWhatIsThere, StopIsAsked, I!PlatformKept, I!Alive, I!Is, Unnamed, I!Listening
<1> QED
    BY <1>3, <1>4, <1>5, <1>6, <1>7

\* Nothing of the daemons changes, and the installer does no work.
LEMMA RestInv ==
    ASSUME Unnamed, InstallInv, UNCHANGED <<proc, sock, main, restart, target, unit, root, dropIn>>,
           cli' \in CliType, cli'.pc \notin Working, platform' \in BOOLEAN, asked' \in BOOLEAN,
           bak' = bak, platform' \/ asked',
           ~asked' => asked' = asked \/ \A p \in Clicks : ~I!Is(p, {"stop"})
    PROVE  InstallInv'
<1> USE DEF InstallInv, InstallTypeOK
<1>1. InstallTypeOK'
    BY DEF BinVersions
<1>2. SockIsHis' /\ ComesAlone'
    BY DEF SockIsHis, ComesAlone, Coming, I!Is
<1>3. MainLives'
    BY DEF Unnamed, MainLives, I!Alive, I!Is
<1>4. InstallerOK'
    BY DEF InstallerOK, Coming, Working, I!Alive, I!Is
<1>5. RunsWhatIsThere' /\ StopIsAsked' /\ I!PlatformKept'
    BY DEF RunsWhatIsThere, StopIsAsked, I!PlatformKept, I!Alive, I!Is
<1> QED
    BY <1>1, <1>2, <1>3, <1>4, <1>5

LEMMA CiteckStartInv ==
    ASSUME Unnamed, InstallInv, InstallFaults = {}, I!CiteckStart PROVE InstallInv'
<1> USE DEF InstallInv, InstallTypeOK
<1>1. /\ ~restart /\ cli.pc \notin Working /\ \A p \in Clicks : ~Coming(p)
      /\ UNCHANGED <<sock, target, bak, unit, root, dropIn>>
    BY VisitFacts DEF I!CiteckStart, I!files
<1>2. cli' \in CliType /\ cli'.pc = "idle" /\ cli'.pc \notin Working
    BY DEF I!CiteckStart, I!NoInstaller, CliType, CliPcs, Working
<1>3. CASE I!Listening
  <2>1. /\ I!Is(sock, {"up"}) /\ platform' = TRUE /\ asked' = FALSE
        /\ UNCHANGED <<proc, main, restart>>
      BY <1>3 DEF I!CiteckStart
  <2>2. \A p \in Clicks : ~I!Is(p, {"stop"})
      BY <1>3, <2>1 DEF SockIsHis, I!Is, I!Listening
  <2> QED
      BY <1>1, <1>2, <2>1, <2>2, RestInv
<1>4. CASE ~I!Listening
  <2>1. /\ \/ unit # "none" /\ I!SystemctlStart
           \/ (\E p \in Clicks : I!Fork(p)) /\ UNCHANGED <<main, restart>>
        /\ UNCHANGED <<platform, asked>>
      BY <1>4 DEF I!CiteckStart
  <2>2. main = None
      BY <1>1, <1>4, NobodyLives
  <2>3. PICK p \in Clicks : /\ I!Fork(p) /\ main' \in {main, p} /\ (main' = p => unit # "none")
                            /\ restart' = FALSE \/ restart' = restart
      BY <2>1, <2>2 DEF I!SystemctlStart, Unnamed
  <2> QED
      BY <1>1, <1>2, <1>4, <2>1, <2>3, ForkInv
<1> QED
    BY <1>3, <1>4

LEMMA CiteckStopInv ==
    ASSUME Unnamed, InstallInv, InstallFaults = {}, I!CiteckStop PROVE InstallInv'
<1> USE DEF InstallInv, InstallTypeOK
<1>1. /\ sock \in Clicks /\ proc[sock].pc = "up" /\ I!To(sock, "stop") /\ asked' = TRUE
      /\ UNCHANGED <<sock, main, restart, target, bak, unit, root, dropIn, platform>>
    BY DEF I!CiteckStop, I!files, I!Listening, I!Is
<1>2. /\ proc' \in ProcType
      /\ \A q \in Clicks : /\ proc'[q].pc = (IF q = sock THEN "stop" ELSE proc[q].pc)
                           /\ proc'[q].ver = proc[q].ver /\ proc'[q].posted = proc[q].posted
    BY <1>1, ToFacts DEF DaemonPcs
<1>3. ~restart /\ cli.pc \notin Working /\ \A p \in Clicks : ~Coming(p)
    BY VisitFacts DEF I!CiteckStop
<1>4. cli' \in CliType /\ cli'.pc = "idle"
    BY DEF I!CiteckStop, I!NoInstaller, CliType, CliPcs
<1>5. InstallTypeOK'
    BY <1>1, <1>2, <1>3, <1>4 DEF BinVersions
<1>6. SockIsHis' /\ ComesAlone'
    BY <1>1, <1>2, <1>3, <1>4 DEF SockIsHis, ComesAlone, Coming, I!Is
<1>7. MainLives'
    BY <1>1, <1>2, <1>3, <1>4 DEF Unnamed, MainLives, I!Alive, I!Is
<1>8. InstallerOK'
    BY <1>1, <1>2, <1>3, <1>4 DEF InstallerOK, Coming, Working, I!Alive, I!Is
<1>9. RunsWhatIsThere' /\ StopIsAsked' /\ I!PlatformKept'
    BY <1>1, <1>2, <1>3, <1>4 DEF RunsWhatIsThere, StopIsAsked, I!PlatformKept, I!Alive, I!Is
<1> QED
    BY <1>5, <1>6, <1>7, <1>8, <1>9

LEMMA SystemctlRestartInv ==
    ASSUME Unnamed, InstallInv, InstallFaults = {}, I!SystemctlRestart PROVE InstallInv'
<1> USE DEF InstallInv, InstallTypeOK
<1>1. ~restart /\ cli.pc \notin Working /\ \A q \in Clicks : ~Coming(q)
    BY VisitFacts DEF I!SystemctlRestart
<1>2. /\ unit = "new" /\ main \in Clicks /\ sock = main /\ proc[main].pc = "up" /\ restart' = FALSE
      /\ UNCHANGED <<sock, target, bak, unit, root, dropIn, platform, asked>>
    BY Zenon DEF I!SystemctlRestart, I!Allowed, I!files, I!Is
<1>3. PICK p \in Clicks : /\ ~I!Alive(p) /\ main' = p
                          /\ proc' = [proc EXCEPT ![p] = I!Spawned(p), ![main].posted = TRUE,
                                                  ![main].pc = "up"]
    BY <1>2 DEF I!SystemctlRestart, I!SendsSigterm
<1>4. p # main /\ main' = p /\ proc[p].pc = "gone"
    BY <1>2, <1>3 DEF I!Alive, I!Is
<1>5. /\ proc' \in ProcType
      /\ \A q \in Clicks : /\ proc'[q].pc = (IF q = p THEN "guard" ELSE proc[q].pc)
                           /\ proc'[q].ver = (IF q = p THEN target ELSE proc[q].ver)
    BY <1>2, <1>3, <1>4 DEF I!Spawned, ProcType, DaemonPcs
<1>6. cli' \in CliType /\ cli'.pc = "idle"
    BY DEF I!SystemctlRestart, I!NoInstaller, CliType, CliPcs
<1>7. InstallTypeOK'
    BY <1>1, <1>2, <1>4, <1>5, <1>6 DEF BinVersions
<1>8. SockIsHis' /\ ComesAlone'
    BY <1>1, <1>2, <1>4, <1>5, <1>6 DEF SockIsHis, ComesAlone, Coming, I!Is
<1>9. MainLives'
    BY <1>1, <1>2, <1>4, <1>5, <1>6 DEF Unnamed, MainLives, I!Alive, I!Is
<1>10. InstallerOK'
    BY <1>1, <1>2, <1>4, <1>5, <1>6 DEF InstallerOK, Coming, Working, I!Alive, I!Is
<1>11. RunsWhatIsThere' /\ StopIsAsked' /\ I!PlatformKept'
    BY <1>1, <1>2, <1>4, <1>5, <1>6 DEF RunsWhatIsThere, StopIsAsked, I!PlatformKept, I!Alive, I!Is
<1> QED
    BY <1>7, <1>8, <1>9, <1>10, <1>11

LEMMA LifecycleUpgradeInv ==
    ASSUME Unnamed, InstallInv, InstallFaults = {}, I!LifecycleUpgrade PROVE InstallInv'
<1> USE DEF InstallInv, InstallTypeOK
<1>1. ~restart /\ \A p \in Clicks : ~Coming(p)
    BY VisitFacts DEF I!LifecycleUpgrade
<1>2. UNCHANGED <<proc, sock, main, restart, target, bak, unit, root, dropIn, platform, asked>>
    BY DEF I!LifecycleUpgrade, I!files
<1>3. cli' \in CliType /\ cli'.pc = "backup"
    BY DEF I!LifecycleUpgrade, CliType, CliPcs, Working, BinVersions, Unnamed
<1>4. InstallTypeOK'
    BY <1>1, <1>2, <1>3 DEF BinVersions
<1>5. SockIsHis' /\ ComesAlone'
    BY <1>1, <1>2, <1>3 DEF SockIsHis, ComesAlone, Coming, I!Is
<1>6. MainLives'
    BY <1>1, <1>2, <1>3 DEF Unnamed, MainLives, I!Alive, I!Is
<1>7. InstallerOK'
    BY <1>1, <1>2, <1>3 DEF InstallerOK, Coming, Working, I!Alive, I!Is
<1>8. RunsWhatIsThere' /\ StopIsAsked' /\ I!PlatformKept'
    BY <1>1, <1>2, <1>3 DEF RunsWhatIsThere, StopIsAsked, I!PlatformKept, I!Alive, I!Is
<1> QED
    BY <1>4, <1>5, <1>6, <1>7, <1>8

LEMMA RunRollbackInv ==
    ASSUME Unnamed, InstallInv, InstallFaults = {}, I!RunRollback PROVE InstallInv'
<1> USE DEF InstallInv, InstallTypeOK
<1>1. ~restart /\ \A p \in Clicks : ~Coming(p)
    BY VisitFacts DEF I!RunRollback
<1>2. UNCHANGED <<proc, sock, main, restart, target, bak, unit, root, dropIn, platform, asked>>
    BY DEF I!RunRollback, I!files
<1>3. cli' \in CliType /\ cli'.pc = "stop"
    BY DEF I!RunRollback, CliType, CliPcs, Working, BinVersions, Unnamed
<1>4. InstallTypeOK'
    BY <1>1, <1>2, <1>3 DEF BinVersions
<1>5. SockIsHis' /\ ComesAlone'
    BY <1>1, <1>2, <1>3 DEF SockIsHis, ComesAlone, Coming, I!Is
<1>6. MainLives'
    BY <1>1, <1>2, <1>3 DEF Unnamed, MainLives, I!Alive, I!Is
<1>7. InstallerOK'
    BY <1>1, <1>2, <1>3 DEF InstallerOK, Coming, Working, I!Alive, I!Is
<1>8. RunsWhatIsThere' /\ StopIsAsked' /\ I!PlatformKept'
    BY <1>1, <1>2, <1>3 DEF RunsWhatIsThere, StopIsAsked, I!PlatformKept, I!Alive, I!Is
<1> QED
    BY <1>4, <1>5, <1>6, <1>7, <1>8

LEMMA BackupInv == ASSUME Unnamed, InstallInv, I!Backup PROVE InstallInv'
<1> USE DEF InstallInv, InstallTypeOK
<1>1. /\ cli.pc = "backup" /\ I!Step("stop") /\ bak' = target
      /\ UNCHANGED <<proc, sock, main, restart, target, unit, root, dropIn, platform, asked>>
    BY DEF I!Backup, I!ghosts
<1>2. cli' \in CliType /\ cli'.pc = "stop" /\ cli'.ver = cli.ver /\ cli'.rollback = cli.rollback
    BY <1>1, StepFacts DEF CliPcs, Working
<1>3. InstallTypeOK'
    BY <1>1, <1>2 DEF BinVersions
<1>4. SockIsHis' /\ ComesAlone'
    BY <1>1, <1>2 DEF SockIsHis, ComesAlone, Coming, I!Is
<1>5. MainLives'
    BY <1>1, <1>2 DEF Unnamed, MainLives, I!Alive, I!Is
<1>6. InstallerOK'
    BY <1>1, <1>2 DEF InstallerOK, Coming, Working, I!Alive, I!Is
<1>7. RunsWhatIsThere' /\ StopIsAsked' /\ I!PlatformKept'
    BY <1>1, <1>2 DEF RunsWhatIsThere, StopIsAsked, I!PlatformKept, I!Alive, I!Is
<1> QED
    BY <1>3, <1>4, <1>5, <1>6, <1>7

LEMMA StopDaemonPreservePlatformInv ==
    ASSUME Unnamed, InstallInv, I!StopDaemonPreservePlatform PROVE InstallInv'
<1> USE DEF InstallInv, InstallTypeOK
<1>1. /\ cli.pc = "stop"
      /\ UNCHANGED <<sock, main, restart, target, bak, unit, root, dropIn, platform, asked>>
    BY DEF I!StopDaemonPreservePlatform, I!files, I!ghosts
<1>2. ~restart /\ \A p \in Clicks : ~Coming(p)
    BY <1>1 DEF InstallerOK, Working
<1>3. CASE ~I!Listening
  <2>1. I!Step("copy") /\ UNCHANGED proc
      BY <1>3 DEF I!StopDaemonPreservePlatform
  <2>2. cli' \in CliType /\ cli'.pc = "copy"
      BY <2>1, StepFacts DEF CliPcs, Working
  <2>3. \A q \in Clicks : proc[q].pc = "gone"
      BY <1>2, <1>3, NobodyLives
  <2>4. InstallTypeOK'
      BY <1>1, <1>2, <2>1, <2>2, <2>3 DEF BinVersions
  <2>5. SockIsHis' /\ ComesAlone'
      BY <1>1, <1>2, <2>1, <2>2, <2>3 DEF SockIsHis, ComesAlone, Coming, I!Is
  <2>6. MainLives'
      BY <1>1, <1>2, <2>1, <2>2, <2>3 DEF Unnamed, MainLives, I!Alive, I!Is
  <2>7. InstallerOK'
      BY <1>1, <1>2, <2>1, <2>2, <2>3 DEF InstallerOK, Coming, Working, I!Alive, I!Is
  <2>8. RunsWhatIsThere' /\ StopIsAsked' /\ I!PlatformKept'
      BY <1>1, <1>2, <2>1, <2>2, <2>3
         DEF RunsWhatIsThere, StopIsAsked, I!PlatformKept, I!Alive, I!Is
  <2> QED
      BY <2>4, <2>5, <2>6, <2>7, <2>8
<1>4. CASE I!Listening /\ I!CanDetach
  <2>1. sock \in Clicks /\ I!PostDetach(sock) /\ I!Step("wait") /\ target # 0
      BY <1>4 DEF I!StopDaemonPreservePlatform, I!Listening, I!CanDetach
  <2>2. cli' \in CliType /\ cli'.pc = "wait"
      BY <2>1, StepFacts DEF CliPcs, Working
  <2>3. proc[sock].pc \in {"up", "detach", "stop"} /\ proc[sock].ver # 0
      BY <2>1 DEF SockIsHis, RunsWhatIsThere, I!Alive, I!Is
  <2>4. /\ proc' \in ProcType
        /\ \A q \in Clicks : proc'[q].pc = proc[q].pc /\ proc'[q].ver = proc[q].ver
      BY <2>1, <2>3 DEF I!PostDetach, ProcType
  <2>5. InstallTypeOK'
      BY <1>1, <1>2, <2>1, <2>2, <2>4 DEF BinVersions
  <2>6. SockIsHis' /\ ComesAlone'
      BY <1>1, <1>2, <2>1, <2>2, <2>4 DEF SockIsHis, ComesAlone, Coming, I!Is
  <2>7. MainLives'
      BY <1>1, <1>2, <2>1, <2>2, <2>4 DEF Unnamed, MainLives, I!Alive, I!Is
  <2>8. InstallerOK'
      BY <1>1, <1>2, <2>1, <2>2, <2>4 DEF InstallerOK, Coming, Working, I!Alive, I!Is
  <2>9. RunsWhatIsThere' /\ StopIsAsked' /\ I!PlatformKept'
      BY <1>1, <1>2, <2>1, <2>2, <2>4
         DEF RunsWhatIsThere, StopIsAsked, I!PlatformKept, I!Alive, I!Is
  <2> QED
      BY <2>5, <2>6, <2>7, <2>8, <2>9
<1>5. CASE I!Listening /\ ~I!CanDetach
  <2>1. I!Step("kill") /\ UNCHANGED proc
      BY <1>5 DEF I!StopDaemonPreservePlatform
  <2>2. cli' \in CliType /\ cli'.pc = "kill"
      BY <2>1, StepFacts DEF CliPcs, Working
  <2>3. InstallTypeOK'
      BY <1>1, <1>2, <2>1, <2>2 DEF BinVersions
  <2>4. SockIsHis' /\ ComesAlone'
      BY <1>1, <1>2, <2>1, <2>2 DEF SockIsHis, ComesAlone, Coming, I!Is
  <2>5. MainLives'
      BY <1>1, <1>2, <2>1, <2>2 DEF Unnamed, MainLives, I!Alive, I!Is
  <2>6. InstallerOK'
      BY <1>1, <1>2, <2>1, <2>2 DEF InstallerOK, Coming, Working, I!Alive, I!Is
  <2>7. RunsWhatIsThere' /\ StopIsAsked' /\ I!PlatformKept'
      BY <1>1, <1>2, <2>1, <2>2 DEF RunsWhatIsThere, StopIsAsked, I!PlatformKept, I!Alive, I!Is
  <2> QED
      BY <2>3, <2>4, <2>5, <2>6, <2>7
<1> QED
    BY <1>3, <1>4, <1>5

LEMMA WaitForDaemonStopInv == ASSUME Unnamed, InstallInv, I!WaitForDaemonStop PROVE InstallInv'
<1> USE DEF InstallInv, InstallTypeOK
<1>1. /\ cli.pc = "wait"
      /\ UNCHANGED <<proc, sock, main, restart, target, bak, unit, root, dropIn, platform, asked>>
    BY DEF I!WaitForDaemonStop, I!files, I!ghosts
<1>2. ~restart /\ \A p \in Clicks : ~Coming(p)
    BY <1>1 DEF InstallerOK, Working
<1>3. CASE ~I!Listening
  <2>1. I!Step("copy")
      BY <1>3 DEF I!WaitForDaemonStop
  <2>2. cli' \in CliType /\ cli'.pc = "copy"
      BY <2>1, StepFacts DEF CliPcs, Working
  <2>3. \A q \in Clicks : proc[q].pc = "gone"
      BY <1>2, <1>3, NobodyLives
  <2>4. InstallTypeOK'
      BY <1>1, <1>2, <2>2, <2>3 DEF BinVersions
  <2>5. SockIsHis' /\ ComesAlone'
      BY <1>1, <1>2, <2>2, <2>3 DEF SockIsHis, ComesAlone, Coming, I!Is
  <2>6. MainLives'
      BY <1>1, <1>2, <2>2, <2>3 DEF Unnamed, MainLives, I!Alive, I!Is
  <2>7. InstallerOK'
      BY <1>1, <1>2, <2>2, <2>3 DEF InstallerOK, Coming, Working, I!Alive, I!Is
  <2>8. RunsWhatIsThere' /\ StopIsAsked' /\ I!PlatformKept'
      BY <1>1, <1>2, <2>2, <2>3 DEF RunsWhatIsThere, StopIsAsked, I!PlatformKept, I!Alive, I!Is
  <2> QED
      BY <2>4, <2>5, <2>6, <2>7, <2>8
<1>4. CASE I!Listening
  <2>1. cli' \in CliType /\ cli'.pc = "failed"
      BY <1>4, StepFacts DEF I!WaitForDaemonStop, CliPcs
  <2>2. InstallTypeOK'
      BY <1>1, <1>2, <2>1 DEF BinVersions
  <2>3. SockIsHis' /\ ComesAlone'
      BY <1>1, <1>2, <2>1 DEF SockIsHis, ComesAlone, Coming, I!Is
  <2>4. MainLives'
      BY <1>1, <1>2, <2>1 DEF Unnamed, MainLives, I!Alive, I!Is
  <2>5. InstallerOK'
      BY <1>1, <1>2, <2>1 DEF InstallerOK, Coming, Working, I!Alive, I!Is
  <2>6. RunsWhatIsThere' /\ StopIsAsked' /\ I!PlatformKept'
      BY <1>1, <1>2, <2>1 DEF RunsWhatIsThere, StopIsAsked, I!PlatformKept, I!Alive, I!Is
  <2> QED
      BY <2>2, <2>3, <2>4, <2>5, <2>6
<1> QED
    BY <1>3, <1>4

LEMMA NoRestartInv ==
    ASSUME Unnamed, InstallInv, I!InstallSystemdNoRestartDropIn PROVE InstallInv'
<1> USE DEF InstallInv, InstallTypeOK
<1>1. /\ cli.pc = "kill" /\ I!Step("sigkill") /\ dropIn' = (unit # "none")
      /\ UNCHANGED <<proc, sock, main, restart, target, bak, unit, root, platform, asked>>
    BY DEF I!InstallSystemdNoRestartDropIn, I!DropIn, I!files, I!ghosts
<1>2. cli' \in CliType /\ cli'.pc = "sigkill"
    BY <1>1, StepFacts DEF CliPcs, Working
<1>3. InstallTypeOK'
    BY <1>1, <1>2 DEF BinVersions
<1>4. SockIsHis' /\ ComesAlone'
    BY <1>1, <1>2 DEF SockIsHis, ComesAlone, Coming, I!Is
<1>5. MainLives'
    BY <1>1, <1>2 DEF Unnamed, MainLives, I!Alive, I!Is
<1>6. InstallerOK'
    BY <1>1, <1>2 DEF InstallerOK, Coming, Working, I!Alive, I!Is
<1>7. RunsWhatIsThere' /\ StopIsAsked' /\ I!PlatformKept'
    BY <1>1, <1>2 DEF RunsWhatIsThere, StopIsAsked, I!PlatformKept, I!Alive, I!Is
<1> QED
    BY <1>3, <1>4, <1>5, <1>6, <1>7

LEMMA SigkillInv == ASSUME Unnamed, InstallInv, I!SigkillPreservePlatform PROVE InstallInv'
<1> USE DEF InstallInv, InstallTypeOK
<1>1. /\ cli.pc = "sigkill" /\ sock' = None
      /\ UNCHANGED <<target, bak, unit, root, dropIn, platform, asked>>
    BY DEF I!SigkillPreservePlatform, I!files, I!ghosts
<1>2. cli' \in CliType /\ cli'.pc = "copy"
    BY StepFacts DEF I!SigkillPreservePlatform, CliPcs, Working
<1>3. ~restart /\ (dropIn <=> unit # "none") /\ \A p \in Clicks : ~Coming(p)
    BY <1>1 DEF InstallerOK, Working
<1>4. CASE I!Listening
  <2>1. sock \in Clicks /\ proc' = [proc EXCEPT ![sock] = I!Gone] /\ I!Exited(sock, TRUE)
      BY <1>4 DEF I!SigkillPreservePlatform, I!Listening
  <2>2. /\ proc' \in ProcType
        /\ \A q \in Clicks : /\ proc'[q].pc = (IF q = sock THEN "gone" ELSE proc[q].pc)
                             /\ q # sock => proc'[q].ver = proc[q].ver
      BY <2>1, GoneFacts
  <2>3. \A q \in Clicks : proc'[q].pc = "gone"
    <3>1. ASSUME NEW q \in Clicks, q # sock PROVE proc[q].pc = "gone"
      <4>1. proc[q].pc \in DaemonPcs
          BY DEF ProcType
      <4> QED
          BY <1>3, <3>1, <4>1 DEF DaemonPcs, SockIsHis, Coming, I!Is
    <3> QED
        BY <2>2, <3>1
  <2>4. ~restart'
      BY <1>3, <2>1 DEF I!Exited, MainLives, Unnamed
  <2>5. InstallTypeOK'
      BY <1>1, <1>2, <1>3, <2>1, <2>2, <2>3, <2>4 DEF BinVersions, I!Exited, Unnamed
  <2>6. SockIsHis' /\ ComesAlone'
      BY <1>1, <1>2, <1>3, <2>1, <2>2, <2>3, <2>4
         DEF SockIsHis, ComesAlone, Coming, I!Is, I!Exited, Unnamed
  <2>7. MainLives'
      BY <1>1, <1>2, <1>3, <2>1, <2>2, <2>3, <2>4 DEF Unnamed, MainLives, I!Alive, I!Is, I!Exited
  <2>8. InstallerOK'
      BY <1>1, <1>2, <1>3, <2>1, <2>2, <2>3, <2>4
         DEF InstallerOK, Coming, Working, I!Alive, I!Is, I!Exited, Unnamed
  <2>9. RunsWhatIsThere' /\ StopIsAsked' /\ I!PlatformKept'
      BY <1>1, <1>2, <1>3, <2>1, <2>2, <2>3, <2>4
         DEF RunsWhatIsThere, StopIsAsked, I!PlatformKept, I!Alive, I!Is, I!Exited, Unnamed
  <2> QED
      BY <2>5, <2>6, <2>7, <2>8, <2>9
<1>5. CASE ~I!Listening
  <2>1. UNCHANGED <<proc, main, restart>>
      BY <1>5 DEF I!SigkillPreservePlatform
  <2>2. \A q \in Clicks : proc[q].pc = "gone"
      BY <1>3, <1>5, NobodyLives
  <2>3. InstallTypeOK'
      BY <1>1, <1>2, <1>3, <2>1, <2>2 DEF BinVersions, Unnamed
  <2>4. SockIsHis' /\ ComesAlone'
      BY <1>1, <1>2, <1>3, <2>1, <2>2 DEF SockIsHis, ComesAlone, Coming, I!Is, Unnamed
  <2>5. MainLives'
      BY <1>1, <1>2, <1>3, <2>1, <2>2 DEF Unnamed, MainLives, I!Alive, I!Is
  <2>6. InstallerOK'
      BY <1>1, <1>2, <1>3, <2>1, <2>2 DEF InstallerOK, Coming, Working, I!Alive, I!Is, Unnamed
  <2>7. RunsWhatIsThere' /\ StopIsAsked' /\ I!PlatformKept'
      BY <1>1, <1>2, <1>3, <2>1, <2>2
         DEF RunsWhatIsThere, StopIsAsked, I!PlatformKept, I!Alive, I!Is, Unnamed
  <2> QED
      BY <2>3, <2>4, <2>5, <2>6, <2>7
<1> QED
    BY <1>4, <1>5

LEMMA CopyBinaryInv == ASSUME Unnamed, InstallInv, I!CopyBinary PROVE InstallInv'
<1> USE DEF InstallInv, InstallTypeOK
<1>1. cli.pc = "copy" /\ UNCHANGED <<proc, sock, main, restart, root, dropIn, platform, asked>>
    BY DEF I!CopyBinary, I!ghosts
<1>2. ~restart /\ \A p \in Clicks : ~Coming(p) /\ proc[p].pc = "gone"
    BY <1>1 DEF InstallerOK, Working, I!Alive, I!Is
<1>3. CASE I!Step("start") /\ target' = cli.ver /\ bak' = (IF cli.rollback THEN None ELSE bak)
           /\ unit' = (IF ~cli.rollback /\ root /\ unit = "old" THEN "new" ELSE unit)
  <2>1. cli' \in CliType /\ cli'.pc = "start" /\ cli.ver \in BinVersions
      BY <1>3, StepFacts DEF CliPcs, Working, CliType
  <2>2. unit' = "none" <=> unit = "none"
      BY <1>3
  <2>3. InstallTypeOK'
      BY <1>1, <1>2, <1>3, <2>1, <2>2 DEF BinVersions
  <2>4. SockIsHis' /\ ComesAlone'
      BY <1>1, <1>2, <1>3, <2>1, <2>2 DEF SockIsHis, ComesAlone, Coming, I!Is
  <2>5. MainLives'
      BY <1>1, <1>2, <1>3, <2>1, <2>2 DEF Unnamed, MainLives, I!Alive, I!Is
  <2>6. InstallerOK'
      BY <1>1, <1>2, <1>3, <2>1, <2>2 DEF InstallerOK, Coming, Working, I!Alive, I!Is
  <2>7. RunsWhatIsThere' /\ StopIsAsked' /\ I!PlatformKept'
      BY <1>1, <1>2, <1>3, <2>1, <2>2
         DEF RunsWhatIsThere, StopIsAsked, I!PlatformKept, I!Alive, I!Is
  <2> QED
      BY <2>3, <2>4, <2>5, <2>6, <2>7
<1>4. CASE I!Step("failed") /\ UNCHANGED <<target, bak, unit>>
  <2>1. cli' \in CliType /\ cli'.pc = "failed"
      BY <1>4, StepFacts DEF CliPcs
  <2>2. InstallTypeOK'
      BY <1>1, <1>2, <1>4, <2>1 DEF BinVersions
  <2>3. SockIsHis' /\ ComesAlone'
      BY <1>1, <1>2, <1>4, <2>1 DEF SockIsHis, ComesAlone, Coming, I!Is
  <2>4. MainLives'
      BY <1>1, <1>2, <1>4, <2>1 DEF Unnamed, MainLives, I!Alive, I!Is
  <2>5. InstallerOK'
      BY <1>1, <1>2, <1>4, <2>1 DEF InstallerOK, Coming, Working, I!Alive, I!Is
  <2>6. RunsWhatIsThere' /\ StopIsAsked' /\ I!PlatformKept'
      BY <1>1, <1>2, <1>4, <2>1 DEF RunsWhatIsThere, StopIsAsked, I!PlatformKept, I!Alive, I!Is
  <2> QED
      BY <2>2, <2>3, <2>4, <2>5, <2>6
<1> QED
    BY <1>3, <1>4 DEF I!CopyBinary

LEMMA StartDaemonAfterSwapInv ==
    ASSUME Unnamed, InstallInv, I!StartDaemonAfterSwap PROVE InstallInv'
<1> USE DEF InstallInv, InstallTypeOK
<1>1. /\ cli.pc = "start" /\ dropIn' = FALSE
      /\ UNCHANGED <<sock, target, bak, unit, root, platform, asked>>
    BY DEF I!StartDaemonAfterSwap, I!files, I!ghosts
<1>2. ~restart /\ \A p \in Clicks : ~Coming(p) /\ proc[p].pc = "gone"
    BY <1>1 DEF InstallerOK, Working, I!Alive, I!Is
<1>3. ~I!Listening /\ main = None
    BY <1>2 DEF SockIsHis, MainLives, I!Alive, I!Is, I!Listening
<1>4. PICK p \in Clicks : /\ I!Fork(p) /\ main' \in {main, p} /\ (main' = p => unit # "none")
                          /\ restart' = FALSE \/ restart' = restart
    BY <1>3 DEF I!StartDaemonAfterSwap, I!SystemctlStart, Unnamed
<1>5. cli' \in CliType /\ cli'.pc \notin Working
  <2>1. I!Step("complete") \/ I!Step("forked")
      BY <1>3 DEF I!StartDaemonAfterSwap
  <2> QED
      BY <2>1, StepFacts DEF CliPcs, Working
<1> QED
    BY <1>1, <1>2, <1>3, <1>4, <1>5, ForkInv

LEMMA WaitForDaemonInv == ASSUME Unnamed, InstallInv, I!WaitForDaemon PROVE InstallInv'
<1> USE DEF InstallInv, InstallTypeOK
<1>1. UNCHANGED <<proc, sock, main, restart, target, bak, unit, root, dropIn, platform, asked>>
    BY DEF I!WaitForDaemon, I!files, I!ghosts
<1>2. cli' \in CliType /\ cli'.pc \notin Working
  <2>1. I!Step("complete") \/ I!Step("failed")
      BY DEF I!WaitForDaemon
  <2> QED
      BY <2>1, StepFacts DEF CliPcs, Working
<1> QED
    BY <1>1, <1>2, RestInv DEF I!PlatformKept

LEMMA InstallInit == ASSUME Unnamed, InstallFaults = {}, I!Init PROVE InstallInv
<1> USE DEF InstallInv, InstallTypeOK
<1>1. PICK v \in I!Versions \ {MaxVersion}, p \in Clicks :
        /\ target = v /\ sock = p /\ unit \in {"none", "old", "new"}
        /\ proc = [q \in Clicks |-> IF q = p THEN [pc |-> "up", ver |-> v, posted |-> FALSE] ELSE I!Gone]
        /\ main = (IF unit = "none" THEN None ELSE p)
    BY DEF I!Init
<1>2. /\ bak = None /\ restart = FALSE /\ dropIn = FALSE /\ root = TRUE
      /\ cli = [pc |-> "idle", ver |-> 0, rollback |-> FALSE] /\ platform = TRUE /\ asked = FALSE
    BY DEF I!Init, I!Allowed
<1>3. /\ proc \in ProcType
      /\ \A q \in Clicks : /\ proc[q].pc = (IF q = p THEN "up" ELSE "gone")
                           /\ q = p => proc[q].ver = v
    BY <1>1 DEF ProcType, DaemonPcs, BinVersions, I!Gone
<1>4. cli \in CliType /\ cli.pc = "idle"
    BY <1>2 DEF CliType, CliPcs, BinVersions
<1>5. InstallTypeOK
    BY <1>1, <1>2, <1>3, <1>4 DEF BinVersions
<1>6. SockIsHis /\ ComesAlone
    BY <1>1, <1>2, <1>3, <1>4 DEF SockIsHis, ComesAlone, Coming, I!Is
<1>7. MainLives
    BY <1>1, <1>2, <1>3, <1>4 DEF Unnamed, MainLives, I!Alive, I!Is
<1>8. InstallerOK
    BY <1>1, <1>2, <1>3, <1>4 DEF InstallerOK, Coming, Working, I!Alive, I!Is
<1>9. RunsWhatIsThere /\ StopIsAsked /\ I!PlatformKept
    BY <1>1, <1>2, <1>3, <1>4 DEF RunsWhatIsThere, StopIsAsked, I!PlatformKept, I!Alive, I!Is
<1> QED
    BY <1>5, <1>6, <1>7, <1>8, <1>9

LEMMA InstallStep == ASSUME Unnamed, InstallFaults = {}, InstallInv, I!Next PROVE InstallInv'
<1>1. ASSUME NEW p \in Clicks, I!Daemon(p) PROVE InstallInv'
    BY <1>1, GuardInv, StartRuntimeInv, InitUnixServerInv, DetachInv, ShutdownEndsInv DEF I!Daemon
<1>2. ASSUME I!Installing PROVE InstallInv'
    BY <1>2, BackupInv, StopDaemonPreservePlatformInv, WaitForDaemonStopInv, NoRestartInv,
       SigkillInv, CopyBinaryInv, StartDaemonAfterSwapInv, WaitForDaemonInv DEF I!Installing
<1>3. ASSUME I!Operator PROVE InstallInv'
    BY <1>3, CiteckStartInv, CiteckStopInv, SystemctlRestartInv, LifecycleUpgradeInv, RunRollbackInv
       DEF I!Operator
<1> QED
    BY <1>1, <1>2, <1>3, RestartInv, CrashInv DEF I!Next

LEMMA InstallStutter == ASSUME InstallInv, UNCHANGED daemonVars PROVE InstallInv'
<1> USE DEF InstallInv, InstallTypeOK, daemonVars
<1>1. InstallTypeOK' /\ SockIsHis' /\ ComesAlone' /\ MainLives'
    BY DEF SockIsHis, ComesAlone, MainLives, Coming, I!Alive, I!Is
<1>2. InstallerOK' /\ RunsWhatIsThere' /\ StopIsAsked' /\ I!PlatformKept'
    BY DEF InstallerOK, Coming, RunsWhatIsThere, StopIsAsked, I!PlatformKept, I!Alive, I!Is
<1> QED
    BY <1>1, <1>2

\* A daemon with a runtime is the one on its way past the guard, or the one
\* that answers; there are never both.
LEMMA OnlyOneRuns == ASSUME Unnamed, InstallInv PROVE I!OneRuntime
<1> USE DEF InstallInv, InstallTypeOK
<1> SUFFICES ASSUME NEW p \in Clicks, NEW q \in Clicks, I!HasRuntime(p), I!HasRuntime(q)
             PROVE  p = q
    BY DEF I!OneRuntime
<1> QED
    BY DEF Unnamed, I!HasRuntime, SockIsHis, ComesAlone, Coming, I!Is

-----------------------------------------------------------------------------
\* No upgrade, rollback, crash or restart by systemd takes the platform down,
\* and no two daemons have a runtime at the same time, for any processes,
\* versions, crashes and commands, while the operator waits for a command to
\* end and the installer can write units (InstallFaults empty).
THEOREM InstallIsSafeHolds ==
    ASSUME Unnamed, InstallFaults = {}
    PROVE  ApiSpec => []InstallIsSafe
<1>1. ApiInit => InstallInv
    BY InstallInit DEF ApiInit
<1>2. InstallInv /\ [ApiNext]_apiVars => InstallInv'
  <2> SUFFICES ASSUME InstallInv, [ApiNext]_apiVars PROVE InstallInv'
      OBVIOUS
  <2>1. CASE I!Next
      BY <2>1, InstallStep
  <2>2. CASE UNCHANGED daemonVars
      BY <2>2, InstallStutter
  <2> QED
      BY <2>1, <2>2 DEF ApiNext, Updates, Stream, Daemon, apiVars
<1>3. InstallInv => InstallIsSafe
    BY OnlyOneRuns DEF InstallInv, InstallIsSafe, I!InstallIsSafe
<1> QED
    BY <1>1, <1>2, <1>3, PTL DEF ApiSpec
-----------------------------------------------------------------------------
\* EventStream.  What is numbered, and what the frames of a connection carry.
EventType == [seq : Nat, kind : {"status", "stats", "resync"}]

StreamTypeOK ==
  /\ seq \in Nat /\ cutoff \in Nat /\ epoch \in Nat
  /\ conn \in {"off", "replay", "on"}
  /\ DOMAIN client = {"lastSeq", "epoch", "view", "live", "recent"}
  /\ client.lastSeq \in Nat /\ client.epoch \in Nat /\ client.epoch <= epoch
  /\ ring \in Seq(EventType) /\ sub \in Seq(EventType) /\ wire \in Seq(EventType)

Ascending(s) == \A i, j \in DOMAIN s : i < j => s[i].seq < s[j].seq

\* The ring ends with the last number given out, and leaves none out.
RingIsNumbered == \A i \in DOMAIN ring : ring[i].seq = seq - Len(ring) + i

\* The cutoff parts what is replayed from what the channel carries.
CutoffParts ==
  /\ conn = "off" => sub = <<>>
  /\ conn # "on" => wire = <<>>
  /\ conn # "off" => cutoff <= seq
  /\ \A i \in DOMAIN wire : wire[i].seq <= cutoff
  /\ \A i \in DOMAIN sub : sub[i].seq > cutoff /\ sub[i].seq <= seq
  /\ Ascending(wire) /\ Ascending(sub)

\* The client's number, if it is of this daemon, is behind all that comes.
AheadOfClient ==
  client.epoch = epoch =>
    /\ client.lastSeq <= seq
    /\ \A i \in DOMAIN wire : wire[i].kind # "resync" => wire[i].seq > client.lastSeq
    /\ \A i \in DOMAIN sub : sub[i].seq > client.lastSeq

StreamInv == StreamTypeOK /\ RingIsNumbered /\ CutoffParts /\ AheadOfClient

Sizes == RingSize \in Nat \ {0} /\ ChanCap \in Nat

-----------------------------------------------------------------------------
LEMMA EventsAt ==
    ASSUME NEW s \in Seq(EventType)
    PROVE  /\ Len(s) \in Nat /\ DOMAIN s = 1 .. Len(s)
           /\ \A i \in DOMAIN s : s[i] \in EventType /\ s[i].seq \in Nat
<1>1. \A i \in DOMAIN s : s[i] \in EventType
    OBVIOUS
<1> QED
    BY <1>1 DEF EventType

\* The ring after the next event.
LEMMA PushNumbers ==
    ASSUME Sizes, StreamTypeOK, RingIsNumbered, NEW e \in EventType, e.seq = seq + 1
    PROVE  /\ E!Push(e) \in Seq(EventType)
           /\ \A i \in DOMAIN E!Push(e) : E!Push(e)[i].seq = seq + 1 - Len(E!Push(e)) + i
<1> USE DEF Sizes, StreamTypeOK
<1>1. CASE Len(ring) < RingSize
  <2>1. E!Push(e) = Append(ring, e)
      BY <1>1 DEF E!Push
  <2>2. /\ Append(ring, e) \in Seq(EventType)
        /\ Len(Append(ring, e)) = Len(ring) + 1
        /\ \A i \in 1 .. Len(ring) : Append(ring, e)[i] = ring[i]
        /\ Append(ring, e)[Len(ring) + 1] = e
      OBVIOUS
  <2> QED
      BY <2>1, <2>2 DEF RingIsNumbered
<1>2. CASE ~(Len(ring) < RingSize)
  <2>1. E!Push(e) = Append(Tail(ring), e)
      BY <1>2 DEF E!Push
  <2>2. ring # <<>> /\ Len(ring) \in Nat \ {0}
      BY <1>2
  <2>3. /\ Tail(ring) \in Seq(EventType)
        /\ Len(Tail(ring)) = Len(ring) - 1
        /\ \A i \in 1 .. Len(ring) - 1 : Tail(ring)[i] = ring[i + 1]
      BY <2>2
  <2>4. /\ Append(Tail(ring), e) \in Seq(EventType)
        /\ Len(Append(Tail(ring), e)) = Len(ring)
        /\ \A i \in 1 .. Len(ring) - 1 : Append(Tail(ring), e)[i] = Tail(ring)[i]
        /\ Append(Tail(ring), e)[Len(ring)] = e
      BY <2>2, <2>3
  <2>5. \A i \in 1 .. Len(ring) - 1 : Tail(ring)[i].seq = seq - Len(ring) + (i + 1)
    <3>1. \A i \in 1 .. Len(ring) - 1 : i + 1 \in DOMAIN ring /\ Tail(ring)[i] = ring[i + 1]
        BY <2>2, <2>3, EventsAt
    <3> QED
        BY <3>1 DEF RingIsNumbered
  <2> QED
      BY <2>1, <2>2, <2>4, <2>5
<1> QED
    BY <1>1, <1>2

LEMMA StretchOf ==
    ASSUME NEW s \in Seq(EventType), NEW from \in Nat \ {0}, NEW to \in Int, from <= to, to <= Len(s)
    PROVE  /\ SubSeq(s, from, to) \in Seq(EventType)
           /\ Len(SubSeq(s, from, to)) = to - from + 1
           /\ \A i \in 1 .. to - from + 1 : SubSeq(s, from, to)[i] = s[from + i - 1]
<1>1. \A i \in from .. to : i \in 1 .. Len(s)
    OBVIOUS
<1>2. Len(SubSeq(s, from, to)) = to - from + 1
    OBVIOUS
<1> QED
    BY <1>1, <1>2

\* What is replayed is numbered as the ring is, behind the client's number and
\* up to the cutoff.
LEMMA SinceFollows ==
    ASSUME StreamTypeOK, RingIsNumbered, conn # "off", CutoffParts, E!SinceOk
    PROVE  /\ E!Since \in Seq(EventType)
           /\ \A i \in DOMAIN E!Since : E!Since[i].seq = client.lastSeq + i /\ E!Since[i].seq <= cutoff
<1> USE DEF StreamTypeOK
<1>1. CASE ring = <<>>
    BY <1>1 DEF E!Since
<1>2. CASE ring # <<>>
  <2> DEFINE from == client.lastSeq - ring[1].seq + 2
             to == cutoff - ring[1].seq + 1
  <2>1. Len(ring) \in Nat \ {0} /\ ring[1].seq \in Nat /\ ring[1].seq = seq - Len(ring) + 1
    <3>1. Len(ring) \in Nat \ {0} /\ 1 \in DOMAIN ring
        BY <1>2, EventsAt
    <3> QED
        BY <3>1, EventsAt DEF RingIsNumbered
  <2>2. from \in Nat \ {0} /\ to \in Int /\ to <= Len(ring)
      BY <1>2, <2>1 DEF E!SinceOk, E!Oldest, CutoffParts
  <2>3. E!Since = SubSeq(ring, from, to)
      BY <1>2 DEF E!Since, E!Oldest
  <2> HIDE DEF from, to
  <2>4. CASE to < from
    <3>1. SubSeq(ring, from, to) = <<>>
        BY <2>2, <2>4
    <3> QED
        BY <2>3, <3>1
  <2>5. CASE from <= to
    <3>1. /\ SubSeq(ring, from, to) \in Seq(EventType)
          /\ Len(SubSeq(ring, from, to)) = to - from + 1
          /\ \A i \in 1 .. to - from + 1 : SubSeq(ring, from, to)[i] = ring[from + i - 1]
        BY <2>2, <2>5, StretchOf
    <3>2. ASSUME NEW i \in 1 .. to - from + 1
          PROVE  /\ ring[from + i - 1].seq = client.lastSeq + i
                 /\ ring[from + i - 1].seq <= cutoff
      <4> DEFINE at == from + i - 1
      <4>1. at \in DOMAIN ring
        <5>1. i \in Int /\ 1 <= i /\ i <= to - from + 1
            BY <2>2
        <5>2. at \in Int /\ 1 <= at /\ at <= Len(ring)
            BY <2>1, <2>2, <5>1
        <5>3. DOMAIN ring = 1 .. Len(ring)
            BY EventsAt
        <5> QED
            BY <2>1, <5>2, <5>3
      <4> HIDE DEF at
      <4>2. ring[at].seq = seq - Len(ring) + at
          BY <4>1 DEF RingIsNumbered
      <4>3. PICK first \in Nat : first = ring[1].seq
          BY <2>1
      <4>4. seq - Len(ring) = first - 1
          BY <2>1, <4>3
      <4>5. i \in Int /\ from \in Int /\ to \in Int /\ i <= to - from + 1 /\ at = from + i - 1
          BY <2>2 DEF at
      <4>6. first \in Nat /\ from = client.lastSeq - first + 2 /\ to = cutoff - first + 1
          BY <4>3 DEF from, to
      <4>7. ring[at].seq = first - 1 + at
          BY <4>2, <4>4
      <4>8. PICK last \in Nat, cut \in Nat : last = client.lastSeq /\ cut = cutoff
          OBVIOUS
      <4>9. first - 1 + at = last + i /\ first - 1 + at <= cut
        <5> HIDE DEF StreamTypeOK
        <5>1. from = last - first + 2 /\ to = cut - first + 1 /\ last \in Nat /\ cut \in Nat
            BY <4>6, <4>8
        <5>2. at = last - first + 1 + i
            BY <4>3, <4>5, <5>1
        <5>3. i <= cut - last
            BY <4>3, <4>5, <5>1
        <5>4. first - 1 + at = last + i
            BY <4>3, <4>5, <5>1, <5>2
        <5> QED
            BY <4>5, <5>1, <5>3, <5>4
      <4> QED
          BY <4>7, <4>8, <4>9 DEF at
    <3>3. DOMAIN SubSeq(ring, from, to) = 1 .. to - from + 1
        BY <2>2, <2>5, <3>1, EventsAt
    <3> QED
        BY <2>3, <3>1, <3>2, <3>3
  <2> QED
      BY <2>2, <2>4, <2>5
<1> QED
    BY <1>1, <1>2

-----------------------------------------------------------------------------
LEMMA BroadcastEventInv ==
    ASSUME Sizes, StreamInv, NEW kind \in E!Kinds, E!BroadcastEvent(kind) PROVE StreamInv'
<1> USE DEF StreamInv, StreamTypeOK, E!BroadcastEvent
<1> DEFINE e == [seq |-> seq + 1, kind |-> kind]
<1>1. e \in EventType /\ e.seq = seq + 1
    BY DEF EventType, E!Kinds
<1>2. /\ seq' = seq + 1 /\ ring' = E!Push(e)
      /\ sub' = IF conn # "off" /\ Len(sub) < ChanCap THEN Append(sub, e) ELSE sub
      /\ UNCHANGED <<conn, cutoff, wire, client, epoch>>
    OBVIOUS
<1> HIDE DEF e, E!BroadcastEvent
<1>3. /\ E!Push(e) \in Seq(EventType)
      /\ \A i \in DOMAIN E!Push(e) : E!Push(e)[i].seq = seq + 1 - Len(E!Push(e)) + i
    BY <1>1, PushNumbers
<1>4. RingIsNumbered'
    BY <1>2, <1>3 DEF RingIsNumbered
<1>5. CASE sub' = sub
  <2>1. StreamTypeOK'
      BY <1>2, <1>3, <1>5
  <2>2. \A i \in DOMAIN sub : sub[i].seq <= seq + 1
      BY EventsAt DEF CutoffParts
  <2>3. CutoffParts'
      BY <1>2, <1>5, <2>2 DEF CutoffParts, Ascending
  <2>4. AheadOfClient'
      BY <1>2, <1>5 DEF AheadOfClient
  <2> QED
      BY <1>4, <2>1, <2>3, <2>4
<1>6. CASE conn # "off" /\ sub' = Append(sub, e)
  <2>1. /\ sub' \in Seq(EventType) /\ Len(sub') = Len(sub) + 1
        /\ \A i \in 1 .. Len(sub) : sub'[i] = sub[i]
        /\ sub'[Len(sub) + 1] = e
      BY <1>1, <1>6
  <2>2. /\ DOMAIN sub' = 1 .. Len(sub) + 1
        /\ \A i \in DOMAIN sub' :
              \/ i \in DOMAIN sub /\ sub'[i] = sub[i]
              \/ i = Len(sub) + 1 /\ sub'[i] = e
    <3>1. Len(sub) \in Nat /\ DOMAIN sub = 1 .. Len(sub)
        BY EventsAt
    <3>2. DOMAIN sub' = 1 .. Len(sub')
        BY <2>1, EventsAt
    <3> SUFFICES ASSUME NEW i \in DOMAIN sub'
                 PROVE  \/ i \in DOMAIN sub /\ sub'[i] = sub[i]
                        \/ i = Len(sub) + 1 /\ sub'[i] = e
        BY <2>1, <3>2
    <3>3. CASE i = Len(sub) + 1
        BY <2>1, <3>3
    <3>4. CASE i # Len(sub) + 1
      <4>1. i \in 1 .. Len(sub)
          BY <2>1, <3>1, <3>2, <3>4
      <4> QED
          BY <2>1, <3>1, <4>1
    <3> QED
        BY <3>3, <3>4
  <2>3. \A i \in DOMAIN sub' : sub'[i].seq > cutoff /\ sub'[i].seq <= seq + 1
    <3>1. \A i \in DOMAIN sub : sub[i].seq > cutoff /\ sub[i].seq <= seq + 1
        BY EventsAt DEF CutoffParts
    <3>2. e.seq > cutoff /\ e.seq <= seq + 1
        BY <1>1, <1>6 DEF CutoffParts
    <3> QED
        BY <2>2, <3>1, <3>2
  <2>4. \A i, j \in DOMAIN sub' : i < j => sub'[i].seq < sub'[j].seq
    <3> SUFFICES ASSUME NEW i \in DOMAIN sub', NEW j \in DOMAIN sub', i < j
                 PROVE  sub'[i].seq < sub'[j].seq
        OBVIOUS
    <3>1. i \in DOMAIN sub /\ sub'[i] = sub[i] /\ sub[i].seq <= seq /\ sub[i].seq \in Nat
      <4>1. i \in DOMAIN sub /\ sub'[i] = sub[i]
          BY <2>2, EventsAt
      <4> QED
          BY <4>1, EventsAt DEF CutoffParts
    <3>2. CASE j \in DOMAIN sub /\ sub'[j] = sub[j]
      <4>1. Ascending(sub)
          BY DEF CutoffParts
      <4>2. sub[i].seq < sub[j].seq
          BY <3>1, <3>2, <4>1 DEF Ascending
      <4> QED
          BY <3>1, <3>2, <4>2
    <3>3. CASE sub'[j] = e
        BY <1>1, <3>1, <3>3
    <3>4. (j \in DOMAIN sub /\ sub'[j] = sub[j]) \/ sub'[j] = e
        BY <2>2
    <3> QED
        BY <3>2, <3>3, <3>4
  <2>5. CutoffParts'
      BY <1>2, <1>6, <2>3, <2>4 DEF CutoffParts, Ascending
  <2>6. AheadOfClient'
      BY <1>1, <1>2, <2>2 DEF AheadOfClient
  <2>7. StreamTypeOK'
      BY <1>2, <1>3, <2>1
  <2> QED
      BY <1>4, <2>5, <2>6, <2>7
<1> QED
    BY <1>2, <1>5, <1>6

LEMMA AddSubscriberInv == ASSUME StreamInv, E!AddSubscriber PROVE StreamInv'
<1> USE DEF StreamInv, StreamTypeOK, E!AddSubscriber
<1>1. sub' = <<>> /\ wire' = <<>> /\ client'.lastSeq = client.lastSeq /\ client'.epoch = client.epoch
    BY DEF CutoffParts
<1> QED
    BY <1>1 DEF RingIsNumbered, CutoffParts, AheadOfClient, Ascending

LEMMA ReplayInv == ASSUME StreamInv, E!Replay PROVE StreamInv'
<1> USE DEF StreamInv, StreamTypeOK
<1>1. /\ wire' \in Seq(EventType)
      /\ \A i \in DOMAIN wire' : wire'[i].seq <= cutoff
      /\ \A i \in DOMAIN wire' : wire'[i].kind # "resync" => wire'[i].seq > client.lastSeq
      /\ Ascending(wire')
  <2>1. CASE client.lastSeq = 0
    <3>1. wire' = <<>>
        BY <2>1 DEF E!Replay
    <3> QED
        BY <3>1 DEF Ascending
  <2>2. CASE client.lastSeq > 0 /\ ~E!SinceOk
    <3> DEFINE e == [seq |-> 0, kind |-> "resync"]
    <3>1. wire' = <<e>>
        BY <2>2 DEF E!Replay
    <3>2. e \in EventType /\ e.seq = 0 /\ e.kind = "resync"
        BY DEF EventType
    <3> HIDE DEF e
    <3>3. <<e>> \in Seq(EventType) /\ DOMAIN <<e>> = {1} /\ <<e>>[1] = e
        BY <3>2
    <3>4. \A i \in DOMAIN wire' : i = 1 /\ wire'[i] = e
        BY <3>1, <3>3
    <3>5. Ascending(wire')
        BY <3>4 DEF Ascending
    <3> QED
        BY <3>1, <3>2, <3>3, <3>4, <3>5
  <2>3. CASE client.lastSeq > 0 /\ E!SinceOk
    <3>1. wire' = E!Since
        BY <2>3 DEF E!Replay
    <3>2. /\ wire' \in Seq(EventType)
          /\ \A i \in DOMAIN wire' : wire'[i].seq = client.lastSeq + i /\ wire'[i].seq <= cutoff
        BY <2>3, <3>1, SinceFollows DEF E!Replay
    <3>3. DOMAIN wire' = 1 .. Len(wire') /\ Len(wire') \in Nat
        BY <3>2
    <3> QED
        BY <3>2, <3>3 DEF Ascending
  <2> QED
      BY <2>1, <2>2, <2>3
<1>2. conn = "replay" /\ conn' = "on" /\ UNCHANGED <<seq, ring, sub, cutoff, client, epoch>>
    BY DEF E!Replay
<1>3. StreamTypeOK' /\ RingIsNumbered' /\ CutoffParts'
    BY <1>1, <1>2 DEF RingIsNumbered, CutoffParts, Ascending
<1>4. AheadOfClient'
    BY <1>1, <1>2 DEF AheadOfClient
<1> QED
    BY <1>3, <1>4

\* What is left of an ascending sequence is behind its head.
LEMMA TailAscends ==
    ASSUME NEW s \in Seq(EventType), s # <<>>, Ascending(s)
    PROVE  /\ Head(s) \in EventType /\ Head(s) = s[1] /\ 1 \in DOMAIN s
           /\ Tail(s) \in Seq(EventType) /\ Ascending(Tail(s))
           /\ \A i \in DOMAIN Tail(s) : /\ i + 1 \in DOMAIN s /\ Tail(s)[i] = s[i + 1]
                                        /\ Tail(s)[i].seq > Head(s).seq
<1>1. Len(s) \in Nat \ {0} /\ DOMAIN s = 1 .. Len(s) /\ Head(s) = s[1] /\ Head(s) \in EventType
    OBVIOUS
<1>2. /\ Tail(s) \in Seq(EventType) /\ DOMAIN Tail(s) = 1 .. Len(s) - 1
      /\ \A i \in 1 .. Len(s) - 1 : Tail(s)[i] = s[i + 1]
    BY <1>1
<1>3. \A i \in DOMAIN s : s[i].seq \in Nat
    BY EventsAt
<1> QED
    BY <1>1, <1>2, <1>3 DEF Ascending

LEMMA ReceiveInv == ASSUME StreamInv, E!Receive PROVE StreamInv'
<1> USE DEF StreamInv, StreamTypeOK
<1>1. conn = "on" /\ UNCHANGED <<seq, ring, conn, cutoff, epoch>>
    BY DEF E!Receive
<1>2. CASE wire # <<>>
  <2>1. /\ Head(wire) \in EventType /\ Head(wire) = wire[1] /\ 1 \in DOMAIN wire
        /\ Tail(wire) \in Seq(EventType) /\ Ascending(Tail(wire))
        /\ \A i \in DOMAIN Tail(wire) : /\ i + 1 \in DOMAIN wire /\ Tail(wire)[i] = wire[i + 1]
                                        /\ Tail(wire)[i].seq > Head(wire).seq
      BY <1>2, TailAscends DEF CutoffParts
  <2>2. /\ wire' = Tail(wire) /\ sub' = sub
        /\ client' = IF Head(wire).kind = "resync" THEN client
                     ELSE [client EXCEPT !.lastSeq = Head(wire).seq, !.epoch = epoch,
                                         !.live = TRUE, !.recent = TRUE]
      BY <1>2 DEF E!Receive
  <2>3. Head(wire).seq \in Nat /\ Head(wire).seq <= cutoff /\ cutoff <= seq
      BY <1>1, <2>1 DEF CutoffParts, EventType
  <2>4. /\ DOMAIN client' = DOMAIN client
        /\ \/ client' = client
           \/ client'.lastSeq = Head(wire).seq /\ client'.epoch = epoch
      BY <2>2
  <2>5. StreamTypeOK' /\ RingIsNumbered'
      BY <1>1, <2>1, <2>2, <2>3, <2>4 DEF RingIsNumbered
  <2>6. \A i \in DOMAIN wire' : wire'[i].seq <= cutoff
      BY <2>1, <2>2 DEF CutoffParts
  <2>7. CutoffParts'
      BY <1>1, <2>1, <2>2, <2>6 DEF CutoffParts, Ascending
  <2>8. AheadOfClient'
    <3>1. CASE client' = client
        BY <1>1, <2>1, <2>2, <3>1 DEF AheadOfClient
    <3>2. CASE client'.lastSeq = Head(wire).seq /\ client'.epoch = epoch
      <4>1. \A i \in DOMAIN wire' : wire'[i].seq > Head(wire).seq
          BY <2>1, <2>2
      <4>2. \A i \in DOMAIN sub' : sub'[i].seq > Head(wire).seq
        <5> SUFFICES ASSUME NEW i \in DOMAIN sub PROVE sub[i].seq > Head(wire).seq
            BY <2>2
        <5>1. sub[i].seq \in Nat /\ sub[i].seq > cutoff
            BY EventsAt DEF CutoffParts
        <5> QED
            BY <2>3, <5>1
      <4> QED
          BY <1>1, <2>3, <3>2, <4>1, <4>2 DEF AheadOfClient
    <3> QED
        BY <2>4, <3>1, <3>2
  <2> QED
      BY <2>5, <2>7, <2>8
<1>3. CASE wire = <<>>
  <2>1. sub # <<>>
      BY <1>3 DEF E!Receive
  <2>2. /\ Head(sub) \in EventType /\ Head(sub) = sub[1] /\ 1 \in DOMAIN sub
        /\ Tail(sub) \in Seq(EventType) /\ Ascending(Tail(sub))
        /\ \A i \in DOMAIN Tail(sub) : /\ i + 1 \in DOMAIN sub /\ Tail(sub)[i] = sub[i + 1]
                                       /\ Tail(sub)[i].seq > Head(sub).seq
      BY <2>1, TailAscends DEF CutoffParts
  <2>3. /\ sub' = Tail(sub) /\ wire' = <<>>
        /\ client' = IF Head(sub).kind = "resync" THEN client
                     ELSE [client EXCEPT !.lastSeq = Head(sub).seq, !.epoch = epoch,
                                         !.live = TRUE, !.recent = TRUE]
      BY <1>3 DEF E!Receive
  <2>4. Head(sub).seq \in Nat /\ Head(sub).seq <= seq
      BY <2>2 DEF CutoffParts, EventType
  <2>5. /\ DOMAIN client' = DOMAIN client
        /\ \/ client' = client
           \/ client'.lastSeq = Head(sub).seq /\ client'.epoch = epoch
      BY <2>3
  <2>6. StreamTypeOK' /\ RingIsNumbered'
      BY <1>1, <1>3, <2>2, <2>3, <2>4, <2>5 DEF RingIsNumbered
  <2>7. \A i \in DOMAIN sub' : sub'[i].seq > cutoff /\ sub'[i].seq <= seq
      BY <2>2, <2>3 DEF CutoffParts
  <2>8. CutoffParts'
      BY <1>1, <2>2, <2>3, <2>7 DEF CutoffParts, Ascending
  <2>9. AheadOfClient'
    <3>1. CASE client' = client
      <4>1. DOMAIN wire' = {}
          BY <2>3
      <4>2. \A i \in DOMAIN sub' : i + 1 \in DOMAIN sub /\ sub'[i] = sub[i + 1]
          BY <2>2, <2>3
      <4> QED
          BY <1>1, <3>1, <4>1, <4>2 DEF AheadOfClient
    <3>2. CASE client'.lastSeq = Head(sub).seq /\ client'.epoch = epoch
        BY <1>1, <2>2, <2>3, <2>4, <3>2 DEF AheadOfClient
    <3> QED
        BY <2>5, <3>1, <3>2
  <2> QED
      BY <2>6, <2>8, <2>9
<1> QED
    BY <1>2, <1>3

\* What the client shows and when it last heard has no bearing on the numbers.
LEMMA ClientLooksInv ==
    ASSUME StreamInv, UNCHANGED <<seq, ring, conn, sub, cutoff, wire, epoch>>,
           DOMAIN client' = DOMAIN client, client'.lastSeq = client.lastSeq, client'.epoch = client.epoch
    PROVE  StreamInv'
<1> USE DEF StreamInv, StreamTypeOK
<1>1. StreamTypeOK' /\ RingIsNumbered'
    BY DEF RingIsNumbered
<1>2. CutoffParts' /\ AheadOfClient'
    BY DEF CutoffParts, AheadOfClient, Ascending
<1> QED
    BY <1>1, <1>2

LEMMA StreamEndsInv == ASSUME StreamInv, E!RemoveSubscriber \/ E!RestartDaemon PROVE StreamInv'
<1> USE DEF StreamInv, StreamTypeOK
<1>1. CASE E!RemoveSubscriber
    BY <1>1 DEF E!RemoveSubscriber, RingIsNumbered, CutoffParts, AheadOfClient, Ascending
<1>2. CASE E!RestartDaemon
    BY <1>2 DEF E!RestartDaemon, RingIsNumbered, CutoffParts, AheadOfClient, Ascending
<1> QED
    BY <1>1, <1>2

LEMMA StreamStep == ASSUME Sizes, StreamInv, E!Next PROVE StreamInv'
<1>1. ASSUME E!Ping \/ E!FetchDone \/ E!Poll \/ E!GoStale PROVE StreamInv'
  <2>1. /\ UNCHANGED <<seq, ring, conn, sub, cutoff, wire, epoch>>
        /\ DOMAIN client' = DOMAIN client
        /\ client'.lastSeq = client.lastSeq /\ client'.epoch = client.epoch
      BY <1>1 DEF StreamInv, StreamTypeOK, E!Ping, E!FetchDone, E!Poll, E!GoStale
  <2> QED
      BY <2>1, ClientLooksInv
<1> QED
    BY <1>1, BroadcastEventInv, AddSubscriberInv, ReplayInv, ReceiveInv, StreamEndsInv DEF E!Next

LEMMA StreamBegins == E!Init => StreamInv
BY DEF E!Init, StreamInv, StreamTypeOK, RingIsNumbered, CutoffParts, AheadOfClient, Ascending

\* The frames are the replayed ones and then those of the channel.
LEMMA InOrder == ASSUME StreamInv PROVE E!DeliveredOnce
<1> USE DEF StreamInv, StreamTypeOK
<1> DEFINE frames == wire \o sub
<1>1. /\ Len(wire) \in Nat /\ DOMAIN wire = 1 .. Len(wire)
      /\ Len(sub) \in Nat /\ DOMAIN sub = 1 .. Len(sub)
    BY EventsAt
<1>2. /\ DOMAIN frames = 1 .. Len(wire) + Len(sub)
      /\ \A k \in 1 .. Len(wire) : frames[k] = wire[k]
      /\ \A k \in Len(wire) + 1 .. Len(wire) + Len(sub) : frames[k] = sub[k - Len(wire)]
    OBVIOUS
<1>3. \A k \in DOMAIN wire : wire[k].seq \in Nat /\ wire[k].seq <= cutoff
    BY EventsAt DEF CutoffParts
<1>4. \A k \in DOMAIN sub : sub[k].seq \in Nat /\ sub[k].seq > cutoff
    BY EventsAt DEF CutoffParts
<1>5. cutoff \in Nat /\ Ascending(wire) /\ Ascending(sub) /\ AheadOfClient
    BY DEF CutoffParts
<1> SUFFICES ASSUME client.epoch = epoch, NEW i \in DOMAIN frames, frames[i].kind # "resync"
             PROVE  /\ frames[i].seq > client.lastSeq
                    /\ \A j \in 1 .. i - 1 : frames[j].seq < frames[i].seq
    BY DEF E!DeliveredOnce, E!Frames
<1> HIDE DEF frames, StreamInv, StreamTypeOK
<1>6. i \in Nat
    BY <1>1, <1>2
<1>7. CASE i <= Len(wire)
  <2>1. i \in DOMAIN wire /\ frames[i] = wire[i]
      BY <1>1, <1>2, <1>7
  <2>2. wire[i].seq > client.lastSeq
      BY <1>5, <2>1 DEF AheadOfClient
  <2>3. ASSUME NEW j \in 1 .. i - 1 PROVE frames[j].seq < frames[i].seq
    <3>1. j \in DOMAIN wire /\ j < i
        BY <1>1, <1>6, <1>7
    <3>2. frames[j] = wire[j]
        BY <1>1, <1>2, <3>1
    <3> QED
        BY <1>5, <2>1, <3>1, <3>2 DEF Ascending
  <2> QED
      BY <2>1, <2>2, <2>3
<1>8. CASE i > Len(wire)
  <2>1. i - Len(wire) \in DOMAIN sub /\ frames[i] = sub[i - Len(wire)]
      BY <1>1, <1>2, <1>8
  <2>2. sub[i - Len(wire)].seq > client.lastSeq
      BY <1>5, <2>1 DEF AheadOfClient
  <2>3. ASSUME NEW j \in 1 .. i - 1 PROVE frames[j].seq < frames[i].seq
    <3>1. j \in Nat /\ 1 <= j /\ j < i /\ j <= Len(wire) + Len(sub)
        BY <1>1, <1>2, <1>6
    <3>2. CASE j <= Len(wire)
      <4>1. j \in DOMAIN wire /\ frames[j] = wire[j]
          BY <1>1, <1>2, <3>1, <3>2
      <4>2. wire[j].seq \in Nat /\ wire[j].seq <= cutoff
          BY <1>3, <4>1
      <4>3. sub[i - Len(wire)].seq \in Nat /\ sub[i - Len(wire)].seq > cutoff
          BY <1>4, <2>1
      <4> QED
          BY <1>5, <2>1, <4>1, <4>2, <4>3
    <3>3. CASE j > Len(wire)
      <4>1. /\ j - Len(wire) \in DOMAIN sub /\ frames[j] = sub[j - Len(wire)]
            /\ j - Len(wire) < i - Len(wire)
          BY <1>1, <1>2, <1>6, <3>1, <3>3
      <4>2. sub[j - Len(wire)].seq < sub[i - Len(wire)].seq
          BY <1>5, <2>1, <4>1 DEF Ascending
      <4> QED
          BY <2>1, <4>1, <4>2
    <3> QED
        BY <1>1, <3>1, <3>2, <3>3
  <2> QED
      BY <2>1, <2>2, <2>3
<1> QED
    BY <1>1, <1>6, <1>7, <1>8

-----------------------------------------------------------------------------
\* Whatever is broadcast around a subscription, however full ring and channel
\* are and whenever connections and daemons end, replay and live delivery hand
\* a client no event of this daemon twice or out of order: the safety half of
\* StreamIsFaithful, for rings and channels of any size and any hazards.
THEOREM EventsComeOnce ==
    ASSUME Sizes
    PROVE  ApiSpec => []E!DeliveredOnce
<1>1. ApiInit => StreamInv
    BY StreamBegins DEF ApiInit
<1>2. StreamInv /\ [ApiNext]_apiVars => StreamInv'
  <2> SUFFICES ASSUME StreamInv, [ApiNext]_apiVars PROVE StreamInv'
      OBVIOUS
  <2>1. CASE E!Next
      BY <2>1, StreamStep
  <2>2. CASE UNCHANGED streamVars
      BY <2>2, ClientLooksInv DEF streamVars
  <2> QED
      BY <2>1, <2>2 DEF ApiNext, Updates, Stream, Daemon, apiVars
<1>3. StreamInv => E!DeliveredOnce
    BY InOrder
<1> QED
    BY <1>1, <1>2, <1>3, PTL DEF ApiSpec
=============================================================================
