----------------------------- MODULE JvmMemory -----------------------------
(***************************************************************************)
(* The division of a container's memory limit over the pools of its JVM:   *)
(* what an operator sized stays, the pools left share what is left by      *)
(* weight, and a limit that cannot carry a budget gets fewer ceilings.     *)
(*                                                                         *)
(* Sizes are in KiB.  0 is "no flag": the JVM's own default.               *)
(***************************************************************************)
EXTENDS Integers, Sequences

CONSTANTS
  Limits,        \* memory limits of containers
  Options        \* JAVA_OPTS of operators: sequences of [pool, size]

mib == 1024
gib == 1024 * mib
Pools == {"heap", "direct", "metaspace", "codecache"}
Weight == [p \in Pools |-> CASE p = "heap" -> 58 [] p = "direct" -> 13
                             [] p = "metaspace" -> 12 [] p = "codecache" -> 6]
RemainderPct == 11
MetaspaceExpected == 288 * mib

ASSUME InputsAssumption ==
  /\ Limits \subseteq Nat
  /\ Options \subseteq Seq([pool : Pools \cup {"pct"}, size : Nat \ {0}])

VARIABLES
  limit,         \* resources.limits.memory
  given,         \* JAVA_OPTS before
  added          \* the flags appended
vars == <<limit, given, added>>

-----------------------------------------------------------------------------
Lesser(a, b) == IF a <= b THEN a ELSE b
Greater(a, b) == IF a >= b THEN a ELSE b
ClampBytes(v, lo, hi) == Greater(lo, Lesser(v, hi))
Reserve(l) == ClampBytes((l * 8) \div 100, 96 * mib, gib)

\* findFlagValue takes the first flag of a pool, the JVM the last.
Given(o, p) == {i \in DOMAIN o : o[i].pool = p}
FindFlagValue(o, p) ==
  IF Given(o, p) = {} THEN 0 ELSE o[CHOOSE i \in Given(o, p) : \A j \in Given(o, p) : i <= j].size
Takes(o, p) ==
  IF Given(o, p) = {} THEN 0 ELSE o[CHOOSE i \in Given(o, p) : \A j \in Given(o, p) : i >= j].size

\* -Xmx wins over MaxRAMPercentage.
ParseManualPools(o, l) ==
  [p \in Pools |-> IF p = "heap" /\ FindFlagValue(o, "heap") = 0
                   THEN (l * FindFlagValue(o, "pct")) \div 100 ELSE FindFlagValue(o, p)]

\* What is fixed leaves, and what is not shares the rest by weight.
Free(l, m) ==
  l - Reserve(l) - m["heap"] - m["direct"] - m["metaspace"] - m["codecache"]
WeightOf(m, p) == IF m[p] = 0 THEN Weight[p] ELSE 0
Weights(m) == RemainderPct + WeightOf(m, "heap") + WeightOf(m, "direct")
                + WeightOf(m, "metaspace") + WeightOf(m, "codecache")
Share(l, m, p, lo, hi) ==
  IF m[p] > 0 THEN m[p] ELSE ClampBytes((Free(l, m) * Weight[p]) \div Weights(m), lo, hi)
ComputeMemoryBudgetWith(l, m) ==
  [p \in Pools |->
     CASE p = "heap" -> Share(l, m, p, 0, l - Reserve(l))
       [] p = "direct" -> Share(l, m, p, 0, gib)
       [] p = "metaspace" -> Share(l, m, p, 384 * mib, 512 * mib)
       [] p = "codecache" -> Share(l, m, p, 48 * mib, 240 * mib)]
Remainder(l, b) ==
  l - Reserve(l) - b["heap"] - b["direct"] - b["metaspace"] - b["codecache"]
FitsRoughly(l, m) == l > 0 /\ Free(l, m) > 0
Fits(l, m) ==
  /\ l > 0 /\ Free(l, m) > 0
  /\ LET b == ComputeMemoryBudgetWith(l, m)
     IN Remainder(l, b) >= b["heap"] \div 64 + 64 * mib

\* What a container that is too small for a budget gets: no heap and no
\* metaspace, and each ceiling below the JVM's own.
PartialFree(l, m) == l - Reserve(l) - m["heap"] - MetaspaceExpected
PartialWeights(m) == RemainderPct + WeightOf(m, "direct") + WeightOf(m, "codecache")
PartialShare(l, m, p) == (PartialFree(l, m) * Weight[p]) \div PartialWeights(m)
ComputePartialBudget(l, m) ==
  [p \in Pools |->
     IF l <= 0 \/ PartialFree(l, m) <= 0 THEN 0
     ELSE CASE p = "codecache" /\ m[p] = 0 ->
                 ClampBytes(PartialShare(l, m, p), 128 * mib, 240 * mib)
            [] p = "direct" /\ m[p] = 0 /\ m["heap"] >= 64 * mib ->
                 ClampBytes(PartialShare(l, m, p), 64 * mib, Lesser(m["heap"], gib))
            [] OTHER -> 0]

\* JavaOpts writes whole mebibytes, and nothing for a pool that has a flag.
Whole(size) == mib * (size \div mib)
Emitted(l, o) ==
  LET m == ParseManualPools(o, l)
      b == IF Fits(l, m) THEN ComputeMemoryBudgetWith(l, m) ELSE ComputePartialBudget(l, m)
  IN [p \in Pools |-> IF m[p] = 0 THEN Whole(b[p]) ELSE 0]
NothingYet == [p \in Pools |-> -1]

-----------------------------------------------------------------------------
Init == limit \in Limits /\ given \in Options /\ added = NothingYet

ApplyMemoryBudget ==
  /\ added = NothingYet /\ added' = Emitted(limit, given)
  /\ UNCHANGED <<limit, given>>

Next == ApplyMemoryBudget
Spec == Init /\ [][Next]_vars

-----------------------------------------------------------------------------
Applied == added # NothingYet
Once == \A p \in Pools \cup {"pct"} : \A i, j \in Given(given, p) : i = j

\* What the JVM takes: the last flag, those of the launcher after all others.
Taken(p) ==
  IF added[p] > 0 THEN added[p]
  ELSE IF p = "heap" /\ Takes(given, p) = 0 THEN (limit * Takes(given, "pct")) \div 100
  ELSE Takes(given, p)

\* A JVM whose heap or metaspace the launcher bounds has every pool bounded,
\* and all of them, the reserve and the room for stacks fit the container.
\* (A flag given twice is taken at its first value here, at its last there.)
FullFits ==
  Applied /\ Once /\ (added["heap"] > 0 \/ added["metaspace"] > 0) =>
    /\ \A p \in Pools : Taken(p) > 0
    /\ Taken("heap") + Taken("direct") + Taken("metaspace") + Taken("codecache")
         + Reserve(limit) + 64 * mib <= limit

\* Without a budget no ceiling is above the JVM's own: the direct memory's is
\* the heap, the code cache's 240 MiB.
LowersOnly ==
  Applied /\ Once /\ added["heap"] = 0 /\ added["metaspace"] = 0 /\ Takes(given, "metaspace") = 0 =>
    added["direct"] <= Taken("heap") /\ added["codecache"] <= 240 * mib

\* No container gets ceilings that do not fit it.
BudgetFits == FullFits /\ LowersOnly
=============================================================================
