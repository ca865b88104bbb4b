--------------------------- MODULE Documents_proofs ---------------------------
(***************************************************************************)
(* Proofs about what the launcher makes of what it finds.                  *)
(*                                                                         *)
(* JvmMemory, for every memory limit and all options: the pools of a full  *)
(* budget fit because Fits checks the remainder after rounding and         *)
(* clamping; that none of them rounds down to no flag at all follows from  *)
(* the same remainder, which is the share of 11 parts.                     *)
(*                                                                         *)
(* MvStore, for every finite set of keys, any number of slots and commits: *)
(* while H2 has the file, every chunk that is needed is where H2 has it,   *)
(* whole (Placed), and whatever looks whole agrees with it (CopiesAgree).  *)
(* The header points at the last (HeaderPoints).  A step leaves all that   *)
(* the committed version needs (WriteKeeps), so that the reader finds it   *)
(* wherever the step is cut off.                                           *)
(*                                                                         *)
(* BundleVersions, for all keys of numbers and words: the comparison of the*)
(* resolver is opposed when its arguments are (VersionsOpposed) and follows*)
(* from the one of neighbours (VersionsFollow), so that the file that each *)
(* other was compared with, one at a time, is below none of them (WalkInv).*)
(*                                                                         *)
(* Setup, for all keys, fields and values, any number of settings, undos,  *)
(* external edits and kills: a computed patch leads to the document it was *)
(* computed for (Computed), and before each write of a command it is known *)
(* what the history leads to (HistoryLeads).                               *)
(*                                                                         *)
(* Generator, for all names of webapps and additional applications: what   *)
(* ships waits for what ships and is there or still to come (Needs, Closed,*)
(* Present), so only additional applications are pruned, and of those no   *)
(* set that is complete loses a member, whatever the order.                *)
(*                                                                         *)
(* Adoption, for every set of applications, any number of versions,        *)
(* operations and crashes: what a daemon leaves behind (LeftInOrder), what *)
(* doStart knows at each of its stages (StartsInOrder) and what the runtime*)
(* knows of every application and its container (AppOK).                   *)
(***************************************************************************)
EXTENDS Documents, TLAPS, FiniteSetTheorems, WellFoundedInduction, SequenceTheorems

\* A pool that is given at most once has a size, the same for the launcher,
\* which takes the first flag, and for the JVM, which takes the last.
LEMMA GivenFacts ==
    ASSUME NEW o \in Options, NEW p, \A i, j \in Given(o, p) : i = j
    PROVE  FindFlagValue(o, p) \in Nat /\ Takes(o, p) = FindFlagValue(o, p)
<1>1. CASE Given(o, p) = {}
    BY <1>1 DEF FindFlagValue, Takes
<1>2. CASE Given(o, p) # {}
  <2>1. PICK i \in Given(o, p) : TRUE
      BY <1>2
  <2>2. i \in Nat /\ o[i].size \in Nat
    <3>1. o \in Seq([pool : Pools \cup {"pct"}, size : Nat \ {0}]) /\ i \in DOMAIN o
        BY InputsAssumption DEF Given
    <3>2. \A S : \A s \in Seq(S) : \A k \in DOMAIN s : k \in Nat /\ s[k] \in S
        OBVIOUS
    <3>3. i \in Nat /\ o[i] \in [pool : Pools \cup {"pct"}, size : Nat \ {0}]
        BY <3>1, <3>2
    <3> QED
        BY <3>3
  <2>3. (CHOOSE k \in Given(o, p) : \A j \in Given(o, p) : k <= j) = i
      BY <2>1, <2>2
  <2>4. (CHOOSE k \in Given(o, p) : \A j \in Given(o, p) : k >= j) = i
      BY <2>1, <2>2
  <2> QED
      BY <1>2, <2>2, <2>3, <2>4 DEF FindFlagValue, Takes
<1> QED
    BY <1>1, <1>2

\* An integer quotient of a natural number is one, and no larger than it.
LEMMA DivFacts ==
    ASSUME NEW a \in Nat, NEW b \in Nat \ {0}
    PROVE  a \div b \in Nat /\ b * (a \div b) <= a /\ a < b * (a \div b) + b
OBVIOUS

\* What JavaOpts writes of a size is no more than the size, and something where
\* that is a mebibyte.
LEMMA WholeFacts ==
    ASSUME NEW s \in Nat
    PROVE  Whole(s) \in Nat /\ Whole(s) <= s /\ (s >= mib => Whole(s) > 0)
BY DEF Whole, mib

\* What is left to the system is a natural number.
LEMMA ReserveFacts == ASSUME NEW l \in Nat PROVE Reserve(l) \in Nat
BY DEF Reserve, ClampBytes, Greater, Lesser, mib, gib

\* The options are read into a size for each pool.
LEMMA ManualFacts ==
    ASSUME NEW o \in Options, NEW l \in Nat,
           \A p \in Pools \cup {"pct"} : \A i, j \in Given(o, p) : i = j
    PROVE  /\ ParseManualPools(o, l) \in [Pools -> Nat]
           /\ \A p \in Pools :
                ParseManualPools(o, l)[p] =
                  IF p = "heap" /\ Takes(o, "heap") = 0 THEN (l * Takes(o, "pct")) \div 100
                  ELSE Takes(o, p)
<1>1. \A p \in Pools \cup {"pct"} : FindFlagValue(o, p) \in Nat /\ Takes(o, p) = FindFlagValue(o, p)
    BY GivenFacts
<1>2. "heap" \in Pools
    BY DEF Pools
<1>3. \A p \in Pools :
        ParseManualPools(o, l)[p] =
          IF p = "heap" /\ Takes(o, "heap") = 0 THEN (l * Takes(o, "pct")) \div 100 ELSE Takes(o, p)
    BY <1>1, <1>2 DEF ParseManualPools
<1>4. (l * Takes(o, "pct")) \div 100 \in Nat
  <2>1. Takes(o, "pct") \in Nat
      BY <1>1
  <2>2. l * Takes(o, "pct") \in Nat
      BY <2>1
  <2> QED
      BY <2>2, DivFacts
<1> QED
    BY <1>1, <1>3, <1>4 DEF ParseManualPools

\* A budget that Fits gives every pool a size, keeps those that were given, and
\* leaves room for the reserve and for stacks.
LEMMA FullFacts ==
    ASSUME NEW l \in Nat, NEW m \in [Pools -> Nat], Fits(l, m)
    PROVE  LET b == ComputeMemoryBudgetWith(l, m)
           IN /\ \A p \in Pools : /\ b[p] \in Nat
                                  /\ m[p] > 0 => b[p] = m[p]
                                  /\ m[p] = 0 => b[p] >= mib
              /\ b["heap"] + b["direct"] + b["metaspace"] + b["codecache"]
                   + Reserve(l) + 64 * mib <= l
<1> DEFINE F == Free(l, m)
           W == Weights(m)
           L == l - Reserve(l)
           b == ComputeMemoryBudgetWith(l, m)
           qh == (F * 58) \div W
           qd == (F * 13) \div W
           qm == (F * 12) \div W
           qc == (F * 6) \div W
<1>1. /\ m["heap"] \in Nat /\ m["direct"] \in Nat /\ m["metaspace"] \in Nat /\ m["codecache"] \in Nat
      /\ Reserve(l) \in Nat
    BY ReserveFacts DEF Pools
<1>2. F \in Nat /\ F <= L /\ L \in Nat /\ Fits(l, m)
      /\ F = L - m["heap"] - m["direct"] - m["metaspace"] - m["codecache"]
    BY <1>1 DEF Fits, Free
<1>3. /\ Weight["heap"] = 58 /\ Weight["direct"] = 13
      /\ Weight["metaspace"] = 12 /\ Weight["codecache"] = 6
    BY DEF Weight, Pools
<1>4. /\ WeightOf(m, "heap") = IF m["heap"] = 0 THEN 58 ELSE 0
      /\ WeightOf(m, "direct") = IF m["direct"] = 0 THEN 13 ELSE 0
      /\ WeightOf(m, "metaspace") = IF m["metaspace"] = 0 THEN 12 ELSE 0
      /\ WeightOf(m, "codecache") = IF m["codecache"] = 0 THEN 6 ELSE 0
    BY <1>3 DEF WeightOf
<1>5. W = 11 + WeightOf(m, "heap") + WeightOf(m, "direct") + WeightOf(m, "metaspace")
            + WeightOf(m, "codecache")
    BY DEF Weights, RemainderPct
<1>6. W \in Nat \ {0}
    BY <1>4, <1>5
<1>7. /\ qh \in Nat /\ W * qh <= F * 58 /\ F * 58 < W * qh + W
      /\ qd \in Nat /\ W * qd <= F * 13 /\ F * 13 < W * qd + W
      /\ qm \in Nat /\ W * qm <= F * 12 /\ F * 12 < W * qm + W
      /\ qc \in Nat /\ W * qc <= F * 6 /\ F * 6 < W * qc + W
  <2>1. F * 58 \in Nat /\ F * 13 \in Nat /\ F * 12 \in Nat /\ F * 6 \in Nat
      BY <1>2
  <2> HIDE DEF F, W
  <2> QED
      BY <1>6, <2>1, DivFacts
<1>8. /\ b["heap"] = IF m["heap"] > 0 THEN m["heap"] ELSE ClampBytes(qh, 0, L)
      /\ b["direct"] = IF m["direct"] > 0 THEN m["direct"] ELSE ClampBytes(qd, 0, gib)
      /\ b["metaspace"] = IF m["metaspace"] > 0 THEN m["metaspace"]
                          ELSE ClampBytes(qm, 384 * mib, 512 * mib)
      /\ b["codecache"] = IF m["codecache"] > 0 THEN m["codecache"]
                          ELSE ClampBytes(qc, 48 * mib, 240 * mib)
    BY <1>3 DEF ComputeMemoryBudgetWith, Share, Pools
<1> HIDE DEF F, W, L, qh, qd, qm, qc, b
<1>9. b["heap"] \in Nat /\ b["direct"] \in Nat /\ b["metaspace"] \in Nat /\ b["codecache"] \in Nat
      /\ (m["metaspace"] = 0 => b["metaspace"] >= mib) /\ (m["codecache"] = 0 => b["codecache"] >= mib)
    BY <1>1, <1>2, <1>7, <1>8 DEF ClampBytes, Lesser, Greater, mib, gib
<1>10. L - b["heap"] - b["direct"] - b["metaspace"] - b["codecache"] >= 64 * mib
  <2>1. Remainder(l, b) >= b["heap"] \div 64 + 64 * mib
      BY <1>2 DEF Fits, b
  <2>2. b["heap"] \div 64 \in Nat
      BY <1>9, DivFacts
  <2>3. Remainder(l, b) = L - b["heap"] - b["direct"] - b["metaspace"] - b["codecache"]
      BY DEF Remainder, L
  <2> QED
      BY <1>2, <1>9, <2>1, <2>2, <2>3 DEF mib
<1>11. ClampBytes(qh, 0, L) \in Nat /\ ClampBytes(qd, 0, gib) \in Nat
       /\ ClampBytes(qm, 384 * mib, 512 * mib) \in Nat /\ ClampBytes(qc, 48 * mib, 240 * mib) \in Nat
    BY <1>2, <1>7 DEF ClampBytes, Lesser, Greater, mib, gib
<1>12. F - (IF WeightOf(m, "heap") = 0 THEN 0 ELSE ClampBytes(qh, 0, L))
         - (IF WeightOf(m, "direct") = 0 THEN 0 ELSE ClampBytes(qd, 0, gib))
         - (IF WeightOf(m, "metaspace") = 0 THEN 0 ELSE ClampBytes(qm, 384 * mib, 512 * mib))
         - (IF WeightOf(m, "codecache") = 0 THEN 0 ELSE ClampBytes(qc, 48 * mib, 240 * mib))
         >= 64 * mib
  <2> DEFINE part(p, c) == IF WeightOf(m, p) = 0 THEN 0 ELSE c
  <2>1. /\ b["heap"] = m["heap"] + part("heap", ClampBytes(qh, 0, L))
        /\ b["direct"] = m["direct"] + part("direct", ClampBytes(qd, 0, gib))
        /\ b["metaspace"] = m["metaspace"] + part("metaspace", ClampBytes(qm, 384 * mib, 512 * mib))
        /\ b["codecache"] = m["codecache"] + part("codecache", ClampBytes(qc, 48 * mib, 240 * mib))
      BY <1>1, <1>4, <1>8, <1>11
  <2>2. /\ part("heap", ClampBytes(qh, 0, L)) \in Nat
        /\ part("direct", ClampBytes(qd, 0, gib)) \in Nat
        /\ part("metaspace", ClampBytes(qm, 384 * mib, 512 * mib)) \in Nat
        /\ part("codecache", ClampBytes(qc, 48 * mib, 240 * mib)) \in Nat
      BY <1>11
  <2> HIDE DEF part
  <2>3. F - part("heap", ClampBytes(qh, 0, L)) - part("direct", ClampBytes(qd, 0, gib))
          - part("metaspace", ClampBytes(qm, 384 * mib, 512 * mib))
          - part("codecache", ClampBytes(qc, 48 * mib, 240 * mib)) >= 64 * mib
      BY <1>1, <1>2, <1>10, <2>1, <2>2 DEF mib
  <2> QED
      BY <2>3 DEF part
\* What rounding and clamping leave over makes 64 MiB, so that the shares of 58
\* and of 13 parts make a mebibyte each, whichever pools were given.
<1>13. ClampBytes(qh, 0, L) >= mib /\ ClampBytes(qd, 0, gib) >= mib
  <2>1. /\ WeightOf(m, "heap") \in {0, 58} /\ WeightOf(m, "direct") \in {0, 13}
        /\ WeightOf(m, "metaspace") \in {0, 12} /\ WeightOf(m, "codecache") \in {0, 6}
      BY <1>4
  <2>2. PICK wh \in {0, 58}, wd \in {0, 13}, wm \in {0, 12}, wc \in {0, 6} :
           /\ wh = WeightOf(m, "heap") /\ wd = WeightOf(m, "direct")
           /\ wm = WeightOf(m, "metaspace") /\ wc = WeightOf(m, "codecache")
      BY <2>1
  <2>3. W = 11 + wh + wd + wm + wc
      BY <1>5, <2>2
  <2>4. F - (IF wh = 0 THEN 0 ELSE ClampBytes(qh, 0, L))
          - (IF wd = 0 THEN 0 ELSE ClampBytes(qd, 0, gib))
          - (IF wm = 0 THEN 0 ELSE ClampBytes(qm, 384 * mib, 512 * mib))
          - (IF wc = 0 THEN 0 ELSE ClampBytes(qc, 48 * mib, 240 * mib)) >= 64 * mib
      BY <1>12, <2>2
  <2> QED
      BY <1>2, <1>6, <1>7, <2>3, <2>4 DEF ClampBytes, Lesser, Greater, mib, gib
<1>14. \A p \in Pools : b[p] \in Nat /\ (m[p] > 0 => b[p] = m[p]) /\ (m[p] = 0 => b[p] >= mib)
    BY <1>1, <1>8, <1>9, <1>13 DEF Pools
<1> QED
    BY <1>1, <1>2, <1>9, <1>10, <1>14 DEF L, b, mib

\* Too small for a budget: no heap, no metaspace, and ceilings below the JVM's.
LEMMA PartialFacts ==
    ASSUME NEW l \in Nat, NEW m \in [Pools -> Nat]
    PROVE  LET b == ComputePartialBudget(l, m)
           IN /\ \A p \in Pools : b[p] \in Nat
              /\ b["heap"] = 0 /\ b["metaspace"] = 0
              /\ b["direct"] <= m["heap"] /\ b["codecache"] <= 240 * mib
<1> DEFINE b == ComputePartialBudget(l, m)
<1>1. m["heap"] \in Nat /\ m["direct"] \in Nat /\ m["codecache"] \in Nat /\ Reserve(l) \in Nat
    BY ReserveFacts DEF Pools
<1>2. PartialWeights(m) \in Nat \ {0}
    BY DEF PartialWeights, WeightOf, Weight, Pools, RemainderPct
<1>3. PartialFree(l, m) \in Int
    BY <1>1 DEF PartialFree, MetaspaceExpected, mib
<1>4. b["heap"] = 0 /\ b["metaspace"] = 0
    BY DEF ComputePartialBudget, Pools
<1>5. CASE PartialFree(l, m) <= 0
  <2>1. b["direct"] = 0 /\ b["codecache"] = 0
      BY <1>5 DEF ComputePartialBudget, Pools
  <2> QED
      BY <1>1, <1>4, <2>1 DEF Pools, mib
<1>6. CASE PartialFree(l, m) > 0
  <2>1. PartialShare(l, m, "direct") \in Nat /\ PartialShare(l, m, "codecache") \in Nat
    <3>1. PartialFree(l, m) * 13 \in Nat /\ PartialFree(l, m) * 6 \in Nat
        BY <1>3, <1>6
    <3>2. Weight["direct"] = 13 /\ Weight["codecache"] = 6
        BY DEF Weight, Pools
    <3> QED
        BY <1>2, <3>1, <3>2, DivFacts DEF PartialShare
  <2>2. /\ b["direct"] = 0 \/ (m["heap"] >= 64 * mib /\
              b["direct"] = ClampBytes(PartialShare(l, m, "direct"), 64 * mib, Lesser(m["heap"], gib)))
        /\ b["codecache"] = 0 \/
              b["codecache"] = ClampBytes(PartialShare(l, m, "codecache"), 128 * mib, 240 * mib)
      BY DEF ComputePartialBudget, Pools
  <2>3. b["direct"] \in Nat /\ b["direct"] <= m["heap"]
      BY <1>1, <2>1, <2>2 DEF ClampBytes, Lesser, Greater, mib, gib
  <2>4. b["codecache"] \in Nat /\ b["codecache"] <= 240 * mib
      BY <2>1, <2>2 DEF ClampBytes, Lesser, Greater, mib
  <2> QED
      BY <1>4, <2>3, <2>4 DEF Pools
<1> QED
    BY <1>3, <1>5, <1>6

\* The flags that are written fit, for any limit and options.
LEMMA EmittedFits ==
    ASSUME limit \in Nat, given \in Options, added = Emitted(limit, given)
    PROVE  BudgetFits
<1> SUFFICES ASSUME Once PROVE BudgetFits
    BY DEF BudgetFits, FullFits, LowersOnly
<1> DEFINE m == ParseManualPools(given, limit)
           full == ComputeMemoryBudgetWith(limit, m)
           part == ComputePartialBudget(limit, m)
<1>1. m \in [Pools -> Nat]
      /\ \A p \in Pools : m[p] = IF p = "heap" /\ Takes(given, "heap") = 0
                                 THEN (limit * Takes(given, "pct")) \div 100 ELSE Takes(given, p)
    BY ManualFacts DEF Once
<1>2. \A p \in Pools : added[p] = 0 => Taken(p) = m[p]
    BY <1>1 DEF Taken
<1>3. \A p \in Pools : added[p] > 0 => Taken(p) = added[p]
    BY DEF Taken
<1>4. {"heap", "direct", "metaspace", "codecache"} = Pools
    BY DEF Pools
<1> HIDE DEF m
<1>5. CASE Fits(limit, m)
  <2>1. \A p \in Pools : added[p] = IF m[p] = 0 THEN Whole(full[p]) ELSE 0
      BY <1>5 DEF Emitted, m
  <2>2. /\ \A p \in Pools : /\ full[p] \in Nat
                            /\ m[p] > 0 => full[p] = m[p]
                            /\ m[p] = 0 => full[p] >= mib
        /\ full["heap"] + full["direct"] + full["metaspace"] + full["codecache"]
             + Reserve(limit) + 64 * mib <= limit
      BY <1>1, <1>5, FullFacts
  <2> HIDE DEF full
  <2>3. ASSUME NEW p \in Pools PROVE Taken(p) \in Nat /\ Taken(p) > 0 /\ Taken(p) <= full[p]
    <3>1. CASE m[p] = 0
      <4>1. added[p] = Whole(full[p]) /\ Whole(full[p]) \in Nat
            /\ Whole(full[p]) > 0 /\ Whole(full[p]) <= full[p]
          BY <2>1, <2>2, <3>1, WholeFacts
      <4> QED
          BY <1>3, <4>1
    <3>2. CASE m[p] # 0
      <4>1. added[p] = 0 /\ m[p] \in Nat /\ m[p] > 0 /\ full[p] = m[p]
          BY <1>1, <2>1, <2>2, <3>2
      <4> QED
          BY <1>2, <4>1
    <3> QED
        BY <3>1, <3>2
  <2>4. FullFits
    <3>1. Reserve(limit) \in Nat
        BY ReserveFacts
    <3> QED
        BY <1>4, <2>2, <2>3, <3>1 DEF FullFits, mib
  <2>5. LowersOnly
    <3>1. ASSUME Takes(given, "metaspace") = 0 PROVE added["metaspace"] # 0
      <4>1. m["metaspace"] = 0
          BY <1>1, <1>4, <3>1
      <4>2. full["metaspace"] \in Nat /\ full["metaspace"] >= mib /\ added["metaspace"] = Whole(full["metaspace"])
          BY <1>4, <2>1, <2>2, <4>1
      <4> QED
          BY <4>2, WholeFacts
    <3> QED
        BY <3>1 DEF LowersOnly
  <2> QED
      BY <2>4, <2>5 DEF BudgetFits
<1>6. CASE ~Fits(limit, m)
  <2>1. \A p \in Pools : added[p] = IF m[p] = 0 THEN Whole(part[p]) ELSE 0
      BY <1>6 DEF Emitted, m
  <2>2. /\ \A p \in Pools : part[p] \in Nat
        /\ part["heap"] = 0 /\ part["metaspace"] = 0
        /\ part["direct"] <= m["heap"] /\ part["codecache"] <= 240 * mib
      BY <1>1, PartialFacts
  <2> HIDE DEF part
  <2>3. \A p \in Pools : added[p] \in Nat /\ added[p] <= part[p]
      BY <2>1, <2>2, WholeFacts
  <2>4. added["heap"] = 0 /\ added["metaspace"] = 0
      BY <1>4, <2>2, <2>3
  <2>5. Taken("heap") = m["heap"] /\ m["heap"] \in Nat
      BY <1>1, <1>2, <1>4, <2>4
  <2>6. added["direct"] <= Taken("heap") /\ added["codecache"] <= 240 * mib
      BY <1>4, <2>2, <2>3, <2>5 DEF mib
  <2> QED
      BY <2>4, <2>6 DEF BudgetFits, FullFits, LowersOnly
<1> QED
    BY <1>5, <1>6

\* No container gets ceilings that do not fit it (ApplyMemoryBudget), whatever its
\* limit and whatever flags its operator has given.
THEOREM EveryBudgetFits == Spec => []BudgetFits
<1> DEFINE Done == /\ limit \in Limits /\ given \in Options
                   /\ added = NothingYet \/ added = Emitted(limit, given)
<1>1. Init => Done
    BY DEF Init
<1>2. Done /\ [Next]_vars => Done'
    BY DEF Next, ApplyMemoryBudget, vars
<1>3. Done => BudgetFits
  <2>1. ASSUME added = NothingYet PROVE BudgetFits
      BY <2>1 DEF BudgetFits, FullFits, LowersOnly, Applied
  <2>2. ASSUME Done, added = Emitted(limit, given) PROVE BudgetFits
    <3>1. limit \in Nat
        BY <2>2, InputsAssumption
    <3> QED
        BY <2>2, <3>1, EmittedFits
  <2> QED
      BY <2>1, <2>2
<1> QED
    BY <1>1, <1>2, <1>3, PTL DEF Spec
-----------------------------------------------------------------------------
(* MvStore.                                                                *)

\* None is neither a chunk nor a layout; the keys of a map are finitely many.
ChunkType ==
  [id : Nat, block : Nat, footer : BOOLEAN, layout : [Keys -> Nat] \cup {None}, pages : [Keys -> Nat]]
StoreNames ==
  None \notin ChunkType /\ None \notin [Keys -> Nat] /\ IsFiniteSet(Keys) /\ MaxSlots \in Nat \ {0}

\* A copy that nothing has reached into: its footer is there.
Footed(s) == disk[s] # None /\ disk[s].footer
Copy(id, s) == s \in M!Slots /\ Footed(s) /\ disk[s].id = id

\* Such a copy says where it is, and has what the chunk was written with.
CopiesAgree ==
  /\ disk \in [M!Slots -> ChunkType \cup {None}]
  /\ \A s \in M!Slots : Footed(s) =>
       /\ disk[s].block = s /\ disk[s].layout \in [Keys -> Nat]
       /\ \A k \in Keys : disk[s].layout[k] = disk[s].id => disk[s].pages[k] = disk[s].id
  /\ \A s, t \in M!Slots : Footed(s) /\ Footed(t) /\ disk[s].id = disk[t].id =>
       disk[s].layout = disk[t].layout

\* Version n of the map is on disk, with the chunks of its pages.
OnDisk(n, where) ==
  /\ n \in Nat /\ where \in [Keys -> Nat \ {0}]
  /\ \E s \in M!Slots : Copy(n, s) /\ disk[s].layout = where
  /\ \A k \in Keys : \E s \in M!Slots : Copy(where[k], s) /\ disk[s].layout[k] = where[k]

\* Before the file is left, the chunks that are needed are where H2 has them, and
\* both blocks of the header point at the last.
Placed ==
  /\ committed.version \in Nat \ {0} /\ committed.at \in Seq(M!Slots)
  /\ Len(committed.at) = committed.version
  /\ committed.where \in [Keys -> 1 .. committed.version]
  /\ committed = [version |-> committed.version, where |-> committed.where, at |-> committed.at]
  /\ Copy(committed.version, committed.at[committed.version])
  /\ disk[committed.at[committed.version]].layout = committed.where
  /\ \A k \in Keys : LET v == committed.where[k] IN
       Copy(v, committed.at[v]) /\ disk[committed.at[v]].layout[k] = v
  /\ \A s \in M!Slots : disk[s] # None => disk[s].id \in 1 .. committed.version
HeaderPoints ==
  header = [b \in 1 .. 2 |-> M!Block(committed.version, committed.at[committed.version], TRUE)]

InOrder == CopiesAgree /\ Placed /\ HeaderPoints
StoreInv == left \in BOOLEAN /\ (~left => InOrder) /\ (left => ReadIsHonest)

\* A set of numbers has a least one.
LEMMA Least == ASSUME NEW S, S \subseteq Nat, S # {} PROVE \E m \in S : \A n \in S : m <= n
<1> DEFINE R == {ss \in Nat \X Nat : ss[1] < ss[2]}
<1>1. IsWellFoundedOn(R, Nat)
    BY NatLessThanWellFounded DEF OpToRel
<1> HIDE DEF R
<1>2. PICK m \in S : \A n \in S : <<n, m>> \notin R
    BY <1>1, WFMin
<1>3. \A n \in S : ~(n < m)
    BY <1>2 DEF R
<1> QED
    BY <1>2, <1>3

LEMMA ChunkFacts ==
    ASSUME CopiesAgree, NEW s \in M!Slots, disk[s] # None
    PROVE  /\ disk[s].id \in Nat /\ disk[s].block \in Nat /\ disk[s].footer \in BOOLEAN
           /\ disk[s].layout \in [Keys -> Nat] \cup {None} /\ disk[s].pages \in [Keys -> Nat]
BY DEF CopiesAgree, ChunkType

\* findChunk prefers a copy that nothing has reached into, where there is one.
LEMMA FindsCopy ==
    ASSUME StoreNames, CopiesAgree, NEW id, NEW c, Copy(id, c)
    PROVE  \E s \in M!Slots : M!FindChunk(id) = {s} /\ Copy(id, s)
<1> DEFINE best == {s \in M!Copies(id) : \A t \in M!Copies(id) : M!ChunkQuality(t) <= M!ChunkQuality(s)}
<1>1. \A s \in M!Copies(id) : s \in M!Slots /\ disk[s] # None /\ disk[s].id = id
    BY DEF M!Copies
<1>2. c \in M!Copies(id)
    BY DEF Copy, Footed, M!Copies
<1>3. \A s \in M!Copies(id) : M!ChunkQuality(s) = 6 <=> Footed(s)
    BY <1>1, ChunkFacts DEF CopiesAgree, Footed, M!ChunkQuality
<1>4. \A s \in M!Copies(id) : M!ChunkQuality(s) \in {0, 2, 4, 6}
    BY <1>1, ChunkFacts DEF M!ChunkQuality
<1>5. \A s \in M!Copies(id) : M!ChunkQuality(s) <= 6
    BY <1>4
<1>6. M!ChunkQuality(c) = 6
    BY <1>2, <1>3 DEF Copy
<1>7. \A s : s \in best <=> Copy(id, s)
  <2>1. ASSUME NEW s \in best PROVE Copy(id, s)
    <3>1. s \in M!Copies(id) /\ 6 <= M!ChunkQuality(s)
        BY <1>2, <1>6
    <3> QED
        BY <1>1, <1>3, <1>4, <3>1 DEF Copy
  <2>2. ASSUME NEW s, Copy(id, s) PROVE s \in best
    <3>1. s \in M!Copies(id) /\ M!ChunkQuality(s) = 6
        BY <1>3, <2>2 DEF Copy, Footed, M!Copies
    <3> QED
        BY <1>5, <3>1
  <2> QED
      BY <2>1, <2>2
<1>8. M!FindChunk(id) = {s \in best : \A t \in best : s <= t}
    BY DEF M!FindChunk
<1> HIDE DEF best
<1>9. best \subseteq Nat /\ best \subseteq M!Slots /\ best # {}
    BY <1>7 DEF Copy, M!Slots
<1>10. PICK m \in best : \A t \in best : m <= t
    BY <1>9, Least
<1>11. {s \in best : \A t \in best : s <= t} = {m}
  <2>1. \A s \in best : s \in Nat /\ ((\A t \in best : s <= t) => s <= m)
      BY <1>9
  <2>2. \A s \in best : (\A t \in best : s <= t) => s = m
      BY <1>9, <1>10, <2>1
  <2> QED
      BY <1>10, <2>2
<1> QED
    BY <1>7, <1>8, <1>9, <1>10, <1>11

\* The pages of a version that is on disk are read as they were written.
LEMMA ReadsPages ==
    ASSUME StoreNames, CopiesAgree, NEW n, NEW where, OnDisk(n, where), NEW k \in Keys
    PROVE  M!ReadPage(where[k], k) = {where[k]}
<1>1. PICK c \in M!Slots : Copy(where[k], c) /\ disk[c].layout[k] = where[k]
    BY DEF OnDisk
<1>2. PICK s \in M!Slots : M!FindChunk(where[k]) = {s} /\ Copy(where[k], s)
    BY <1>1, FindsCopy
<1>3. disk[s].layout = disk[c].layout
    BY <1>1, <1>2 DEF CopiesAgree, Copy
<1>4. disk[s].pages[k] = where[k]
    BY <1>1, <1>2, <1>3 DEF CopiesAgree, Copy
<1>5. where[k] # 0
    BY DEF OnDisk
<1> QED
    BY <1>2, <1>4, <1>5 DEF M!ReadPage, M!Parses, M!Bad

\* The layout of a version that is on disk is read, by whatever copy one begins.
LEMMA ReadsLayout ==
    ASSUME StoreNames, CopiesAgree, NEW n, NEW where, OnDisk(n, where),
           NEW s \in M!Slots, disk[s] # None, disk[s].id = n
    PROVE  M!LayoutFrom(s) = {where}
<1>1. PICK c \in M!Slots : Copy(n, c) /\ disk[c].layout = where
    BY DEF OnDisk
<1>2. PICK t \in M!Slots : M!FindChunk(n) = {t} /\ Copy(n, t)
    BY <1>1, FindsCopy
<1>3. disk[t].layout = where
    BY <1>1, <1>2 DEF CopiesAgree, Copy
<1>4. where # None
    BY DEF OnDisk, StoreNames
<1> QED
    BY <1>2, <1>3, <1>4 DEF M!LayoutFrom

\* What is read by a layout whose version is on disk.
WholeRead(n, where) ==
  [version |-> n, where |-> where, got |-> [k \in Keys |-> {where[k]}], lost |-> 0]

LEMMA SameCardinality == ASSUME NEW S PROVE M!Cardinality(S) = Cardinality(S)
BY DEF M!Cardinality, Cardinality

LEMMA DumpsWhole ==
    ASSUME StoreNames, CopiesAgree, NEW n, NEW where, OnDisk(n, where),
           NEW S, M!LayoutChunk = S, S # {}, \A s \in S : s \in M!Slots /\ disk[s] # None /\ disk[s].id = n
    PROVE  M!Dump = {WholeRead(n, where)}
<1>1. \A s \in S : M!LayoutFrom(s) = {where}
    BY ReadsLayout
<1>2. \A s \in S : (CHOOSE l \in M!LayoutFrom(s) : TRUE) = where
    BY <1>1
<1>3. \A k \in Keys : M!ReadPage(where[k], k) = {where[k]}
    BY ReadsPages
<1>4. [k \in Keys |-> M!ReadPage(where[k], k)] = [k \in Keys |-> {where[k]}]
    BY <1>3
<1>5. M!Lost(where) = {}
    BY <1>3 DEF M!Lost
<1>6. M!Cardinality(M!Lost(where)) * M!RejectLost = 0
    BY <1>5, SameCardinality, FS_EmptySet DEF M!RejectLost
<1> DEFINE read(s, w) == [version |-> disk[s].id, where |-> w,
                          got |-> [k \in Keys |-> M!ReadPage(w[k], k)],
                          lost |-> M!Cardinality(M!Lost(w)) * M!RejectLost]
           layout(s) == CHOOSE l \in M!LayoutFrom(s) : TRUE
<1>7. M!Dump = {read(s, layout(s)) : s \in M!LayoutChunk}
    BY DEF M!Dump
<1> HIDE DEF read, layout
<1>8. \A s \in S : read(s, layout(s)) = WholeRead(n, where)
  <2> SUFFICES ASSUME NEW s \in S PROVE read(s, layout(s)) = WholeRead(n, where)
      OBVIOUS
  <2>1. layout(s) = where /\ disk[s].id = n
      BY <1>2 DEF layout
  <2>2. read(s, where) = WholeRead(n, where)
      BY <1>4, <1>6, <2>1 DEF WholeRead, read
  <2> QED
      BY <2>1, <2>2
<1>9. {read(s, layout(s)) : s \in S} = {WholeRead(n, where)}
    BY <1>8
<1> QED
    BY <1>7, <1>9

LEMMA HonestRead ==
    ASSUME NEW n, NEW where, M!Dump = {WholeRead(n, where)}, n >= committed.version - 1,
           ~left => n = committed.version /\ where = committed.where
    PROVE  ReadIsHonest
BY DEF WholeRead, ReadIsHonest, M!ReadIsHonest, M!ReadsWhatWasWritten, M!ReadsTheNewest

\* The header points at a copy of the version.
LEMMA PointedRead ==
    ASSUME StoreNames, CopiesAgree, NEW n, NEW where, OnDisk(n, where),
           NEW s \in M!Slots, disk[s] # None, disk[s].id = n, M!StoreHeader.slot = s
    PROVE  M!Dump = {WholeRead(n, where)}
<1>1. M!Pointed = {s}
    BY DEF M!Pointed
<1>2. M!LayoutFrom(s) # {}
    BY ReadsLayout
<1>3. M!LayoutChunk = {s}
    BY <1>1, <1>2 DEF M!LayoutChunk
<1> QED
    BY <1>3, DumpsWhole

\* A chunk that is needed is on disk.
LEMMA PlacedFacts ==
    ASSUME StoreNames, InOrder
    PROVE  /\ OnDisk(committed.version, committed.where)
           /\ M!StoreHeader.slot = committed.at[committed.version]
           /\ committed.at[committed.version] \in M!Slots
           /\ disk[committed.at[committed.version]] # None
           /\ disk[committed.at[committed.version]].id = committed.version
           /\ M!Needed = {committed.version} \cup {committed.where[k] : k \in Keys}
           /\ M!Needed \subseteq 1 .. committed.version
           /\ \A v \in M!Needed : Copy(v, committed.at[v])
<1>1. committed.version \in Nat \ {0} /\ committed.where \in [Keys -> 1 .. committed.version]
    BY DEF InOrder, Placed
<1>2. header[1].version = committed.version /\ header[2].version = committed.version
      /\ header[1].slot = committed.at[committed.version] /\ header[2].slot = committed.at[committed.version]
    BY DEF InOrder, HeaderPoints, M!Block
<1>3. OnDisk(committed.version, committed.where)
  <2>1. Copy(committed.version, committed.at[committed.version])
        /\ disk[committed.at[committed.version]].layout = committed.where
      BY DEF InOrder, Placed
  <2>2. \A k \in Keys : Copy(committed.where[k], committed.at[committed.where[k]])
                        /\ disk[committed.at[committed.where[k]]].layout[k] = committed.where[k]
      BY DEF InOrder, Placed
  <2>3. committed.where \in [Keys -> Nat \ {0}]
      BY <1>1
  <2> QED
      BY <1>1, <2>1, <2>2, <2>3 DEF OnDisk, Copy
<1>4. M!StoreHeader.slot = committed.at[committed.version]
  <2>1. \A B \in SUBSET (1 .. 2) : B # {} => M!Newest(B) \in 1 .. 2
    <3> SUFFICES ASSUME NEW B \in SUBSET (1 .. 2), B # {} PROVE M!Newest(B) \in 1 .. 2
        OBVIOUS
    <3>1. PICK b \in B : TRUE
        OBVIOUS
    <3>2. \A c \in B : header[c].version <= header[b].version
        BY <1>1, <1>2
    <3>3. M!Newest(B) \in B
        BY <3>1, <3>2 DEF M!Newest
    <3>4. B \subseteq 1 .. 2
        OBVIOUS
    <3> QED
        BY <3>3, <3>4
  <2> DEFINE I == {b \in 1 .. 2 : header[b].sum}
             B == IF I # {} THEN I ELSE 1 .. 2
  <2>2. M!StoreHeader = header[M!Newest(B)]
      BY DEF M!StoreHeader
  <2>3. B \in SUBSET (1 .. 2) /\ B # {}
      OBVIOUS
  <2> QED
      BY <1>2, <2>1, <2>2, <2>3
<1>5. M!Needed = {committed.version} \cup {committed.where[k] : k \in Keys}
    BY <1>2 DEF M!Needed
<1>6. \A v \in M!Needed : v \in 1 .. committed.version /\ Copy(v, committed.at[v])
    BY <1>1, <1>5 DEF InOrder, Placed
<1> QED
    BY <1>3, <1>4, <1>5, <1>6 DEF Copy, Footed

LEMMA OrderIsHonest == ASSUME StoreNames, InOrder PROVE ReadIsHonest
<1>1. M!Dump = {WholeRead(committed.version, committed.where)}
    BY PlacedFacts, PointedRead DEF InOrder
<1>2. committed.version >= committed.version - 1
    BY DEF InOrder, Placed
<1> QED
    BY <1>1, <1>2, HonestRead
-----------------------------------------------------------------------------
\* Only one copy, and it was cut off: the header points at it, and what it has is
\* read; or its layout is gone, and the version before it is read.
LEMMA OnlyCopy ==
    ASSUME NEW s \in M!Slots, disk[s] # None, M!ChunkQuality(s) \in Nat,
           \A u \in M!Slots : u # s /\ disk[u] # None => disk[u].id # disk[s].id
    PROVE  M!FindChunk(disk[s].id) = {s}
<1>1. M!Copies(disk[s].id) = {s}
    BY DEF M!Copies
<1>2. s \in Nat
    BY DEF M!Slots
<1> QED
    BY <1>1, <1>2 DEF M!FindChunk

LEMMA TornRead ==
    ASSUME StoreNames, CopiesAgree, NEW n, NEW where, OnDisk(n, where),
           NEW s \in M!Slots, disk[s] # None, M!StoreHeader.slot = s,
           \A u \in M!Slots : u # s /\ disk[u] # None => disk[u].id # disk[s].id,
           disk[s].layout \in [Keys -> Nat], disk[s].id # 0, disk[s].id >= committed.version - 1, left,
           \A k \in Keys : \/ disk[s].layout[k] = where[k]
                           \/ disk[s].layout[k] = disk[s].id /\ disk[s].pages[k] \in {disk[s].id, M!Bad}
    PROVE  ReadIsHonest
<1> DEFINE read(q, w) == [version |-> disk[q].id, where |-> w,
                          got |-> [k \in Keys |-> M!ReadPage(w[k], k)],
                          lost |-> M!Cardinality(M!Lost(w)) * M!RejectLost]
           layout(q) == CHOOSE w \in M!LayoutFrom(q) : TRUE
           l == disk[s].layout
           v == disk[s].id
           d == read(s, l)
<1>1. M!FindChunk(v) = {s}
  <2>1. M!ChunkQuality(s) \in Nat
      BY ChunkFacts DEF M!ChunkQuality
  <2> QED
      BY <2>1, OnlyCopy
<1>2. M!LayoutFrom(s) = {l}
    BY <1>1 DEF M!LayoutFrom, StoreNames
<1>3. M!Pointed = {s}
    BY DEF M!Pointed
<1>4. M!LayoutChunk = {s}
    BY <1>2, <1>3 DEF M!LayoutChunk
<1>5. M!Dump = {d}
  <2>1. layout(s) = l
      BY <1>2
  <2>2. M!Dump = {read(q, layout(q)) : q \in M!LayoutChunk}
      BY DEF M!Dump
  <2> HIDE DEF read, layout
  <2> QED
      BY <1>4, <2>1, <2>2
<1>6. M!Lost(l) \subseteq Keys /\ IsFiniteSet(M!Lost(l))
  <2>1. M!Lost(l) \subseteq Keys
      BY DEF M!Lost
  <2> QED
      BY <2>1, FS_Subset DEF StoreNames
<1>7. ASSUME NEW k \in Keys PROVE M!ReadPage(l[k], k) \in {{l[k]}, {}}
  <2>1. CASE l[k] = where[k]
      BY <2>1, ReadsPages
  <2>2. CASE l[k] = v /\ disk[s].pages[k] \in {v, M!Bad}
      BY <1>1, <2>2 DEF M!ReadPage, M!Parses
  <2> QED
      BY <2>1, <2>2
<1>8. \A k \in Keys : M!ReadPage(l[k], k) = {} => d.lost > 0
  <2> SUFFICES ASSUME NEW k \in Keys, M!ReadPage(l[k], k) = {} PROVE d.lost > 0
      OBVIOUS
  <2>1. M!Lost(l) # {}
      BY DEF M!Lost
  <2>2. Cardinality(M!Lost(l)) \in Nat /\ Cardinality(M!Lost(l)) # 0
      BY <1>6, <2>1, FS_CardinalityType, FS_EmptySet
  <2>3. d.lost = Cardinality(M!Lost(l))
      BY <2>2, SameCardinality DEF M!RejectLost
  <2> QED
      BY <2>2, <2>3
<1>9. d.version = v /\ d.where = l /\ \A k \in Keys : d.got[k] = M!ReadPage(l[k], k)
    OBVIOUS
<1> HIDE DEF d
<1>10. M!ReadsWhatWasWritten
    BY <1>5, <1>7, <1>8, <1>9 DEF M!ReadsWhatWasWritten
<1>11. M!ReadsTheNewest
    BY <1>5, <1>9 DEF M!ReadsTheNewest
<1> QED
    BY <1>10, <1>11 DEF ReadIsHonest, M!ReadIsHonest

LEMMA BlindRead ==
    ASSUME StoreNames, CopiesAgree, NEW n, NEW where, OnDisk(n, where),
           NEW s \in M!Slots, disk[s] # None, M!StoreHeader.slot = s, ~disk[s].footer,
           \A u \in M!Slots : u # s /\ disk[u] # None => disk[u].id # disk[s].id /\ disk[u].id <= n,
           disk[s].layout = None
    PROVE  M!Dump = {WholeRead(n, where)}
<1> DEFINE readable(S) == {q \in S : M!LayoutFrom(q) # {}}
           rest == readable(M!Scanned)
           S == {q \in rest : \A t \in rest : M!Preferred(q, t)}
<1>1. M!FindChunk(disk[s].id) = {s}
  <2>1. M!ChunkQuality(s) \in Nat
      BY ChunkFacts DEF M!ChunkQuality
  <2> QED
      BY <2>1, OnlyCopy
<1>2. M!LayoutFrom(s) = {}
    BY <1>1 DEF M!LayoutFrom
<1>3. M!Pointed = {s}
    BY DEF M!Pointed
<1>4. M!LayoutChunk = S
    BY <1>2, <1>3 DEF M!LayoutChunk
<1>5. M!Scanned = {q \in M!Slots : disk[q] # None /\ q # s}
    BY <1>3 DEF M!Scanned
<1>6. PICK c \in M!Slots : Copy(n, c)
    BY DEF OnDisk
<1>7. c \in rest
  <2>1. M!LayoutFrom(c) # {}
      BY <1>6, ReadsLayout DEF Copy, Footed
  <2>2. c \in M!Scanned
      BY <1>5, <1>6 DEF Copy, Footed
  <2> QED
      BY <2>1, <2>2
<1>8. \A q \in rest : q \in M!Slots /\ disk[q] # None /\ disk[q].id \in Nat /\ disk[q].id <= n
                      /\ disk[q].footer \in BOOLEAN
    BY <1>5, ChunkFacts
<1>9. n \in Nat
    BY DEF OnDisk
<1>10. disk[c].footer /\ disk[c].id = n
    BY <1>6 DEF Copy, Footed
<1> HIDE DEF rest
<1>11. \A t \in rest : M!Preferred(c, t)
    BY <1>8, <1>10 DEF M!Preferred
<1>12. c \in S
    BY <1>7, <1>11
<1>13. \A q \in S : q \in M!Slots /\ disk[q] # None /\ disk[q].id = n
  <2> SUFFICES ASSUME NEW q \in S PROVE q \in M!Slots /\ disk[q] # None /\ disk[q].id = n
      OBVIOUS
  <2>1. q \in rest /\ M!Preferred(q, c)
      BY <1>7
  <2> QED
      BY <1>8, <1>9, <1>10, <2>1 DEF M!Preferred
<1> HIDE DEF S
<1> QED
    BY <1>4, <1>12, <1>13, DumpsWhole

\* The same of the state after a step.
Reads ==
  /\ CopiesAgree => \A n, where : OnDisk(n, where) =>
       /\ \A s \in M!Slots : disk[s] # None /\ disk[s].id = n /\ M!StoreHeader.slot = s =>
            M!Dump = {WholeRead(n, where)}
       /\ \A s \in M!Slots :
            /\ disk[s] # None /\ M!StoreHeader.slot = s
            /\ \A u \in M!Slots : u # s /\ disk[u] # None => disk[u].id # disk[s].id
            /\ disk[s].layout \in [Keys -> Nat] /\ disk[s].id # 0
            /\ disk[s].id >= committed.version - 1 /\ left
            /\ \A k \in Keys : \/ disk[s].layout[k] = where[k]
                               \/ disk[s].layout[k] = disk[s].id /\ disk[s].pages[k] \in {disk[s].id, M!Bad}
            => ReadIsHonest
       /\ \A s \in M!Slots :
            /\ disk[s] # None /\ M!StoreHeader.slot = s /\ ~disk[s].footer
            /\ \A u \in M!Slots : u # s /\ disk[u] # None => disk[u].id # disk[s].id /\ disk[u].id <= n
            /\ disk[s].layout = None
            => M!Dump = {WholeRead(n, where)}
  /\ \A n, where : M!Dump = {WholeRead(n, where)} /\ n >= committed.version - 1 /\ left => ReadIsHonest
  /\ InOrder => ReadIsHonest

LEMMA NowReads == StoreNames => Reads
<1> SUFFICES ASSUME StoreNames PROVE Reads
    OBVIOUS
<1>1. ASSUME CopiesAgree, NEW n, NEW where, OnDisk(n, where), NEW s \in M!Slots
      PROVE  /\ disk[s] # None /\ disk[s].id = n /\ M!StoreHeader.slot = s =>
                  M!Dump = {WholeRead(n, where)}
             /\ /\ disk[s] # None /\ M!StoreHeader.slot = s
                /\ \A u \in M!Slots : u # s /\ disk[u] # None => disk[u].id # disk[s].id
                /\ disk[s].layout \in [Keys -> Nat] /\ disk[s].id # 0
                /\ disk[s].id >= committed.version - 1 /\ left
                /\ \A k \in Keys : \/ disk[s].layout[k] = where[k]
                                   \/ disk[s].layout[k] = disk[s].id /\ disk[s].pages[k] \in {disk[s].id, M!Bad}
                => ReadIsHonest
             /\ /\ disk[s] # None /\ M!StoreHeader.slot = s /\ ~disk[s].footer
                /\ \A u \in M!Slots : u # s /\ disk[u] # None => disk[u].id # disk[s].id /\ disk[u].id <= n
                /\ disk[s].layout = None
                => M!Dump = {WholeRead(n, where)}
  <2>1. disk[s] # None /\ disk[s].id = n /\ M!StoreHeader.slot = s => M!Dump = {WholeRead(n, where)}
      BY <1>1, PointedRead
  <2>2. ASSUME disk[s] # None, M!StoreHeader.slot = s,
               \A u \in M!Slots : u # s /\ disk[u] # None => disk[u].id # disk[s].id,
               disk[s].layout \in [Keys -> Nat], disk[s].id # 0, disk[s].id >= committed.version - 1, left,
               \A k \in Keys : \/ disk[s].layout[k] = where[k]
                               \/ disk[s].layout[k] = disk[s].id /\ disk[s].pages[k] \in {disk[s].id, M!Bad}
        PROVE  ReadIsHonest
      BY <1>1, <2>2, TornRead
  <2>3. ASSUME disk[s] # None, M!StoreHeader.slot = s, ~disk[s].footer,
               \A u \in M!Slots : u # s /\ disk[u] # None => disk[u].id # disk[s].id /\ disk[u].id <= n,
               disk[s].layout = None
        PROVE  M!Dump = {WholeRead(n, where)}
      BY <1>1, <2>3, BlindRead
  <2> QED
      BY <2>1, <2>2, <2>3
<1>2. \A n, where : M!Dump = {WholeRead(n, where)} /\ n >= committed.version - 1 /\ left => ReadIsHonest
    BY HonestRead
<1>3. InOrder => ReadIsHonest
    BY OrderIsHonest
<1> QED
    BY <1>1, <1>2, <1>3 DEF Reads

LEMMA ThenReads == StoreNames => Reads'
<1>1. (StoreNames => Reads)'
    BY NowReads, PTL
<1> QED
    BY <1>1

\* What reaches into a chunk takes its footer.
LEMMA TornFacts ==
    ASSUME NEW c \in ChunkType, NEW t \in M!Torn(c)
    PROVE  /\ t \in ChunkType /\ ~t.footer /\ t.id = c.id /\ t.layout \in {c.layout, None}
           /\ t.pages \in {c.pages, [k \in Keys |-> M!Bad], [k \in Keys |-> M!Junk]}
<1>1. PICK l \in {c.layout, None}, p \in {c.pages, [k \in Keys |-> M!Bad], [k \in Keys |-> M!Junk]} :
        t = [c EXCEPT !.footer = FALSE, !.layout = l, !.pages = p]
    BY DEF M!Torn
<1>2. t = [id |-> c.id, block |-> c.block, footer |-> FALSE, layout |-> l, pages |-> p]
    BY <1>1 DEF ChunkType
<1>3. l \in [Keys -> Nat] \cup {None} /\ p \in [Keys -> Nat]
    BY DEF ChunkType, M!Bad, M!Junk
<1> QED
    BY <1>2, <1>3 DEF ChunkType

\* A write changes its slot, and at most one other, that is free.
LEMMA WriteFacts ==
    ASSUME StoreNames, CopiesAgree, NEW s \in M!Slots, NEW c \in ChunkType, NEW d \in M!Written(s, c)
    PROVE  /\ d \in [M!Slots -> ChunkType \cup {None}] /\ d[s] = c
           /\ \A u \in M!Slots : u # s =>
                \/ d[u] = disk[u]
                \/ /\ u \in M!Free /\ disk[u] # None /\ d[u] # None /\ ~d[u].footer
                   /\ d[u].id = disk[u].id
<1> DEFINE e == [disk EXCEPT ![s] = c]
<1>1. /\ e \in [M!Slots -> ChunkType \cup {None}] /\ e[s] = c
      /\ \A u \in M!Slots : u # s => e[u] = disk[u]
    BY DEF CopiesAgree
<1>2. \/ d = e
      \/ /\ s - 1 \in M!Free /\ disk[s - 1] # None
         /\ \E t \in M!Torn(disk[s - 1]) : d = [e EXCEPT ![s - 1] = t]
    BY DEF M!Written
<1> HIDE DEF e
<1>3. CASE d = e
    BY <1>1, <1>3
<1>4. CASE /\ s - 1 \in M!Free /\ disk[s - 1] # None
           /\ \E t \in M!Torn(disk[s - 1]) : d = [e EXCEPT ![s - 1] = t]
  <2>1. PICK t \in M!Torn(disk[s - 1]) : d = [e EXCEPT ![s - 1] = t]
      BY <1>4
  <2>2. s - 1 \in M!Slots /\ s - 1 # s /\ disk[s - 1] \in ChunkType
      BY <1>4 DEF M!Free, M!Slots, CopiesAgree, StoreNames
  <2>3. t \in ChunkType /\ ~t.footer /\ t.id = disk[s - 1].id
      BY <2>2, TornFacts
  <2>4. t # None
      BY <2>3 DEF StoreNames
  <2>5. /\ d \in [M!Slots -> ChunkType \cup {None}] /\ d[s] = c /\ d[s - 1] = t
        /\ \A u \in M!Slots : u # s /\ u # s - 1 => d[u] = disk[u]
      BY <1>1, <2>1, <2>2, <2>3
  <2> QED
      BY <1>4, <2>2, <2>3, <2>4, <2>5
<1> QED
    BY <1>2, <1>3, <1>4

\* What a commit and a move leave of a version: all that is needed.
LEMMA WriteKeeps ==
    ASSUME StoreNames, InOrder, NEW n, n = committed.version, NEW where, where = committed.where,
           NEW s \in M!Free, NEW c \in ChunkType, disk' \in M!Written(s, c),
           c.footer => /\ c.block = s /\ c.layout \in [Keys -> Nat]
                       /\ \A k \in Keys : c.layout[k] = c.id => c.pages[k] = c.id
                       /\ \A u \in M!Slots : Footed(u) /\ disk[u].id = c.id => disk[u].layout = c.layout
    PROVE  /\ CopiesAgree' /\ OnDisk(n, where)' /\ disk'[s] = c /\ s \in M!Slots
           /\ \A u \in M!Slots : u # s => /\ Footed(u)' => disk'[u] = disk[u]
                                          /\ u \notin M!Free => disk'[u] = disk[u]
                                          /\ disk'[u] # None => disk[u] # None /\ disk'[u].id = disk[u].id
           /\ \A v \in M!Needed : committed.at[v] # s /\ disk'[committed.at[v]] = disk[committed.at[v]]
<1>1. s \in M!Slots /\ CopiesAgree /\ Placed
    BY DEF M!Free, InOrder
<1>2. /\ disk' \in [M!Slots -> ChunkType \cup {None}] /\ disk'[s] = c
      /\ \A u \in M!Slots : u # s =>
           \/ disk'[u] = disk[u]
           \/ /\ u \in M!Free /\ disk[u] # None /\ disk'[u] # None /\ ~disk'[u].footer
              /\ disk'[u].id = disk[u].id
    BY <1>1, WriteFacts
<1>3. \A u \in M!Slots : u # s => /\ Footed(u)' => disk'[u] = disk[u]
                                  /\ u \notin M!Free => disk'[u] = disk[u]
                                  /\ disk'[u] # None => disk[u] # None /\ disk'[u].id = disk[u].id
    BY <1>2 DEF Footed
<1>4. c # None
    BY DEF StoreNames
<1>5. CopiesAgree'
  <2>1. ASSUME NEW u \in M!Slots, Footed(u)'
        PROVE  /\ disk'[u].block = u /\ disk'[u].layout \in [Keys -> Nat]
               /\ \A k \in Keys : disk'[u].layout[k] = disk'[u].id => disk'[u].pages[k] = disk'[u].id
    <3>1. CASE u = s
        BY <1>2, <2>1, <3>1 DEF Footed
    <3>2. CASE u # s
        BY <1>1, <1>3, <2>1, <3>2 DEF Footed, CopiesAgree
    <3> QED
        BY <3>1, <3>2
  <2>2. ASSUME NEW u \in M!Slots, NEW t \in M!Slots, Footed(u)', Footed(t)', disk'[u].id = disk'[t].id
        PROVE  disk'[u].layout = disk'[t].layout
    <3>1. \A q \in M!Slots : q # s /\ Footed(q)' => disk'[q] = disk[q] /\ Footed(q)
        BY <1>3 DEF Footed
    <3>2. Footed(s)' => c.footer
        BY <1>2 DEF Footed
    <3> QED
        BY <1>1, <1>2, <2>2, <3>1, <3>2 DEF CopiesAgree
  <2> QED
      BY <1>2, <2>1, <2>2 DEF CopiesAgree
<1>6. \A v \in M!Needed : committed.at[v] \in M!Slots \ M!Free /\ Copy(v, committed.at[v])
    BY PlacedFacts DEF M!Free, Copy
<1>7. \A v \in M!Needed : committed.at[v] # s /\ disk'[committed.at[v]] = disk[committed.at[v]]
    BY <1>3, <1>6
<1>8. OnDisk(n, where)'
  <2>1. n \in Nat /\ where \in [Keys -> Nat \ {0}]
      BY PlacedFacts DEF OnDisk
  <2>3. n \in M!Needed /\ \A k \in Keys : where[k] \in M!Needed
      BY PlacedFacts
  <2>4. \E a \in M!Slots : Copy(n, a)' /\ disk'[a].layout = where
    <3>1. PICK a : a = committed.at[n]
        OBVIOUS
    <3>2. Copy(n, a) /\ disk[a].layout = where /\ disk'[a] = disk[a] /\ a \in M!Slots
        BY <1>1, <1>6, <1>7, <2>3, <3>1 DEF Placed
    <3> QED
        BY <3>2 DEF Copy, Footed
  <2>5. ASSUME NEW k \in Keys PROVE \E a \in M!Slots : Copy(where[k], a)' /\ disk'[a].layout[k] = where[k]
    <3>1. PICK a : a = committed.at[where[k]]
        OBVIOUS
    <3>2. Copy(where[k], a) /\ disk[a].layout[k] = where[k] /\ disk'[a] = disk[a] /\ a \in M!Slots
        BY <1>1, <1>6, <1>7, <2>3, <3>1 DEF Placed
    <3> QED
        BY <3>2 DEF Copy, Footed
  <2> QED
      BY <2>1, <2>4, <2>5 DEF OnDisk
<1> QED
    BY <1>1, <1>2, <1>3, <1>5, <1>7, <1>8
-----------------------------------------------------------------------------
LEMMA ChunkIs ==
    ASSUME NEW v \in Nat \ {0}, NEW where \in [Keys -> Nat], NEW s \in M!Slots
    PROVE  /\ M!Chunk(v, where, s) \in ChunkType
           /\ M!Chunk(v, where, s).id = v /\ M!Chunk(v, where, s).block = s
           /\ M!Chunk(v, where, s).footer /\ M!Chunk(v, where, s).layout = where
           /\ \A k \in Keys : where[k] = v => M!Chunk(v, where, s).pages[k] = v
BY DEF M!Chunk, ChunkType, M!Slots, M!Bad

\* The block that is read, of a header whose blocks are both the chunk's.
LEMMA HeaderRead ==
    ASSUME StoreNames, NEW v \in Nat, NEW s \in M!Slots,
           \/ header = [b \in 1 .. 2 |-> M!Block(v, s, TRUE)]
           \/ header[1] = M!Block(v, s, TRUE) /\ header[2].version \in Nat /\ header[2].version < v
           \/ ~header[1].sum /\ header[2] = M!Block(v, s, TRUE)
    PROVE  M!StoreHeader.slot = s
<1> DEFINE intact == {b \in 1 .. 2 : header[b].sum}
           B == IF intact # {} THEN intact ELSE 1 .. 2
<1>1. M!StoreHeader = header[M!Newest(B)]
    BY DEF M!StoreHeader
<1>2. \A b \in 1 .. 2 : b = 1 \/ b = 2
    OBVIOUS
<1>3. ASSUME NEW b \in B, \A c \in B : header[c].version <= header[b].version
      PROVE  M!Newest(B) \in B /\ \A c \in B : header[c].version <= header[M!Newest(B)].version
    BY <1>3 DEF M!Newest
<1>4. CASE header = [b \in 1 .. 2 |-> M!Block(v, s, TRUE)]
  <2>1. \A b \in 1 .. 2 : header[b].version = v /\ header[b].slot = s /\ header[b].sum
      BY <1>4 DEF M!Block
  <2>2. B = 1 .. 2
      BY <2>1
  <2>3. 1 \in 1 .. 2
      OBVIOUS
  <2> HIDE DEF B
  <2>4. M!Newest(B) \in 1 .. 2
      BY <1>3, <2>1, <2>2, <2>3
  <2> QED
      BY <1>1, <2>1, <2>4
<1>5. CASE header[1] = M!Block(v, s, TRUE) /\ header[2].version \in Nat /\ header[2].version < v
  <2>1. header[1].slot = s /\ header[1].sum
      BY <1>5 DEF M!Block
  <2> DEFINE x == header[1].version
             y == header[2].version
  <2>2. 1 \in B /\ B \subseteq 1 .. 2
      BY <2>1
  <2>3a. x = v /\ y \in Nat /\ y < v
      BY <1>5 DEF M!Block
  <2> HIDE DEF B
  <2>3. \A c \in B : header[c].version <= header[1].version
    <3> SUFFICES ASSUME NEW c \in B PROVE header[c].version <= header[1].version
        OBVIOUS
    <3>1. c = 1 \/ c = 2
        BY <2>2
    <3>2. header[c].version = x \/ header[c].version = y
        BY <3>1
    <3> HIDE DEF x, y
    <3>3. header[c].version <= x
        BY <2>3a, <3>2
    <3> QED
        BY <3>3 DEF x
  <2>4. M!Newest(B) \in B /\ header[1].version <= header[M!Newest(B)].version
      BY <1>3, <2>2, <2>3
  <2>5. M!Newest(B) = 1
    <3>1. PICK m : m = M!Newest(B)
        OBVIOUS
    <3>2. m = 1 \/ m = 2
      <4>1. m \in B
          BY <2>4, <3>1
      <4>2. m \in 1 .. 2
          BY <2>2, <4>1
      <4> QED
          BY <4>2
    <3>3. x <= header[m].version
        BY <2>4, <3>1
    <3>4. CASE m = 2
      <4>1. header[m].version = y
          BY <3>4
      <4> HIDE DEF x, y
      <4> QED
          BY <2>3a, <3>3, <4>1
    <3> QED
        BY <3>1, <3>2, <3>4
  <2> QED
      BY <1>1, <2>1, <2>5
<1>6. CASE ~header[1].sum /\ header[2] = M!Block(v, s, TRUE)
  <2>1. header[2].version = v /\ header[2].slot = s /\ header[2].sum
      BY <1>6 DEF M!Block
  <2>2. B = {2}
    <3>1. 2 \in intact /\ 1 \notin intact
      <4>1. 1 \in 1 .. 2 /\ 2 \in 1 .. 2
          OBVIOUS
      <4>2. header[2].sum /\ ~header[1].sum
          BY <1>6, <2>1
      <4> QED
          BY <4>1, <4>2
    <3>2. \A b \in intact : b = 1 \/ b = 2
        OBVIOUS
    <3> HIDE DEF intact
    <3>3. intact = {2}
        BY <3>1, <3>2
    <3> QED
        BY <3>3
  <2> HIDE DEF B
  <2>3. M!Newest(B) \in B
      BY <1>3, <2>1, <2>2
  <2> QED
      BY <1>1, <2>1, <2>2, <2>3
<1> QED
    BY <1>4, <1>5, <1>6

HeaderReads ==
  \A v \in Nat, s \in M!Slots :
    \/ header = [b \in 1 .. 2 |-> M!Block(v, s, TRUE)]
    \/ header[1] = M!Block(v, s, TRUE) /\ header[2].version \in Nat /\ header[2].version < v
    \/ ~header[1].sum /\ header[2] = M!Block(v, s, TRUE)
    => M!StoreHeader.slot = s

LEMMA HeaderThenReads == StoreNames => HeaderReads'
<1>1. StoreNames => HeaderReads
    BY HeaderRead DEF HeaderReads
<1>2. (StoreNames => HeaderReads)'
    BY <1>1, PTL
<1> QED
    BY <1>2

LEMMA SlotSet ==
    ASSUME NEW v, NEW s, NEW t, NEW sum
    PROVE  [M!Block(v, s, sum) EXCEPT !.slot = t] = M!Block(v, t, sum)
<1>1. M!Block(v, s, sum) \in [version : {v}, slot : {s}, sum : {sum}]
    BY DEF M!Block
<1>2. [M!Block(v, s, sum) EXCEPT !.slot = t] \in [version : {v}, slot : {t}, sum : {sum}]
    BY <1>1
<1> QED
    BY <1>2 DEF M!Block

LEMMA BlockMoved ==
    ASSUME NEW v, NEW s, NEW t
    PROVE  M!Block(v, s, TRUE).slot = s /\ [M!Block(v, s, TRUE) EXCEPT !.slot = t] = M!Block(v, t, TRUE)
<1>1. PICK sum : sum \in {TRUE}
    OBVIOUS
<1>2. sum = TRUE
    BY <1>1
<1>3. [M!Block(v, s, sum) EXCEPT !.slot = t] = M!Block(v, t, sum)
    BY SlotSet
<1>4. M!Block(v, s, sum) = M!Block(v, s, TRUE) /\ M!Block(v, t, sum) = M!Block(v, t, TRUE)
    BY <1>2
<1>5. [M!Block(v, s, TRUE) EXCEPT !.slot = t] = M!Block(v, t, sum)
    BY <1>3, <1>4
<1>6. M!Block(v, s, TRUE).slot = s
    BY DEF M!Block
<1> QED
    BY <1>4, <1>5, <1>6

LEMMA HalfHeaders ==
    \A new, block, old : new = [b \in 1 .. 2 |-> block] =>
      /\ [new EXCEPT ![2] = old][1] = block /\ [new EXCEPT ![2] = old][2] = old
      /\ [new EXCEPT ![1].sum = FALSE][2] = block
      /\ [new EXCEPT ![1].sum = FALSE][1] = [block EXCEPT !.sum = FALSE]
<1> SUFFICES ASSUME NEW new, NEW block, NEW old, new = [b \in 1 .. 2 |-> block]
             PROVE  /\ [new EXCEPT ![2] = old][1] = block /\ [new EXCEPT ![2] = old][2] = old
                    /\ [new EXCEPT ![1].sum = FALSE][2] = block
                    /\ [new EXCEPT ![1].sum = FALSE][1] = [block EXCEPT !.sum = FALSE]
    OBVIOUS
<1>1. 1 \in DOMAIN new /\ 2 \in DOMAIN new /\ new[1] = block /\ new[2] = block
    OBVIOUS
<1>2. [new EXCEPT ![2] = old][1] = block /\ [new EXCEPT ![2] = old][2] = old
    BY <1>1
<1>3. [new EXCEPT ![1].sum = FALSE][2] = block
    BY <1>1
<1>4. [new EXCEPT ![1].sum = FALSE][1] = [block EXCEPT !.sum = FALSE]
    BY <1>1
<1> QED
    BY <1>2, <1>3, <1>4

LEMMA SumGone == \A v, s : ~[M!Block(v, s, TRUE) EXCEPT !.sum = FALSE].sum
<1> SUFFICES ASSUME NEW v, NEW s PROVE ~[M!Block(v, s, TRUE) EXCEPT !.sum = FALSE].sum
    OBVIOUS
<1> QED
    BY DEF M!Block

LEMMA MoveOK ==
    ASSUME StoreNames, InOrder, ~left, NEW s \in M!Slots, NEW t \in M!Slots, M!Move(s, t)
    PROVE  ~left' /\ InOrder'
<1>1. CopiesAgree /\ Placed /\ HeaderPoints
    BY DEF InOrder
<1>2. PICK n, where, at : n = committed.version /\ where = committed.where /\ at = committed.at
    OBVIOUS
<1>3. PICK v : v \in M!Needed /\ s = at[v]
    BY <1>2 DEF M!Move, M!Free
<1>4. Copy(v, s) /\ v \in 1 .. n /\ n \in Nat \ {0}
    BY <1>1, <1>2, <1>3, PlacedFacts DEF Placed
<1> DEFINE c == [disk[s] EXCEPT !.block = t]
<1>5. /\ c \in ChunkType /\ c.id = v /\ c.footer /\ c.block = t
      /\ c.layout = disk[s].layout /\ c.pages = disk[s].pages
  <2>1. disk[s] \in ChunkType
      BY <1>1, <1>4 DEF Copy, Footed, CopiesAgree
  <2>2. c = [id |-> disk[s].id, block |-> t, footer |-> disk[s].footer,
             layout |-> disk[s].layout, pages |-> disk[s].pages]
      BY <2>1 DEF ChunkType
  <2> HIDE DEF c
  <2> QED
      BY <1>4, <2>1, <2>2 DEF ChunkType, Copy, Footed, M!Slots
<1>6. t \in M!Free /\ disk' \in M!Written(t, c) /\ left' = left
      /\ header' = [b \in 1 .. 2 |-> IF header[b].slot = s THEN [header[b] EXCEPT !.slot = t] ELSE header[b]]
      /\ committed' = [committed EXCEPT !.at = [w \in DOMAIN @ |-> IF w = disk[s].id THEN t ELSE @[w]]]
    BY DEF M!Move
<1> HIDE DEF c
<1>7. /\ c.layout \in [Keys -> Nat]
      /\ \A k \in Keys : c.layout[k] = c.id => c.pages[k] = c.id
      /\ \A u \in M!Slots : Footed(u) /\ disk[u].id = c.id => disk[u].layout = c.layout
    BY <1>1, <1>4, <1>5 DEF CopiesAgree, Copy
<1>8. /\ CopiesAgree' /\ disk'[t] = c
      /\ \A u \in M!Slots : u # t => /\ disk'[u] # None => disk[u] # None /\ disk'[u].id = disk[u].id
      /\ \A w \in M!Needed : committed.at[w] # t /\ disk'[committed.at[w]] = disk[committed.at[w]]
    BY <1>2, <1>5, <1>6, <1>7, WriteKeeps
<1>9. DOMAIN at = 1 .. n /\ at \in Seq(M!Slots)
    BY <1>1, <1>2 DEF Placed
<1> DEFINE at2 == [w \in 1 .. n |-> IF w = v THEN t ELSE at[w]]
<1>10. committed' = [version |-> n, where |-> where, at |-> at2]
  <2>1. committed = [version |-> n, where |-> where, at |-> at]
      BY <1>1, <1>2 DEF Placed
  <2>2. disk[s].id = v
      BY <1>4 DEF Copy
  <2> QED
      BY <1>6, <1>9, <2>1, <2>2
<1>11. at2 \in Seq(M!Slots) /\ Len(at2) = n
    BY <1>4, <1>9
<1>12. \A w \in M!Needed : w \in 1 .. n /\ Copy(w, at2[w])' /\ disk'[at2[w]].layout = disk[at[w]].layout
  <2> SUFFICES ASSUME NEW w \in M!Needed
               PROVE  w \in 1 .. n /\ Copy(w, at2[w])' /\ disk'[at2[w]].layout = disk[at[w]].layout
      OBVIOUS
  <2>1. w \in 1 .. n /\ Copy(w, at[w])
      BY <1>2, PlacedFacts
  <2>2. PICK a : a = at2[w]
      OBVIOUS
  <2>3. CASE w = v
    <3>1. a = t
        BY <2>1, <2>2, <2>3
    <3>2. disk'[t] = c /\ c.id = v /\ c.footer /\ c # None /\ c.layout = disk[at[w]].layout
        BY <1>3, <1>5, <1>8, <2>3 DEF StoreNames
    <3>3. Copy(w, a)'
        BY <2>3, <3>1, <3>2 DEF Copy, Footed
    <3> QED
        BY <2>1, <2>2, <3>1, <3>2, <3>3
  <2>4. CASE w # v
    <3>1. a = at[w] /\ disk'[a] = disk[a]
        BY <1>2, <1>8, <2>1, <2>2, <2>4
    <3>2. Copy(w, a)'
        BY <2>1, <3>1 DEF Copy, Footed
    <3> QED
        BY <2>1, <2>2, <3>1, <3>2
  <2> QED
      BY <2>3, <2>4
<1>13. n \in M!Needed /\ \A k \in Keys : where[k] \in M!Needed
    BY <1>2, PlacedFacts
<1>14. committed'.version = n /\ committed'.where = where /\ committed'.at = at2
       /\ committed' = [version |-> committed'.version, where |-> committed'.where, at |-> committed'.at]
    BY <1>10
<1> HIDE DEF at2
<1>15. Placed'
  <2>1. where \in [Keys -> 1 .. n] /\ disk[at[n]].layout = where
        /\ \A k \in Keys : disk[at[where[k]]].layout[k] = where[k]
      BY <1>1, <1>2 DEF Placed
  <2>2. PICK a : a = at2[n]
      OBVIOUS
  <2>3. Copy(n, a)' /\ disk'[a].layout = where
      BY <1>12, <1>13, <2>1, <2>2
  <2>4. Copy(committed.version, committed.at[committed.version])'
      BY <1>14, <2>2, <2>3
  <2>5. disk'[committed'.at[committed'.version]].layout = committed'.where
      BY <1>14, <2>2, <2>3
  <2>6. ASSUME NEW k \in Keys
        PROVE  /\ Copy(committed.where[k], committed.at[committed.where[k]])'
               /\ disk'[committed'.at[committed'.where[k]]].layout[k] = committed'.where[k]
    <3>1. PICK w, b : w = where[k] /\ b = at2[w]
        OBVIOUS
    <3>2. Copy(w, b)' /\ disk'[b].layout[k] = w
        BY <1>12, <1>13, <2>1, <3>1
    <3>3. committed'.where[k] = w /\ committed'.at[w] = b
        BY <1>14, <3>1
    <3> QED
        BY <3>2, <3>3
  <2>7. \A u \in M!Slots : disk'[u] # None => disk'[u].id \in 1 .. n
      BY <1>1, <1>2, <1>4, <1>5, <1>8 DEF Placed
  <2> QED
      BY <1>4, <1>11, <1>14, <2>1, <2>4, <2>5, <2>6, <2>7 DEF Placed
<1>16. HeaderPoints'
  <2>1. header = [b \in 1 .. 2 |-> M!Block(n, at[n], TRUE)]
      BY <1>1, <1>2 DEF HeaderPoints
  <2>2. at[n] = s <=> n = v
    <3>1. Copy(n, at[n])
        BY <1>2, <1>13, PlacedFacts
    <3> QED
        BY <1>3, <1>4, <3>1 DEF Copy
  <2>3. at2[n] = IF n = v THEN t ELSE at[n]
      BY <1>4 DEF at2
  <2>4. \A b \in 1 .. 2 : header[b] = M!Block(n, at[n], TRUE)
      BY <2>1
  <2>5. M!Block(n, at[n], TRUE).slot = at[n]
        /\ [M!Block(n, at[n], TRUE) EXCEPT !.slot = t] = M!Block(n, t, TRUE)
      BY BlockMoved
  <2>6. \A b \in 1 .. 2 :
          (IF header[b].slot = s THEN [header[b] EXCEPT !.slot = t] ELSE header[b]) = M!Block(n, at2[n], TRUE)
      BY <2>2, <2>3, <2>4, <2>5
  <2>7. header' = [b \in 1 .. 2 |-> M!Block(n, at2[n], TRUE)]
      BY <1>6, <2>6
  <2> QED
      BY <1>14, <2>7 DEF HeaderPoints
<1> QED
    BY <1>6, <1>8, <1>15, <1>16 DEF InOrder

\* A commit: the new version is in place and the header points at it, or the file
\* is left and the reader finds that version, or the one before.
LEMMA CommitOK ==
    ASSUME StoreNames, StoreFaults = {}, InOrder, ~left, left \in BOOLEAN,
           NEW K \in SUBSET Keys, NEW s \in M!Slots, M!Commit(K, s)
    PROVE  left' \in BOOLEAN /\ (~left' => InOrder') /\ (left' => ReadIsHonest')
<1>1. CopiesAgree /\ Placed /\ HeaderPoints
    BY DEF InOrder
<1>2. PICK n, where, at : n = committed.version /\ where = committed.where /\ at = committed.at
    OBVIOUS
<1>3. /\ n \in Nat \ {0} /\ at \in Seq(M!Slots) /\ Len(at) = n /\ where \in [Keys -> 1 .. n]
      /\ \A u \in M!Slots : disk[u] # None => disk[u].id \in 1 .. n
    BY <1>1, <1>2 DEF Placed
<1> DEFINE v == n + 1
           next == [k \in Keys |-> IF k \in K THEN v ELSE where[k]]
           c == M!Chunk(v, next, s)
           new == [b \in 1 .. 2 |-> M!Block(v, s, TRUE)]
           halves == {[new EXCEPT ![2] = header[2]], [new EXCEPT ![1].sum = FALSE]}
<1>4. /\ s \in M!Free /\ K # {}
      /\ committed' = [version |-> v, where |-> next, at |-> Append(at, s)]
      /\ \/ disk' \in M!Written(s, c) /\ header' = new /\ UNCHANGED left
         \/ disk' \in M!Written(s, c) /\ header' \in halves /\ left' = TRUE
         \/ /\ \E t \in M!TornAtEnd(c) : disk' \in M!Written(s, t)
            /\ header' \in {header, new} /\ left' = TRUE
    BY <1>2 DEF M!Commit
<1>5. v \in Nat \ {0} /\ next \in [Keys -> Nat] /\ next \in [Keys -> 1 .. v]
    BY <1>3
<1>6. committed'.version = v /\ committed'.where = next /\ committed'.at = Append(at, s)
      /\ committed' = [version |-> committed'.version, where |-> committed'.where, at |-> committed'.at]
    BY <1>4
<1>7. \A k \in Keys : (k \in K => next[k] = v) /\ (k \notin K => next[k] = where[k] /\ where[k] # v)
    BY <1>3
<1>8. /\ c \in ChunkType /\ c.id = v /\ c.block = s /\ c.footer /\ c.layout = next
      /\ \A k \in Keys : next[k] = v => c.pages[k] = v
    BY <1>5, ChunkIs
<1>9. /\ Append(at, s) \in Seq(M!Slots) /\ Len(Append(at, s)) = v /\ Append(at, s)[v] = s
      /\ \A i \in 1 .. n : Append(at, s)[i] = at[i]
    BY <1>3
<1>10. \A u \in M!Slots : disk[u] # None => disk[u].id # v
    BY <1>3
<1> HIDE DEF next, c
<1>11. ASSUME disk' \in M!Written(s, c)
       PROVE  /\ CopiesAgree' /\ disk'[s] = c
              /\ \A u \in M!Slots : u # s /\ disk'[u] # None => disk[u] # None /\ disk'[u].id = disk[u].id
              /\ \A w \in M!Needed : disk'[at[w]] = disk[at[w]]
  <2>1. \A u \in M!Slots : Footed(u) /\ disk[u].id = c.id => disk[u].layout = c.layout
      BY <1>8, <1>10 DEF Footed
  <2>2. c.layout \in [Keys -> Nat] /\ \A k \in Keys : c.layout[k] = c.id => c.pages[k] = c.id
      BY <1>5, <1>8
  <2> QED
      BY <1>2, <1>4, <1>8, <1>11, <2>1, <2>2, WriteKeeps
<1>12. n \in M!Needed /\ \A k \in Keys : where[k] \in M!Needed
    BY <1>2, PlacedFacts
<1>13. \A w \in M!Needed : w \in 1 .. n /\ Copy(w, at[w])
    BY <1>2, PlacedFacts
<1>14. ASSUME disk' \in M!Written(s, c) PROVE Copy(v, s)' /\ Placed'
  <2>1. Copy(v, s)'
      BY <1>8, <1>11, <1>14 DEF Copy, Footed, StoreNames
  <2>2. ASSUME NEW k \in Keys
        PROVE  /\ Copy(committed.where[k], committed.at[committed.where[k]])'
               /\ disk'[committed'.at[committed'.where[k]]].layout[k] = committed'.where[k]
    <3>1. CASE k \in K
      <4>1. committed'.where[k] = v /\ committed'.at[v] = s
          BY <1>6, <1>7, <1>9, <3>1
      <4>2. disk'[s].layout[k] = v
          BY <1>7, <1>8, <1>11, <1>14, <3>1
      <4> QED
          BY <2>1, <4>1, <4>2
    <3>2. CASE k \notin K
      <4>1. PICK w, a : w = where[k] /\ a = at[w]
          OBVIOUS
      <4>2. committed'.where[k] = w /\ committed'.at[w] = a
          BY <1>6, <1>7, <1>9, <1>12, <1>13, <3>2, <4>1
      <4>3. disk'[a] = disk[a] /\ Copy(w, a)
          BY <1>11, <1>12, <1>13, <1>14, <4>1
      <4>4. disk[a].layout[k] = w
          BY <1>1, <1>2, <4>1 DEF Placed
      <4>5. Copy(w, a)'
          BY <4>3 DEF Copy, Footed
      <4> QED
          BY <4>2, <4>3, <4>4, <4>5
    <3> QED
        BY <3>1, <3>2
  <2>3. \A u \in M!Slots : disk'[u] # None => disk'[u].id \in 1 .. v
      BY <1>3, <1>8, <1>11, <1>14
  <2>4. committed'.at[committed'.version] = s
      BY <1>6, <1>9
  <2>5. Copy(committed.version, committed.at[committed.version])'
      BY <1>6, <2>1, <2>4
  <2>6. disk'[committed'.at[committed'.version]].layout = committed'.where
      BY <1>6, <1>8, <1>11, <1>14, <2>4
  <2> QED
      BY <1>5, <1>6, <1>9, <2>1, <2>2, <2>3, <2>5, <2>6 DEF Placed
<1>15. CASE disk' \in M!Written(s, c) /\ header' = new /\ UNCHANGED left
  <2>1. HeaderPoints'
      BY <1>6, <1>9, <1>15 DEF HeaderPoints
  <2> QED
      BY <1>11, <1>14, <1>15, <2>1 DEF InOrder
<1>16. CASE disk' \in M!Written(s, c) /\ header' \in halves /\ left' = TRUE
  <2>1. OnDisk(v, next)'
    <3>1. next \in [Keys -> Nat \ {0}]
        BY <1>5
    <3>2. \A k \in Keys : \E a \in M!Slots : Copy(next[k], a)' /\ disk'[a].layout[k] = next[k]
      <4> SUFFICES ASSUME NEW k \in Keys PROVE \E a \in M!Slots : Copy(next[k], a)' /\ disk'[a].layout[k] = next[k]
          OBVIOUS
      <4>1. Placed'
          BY <1>14, <1>16
      <4>2. PICK w, a : w = committed'.where[k] /\ a = committed'.at[w]
          OBVIOUS
      <4>3. Copy(w, a)' /\ disk'[a].layout[k] = w
          BY <4>1, <4>2 DEF Placed
      <4>4. w = next[k]
          BY <1>6, <4>2
      <4> QED
          BY <4>3, <4>4 DEF Copy
    <3>3. Copy(v, s)' /\ disk'[s].layout = next
        BY <1>8, <1>11, <1>14, <1>16
    <3> QED
        BY <1>5, <3>1, <3>2, <3>3 DEF OnDisk
  <2>2. (M!StoreHeader').slot = s
    <3>1. header[2].version \in Nat /\ header[2].version < v
        BY <1>1, <1>2, <1>3 DEF HeaderPoints, M!Block
    <3>2. CASE header' = [new EXCEPT ![2] = header[2]]
      <4>1. header'[1] = M!Block(v, s, TRUE) /\ header'[2] = header[2]
        <5>1. PICK h, block : h = header[2] /\ block = M!Block(v, s, TRUE)
            OBVIOUS
        <5>2. header' = [new EXCEPT ![2] = h] /\ new = [b \in 1 .. 2 |-> block]
            BY <3>2, <5>1
        <5> HIDE DEF new
        <5>3. [new EXCEPT ![2] = h][1] = block /\ [new EXCEPT ![2] = h][2] = h
            BY <5>2, HalfHeaders
        <5>4. header'[1] = block /\ header'[2] = h
            BY <5>2, <5>3
        <5> QED
            BY <5>1, <5>4
      <4>2. header'[2].version \in Nat /\ header'[2].version < v
          BY <3>1, <4>1
      <4> QED
          BY <1>5, <4>1, <4>2, HeaderThenReads DEF HeaderReads
    <3>3. CASE header' = [new EXCEPT ![1].sum = FALSE]
      <4>1. header'[2] = M!Block(v, s, TRUE) /\ header'[1] = [M!Block(v, s, TRUE) EXCEPT !.sum = FALSE]
          BY <3>3, HalfHeaders
      <4>2. ~header'[1].sum
          BY <4>1, SumGone
      <4> QED
          BY <1>5, <4>1, <4>2, HeaderThenReads DEF HeaderReads
    <3> QED
        BY <1>16, <3>2, <3>3
  <2>3. CopiesAgree' /\ disk'[s] # None /\ disk'[s].id = v
      BY <1>8, <1>11, <1>16 DEF StoreNames
  <2>4. (M!Dump = {WholeRead(v, next)})'
      BY <2>1, <2>2, <2>3, ThenReads DEF Reads
  <2>5. v >= committed'.version - 1
      BY <1>5, <1>6
  <2> QED
      BY <1>16, <2>4, <2>5, ThenReads DEF Reads
<1>17. CASE /\ \E t \in M!TornAtEnd(c) : disk' \in M!Written(s, t)
            /\ header' \in {header, new} /\ left' = TRUE
  <2>1. PICK t \in M!TornAtEnd(c) : disk' \in M!Written(s, t)
      BY <1>17
  <2>2. PICK j \in Keys : j \in K
      BY <1>4
  <2>3. /\ t \in ChunkType /\ ~t.footer /\ t.id = v /\ t.layout \in {next, None} /\ t # None
        /\ t.pages \in {c.pages, [k \in Keys |-> M!Bad]}
    <3>1. t \in M!Torn(c) /\ \A k \in Keys : t.pages[k] # M!Junk
        BY <2>1 DEF M!TornAtEnd
    <3>2. /\ t \in ChunkType /\ ~t.footer /\ t.id = c.id /\ t.layout \in {c.layout, None}
          /\ t.pages \in {c.pages, [k \in Keys |-> M!Bad], [k \in Keys |-> M!Junk]}
        BY <1>8, <3>1, TornFacts
    <3>3. t.pages # [k \in Keys |-> M!Junk]
        BY <2>2, <3>1
    <3> QED
        BY <1>8, <3>2, <3>3 DEF StoreNames
  <2>4. /\ CopiesAgree' /\ OnDisk(n, where)' /\ disk'[s] = t
        /\ \A u \in M!Slots : u # s /\ disk'[u] # None => disk[u] # None /\ disk'[u].id = disk[u].id
        /\ \A w \in M!Needed : at[w] # s /\ disk'[at[w]] = disk[at[w]]
      BY <1>2, <1>4, <2>1, <2>3, WriteKeeps
  <2>5. \A u \in M!Slots : u # s /\ disk'[u] # None => disk'[u].id # v /\ disk'[u].id <= n
      BY <1>3, <1>10, <2>4
  <2>6. n >= committed'.version - 1 /\ v >= committed'.version - 1
      BY <1>3, <1>6
  <2>7. CASE header' = header
    <3>1. M!StoreHeader' = M!StoreHeader
        BY <2>7 DEF M!StoreHeader, M!Newest
    <3>2. PICK a : a = at[n]
        OBVIOUS
    <3>3. a \in M!Slots /\ disk'[a] = disk[a] /\ Copy(n, a) /\ M!StoreHeader.slot = a
        BY <1>2, <1>12, <1>13, <2>4, <3>2, PlacedFacts DEF Copy
    <3>4. disk'[a] # None /\ disk'[a].id = n /\ (M!StoreHeader').slot = a
        BY <3>1, <3>3 DEF Copy, Footed
    <3>5. (M!Dump = {WholeRead(n, where)})'
        BY <2>4, <3>3, <3>4, ThenReads DEF Reads
    <3> QED
        BY <1>17, <2>6, <3>5, ThenReads DEF Reads
  <2>8. CASE header' = new
    <3>1. (M!StoreHeader').slot = s
        BY <1>5, <2>8, HeaderThenReads DEF HeaderReads
    <3>2. disk'[s] # None /\ disk'[s].id = v /\ v # 0 /\ ~disk'[s].footer
        BY <1>5, <2>3, <2>4
    <3>3. CASE t.layout = next
      <4>1. disk'[s].layout = next /\ next \in [Keys -> Nat]
          BY <1>5, <2>4, <3>3
      <4>2. \A k \in Keys : \/ next[k] = where[k]
                            \/ next[k] = v /\ t.pages[k] \in {v, M!Bad}
          BY <1>7, <1>8, <2>3
      <4>3. \A k \in Keys : \/ disk'[s].layout[k] = where[k]
                            \/ /\ disk'[s].layout[k] = disk'[s].id
                               /\ disk'[s].pages[k] \in {disk'[s].id, M!Bad}
          BY <2>4, <3>2, <4>1, <4>2
      <4>4. \A u \in M!Slots : u # s /\ disk'[u] # None => disk'[u].id # disk'[s].id
          BY <2>5, <3>2
      <4>5. disk'[s].layout \in [Keys -> Nat] /\ disk'[s].id # 0 /\ disk'[s].id >= committed'.version - 1
          BY <2>6, <3>2, <4>1
      <4>6. ReadIsHonest'
          BY <1>17, <2>4, <3>1, <3>2, <4>3, <4>4, <4>5, ThenReads DEF Reads
      <4> QED
          BY <1>17, <4>6
    <3>4. CASE t.layout = None
      <4>1. disk'[s].layout = None
          BY <2>4, <3>4
      <4>2. \A u \in M!Slots : u # s /\ disk'[u] # None => disk'[u].id # disk'[s].id /\ disk'[u].id <= n
          BY <2>5, <3>2
      <4>3. (M!Dump = {WholeRead(n, where)})'
          BY <2>4, <3>1, <3>2, <4>1, <4>2, ThenReads DEF Reads
      <4> QED
          BY <1>17, <2>6, <4>3, ThenReads DEF Reads
    <3> QED
        BY <2>3, <3>3, <3>4
  <2> QED
      BY <1>17, <2>7, <2>8
<1> QED
    BY <1>4, <1>15, <1>16, <1>17

LEMMA LeaveOK == ASSUME StoreNames, StoreFaults = {}, InOrder, M!Leave PROVE left' = TRUE /\ ReadIsHonest'
<1>1. PICK n, where : n = committed.version /\ where = committed.where
    OBVIOUS
<1>2. left' = TRUE /\ UNCHANGED <<disk, header, committed>>
    BY DEF M!Leave
<1>3. PICK s \in M!Slots : disk[s] # None /\ disk[s].id = n /\ M!StoreHeader.slot = s
    BY <1>1, PlacedFacts
<1>4. CopiesAgree /\ OnDisk(n, where)
    BY <1>1, PlacedFacts DEF InOrder
<1>5. CopiesAgree' /\ OnDisk(n, where)'
    BY <1>2, <1>4 DEF CopiesAgree, OnDisk, Copy, Footed
<1>6. M!StoreHeader' = M!StoreHeader
    BY <1>2 DEF M!StoreHeader, M!Newest
<1>7. (M!Dump = {WholeRead(n, where)})'
    BY <1>2, <1>3, <1>5, <1>6, ThenReads DEF Reads
<1>8. n >= committed'.version - 1
    BY <1>1, <1>2 DEF InOrder, Placed
<1> QED
    BY <1>2, <1>7, <1>8, ThenReads DEF Reads

LEMMA StoreStarts == ASSUME StoreNames, M!Init PROVE StoreInv
<1>1. /\ committed = [version |-> 1, where |-> [k \in Keys |-> 1], at |-> <<1>>] /\ left = FALSE
      /\ header = [b \in 1 .. 2 |-> M!Block(1, 1, TRUE)]
    BY DEF M!Init
<1> DEFINE where == [k \in Keys |-> 1]
           c == M!Chunk(1, where, 1)
<1>2. disk = [s \in M!Slots |-> IF s = 1 THEN c ELSE None]
    BY <1>1 DEF M!Init
<1>3. 1 \in M!Slots /\ where \in [Keys -> Nat] /\ where \in [Keys -> 1 .. 1] /\ \A k \in Keys : where[k] = 1
    BY DEF M!Slots, StoreNames
<1>4. c \in ChunkType /\ c.id = 1 /\ c.block = 1 /\ c.footer /\ c.layout = where /\ c # None
      /\ \A k \in Keys : where[k] = 1 => c.pages[k] = 1
    BY <1>3, ChunkIs DEF StoreNames
<1> HIDE DEF c
<1>5. disk[1] = c /\ \A s \in M!Slots : s # 1 => disk[s] = None
    BY <1>2, <1>3
<1>6. disk \in [M!Slots -> ChunkType \cup {None}]
    BY <1>2, <1>4
<1>7. \A s \in M!Slots : Footed(s) => s = 1
    BY <1>5 DEF Footed
<1>8. CopiesAgree
    BY <1>3, <1>4, <1>5, <1>6, <1>7 DEF CopiesAgree
<1>9. committed.version = 1 /\ committed.where = where /\ committed.at = <<1>>
      /\ committed = [version |-> committed.version, where |-> committed.where, at |-> committed.at]
    BY <1>1
<1>10. Copy(1, 1)
    BY <1>3, <1>4, <1>5 DEF Copy, Footed
<1>11. <<1>> \in Seq(M!Slots) /\ Len(<<1>>) = 1 /\ <<1>>[1] = 1
    BY <1>3
<1>12. \A s \in M!Slots : disk[s] # None => disk[s].id \in 1 .. 1
    BY <1>4, <1>5
<1> HIDE DEF where
<1>13. Placed
    BY <1>3, <1>4, <1>5, <1>9, <1>10, <1>11, <1>12 DEF Placed
<1>14. HeaderPoints
    BY <1>1, <1>9, <1>11 DEF HeaderPoints
<1> QED
    BY <1>1, <1>8, <1>13, <1>14 DEF StoreInv, InOrder

LEMMA StoreKept == ASSUME StoreNames, StoreFaults = {}, StoreInv, [M!Next]_M!vars PROVE StoreInv'
<1>1. CASE UNCHANGED M!vars
  <2>1. disk' = disk /\ header' = header /\ committed' = committed /\ left' = left
      BY <1>1 DEF M!vars
  <2>2. InOrder => InOrder'
    <3>1. CopiesAgree => CopiesAgree'
        BY <2>1 DEF CopiesAgree, Footed
    <3>2. Placed => Placed'
        BY <2>1, Zenon DEF Placed, Copy, Footed
    <3>3. HeaderPoints => HeaderPoints'
        BY <2>1, Zenon DEF HeaderPoints
    <3> QED
        BY <3>1, <3>2, <3>3 DEF InOrder
  <2>3. CASE ~left
      BY <2>1, <2>2, <2>3 DEF StoreInv
  <2>4. CASE left
    <3>1. M!Dump' = M!Dump
        BY <2>1 DEF M!Dump, M!LayoutChunk, M!LayoutFrom, M!FindChunk, M!Copies, M!ChunkQuality, M!Pointed, M!Scanned,
           M!Preferred, M!StoreHeader, M!Newest, M!ReadPage, M!Lost
    <3>2. ReadIsHonest'
        BY <2>1, <2>4, <3>1 DEF StoreInv, ReadIsHonest, M!ReadIsHonest, M!ReadsWhatWasWritten, M!ReadsTheNewest
    <3> QED
        BY <2>1, <2>4, <3>2 DEF StoreInv
  <2> QED
      BY <2>3, <2>4
<1>2. ASSUME NEW K \in SUBSET Keys, NEW s \in M!Slots, M!Commit(K, s) PROVE StoreInv'
  <2>1. ~left /\ InOrder /\ left \in BOOLEAN
      BY <1>2 DEF M!Commit, StoreInv
  <2> QED
      BY <1>2, <2>1, CommitOK DEF StoreInv
<1>3. ASSUME NEW s \in M!Slots, NEW t \in M!Slots, M!Move(s, t) PROVE StoreInv'
  <2>1. ~left /\ InOrder /\ left' \in BOOLEAN
      BY <1>3 DEF M!Move, StoreInv
  <2> QED
      BY <1>3, <2>1, MoveOK DEF StoreInv
<1>4. CASE M!Leave
  <2>1. ~left /\ InOrder
      BY <1>4 DEF M!Leave, StoreInv
  <2> QED
      BY <1>4, <2>1, LeaveOK DEF StoreInv
<1> QED
    BY <1>1, <1>2, <1>3, <1>4 DEF M!Next

\* Whatever is read of storage.db belongs to the version that is read, the version
\* is the last that was committed or, where a commit was cut off, the one before,
\* and a key that is missing is counted as lost.
THEOREM ReadsAreHonest == ASSUME StoreNames, StoreFaults = {} PROVE M!Spec => []ReadIsHonest
<1>1. M!Init => StoreInv
    BY StoreStarts
<1>2. StoreInv /\ [M!Next]_M!vars => StoreInv'
    BY StoreKept
<1>3. StoreInv => ReadIsHonest
  <2> SUFFICES ASSUME StoreInv PROVE ReadIsHonest
      OBVIOUS
  <2> QED
      BY OrderIsHonest DEF StoreInv
<1> QED
    BY <1>1, <1>2, <1>3, PTL DEF M!Spec
-----------------------------------------------------------------------------
(* BundleVersions.                                                        *)

\* What a comparison says, and what a part of a suffix is: a word or numbers.
Verdicts == {-1, 0, 1}
Parts == [kind : {"word"}, rank : Nat] \cup [kind : {"nums"}, nums : Seq(Nat)]
\* The keys are of numbers and parts.
VersionNames ==
  ScopePaths \subseteq Seq(Nat) /\ VersionNums \subseteq Seq(Nat) /\ SuffixLists \subseteq Seq(Parts)

\* What the verdicts on two neighbours make of the verdict on the outer two.
Follows(x, y, z) ==
  x >= 0 /\ y >= 0 => z >= 0 /\ (x > 0 \/ y > 0 => z > 0) /\ (x = 0 /\ y = 0 => z = 0)

\* The first of some positions is the one that is chosen.
LEMMA LeastOf ==
  ASSUME NEW S, S \subseteq Nat, S # {}
  PROVE  \E i \in S : /\ \A j \in S : i <= j
                      /\ (CHOOSE k \in S : \A j \in S : k <= j) = i
<1>1. PICK i \in S : \A j \in S : i <= j
    BY Least
<1>2. \A k \in S : (\A j \in S : k <= j) <=> k = i
    BY <1>1
<1>3. (CHOOSE k \in S : \A j \in S : k <= j) \in S
      /\ \A j \in S : (CHOOSE k \in S : \A l \in S : k <= l) <= j
    BY <1>1
<1> QED
    BY <1>1, <1>2, <1>3

\* Two slices compare as at the first place where they differ, or by their lengths.
LEMMA SliceFacts ==
  ASSUME NEW signs, DOMAIN signs \subseteq Nat, \A i \in DOMAIN signs : signs[i] \in Verdicts,
         NEW a, NEW b, NEW p \in BOOLEAN
  PROVE  \/ \E i \in DOMAIN signs : /\ signs[i] # 0 /\ V!CompareSlices(signs, a, b, p) = signs[i]
                                    /\ \A j \in DOMAIN signs : j < i => signs[j] = 0
         \/ /\ \A i \in DOMAIN signs : signs[i] = 0
            /\ V!CompareSlices(signs, a, b, p) =
                 IF p THEN V!SignOf(Len(b), Len(a)) ELSE V!SignOf(Len(a), Len(b))
<1> DEFINE differ == {i \in DOMAIN signs : signs[i] # 0}
<1>1. CASE differ = {}
    BY <1>1 DEF V!CompareSlices
<1>2. CASE differ # {}
  <2>1. PICK i \in differ : /\ \A j \in differ : i <= j
                            /\ (CHOOSE k \in differ : \A j \in differ : k <= j) = i
      BY <1>2, LeastOf
  <2>2. V!CompareSlices(signs, a, b, p) = signs[i]
      BY <1>2, <2>1 DEF V!CompareSlices
  <2>3. \A j \in DOMAIN signs : j < i => signs[j] = 0
      BY <2>1
  <2> QED
      BY <2>1, <2>2, <2>3
<1> QED
    BY <1>1, <1>2

\* Where the places of two slices compare the other way round, so do the slices.
LEMMA SlicesOpposed ==
  ASSUME NEW a, NEW b, Len(a) \in Nat, Len(b) \in Nat, NEW p \in BOOLEAN, NEW sab, NEW sba,
         DOMAIN sab = V!Shared(a, b), DOMAIN sba = V!Shared(b, a),
         \A i \in DOMAIN sab : sab[i] \in Verdicts /\ sba[i] = -sab[i]
  PROVE  /\ V!CompareSlices(sab, a, b, p) \in Verdicts
         /\ V!CompareSlices(sba, b, a, p) = -V!CompareSlices(sab, a, b, p)
<1>1. DOMAIN sab \subseteq Nat /\ DOMAIN sba = DOMAIN sab
    BY DEF V!Shared
<1>2. \A i \in DOMAIN sba : sba[i] \in Verdicts
    BY <1>1 DEF Verdicts
<1> DEFINE r == V!CompareSlices(sab, a, b, p)
           q == V!CompareSlices(sba, b, a, p)
<1>3. \/ \E i \in DOMAIN sab : sab[i] # 0 /\ r = sab[i] /\ \A j \in DOMAIN sab : j < i => sab[j] = 0
      \/ /\ \A i \in DOMAIN sab : sab[i] = 0
         /\ r = IF p THEN V!SignOf(Len(b), Len(a)) ELSE V!SignOf(Len(a), Len(b))
    BY <1>1, SliceFacts
<1>4. \/ \E i \in DOMAIN sba : sba[i] # 0 /\ q = sba[i] /\ \A j \in DOMAIN sba : j < i => sba[j] = 0
      \/ /\ \A i \in DOMAIN sba : sba[i] = 0
         /\ q = IF p THEN V!SignOf(Len(a), Len(b)) ELSE V!SignOf(Len(b), Len(a))
    BY <1>1, <1>2, SliceFacts
<1> HIDE DEF r, q
<1>5. r \in Verdicts /\ q = -r
    BY <1>1, <1>3, <1>4 DEF Verdicts, V!SignOf
<1> QED
    BY <1>5 DEF r, q

\* Where the places of three slices follow from each other, so do the slices.
LEMMA SlicesFollow ==
  ASSUME NEW a, NEW b, NEW c, Len(a) \in Nat, Len(b) \in Nat, Len(c) \in Nat, NEW p \in BOOLEAN,
         NEW sab, NEW sbc, NEW sac,
         DOMAIN sab = V!Shared(a, b), DOMAIN sbc = V!Shared(b, c), DOMAIN sac = V!Shared(a, c),
         \A i \in DOMAIN sab : sab[i] \in Verdicts, \A i \in DOMAIN sbc : sbc[i] \in Verdicts,
         \A i \in DOMAIN sac : sac[i] \in Verdicts,
         \A i \in DOMAIN sab \cap DOMAIN sbc \cap DOMAIN sac : Follows(sab[i], sbc[i], sac[i])
  PROVE  Follows(V!CompareSlices(sab, a, b, p), V!CompareSlices(sbc, b, c, p), V!CompareSlices(sac, a, c, p))
<1> DEFINE x == V!CompareSlices(sab, a, b, p)
           y == V!CompareSlices(sbc, b, c, p)
           z == V!CompareSlices(sac, a, c, p)
<1>1. /\ DOMAIN sab \subseteq Nat /\ DOMAIN sbc \subseteq Nat /\ DOMAIN sac \subseteq Nat
      /\ \A i : /\ i \in DOMAIN sab <=> i \in Nat /\ 1 <= i /\ i <= Len(a) /\ i <= Len(b)
                /\ i \in DOMAIN sbc <=> i \in Nat /\ 1 <= i /\ i <= Len(b) /\ i <= Len(c)
                /\ i \in DOMAIN sac <=> i \in Nat /\ 1 <= i /\ i <= Len(a) /\ i <= Len(c)
    BY DEF V!Shared
<1>2. \/ \E i \in DOMAIN sab : sab[i] # 0 /\ x = sab[i] /\ \A j \in DOMAIN sab : j < i => sab[j] = 0
      \/ /\ \A i \in DOMAIN sab : sab[i] = 0
         /\ x = IF p THEN V!SignOf(Len(b), Len(a)) ELSE V!SignOf(Len(a), Len(b))
    BY <1>1, SliceFacts
<1>3. \/ \E i \in DOMAIN sbc : sbc[i] # 0 /\ y = sbc[i] /\ \A j \in DOMAIN sbc : j < i => sbc[j] = 0
      \/ /\ \A i \in DOMAIN sbc : sbc[i] = 0
         /\ y = IF p THEN V!SignOf(Len(c), Len(b)) ELSE V!SignOf(Len(b), Len(c))
    BY <1>1, SliceFacts
<1>4. \/ \E i \in DOMAIN sac : sac[i] # 0 /\ z = sac[i] /\ \A j \in DOMAIN sac : j < i => sac[j] = 0
      \/ /\ \A i \in DOMAIN sac : sac[i] = 0
         /\ z = IF p THEN V!SignOf(Len(c), Len(a)) ELSE V!SignOf(Len(a), Len(c))
    BY <1>1, SliceFacts
<1> HIDE DEF x, y, z
<1>5. SUFFICES ASSUME x >= 0, y >= 0
               PROVE  z >= 0 /\ (x > 0 \/ y > 0 => z > 0) /\ (x = 0 /\ y = 0 => z = 0)
    BY DEF Follows, x, y, z
<1>a. x \in Int /\ y \in Int /\ z \in Int
    BY <1>2, <1>3, <1>4 DEF Verdicts, V!SignOf
<1>6. CASE \E i \in DOMAIN sab : sab[i] # 0 /\ x = sab[i] /\ \A j \in DOMAIN sab : j < i => sab[j] = 0
  <2>1. PICK i \in DOMAIN sab : sab[i] # 0 /\ x = sab[i] /\ \A j \in DOMAIN sab : j < i => sab[j] = 0
      BY <1>6
  <2>2. CASE \E k \in DOMAIN sbc : sbc[k] # 0 /\ y = sbc[k] /\ \A j \in DOMAIN sbc : j < k => sbc[j] = 0
    <3>1. PICK k \in DOMAIN sbc : sbc[k] # 0 /\ y = sbc[k] /\ \A j \in DOMAIN sbc : j < k => sbc[j] = 0
        BY <2>2
    <3>2. PICK m : m = IF i < k THEN i ELSE k
        OBVIOUS
    <3>3. m \in DOMAIN sac /\ m \in DOMAIN sab /\ m \in DOMAIN sbc
        BY <1>1, <3>2
    <3>4. sac[m] > 0
        BY <1>1, <1>5, <2>1, <3>1, <3>2, <3>3 DEF Follows, Verdicts
    <3>5. \A j \in DOMAIN sac : j < m => sac[j] = 0
        BY <1>1, <2>1, <3>1, <3>2, <3>3 DEF Follows
    <3>6. z > 0
        BY <1>1, <1>4, <3>3, <3>4, <3>5 DEF Verdicts
    <3>7. x > 0
        BY <1>5, <2>1 DEF Verdicts
    <3> QED
        BY <1>a, <3>6, <3>7
  <2>3. CASE /\ \A k \in DOMAIN sbc : sbc[k] = 0
             /\ y = IF p THEN V!SignOf(Len(c), Len(b)) ELSE V!SignOf(Len(b), Len(c))
    <3>1. x > 0
        BY <1>5, <2>1 DEF Verdicts
    <3>2. \A j \in DOMAIN sac : j < i => sac[j] = 0
        BY <1>1, <2>1, <2>3 DEF Follows
    <3>3. CASE i <= Len(c)
      <4>1. i \in DOMAIN sac /\ i \in DOMAIN sbc
          BY <1>1, <3>3
      <4>2. sac[i] > 0
          BY <1>5, <2>1, <2>3, <3>1, <4>1 DEF Follows
      <4>3. z > 0
          BY <1>1, <1>4, <3>2, <4>1, <4>2 DEF Verdicts
      <4> QED
          BY <1>a, <3>1, <4>3
    <3>4. CASE i > Len(c)
      <4>1. \A j \in DOMAIN sac : sac[j] = 0
          BY <1>1, <3>2, <3>4
      <4>2. Len(b) > Len(c) /\ Len(a) > Len(c)
          BY <1>1, <3>4
      <4>3. p = FALSE
          BY <1>5, <2>3, <4>2 DEF V!SignOf
      <4>4. z = 1
          BY <1>4, <4>1, <4>2, <4>3 DEF V!SignOf
      <4> QED
          BY <3>1, <4>4
    <3> QED
        BY <1>1, <3>3, <3>4
  <2> QED
      BY <1>3, <2>2, <2>3
<1>7. CASE /\ \A i \in DOMAIN sab : sab[i] = 0
           /\ x = IF p THEN V!SignOf(Len(b), Len(a)) ELSE V!SignOf(Len(a), Len(b))
  <2>2. CASE \E k \in DOMAIN sbc : sbc[k] # 0 /\ y = sbc[k] /\ \A j \in DOMAIN sbc : j < k => sbc[j] = 0
    <3>1. PICK k \in DOMAIN sbc : sbc[k] # 0 /\ y = sbc[k] /\ \A j \in DOMAIN sbc : j < k => sbc[j] = 0
        BY <2>2
    <3>2. y > 0
        BY <1>5, <3>1 DEF Verdicts
    <3>3. \A j \in DOMAIN sac : j < k => sac[j] = 0
        BY <1>1, <1>7, <3>1 DEF Follows
    <3>4. CASE k <= Len(a)
      <4>1. k \in DOMAIN sac /\ k \in DOMAIN sab
          BY <1>1, <3>4
      <4>2. sac[k] > 0
          BY <1>5, <1>7, <3>1, <3>2, <4>1 DEF Follows
      <4>3. z > 0
          BY <1>1, <1>4, <3>3, <4>1, <4>2 DEF Verdicts
      <4> QED
          BY <1>a, <3>2, <4>3
    <3>5. CASE k > Len(a)
      <4>1. \A j \in DOMAIN sac : sac[j] = 0
          BY <1>1, <3>3, <3>5
      <4>2. Len(b) > Len(a) /\ Len(c) > Len(a)
          BY <1>1, <3>5
      <4>3. p = TRUE
          BY <1>5, <1>7, <4>2 DEF V!SignOf
      <4>4. z = 1
          BY <1>4, <4>1, <4>2, <4>3 DEF V!SignOf
      <4> QED
          BY <3>2, <4>4
    <3> QED
        BY <1>1, <3>4, <3>5
  <2>3. CASE /\ \A k \in DOMAIN sbc : sbc[k] = 0
             /\ y = IF p THEN V!SignOf(Len(c), Len(b)) ELSE V!SignOf(Len(b), Len(c))
    <3>1. \A j \in DOMAIN sac : j \in DOMAIN sab /\ j \in DOMAIN sbc
        BY <1>1, <1>5, <1>7, <2>3 DEF V!SignOf
    <3>2. \A j \in DOMAIN sac : sac[j] = 0
        BY <1>7, <2>3, <3>1 DEF Follows
    <3>3. z = IF p THEN V!SignOf(Len(c), Len(a)) ELSE V!SignOf(Len(a), Len(c))
        BY <1>4, <3>2
    <3> QED
        BY <1>5, <1>7, <2>3, <3>3 DEF V!SignOf
  <2> QED
      BY <1>3, <2>2, <2>3
<1> QED
    BY <1>2, <1>6, <1>7

\* The places that two sequences share.
LEMMA SharedIn ==
  ASSUME NEW S, NEW a \in Seq(S), NEW b \in Seq(S)
  PROVE  /\ Len(a) \in Nat /\ Len(b) \in Nat
         /\ \A i \in V!Shared(a, b) : a[i] \in S /\ b[i] \in S
BY DEF V!Shared

\* Slices of numbers.
LEMMA NumsOpposed ==
  ASSUME NEW a \in Seq(Nat), NEW b \in Seq(Nat), NEW p \in BOOLEAN
  PROVE  /\ V!CompareNums(a, b, p) \in Verdicts
         /\ V!CompareNums(b, a, p) = -V!CompareNums(a, b, p)
<1> DEFINE sab == [i \in V!Shared(a, b) |-> V!SignOf(a[i], b[i])]
           sba == [i \in V!Shared(b, a) |-> V!SignOf(b[i], a[i])]
<1>1. Len(a) \in Nat /\ Len(b) \in Nat /\ \A i \in V!Shared(a, b) : a[i] \in Nat /\ b[i] \in Nat
    BY SharedIn
<1>2. V!Shared(a, b) = V!Shared(b, a)
    BY <1>1 DEF V!Shared
<1>3. \A i \in V!Shared(a, b) : sab[i] \in Verdicts /\ sba[i] = -sab[i]
    BY <1>1, <1>2 DEF V!SignOf, Verdicts
<1>4. DOMAIN sab = V!Shared(a, b) /\ DOMAIN sba = V!Shared(b, a)
    OBVIOUS
<1> HIDE DEF sab, sba
<1>5. /\ V!CompareSlices(sab, a, b, p) \in Verdicts
      /\ V!CompareSlices(sba, b, a, p) = -V!CompareSlices(sab, a, b, p)
    BY <1>1, <1>3, <1>4, SlicesOpposed
<1> QED
    BY <1>5 DEF V!CompareNums, sab, sba

\* And of three.
LEMMA NumsFollow ==
  ASSUME NEW a \in Seq(Nat), NEW b \in Seq(Nat), NEW c \in Seq(Nat), NEW p \in BOOLEAN
  PROVE  Follows(V!CompareNums(a, b, p), V!CompareNums(b, c, p), V!CompareNums(a, c, p))
<1> DEFINE sab == [i \in V!Shared(a, b) |-> V!SignOf(a[i], b[i])]
           sbc == [i \in V!Shared(b, c) |-> V!SignOf(b[i], c[i])]
           sac == [i \in V!Shared(a, c) |-> V!SignOf(a[i], c[i])]
<1>1. /\ Len(a) \in Nat /\ Len(b) \in Nat /\ Len(c) \in Nat
      /\ \A i \in V!Shared(a, b) : a[i] \in Nat /\ b[i] \in Nat
      /\ \A i \in V!Shared(b, c) : b[i] \in Nat /\ c[i] \in Nat
      /\ \A i \in V!Shared(a, c) : a[i] \in Nat /\ c[i] \in Nat
    BY SharedIn
<1>2. /\ \A i \in V!Shared(a, b) : sab[i] \in Verdicts
      /\ \A i \in V!Shared(b, c) : sbc[i] \in Verdicts
      /\ \A i \in V!Shared(a, c) : sac[i] \in Verdicts
    BY <1>1 DEF V!SignOf, Verdicts
<1>3. DOMAIN sab = V!Shared(a, b) /\ DOMAIN sbc = V!Shared(b, c) /\ DOMAIN sac = V!Shared(a, c)
    OBVIOUS
<1>4. \A i \in DOMAIN sab \cap DOMAIN sbc \cap DOMAIN sac : Follows(sab[i], sbc[i], sac[i])
    BY <1>1, <1>3 DEF Follows, V!SignOf
<1> HIDE DEF sab, sbc, sac
<1>5. Follows(V!CompareSlices(sab, a, b, p), V!CompareSlices(sbc, b, c, p), V!CompareSlices(sac, a, c, p))
    BY <1>1, <1>2, <1>3, <1>4, SlicesFollow
<1> QED
    BY <1>5 DEF V!CompareNums, sab, sbc, sac

\* A part of numbers is above a word.
LEMMA NumbersAboveWords ==
  ASSUME NEW a, NEW b, V!Word(a), ~V!Word(b)
  PROVE  V!CompareSuffixPart(a, b) = -1 /\ V!CompareSuffixPart(b, a) = 1
BY DEF V!CompareSuffixPart

\* Parts of a suffix.
LEMMA PartsOpposed ==
  ASSUME NEW a \in Parts, NEW b \in Parts
  PROVE  /\ V!CompareSuffixPart(a, b) \in Verdicts
         /\ V!CompareSuffixPart(b, a) = -V!CompareSuffixPart(a, b)
<1>1. PICK no \in BOOLEAN : no = FALSE
    OBVIOUS
<1>2. /\ V!Word(a) => a.rank \in Nat
      /\ ~V!Word(a) => a.nums \in Seq(Nat)
      /\ V!Word(b) => b.rank \in Nat
      /\ ~V!Word(b) => b.nums \in Seq(Nat)
    BY DEF V!Word, Parts
<1>3. CASE V!Word(a) /\ V!Word(b)
    BY <1>2, <1>3 DEF V!CompareSuffixPart, V!SignOf, Verdicts
<1>4. CASE ~V!Word(a) /\ ~V!Word(b)
  <2>1. /\ V!CompareSuffixPart(a, b) = V!CompareNums(a.nums, b.nums, no)
        /\ V!CompareSuffixPart(b, a) = V!CompareNums(b.nums, a.nums, no)
      BY <1>1, <1>4 DEF V!CompareSuffixPart
  <2> QED
      BY <1>2, <1>4, <2>1, NumsOpposed
<1>5. CASE (V!Word(a) /\ ~V!Word(b)) \/ (V!Word(b) /\ ~V!Word(a))
    BY <1>5, NumbersAboveWords DEF Verdicts
<1> QED
    BY <1>3, <1>4, <1>5

\* And three of them.
LEMMA PartsFollow ==
  ASSUME NEW a \in Parts, NEW b \in Parts, NEW c \in Parts
  PROVE  Follows(V!CompareSuffixPart(a, b), V!CompareSuffixPart(b, c), V!CompareSuffixPart(a, c))
<1>1. PICK no \in BOOLEAN : no = FALSE
    OBVIOUS
<1>2. \A d \in {a, b, c} : (V!Word(d) => d.rank \in Nat) /\ (~V!Word(d) => d.nums \in Seq(Nat))
    BY DEF V!Word, Parts
<1>3. CASE V!Word(a) /\ V!Word(b) /\ V!Word(c)
  <2>1. /\ V!CompareSuffixPart(a, b) = V!SignOf(a.rank, b.rank)
        /\ V!CompareSuffixPart(b, c) = V!SignOf(b.rank, c.rank)
        /\ V!CompareSuffixPart(a, c) = V!SignOf(a.rank, c.rank)
      BY <1>3 DEF V!CompareSuffixPart
  <2> QED
      BY <1>2, <1>3, <2>1 DEF V!SignOf, Follows
<1>4. CASE ~V!Word(a) /\ ~V!Word(b) /\ ~V!Word(c)
  <2>1. /\ V!CompareSuffixPart(a, b) = V!CompareNums(a.nums, b.nums, no)
        /\ V!CompareSuffixPart(b, c) = V!CompareNums(b.nums, c.nums, no)
        /\ V!CompareSuffixPart(a, c) = V!CompareNums(a.nums, c.nums, no)
      BY <1>1, <1>4 DEF V!CompareSuffixPart
  <2> QED
      BY <1>2, <1>4, <2>1, NumsFollow
<1>5. CASE ~(V!Word(a) /\ V!Word(b) /\ V!Word(c)) /\ (V!Word(a) \/ V!Word(b) \/ V!Word(c))
  <2>1. \A d, e \in {a, b, c} : V!Word(d) /\ ~V!Word(e) =>
          V!CompareSuffixPart(d, e) = -1 /\ V!CompareSuffixPart(e, d) = 1
      BY NumbersAboveWords
  <2>2. V!CompareSuffixPart(a, b) \in Verdicts /\ V!CompareSuffixPart(b, c) \in Verdicts
      BY PartsOpposed
  <2> QED
      BY <1>5, <2>1, <2>2 DEF Follows, Verdicts
<1> QED
    BY <1>3, <1>4, <1>5

\* Suffixes: the one that has fewer parts is the greater, for 1.0 follows 1.0-rc.
LEMMA SuffixesOpposed ==
  ASSUME NEW a \in Seq(Parts), NEW b \in Seq(Parts)
  PROVE  /\ V!CompareSuffixParts(a, b) \in Verdicts
         /\ V!CompareSuffixParts(b, a) = -V!CompareSuffixParts(a, b)
<1> DEFINE sab == [i \in V!Shared(a, b) |-> V!CompareSuffixPart(a[i], b[i])]
           sba == [i \in V!Shared(b, a) |-> V!CompareSuffixPart(b[i], a[i])]
<1>1. Len(a) \in Nat /\ Len(b) \in Nat /\ \A i \in V!Shared(a, b) : a[i] \in Parts /\ b[i] \in Parts
    BY SharedIn
<1>2. V!Shared(a, b) = V!Shared(b, a)
    BY <1>1 DEF V!Shared
<1>3. \A i \in V!Shared(a, b) : sab[i] \in Verdicts /\ sba[i] = -sab[i]
    BY <1>1, <1>2, PartsOpposed
<1>4. DOMAIN sab = V!Shared(a, b) /\ DOMAIN sba = V!Shared(b, a)
    OBVIOUS
<1>5. PICK p \in BOOLEAN : p = TRUE
    OBVIOUS
<1> HIDE DEF sab, sba
<1>6. /\ V!CompareSlices(sab, a, b, p) \in Verdicts
      /\ V!CompareSlices(sba, b, a, p) = -V!CompareSlices(sab, a, b, p)
    BY <1>1, <1>3, <1>4, SlicesOpposed
<1>7. V!CompareSuffixParts(a, b) = V!CompareSlices(sab, a, b, p)
      /\ V!CompareSuffixParts(b, a) = V!CompareSlices(sba, b, a, p)
    BY <1>5 DEF V!CompareSuffixParts, sab, sba
<1> QED
    BY <1>6, <1>7

\* And three of them.
LEMMA SuffixesFollow ==
  ASSUME NEW a \in Seq(Parts), NEW b \in Seq(Parts), NEW c \in Seq(Parts)
  PROVE  Follows(V!CompareSuffixParts(a, b), V!CompareSuffixParts(b, c), V!CompareSuffixParts(a, c))
<1> DEFINE sab == [i \in V!Shared(a, b) |-> V!CompareSuffixPart(a[i], b[i])]
           sbc == [i \in V!Shared(b, c) |-> V!CompareSuffixPart(b[i], c[i])]
           sac == [i \in V!Shared(a, c) |-> V!CompareSuffixPart(a[i], c[i])]
<1>1. /\ Len(a) \in Nat /\ Len(b) \in Nat /\ Len(c) \in Nat
      /\ \A i \in V!Shared(a, b) : a[i] \in Parts /\ b[i] \in Parts
      /\ \A i \in V!Shared(b, c) : b[i] \in Parts /\ c[i] \in Parts
      /\ \A i \in V!Shared(a, c) : a[i] \in Parts /\ c[i] \in Parts
    BY SharedIn
<1>2. /\ \A i \in V!Shared(a, b) : sab[i] \in Verdicts
      /\ \A i \in V!Shared(b, c) : sbc[i] \in Verdicts
      /\ \A i \in V!Shared(a, c) : sac[i] \in Verdicts
    BY <1>1, PartsOpposed
<1>3. DOMAIN sab = V!Shared(a, b) /\ DOMAIN sbc = V!Shared(b, c) /\ DOMAIN sac = V!Shared(a, c)
    OBVIOUS
<1>4. \A i \in DOMAIN sab \cap DOMAIN sbc \cap DOMAIN sac : Follows(sab[i], sbc[i], sac[i])
    BY <1>1, <1>3, PartsFollow
<1>5. PICK p \in BOOLEAN : p = TRUE
    OBVIOUS
<1> HIDE DEF sab, sbc, sac
<1>6. Follows(V!CompareSlices(sab, a, b, p), V!CompareSlices(sbc, b, c, p), V!CompareSlices(sac, a, c, p))
    BY <1>1, <1>2, <1>3, <1>4, SlicesFollow
<1>7. /\ V!CompareSuffixParts(a, b) = V!CompareSlices(sab, a, b, p)
      /\ V!CompareSuffixParts(b, c) = V!CompareSlices(sbc, b, c, p)
      /\ V!CompareSuffixParts(a, c) = V!CompareSlices(sac, a, c, p)
    BY <1>5 DEF V!CompareSuffixParts, sab, sbc, sac
<1> QED
    BY <1>6, <1>7

\* A parsed key has slices of numbers and of parts.
LEMMA TrimmedIn == ASSUME NEW v \in Seq(Nat) PROVE V!Trimmed(v) \in Seq(Nat)
<1> DEFINE last == {i \in DOMAIN v : v[i] # 0}
           n == IF last = {} THEN 0 ELSE CHOOSE i \in last : \A j \in last : j <= i
<1>1. n \in 0 .. Len(v)
  <2>1. CASE last = {}
      BY <2>1
  <2>2. CASE last # {}
    <3>1. \E i \in last : \A j \in last : j <= i
      <4> DEFINE below == {Len(v) - i : i \in last}
      <4>1. below \subseteq Nat /\ below # {}
          BY <2>2
      <4>2. PICK m \in below : \A k \in below : m <= k
          BY <4>1, Least
      <4>3. PICK i \in last : m = Len(v) - i
          BY <4>2
      <4>4. \A j \in last : Len(v) - i <= Len(v) - j
          BY <4>2, <4>3
      <4> QED
          BY <4>4
    <3>2. n \in last
        BY <2>2, <3>1
    <3> QED
        BY <3>2
  <2> QED
      BY <2>1, <2>2
<1> HIDE DEF n
<1>2. SubSeq(v, 1, n) \in Seq(Nat)
    BY <1>1
<1> QED
    BY <1>2 DEF V!Trimmed, n

\* What a parsed key consists of.
LEMMA ParsedIn ==
  ASSUME VersionNames, NEW k \in V!BundleKeys
  PROVE  /\ V!ParseBundleKey(k).scope \in Seq(Nat)
         /\ V!ParseBundleKey(k).version \in Seq(Nat)
         /\ V!ParseBundleKey(k).suffix \in Seq(Parts)
<1>1. k.scope \in Seq(Nat) /\ k.version \in Seq(Nat) /\ k.suffix \in Seq(Parts)
    BY DEF VersionNames, V!BundleKeys
<1> DEFINE suffix == [i \in DOMAIN k.suffix |-> V!ParsePart(k.suffix[i])]
<1>2. ASSUME NEW g \in Parts PROVE V!ParsePart(g) \in Parts
  <2>1. CASE V!Word(g)
      BY <2>1 DEF V!ParsePart
  <2>2. CASE ~V!Word(g)
    <3>1. g \in [kind : {"nums"}, nums : Seq(Nat)]
        BY <2>2 DEF Parts, V!Word
    <3>2. [g EXCEPT !.nums = V!Trimmed(g.nums)] \in [kind : {"nums"}, nums : Seq(Nat)]
        BY <3>1, TrimmedIn
    <3> QED
        BY <2>2, <3>2 DEF Parts, V!ParsePart
  <2> QED
      BY <2>1, <2>2
<1>3. suffix \in Seq(Parts)
  <2>1. \A i \in 1 .. Len(k.suffix) : suffix[i] \in Parts
      BY <1>1, <1>2
  <2>2. Len(k.suffix) \in Nat /\ DOMAIN k.suffix = 1 .. Len(k.suffix)
      BY <1>1
  <2>3. suffix \in [1 .. Len(k.suffix) -> Parts]
      BY <2>1, <2>2
  <2> QED
      BY <2>2, <2>3, SeqDef
<1>4. k = [scope |-> k.scope, version |-> k.version, suffix |-> k.suffix]
    BY DEF V!BundleKeys
<1>5. V!ParseBundleKey(k) = [k EXCEPT !.version = V!Trimmed(k.version), !.suffix = suffix]
    BY DEF V!ParseBundleKey
<1> HIDE DEF suffix
<1>6. /\ V!ParseBundleKey(k).scope = k.scope /\ V!ParseBundleKey(k).version = V!Trimmed(k.version)
      /\ V!ParseBundleKey(k).suffix = suffix
    BY <1>4, <1>5
<1> QED
    BY <1>1, <1>3, <1>6, TrimmedIn

\* The comparison of keys is a total preorder.
LEMMA VersionsOpposed ==
  ASSUME VersionNames, NEW x \in V!BundleKeys, NEW y \in V!BundleKeys
  PROVE  /\ V!CompareBundleVersions(x, y) \in Verdicts
         /\ V!CompareBundleVersions(y, x) = -V!CompareBundleVersions(x, y)
<1> DEFINE a == V!ParseBundleKey(x)
           b == V!ParseBundleKey(y)
<1>1. PICK yes, no \in BOOLEAN : yes = TRUE /\ no = FALSE
    OBVIOUS
<1>2. /\ a.scope \in Seq(Nat) /\ a.version \in Seq(Nat) /\ a.suffix \in Seq(Parts)
      /\ b.scope \in Seq(Nat) /\ b.version \in Seq(Nat) /\ b.suffix \in Seq(Parts)
    BY ParsedIn
<1> HIDE DEF a, b
<1>3. /\ V!CompareNums(a.scope, b.scope, yes) \in Verdicts
      /\ V!CompareNums(b.scope, a.scope, yes) = -V!CompareNums(a.scope, b.scope, yes)
    BY <1>2, NumsOpposed
<1>4. /\ V!CompareNums(a.version, b.version, no) \in Verdicts
      /\ V!CompareNums(b.version, a.version, no) = -V!CompareNums(a.version, b.version, no)
    BY <1>2, NumsOpposed
<1>5. /\ V!CompareSuffixParts(a.suffix, b.suffix) \in Verdicts
      /\ V!CompareSuffixParts(b.suffix, a.suffix) = -V!CompareSuffixParts(a.suffix, b.suffix)
    BY <1>2, SuffixesOpposed
<1>6. /\ V!CompareBundleVersions(x, y) =
           IF V!CompareNums(a.scope, b.scope, yes) # 0 THEN V!CompareNums(a.scope, b.scope, yes)
           ELSE IF V!CompareNums(a.version, b.version, no) # 0 THEN V!CompareNums(a.version, b.version, no)
           ELSE V!CompareSuffixParts(a.suffix, b.suffix)
      /\ V!CompareBundleVersions(y, x) =
           IF V!CompareNums(b.scope, a.scope, yes) # 0 THEN V!CompareNums(b.scope, a.scope, yes)
           ELSE IF V!CompareNums(b.version, a.version, no) # 0 THEN V!CompareNums(b.version, a.version, no)
           ELSE V!CompareSuffixParts(b.suffix, a.suffix)
    BY <1>1 DEF V!CompareBundleVersions, a, b
<1> QED
    BY <1>3, <1>4, <1>5, <1>6 DEF Verdicts

\* And of three.
LEMMA VersionsFollow ==
  ASSUME VersionNames, NEW x \in V!BundleKeys, NEW y \in V!BundleKeys, NEW z \in V!BundleKeys
  PROVE  Follows(V!CompareBundleVersions(x, y), V!CompareBundleVersions(y, z), V!CompareBundleVersions(x, z))
<1> DEFINE a == V!ParseBundleKey(x)
           b == V!ParseBundleKey(y)
           c == V!ParseBundleKey(z)
<1>1. PICK yes, no \in BOOLEAN : yes = TRUE /\ no = FALSE
    OBVIOUS
<1>2. /\ a.scope \in Seq(Nat) /\ a.version \in Seq(Nat) /\ a.suffix \in Seq(Parts)
      /\ b.scope \in Seq(Nat) /\ b.version \in Seq(Nat) /\ b.suffix \in Seq(Parts)
      /\ c.scope \in Seq(Nat) /\ c.version \in Seq(Nat) /\ c.suffix \in Seq(Parts)
    BY ParsedIn
<1>3. \A u, v \in V!BundleKeys :
        V!CompareBundleVersions(u, v) =
          LET d == V!ParseBundleKey(u)
              e == V!ParseBundleKey(v)
          IN IF V!CompareNums(d.scope, e.scope, yes) # 0 THEN V!CompareNums(d.scope, e.scope, yes)
             ELSE IF V!CompareNums(d.version, e.version, no) # 0 THEN V!CompareNums(d.version, e.version, no)
             ELSE V!CompareSuffixParts(d.suffix, e.suffix)
    BY <1>1 DEF V!CompareBundleVersions
<1> DEFINE Lex(f, g, h) == IF f # 0 THEN f ELSE IF g # 0 THEN g ELSE h
           sab == V!CompareNums(a.scope, b.scope, yes)
           sbc == V!CompareNums(b.scope, c.scope, yes)
           sac == V!CompareNums(a.scope, c.scope, yes)
           vab == V!CompareNums(a.version, b.version, no)
           vbc == V!CompareNums(b.version, c.version, no)
           vac == V!CompareNums(a.version, c.version, no)
           pab == V!CompareSuffixParts(a.suffix, b.suffix)
           pbc == V!CompareSuffixParts(b.suffix, c.suffix)
           pac == V!CompareSuffixParts(a.suffix, c.suffix)
<1>4. /\ V!CompareBundleVersions(x, y) = Lex(sab, vab, pab)
      /\ V!CompareBundleVersions(y, z) = Lex(sbc, vbc, pbc)
      /\ V!CompareBundleVersions(x, z) = Lex(sac, vac, pac)
    BY <1>3
<1> HIDE DEF a, b, c
<1>5. sab \in Verdicts /\ sbc \in Verdicts /\ sac \in Verdicts /\ Follows(sab, sbc, sac)
    BY <1>2, NumsOpposed, NumsFollow
<1>6. vab \in Verdicts /\ vbc \in Verdicts /\ vac \in Verdicts /\ Follows(vab, vbc, vac)
    BY <1>2, NumsOpposed, NumsFollow
<1>7. pab \in Verdicts /\ pbc \in Verdicts /\ pac \in Verdicts /\ Follows(pab, pbc, pac)
    BY <1>2, SuffixesOpposed, SuffixesFollow
<1> HIDE DEF sab, sbc, sac, vab, vbc, vac, pab, pbc, pac
<1>8. Follows(Lex(sab, vab, pab), Lex(sbc, vbc, pbc), Lex(sac, vac, pac))
    BY <1>5, <1>6, <1>7 DEF Follows, Verdicts
<1> QED
    BY <1>4, <1>8

\* LATEST is one of the files and below none of them.
Heads(m) ==
  /\ m \in DOMAIN walk /\ latest = <<walk[m]>>
  /\ \A i \in DOMAIN walk : V!CompareBundleVersions(walk[m], walk[i]) >= 0
WalkInv ==
  walk \in Seq(V!BundleKeys) /\ (walk = <<>> => latest = <<>>) /\ (walk # <<>> => \E m : Heads(m))

\* One more file: the greater of the two is not below any file that either was
\* compared with.
LEMMA WalkKept == ASSUME VersionNames, WalkInv, NEW k \in V!BundleKeys, V!WalkBundles(k) PROVE WalkInv'
<1>1. /\ walk' = Append(walk, k) /\ walk' \in Seq(V!BundleKeys) /\ walk' # <<>>
      /\ Len(walk) \in Nat /\ DOMAIN walk = 1 .. Len(walk) /\ DOMAIN walk' = 1 .. Len(walk) + 1
      /\ walk'[Len(walk) + 1] = k /\ \A i \in 1 .. Len(walk) : walk'[i] = walk[i] /\ walk[i] \in V!BundleKeys
    BY DEF V!WalkBundles, WalkInv
<1>2. V!CompareBundleVersions(k, k) = 0
    BY VersionsOpposed DEF Verdicts
<1>3. latest' = V!FindLatestBundle(latest, k)
    BY DEF V!WalkBundles
<1>4. CASE walk = <<>>
  <2>1. latest' = <<k>>
      BY <1>3, <1>4 DEF WalkInv, V!FindLatestBundle
  <2>2. Len(walk) = 0
      BY <1>4
  <2>3. Heads(1)'
      BY <1>1, <1>2, <2>1, <2>2 DEF Heads
  <2> QED
      BY <1>1, <2>3 DEF WalkInv
<1>5. CASE walk # <<>>
  <2>1. PICK m : Heads(m)
      BY <1>5 DEF WalkInv
  <2>2. latest # <<>> /\ latest[1] = walk[m] /\ m \in 1 .. Len(walk) /\ walk[m] \in V!BundleKeys
      BY <1>1, <2>1 DEF Heads
  <2>3. CASE V!CompareBundleVersions(k, walk[m]) > 0
    <3>1. latest' = <<k>>
        BY <1>3, <2>2, <2>3 DEF V!FindLatestBundle
    <3>2. ASSUME NEW i \in 1 .. Len(walk) PROVE V!CompareBundleVersions(k, walk[i]) >= 0
      <4>1. V!CompareBundleVersions(walk[m], walk[i]) >= 0
          BY <1>1, <2>1 DEF Heads
      <4>2. Follows(V!CompareBundleVersions(k, walk[m]), V!CompareBundleVersions(walk[m], walk[i]),
                    V!CompareBundleVersions(k, walk[i]))
          BY <1>1, <2>2, VersionsFollow
      <4>3. V!CompareBundleVersions(k, walk[m]) \in Verdicts
          BY <2>2, VersionsOpposed
      <4> QED
          BY <2>3, <4>1, <4>2, <4>3 DEF Follows, Verdicts
    <3>3. PICK n : n = Len(walk) + 1
        OBVIOUS
    <3>4. Heads(n)'
        BY <1>1, <1>2, <3>1, <3>2, <3>3 DEF Heads
    <3> QED
        BY <1>1, <3>4 DEF WalkInv
  <2>4. CASE ~(V!CompareBundleVersions(k, walk[m]) > 0)
    <3>1. latest' = latest
        BY <1>3, <2>2, <2>4 DEF V!FindLatestBundle
    <3>2. V!CompareBundleVersions(walk[m], k) >= 0
        BY <2>2, <2>4, VersionsOpposed DEF Verdicts
    <3>3. Heads(m)'
        BY <1>1, <2>1, <2>2, <3>1, <3>2 DEF Heads
    <3> QED
        BY <1>1, <3>3 DEF WalkInv
  <2> QED
      BY <2>3, <2>4
<1> QED
    BY <1>4, <1>5

\* The file that heads a list that is sorted downwards compares as equal to it.
LEMMA WalkIsListed == ASSUME VersionNames, WalkInv PROVE LatestHeadsTheList
<1>1. Len(walk) \in Nat /\ DOMAIN walk = 1 .. Len(walk) /\ \A i \in DOMAIN walk : walk[i] \in V!BundleKeys
    BY DEF WalkInv
<1>2. V!VersionsAreOrdered
  <2>1. ASSUME NEW i \in DOMAIN walk, NEW j \in DOMAIN walk
        PROVE  /\ V!CompareBundleVersions(walk[i], walk[j]) \in Verdicts
               /\ V!CompareBundleVersions(walk[i], walk[j]) = -V!CompareBundleVersions(walk[j], walk[i])
      BY <1>1, VersionsOpposed
  <2>2. ASSUME NEW i \in DOMAIN walk, NEW j \in DOMAIN walk, NEW k \in DOMAIN walk
        PROVE  Follows(V!CompareBundleVersions(walk[i], walk[j]), V!CompareBundleVersions(walk[j], walk[k]),
                       V!CompareBundleVersions(walk[i], walk[k]))
      BY <1>1, VersionsFollow
  <2> QED
      BY <2>1, <2>2 DEF V!VersionsAreOrdered, Follows
<1>3. ASSUME walk # <<>>, NEW p \in V!Listed(walk)
      PROVE  V!CompareBundleVersions(walk[p[1]], latest[1]) = 0
  <2> DEFINE D == DOMAIN walk
  <2>1. PICK m : Heads(m)
      BY <1>3 DEF WalkInv
  <2>2. p \in [D -> D] /\ \A i, j \in D : i < j =>
          p[i] # p[j] /\ V!CompareBundleVersions(walk[p[i]], walk[p[j]]) >= 0
      BY <1>3 DEF V!Listed
  <2>3. /\ m \in D /\ 1 \in D /\ latest[1] = walk[m]
        /\ \A i \in D : V!CompareBundleVersions(walk[m], walk[i]) >= 0
      BY <1>1, <1>3, <2>1 DEF Heads
  <2>4. IsFiniteSet(D)
      BY <1>1, FS_Interval
  <2>5. p \in Injection(D, D)
      BY <1>1, <2>2 DEF Injection, IsInjective
  <2>6. p \in Surjection(D, D)
      BY <2>4, <2>5, FS_Injection
  <2>7. PICK j \in D : p[j] = m
      BY <2>3, <2>6 DEF Surjection
  <2>8. V!CompareBundleVersions(walk[p[1]], walk[m]) >= 0
    <3>1. CASE j = 1
        BY <1>1, <2>3, <2>7, <3>1
    <3>2. CASE j # 1
        BY <1>1, <2>2, <2>3, <2>7, <3>2
    <3> QED
        BY <3>1, <3>2
  <2>9. V!CompareBundleVersions(walk[m], walk[p[1]]) >= 0
      BY <2>2, <2>3
  <2> QED
      BY <1>1, <2>2, <2>3, <2>8, <2>9, VersionsOpposed DEF Verdicts
<1> QED
    BY <1>2, <1>3 DEF LatestHeadsTheList, V!LatestHeadsTheList

THEOREM LatestIsListedFirst == ASSUME VersionNames PROVE V!Spec => []LatestHeadsTheList
<1>1. V!Init => WalkInv
    BY DEF V!Init, WalkInv
<1>2. WalkInv /\ [V!Next]_<<walk, latest>> => WalkInv'
    BY WalkKept DEF V!Next, WalkInv, Heads
<1>3. WalkInv => LatestHeadsTheList
    BY WalkIsListed
<1> QED
    BY <1>1, <1>2, <1>3, PTL DEF V!Spec
-----------------------------------------------------------------------------
(* Setup.                                                                 *)

\* A key is of a value or of a section, and None is neither a value nor a document.
SetupNames ==
  /\ Plain \cap Sections = {}
  /\ None \notin Values /\ None \notin H!SectionDocs /\ None \notin H!Documents

\* What a path may hold.
Holds(p, v) ==
  \/ v = None
  \/ \E k \in Plain : p = <<k>> /\ v \in Values
  \/ \E k \in Sections : p = <<k>> /\ v \in H!SectionDocs
  \/ \E k \in Sections, f \in Fields : p = <<k, f>> /\ v \in Values

\* A change of a path.
Changes == LET held == Values \cup H!SectionDocs \cup {None}
           IN [path : H!Paths, old : held, new : held]

\* A patch changes every path once, a section as a whole or by its fields.
PatchOK(patch) ==
  /\ patch \subseteq Changes
  /\ \A c \in patch : Holds(c.path, c.old) /\ Holds(c.path, c.new)
  /\ \A c, d \in patch : c.path = d.path => c = d
  /\ \A k \in Sections, f \in Fields, c, d \in patch : ~(c.path = <<k>> /\ d.path = <<k, f>>)

\* Paths are told apart by their lengths and their keys.
LEMMA PathFacts ==
  /\ \A k : Len(<<k>>) = 1 /\ <<k>>[1] = k
  /\ \A k, f : Len(<<k, f>>) = 2 /\ <<k, f>>[1] = k /\ <<k, f>>[2] = f
  /\ \A k, l, f : <<k>> # <<l, f>>
  /\ \A k, l : <<k>> = <<l>> => k = l
  /\ \A k, l, f, g : <<k, f>> = <<l, g>> => k = l /\ f = g
  /\ \A p \in H!Paths : \/ \E k \in H!TopKeys : p = <<k>>
                        \/ \E k \in Sections, f \in Fields : p = <<k, f>>
  /\ \A k \in H!TopKeys : <<k>> \in H!Paths
  /\ \A k \in Sections, f \in Fields : <<k, f>> \in H!Paths
<1>1. \A k : Len(<<k>>) = 1 /\ <<k>>[1] = k
    OBVIOUS
<1>2. \A k, f : Len(<<k, f>>) = 2 /\ <<k, f>>[1] = k /\ <<k, f>>[2] = f
    OBVIOUS
<1>3. \A k, l, f : <<k>> # <<l, f>>
    BY <1>1, <1>2
<1>4. \A k, l : <<k>> = <<l>> => k = l
    BY <1>1
<1>5. \A k, l, f, g : <<k, f>> = <<l, g>> => k = l /\ f = g
    BY <1>2
<1>6. \A p \in H!Paths : \/ \E k \in H!TopKeys : p = <<k>>
                         \/ \E k \in Sections, f \in Fields : p = <<k, f>>
    BY DEF H!Paths
<1>7. \A k \in H!TopKeys : <<k>> \in H!Paths
    BY DEF H!Paths
<1>8. \A k \in Sections, f \in Fields : <<k, f>> \in H!Paths
    BY DEF H!Paths
<1> QED
    BY <1>1, <1>2, <1>3, <1>4, <1>5, <1>6, <1>7, <1>8

\* What is found at a path.
LEMMA AtFacts ==
  /\ \A d, k : H!At(d, <<k>>) = d[k]
  /\ \A d, k, f : H!At(d, <<k, f>>) = IF d[k] = None THEN None ELSE d[k][f]
BY PathFacts DEF H!At

\* What a document has under its keys.
LEMMA DocumentFacts ==
  ASSUME SetupNames, NEW d \in H!Documents
  PROVE  /\ DOMAIN d = H!TopKeys /\ d = [k \in H!TopKeys |-> d[k]]
         /\ \A k \in Plain : d[k] \in Values \cup {None}
         /\ \A k \in Sections : d[k] # None => d[k] \in [Fields -> Values \cup {None}]
         /\ \A k \in Sections : d[k] \in H!SectionDocs \cup {None}
<1>1. d \in [H!TopKeys -> Values \cup H!SectionDocs \cup {None}]
    BY DEF H!Documents
<1> QED
    BY <1>1 DEF H!Documents, H!SectionDocs

\* A document has under a path what the path may hold.
LEMMA AtHolds ==
  ASSUME SetupNames, NEW d \in H!Documents, NEW p \in H!Paths
  PROVE  Holds(p, H!At(d, p))
<1>1. CASE \E k \in H!TopKeys : p = <<k>>
    BY <1>1, AtFacts, DocumentFacts DEF Holds, H!TopKeys
<1>2. CASE \E k \in Sections, f \in Fields : p = <<k, f>>
  <2>1. PICK k \in Sections, f \in Fields : p = <<k, f>>
      BY <1>2
  <2>2. H!At(d, p) \in Values \cup {None}
      BY <2>1, AtFacts, DocumentFacts
  <2> QED
      BY <2>1, <2>2 DEF Holds
<1> QED
    BY <1>1, <1>2, PathFacts

\* A patch says nothing of a key.
Kept(patch, k) == \A c \in patch : c.path # <<k>> /\ \A f \in Fields : c.path # <<k, f>>

\* What a patch makes of a key.
LEMMA PatchedKey ==
  ASSUME NEW doc, NEW patch, PatchOK(patch), NEW k \in H!TopKeys,
         NEW r, r = H!ApplyPatch(doc, patch)
  PROVE  /\ DOMAIN r = H!TopKeys
         /\ \A c \in patch : c.path = <<k>> => r[k] = c.new
         /\ Kept(patch, k) => r[k] = doc[k]
<1> DEFINE to(p) == {c \in patch : c.path = p}
           value(p) == (CHOOSE c \in to(p) : TRUE).new
           fields == {f \in Fields : to(<<k, f>>) # {}}
<1>1. r[k] = IF to(<<k>>) # {} THEN value(<<k>>)
             ELSE IF k \notin Sections \/ fields = {} THEN doc[k]
             ELSE [f \in Fields |-> IF f \in fields THEN value(<<k, f>>) ELSE H!At(doc, <<k, f>>)]
    BY DEF H!ApplyPatch
<1>2. DOMAIN r = H!TopKeys
    BY DEF H!ApplyPatch
<1>3. \A c \in patch : value(c.path) = c.new
    BY DEF PatchOK
<1> HIDE DEF value
<1>4. \A c \in patch : c.path = <<k>> => r[k] = c.new
    BY <1>1, <1>3
<1>5. Kept(patch, k) => r[k] = doc[k]
    BY <1>1 DEF Kept
<1> QED
    BY <1>2, <1>4, <1>5

\* And of a field of a section.
LEMMA PatchedField ==
  ASSUME NEW doc, NEW patch, PatchOK(patch), NEW k \in Sections,
         NEW r, r = H!ApplyPatch(doc, patch)
  PROVE  \A c \in patch, f \in Fields : c.path = <<k, f>> =>
           /\ r[k] = [g \in Fields |-> r[k][g]] /\ r[k][f] = c.new
           /\ \A g \in Fields : (\A d \in patch : d.path # <<k, g>>) => r[k][g] = H!At(doc, <<k, g>>)
<1> SUFFICES ASSUME NEW c \in patch, NEW f \in Fields, c.path = <<k, f>>
             PROVE  /\ r[k] = [g \in Fields |-> r[k][g]] /\ r[k][f] = c.new
                    /\ \A g \in Fields : (\A d \in patch : d.path # <<k, g>>)
                         => r[k][g] = H!At(doc, <<k, g>>)
    OBVIOUS
<1> DEFINE to(p) == {d \in patch : d.path = p}
           value(p) == (CHOOSE d \in to(p) : TRUE).new
           fields == {g \in Fields : to(<<k, g>>) # {}}
<1>1. r[k] = IF to(<<k>>) # {} THEN value(<<k>>)
             ELSE IF k \notin Sections \/ fields = {} THEN doc[k]
             ELSE [g \in Fields |-> IF g \in fields THEN value(<<k, g>>) ELSE H!At(doc, <<k, g>>)]
    BY DEF H!ApplyPatch, H!TopKeys
<1>2. value(<<k, f>>) = c.new
    BY DEF PatchOK
<1> HIDE DEF value
<1>3. to(<<k>>) = {} /\ f \in fields
    BY DEF PatchOK
<1>4. r[k] = [g \in Fields |-> IF g \in fields THEN value(<<k, g>>) ELSE H!At(doc, <<k, g>>)]
    BY <1>1, <1>3
<1> QED
    BY <1>2, <1>3, <1>4

\* The patch of two documents changes each path where they differ.
LEMMA Computed ==
  ASSUME SetupNames, NEW a \in H!Documents, NEW b \in H!Documents
  PROVE  /\ PatchOK(H!ComputePatch(a, b))
         /\ \A x \in {a, b} : H!ApplyPatch(x, H!ComputePatch(a, b)) = b
<1> DEFINE patch == H!ComputePatch(a, b)
<1>1. \A c : c \in patch <=>
        \E p \in H!Paths : /\ c = [path |-> p, old |-> H!At(a, p), new |-> H!At(b, p)]
                           /\ c.old # c.new /\ (Len(c.path) = 2 <=> H!Both(a, b, c.path[1]))
    BY DEF H!ComputePatch
<1>2. \A c \in patch : /\ c.path \in H!Paths /\ c.old = H!At(a, c.path) /\ c.new = H!At(b, c.path)
                       /\ c = [path |-> c.path, old |-> c.old, new |-> c.new]
                       /\ c.old # c.new /\ (Len(c.path) = 2 <=> H!Both(a, b, c.path[1]))
    BY <1>1
<1>3. \A p \in H!Paths : H!At(a, p) # H!At(b, p) /\ (Len(p) = 2 <=> H!Both(a, b, p[1])) =>
        \E c \in patch : c.path = p
  <2> SUFFICES ASSUME NEW p \in H!Paths, H!At(a, p) # H!At(b, p), Len(p) = 2 <=> H!Both(a, b, p[1])
               PROVE  \E c \in patch : c.path = p
      OBVIOUS
  <2> DEFINE c == [path |-> p, old |-> H!At(a, p), new |-> H!At(b, p)]
  <2>1. c.path = p /\ c.old # c.new /\ (Len(c.path) = 2 <=> H!Both(a, b, c.path[1]))
      OBVIOUS
  <2> HIDE DEF patch
  <2>2. c \in patch
      BY <1>1, <2>1
  <2> QED
      BY <2>1, <2>2
<1> HIDE DEF patch
<1>4. PatchOK(patch)
  <2>0. patch \subseteq Changes
    <3>1. \A p \in H!Paths : \A v : Holds(p, v) => v \in Values \cup H!SectionDocs \cup {None}
        BY DEF Holds
    <3> QED
        BY <1>2, <3>1, AtHolds DEF Changes
  <2>1. \A c \in patch : Holds(c.path, c.old) /\ Holds(c.path, c.new)
      BY <1>2, AtHolds
  <2>2. \A c, d \in patch : c.path = d.path => c = d
      BY <1>2
  <2>3. \A k \in Sections, f \in Fields, c, d \in patch : ~(c.path = <<k>> /\ d.path = <<k, f>>)
      BY <1>2, PathFacts
  <2> QED
      BY <2>0, <2>1, <2>2, <2>3 DEF PatchOK
<1>5. ASSUME NEW x \in {a, b}, NEW k \in H!TopKeys PROVE H!ApplyPatch(x, patch)[k] = b[k]
  <2>0. PICK r : r = H!ApplyPatch(x, patch)
      OBVIOUS
  <2>1. /\ \A c \in patch : c.path = <<k>> => r[k] = c.new
        /\ Kept(patch, k) => r[k] = x[k]
      BY <1>4, <2>0, PatchedKey
  <2>2. ASSUME NEW c \in patch, NEW f \in Fields, k \in Sections, c.path = <<k, f>>
        PROVE  /\ r[k] = [g \in Fields |-> r[k][g]] /\ r[k][f] = c.new
               /\ \A g \in Fields : (\A d \in patch : d.path # <<k, g>>) => r[k][g] = H!At(x, <<k, g>>)
      BY <1>4, <2>0, <2>2, PatchedField
  <2>3. <<k>> \in H!Paths /\ Len(<<k>>) = 1 /\ <<k>>[1] = k
      BY PathFacts
  <2>4. CASE ~H!Both(a, b, k)
    <3>1. \A c \in patch, f \in Fields : c.path # <<k, f>>
        BY <1>2, <2>4, PathFacts
    <3>2. CASE a[k] = b[k]
      <4>1. \A c \in patch : c.path # <<k>>
          BY <1>2, <3>2, AtFacts
      <4>2. x[k] = b[k]
          BY <1>5, <3>2
      <4>3. r[k] = x[k]
          BY <2>1, <3>1, <4>1 DEF Kept
      <4> QED
          BY <2>0, <4>2, <4>3
    <3>3. CASE a[k] # b[k]
      <4>1. H!At(a, <<k>>) # H!At(b, <<k>>) /\ ~(Len(<<k>>) = 2) /\ ~H!Both(a, b, <<k>>[1])
          BY <2>3, <2>4, <3>3, AtFacts
      <4>2. PICK c \in patch : c.path = <<k>>
          BY <1>3, <2>3, <4>1
      <4>3. c.new = b[k]
          BY <1>2, <4>2, AtFacts
      <4> QED
          BY <2>0, <2>1, <4>2, <4>3
    <3> QED
        BY <3>2, <3>3
  <2>5. CASE H!Both(a, b, k)
    <3>1. k \in Sections /\ a[k] # None /\ b[k] # None /\ x[k] # None
        BY <1>5, <2>5 DEF H!Both
    <3>2. \A c \in patch : c.path # <<k>>
        BY <1>2, <2>3, <2>5
    <3>3. /\ a[k] = [f \in Fields |-> a[k][f]] /\ b[k] = [f \in Fields |-> b[k][f]]
        BY <3>1, DocumentFacts
    <3>4. ASSUME NEW f \in Fields, a[k][f] # b[k][f] PROVE \E c \in patch : c.path = <<k, f>>
      <4>1. <<k, f>> \in H!Paths /\ Len(<<k, f>>) = 2 /\ <<k, f>>[1] = k
          BY <3>1, PathFacts
      <4>2. H!At(a, <<k, f>>) # H!At(b, <<k, f>>) /\ H!Both(a, b, <<k, f>>[1])
          BY <2>5, <3>1, <3>4, <4>1, AtFacts
      <4> QED
          BY <1>3, <4>1, <4>2
    <3>5. \A f \in Fields, c \in patch : c.path = <<k, f>> => c.new = b[k][f] /\ a[k][f] # b[k][f]
        BY <1>2, <3>1, AtFacts
    <3>6. CASE \A f \in Fields : a[k][f] = b[k][f]
      <4>1. a[k] = b[k] /\ x[k] = b[k]
          BY <1>5, <3>3, <3>6
      <4>2. r[k] = x[k]
          BY <2>1, <3>2, <3>5, <3>6 DEF Kept
      <4> QED
          BY <2>0, <4>1, <4>2
    <3>7. CASE \E f \in Fields : a[k][f] # b[k][f]
      <4>1. PICK f \in Fields, c \in patch : c.path = <<k, f>>
          BY <3>4, <3>7
      <4>2. r[k] = [g \in Fields |-> r[k][g]]
          BY <2>2, <3>1, <4>1
      <4>3. \A d \in patch, g \in Fields : d.path = <<k, g>> => r[k][g] = d.new
          BY <2>2, <3>1
      <4>4. ASSUME NEW g \in Fields PROVE r[k][g] = b[k][g]
        <5>1. CASE \E d \in patch : d.path = <<k, g>>
          <6>1. PICK d \in patch : d.path = <<k, g>>
              BY <5>1
          <6>2. r[k][g] = d.new
              BY <4>3, <6>1
          <6>3. d.new = b[k][g]
              BY <3>5, <6>1
          <6> QED
              BY <6>2, <6>3
        <5>2. CASE \A d \in patch : d.path # <<k, g>>
          <6>1. r[k][g] = H!At(x, <<k, g>>)
              BY <2>2, <3>1, <4>1, <5>2
          <6>2. H!At(x, <<k, g>>) = x[k][g]
              BY <3>1, AtFacts
          <6>3. a[k][g] = b[k][g]
              BY <3>4, <5>2
          <6>4. x[k][g] = b[k][g]
              BY <1>5, <6>3
          <6> QED
              BY <6>1, <6>2, <6>4
        <5> QED
            BY <5>1, <5>2
      <4> QED
          BY <2>0, <3>3, <4>2, <4>4
    <3> QED
        BY <3>6, <3>7
  <2> QED
      BY <2>4, <2>5
<1>6. ASSUME NEW x \in {a, b} PROVE H!ApplyPatch(x, patch) = b
  <2>1. H!ApplyPatch(x, patch) = [k \in H!TopKeys |-> H!ApplyPatch(x, patch)[k]]
      BY DEF H!ApplyPatch
  <2> QED
      BY <1>5, <2>1, DocumentFacts
<1> QED
    BY <1>4, <1>6 DEF patch

\* A patch that is undone is a patch.
LEMMA MirroredIsOK ==
  ASSUME NEW patch, PatchOK(patch)
  PROVE  PatchOK(H!Mirrored(patch))
<1> DEFINE back == H!Mirrored(patch)
<1>1. \A c \in back : \E e \in patch : c = [path |-> e.path, old |-> e.new, new |-> e.old]
    BY DEF H!Mirrored
<1>2. \A c \in back : c \in Changes /\ \E e \in patch : c.path = e.path /\ c.old = e.new /\ c.new = e.old
    BY <1>1 DEF PatchOK, Changes
<1>3. \A c, d \in back : c.path = d.path => c = d
    BY <1>1 DEF PatchOK
<1> HIDE DEF back
<1>4. \A c \in back : Holds(c.path, c.old) /\ Holds(c.path, c.new)
    BY <1>2 DEF PatchOK
<1>5. \A k \in Sections, f \in Fields, c, d \in back : ~(c.path = <<k>> /\ d.path = <<k, f>>)
    BY <1>2 DEF PatchOK
<1>6. PatchOK(back)
    BY <1>2, <1>3, <1>4, <1>5 DEF PatchOK
<1> QED
    BY <1>6 DEF back

\* A section that a patch changes by its fields stays one.
LEMMA PatchedSection ==
  ASSUME SetupNames, NEW doc \in H!Documents, NEW patch, PatchOK(patch), NEW k \in Sections,
         NEW r, r = H!ApplyPatch(doc, patch), \E c \in patch, f \in Fields : c.path = <<k, f>>
  PROVE  r[k] \in H!SectionDocs
<1>1. PICK c \in patch, f \in Fields : c.path = <<k, f>>
    OBVIOUS
<1>2. /\ r[k] = [g \in Fields |-> r[k][g]]
      /\ \A g \in Fields : (\A d \in patch : d.path # <<k, g>>) => r[k][g] = H!At(doc, <<k, g>>)
      /\ \A g \in Fields, d \in patch : d.path = <<k, g>> => r[k][g] = d.new
    BY <1>1, PatchedField
<1>3. ASSUME NEW g \in Fields PROVE r[k][g] \in Values \cup {None}
  <2>1. \A v : Holds(<<k, g>>, v) => v \in Values \cup {None}
      BY PathFacts DEF Holds
  <2>2. CASE \E d \in patch : d.path = <<k, g>>
    <3>1. PICK d \in patch : d.path = <<k, g>>
        BY <2>2
    <3>2. r[k][g] = d.new
        BY <1>2, <3>1
    <3> QED
        BY <2>1, <3>1, <3>2 DEF PatchOK
  <2>3. CASE \A d \in patch : d.path # <<k, g>>
    <3>1. Holds(<<k, g>>, H!At(doc, <<k, g>>))
        BY PathFacts, AtHolds
    <3> QED
        BY <1>2, <2>1, <2>3, <3>1
  <2> QED
      BY <2>2, <2>3
<1> QED
    BY <1>2, <1>3 DEF H!SectionDocs

\* A patched document is a document.
LEMMA PatchedIsDocument ==
  ASSUME SetupNames, NEW doc \in H!Documents, NEW patch, PatchOK(patch)
  PROVE  H!ApplyPatch(doc, patch) \in H!Documents
<1>0. PICK r : r = H!ApplyPatch(doc, patch)
    OBVIOUS
<1>1. r = [k \in H!TopKeys |-> r[k]]
    BY <1>0 DEF H!ApplyPatch
<1>2. ASSUME NEW k \in Plain PROVE r[k] \in Values \cup {None}
  <2>1. k \in H!TopKeys /\ k \notin Sections
      BY <1>2 DEF H!TopKeys, SetupNames
  <2>2. \A c \in patch : \A f : c.path # <<k, f>>
      BY <2>1, PathFacts DEF PatchOK, Changes
  <2>3. CASE \E c \in patch : c.path = <<k>>
    <3>1. PICK c \in patch : c.path = <<k>>
        BY <2>3
    <3>2. r[k] = c.new
        BY <1>0, <2>1, <3>1, PatchedKey
    <3>3. Holds(<<k>>, c.new)
        BY <3>1 DEF PatchOK
    <3> QED
        BY <2>1, <3>2, <3>3, PathFacts DEF Holds
  <2>4. CASE \A c \in patch : c.path # <<k>>
    <3>1. Kept(patch, k)
        BY <2>2, <2>4 DEF Kept
    <3> QED
        BY <1>0, <1>2, <2>1, <3>1, PatchedKey, DocumentFacts
  <2> QED
      BY <2>3, <2>4
<1>3. ASSUME NEW k \in Sections PROVE r[k] \in H!SectionDocs \cup {None}
  <2>1. k \in H!TopKeys /\ k \notin Plain
      BY <1>3 DEF H!TopKeys, SetupNames
  <2>2. CASE \E c \in patch : c.path = <<k>>
    <3>1. PICK c \in patch : c.path = <<k>>
        BY <2>2
    <3>2. r[k] = c.new
        BY <1>0, <2>1, <3>1, PatchedKey
    <3>3. Holds(<<k>>, c.new)
        BY <3>1 DEF PatchOK
    <3> QED
        BY <2>1, <3>2, <3>3, PathFacts DEF Holds
  <2>3. CASE \E c \in patch, f \in Fields : c.path = <<k, f>>
      BY <1>0, <1>3, <2>3, PatchedSection
  <2>4. CASE Kept(patch, k)
      BY <1>0, <1>3, <2>1, <2>4, PatchedKey, DocumentFacts
  <2> QED
      BY <2>2, <2>3, <2>4 DEF Kept
<1>4. r \in [H!TopKeys -> Values \cup H!SectionDocs \cup {None}]
    BY <1>1, <1>2, <1>3 DEF H!TopKeys
<1> QED
    BY <1>0, <1>2, <1>3, <1>4 DEF H!Documents

\* The writes of a setting or an undo that are still to be made.
ToSnapshot == <<"snapshot">>
ToPatch == <<"patch", "snapshot">>
ToConfig == <<"config", "patch", "snapshot">>
ToBase == <<"base", "config", "patch", "snapshot">>
ToBridge == <<"bridge", "base", "config", "patch", "snapshot">>

\* They are made one after another.
LEMMA StageFacts ==
  /\ Head(ToBridge) = "bridge" /\ Tail(ToBridge) = ToBase /\ Len(ToBridge) = 5 /\ ToBridge # <<>>
  /\ Head(ToBase) = "base" /\ Tail(ToBase) = ToConfig /\ Len(ToBase) = 4 /\ ToBase # <<>>
  /\ Head(ToConfig) = "config" /\ Tail(ToConfig) = ToPatch /\ Len(ToConfig) = 3 /\ ToConfig # <<>>
  /\ Head(ToPatch) = "patch" /\ Tail(ToPatch) = ToSnapshot /\ Len(ToPatch) = 2 /\ ToPatch # <<>>
  /\ Head(ToSnapshot) = "snapshot" /\ Len(ToSnapshot) = 1 /\ ToSnapshot # <<>>
  /\ <<>> \o ToConfig = ToConfig /\ <<"base">> \o ToConfig = ToBase
  /\ <<"bridge", "base">> \o ToConfig = ToBridge
<1>1. /\ Head(ToBridge) = "bridge" /\ Len(ToBridge) = 5
      /\ Head(ToBase) = "base" /\ Len(ToBase) = 4
      /\ Head(ToConfig) = "config" /\ Len(ToConfig) = 3
      /\ Head(ToPatch) = "patch" /\ Len(ToPatch) = 2
      /\ Head(ToSnapshot) = "snapshot" /\ Len(ToSnapshot) = 1
    BY DEF ToBridge, ToBase, ToConfig, ToPatch, ToSnapshot
<1>2. Tail(ToPatch) = ToSnapshot
    BY DEF ToPatch, ToSnapshot
<1>3. Tail(ToConfig) = ToPatch
    BY DEF ToConfig, ToPatch
<1>4. Tail(ToBase) = ToConfig
    BY DEF ToBase, ToConfig
<1>5. Tail(ToBridge) = ToBase
    BY DEF ToBridge, ToBase
<1> DEFINE Steps == {"bridge", "base", "config", "patch", "snapshot"}
<1>6. <<>> \o ToConfig = ToConfig
  <2>1. ToConfig \in Seq(Steps)
      BY DEF ToConfig
  <2> QED
      BY <2>1, ConcatEmptySeq
<1>7. <<"base">> \o ToConfig = ToBase
  <2>1. PICK front : front = <<"base">>
      OBVIOUS
  <2>2. front \in Seq(Steps) /\ Len(front) = 1 /\ ToConfig \in Seq(Steps) /\ ToBase \in Seq(Steps)
      BY <2>1 DEF ToConfig, ToBase
  <2> HIDE DEF Steps
  <2>3. /\ front \o ToConfig \in Seq(Steps)
        /\ Len(front \o ToConfig) = Len(front) + Len(ToConfig)
        /\ \A i \in 1..Len(front) + Len(ToConfig) : (front \o ToConfig)[i] =
             IF i <= Len(front) THEN front[i] ELSE ToConfig[i - Len(front)]
      BY <2>2, ConcatProperties
  <2>4. \A i \in 1..4 : (IF i <= 1 THEN front[i] ELSE ToConfig[i - 1]) = ToBase[i]
      BY <2>1 DEF ToConfig, ToBase
  <2>5. front \o ToConfig = ToBase
      BY <1>1, <2>2, <2>3, <2>4, SeqEqual
  <2> QED
      BY <2>1, <2>5
<1>9. <<"bridge", "base">> \o ToConfig = ToBridge
  <2>1. PICK front : front = <<"bridge", "base">>
      OBVIOUS
  <2>2. front \in Seq(Steps) /\ Len(front) = 2 /\ ToConfig \in Seq(Steps) /\ ToBridge \in Seq(Steps)
      BY <2>1 DEF ToConfig, ToBridge
  <2> HIDE DEF Steps
  <2>3. /\ front \o ToConfig \in Seq(Steps)
        /\ Len(front \o ToConfig) = Len(front) + Len(ToConfig)
        /\ \A i \in 1..Len(front) + Len(ToConfig) : (front \o ToConfig)[i] =
             IF i <= Len(front) THEN front[i] ELSE ToConfig[i - Len(front)]
      BY <2>2, ConcatProperties
  <2>4. \A i \in 1..5 : (IF i <= 2 THEN front[i] ELSE ToConfig[i - 2]) = ToBridge[i]
      BY <2>1 DEF ToConfig, ToBridge
  <2>5. front \o ToConfig = ToBridge
      BY <1>1, <2>2, <2>3, <2>4, SeqEqual
  <2> QED
      BY <2>1, <2>5
<1>8. Len(<<>>) = 0
    OBVIOUS
<1> QED
    BY <1>1, <1>2, <1>3, <1>4, <1>5, <1>6, <1>7, <1>8, <1>9

\* What a command has still to write, and the patches of a history.
Stages == {ToBridge, ToBase, ToConfig, ToPatch, ToSnapshot}
Doing(rest) == writing = H!Writing(rest, writing.patch, writing.doc)
Patches == {p \in SUBSET Changes : PatchOK(p)}

\* The types: a command that runs has a patch and the document it leads to.
SetupTypeOK ==
  /\ file \in H!Documents
  /\ menu \in H!Documents \cup {None} /\ snapshot \in H!Documents \cup {None}
  /\ history \in Seq(Patches)
  /\ \/ writing = H!Quiet
     \/ /\ writing.doc \in H!Documents /\ PatchOK(writing.patch)
        /\ \E rest \in Stages : Doing(rest)

\* A setting works on the document of its menu.
SettingFollowsMenu ==
  /\ \A rest \in {ToBridge, ToBase, ToConfig} : Doing(rest) =>
       menu # None /\ writing.patch = H!ComputePatch(menu, writing.doc)
  /\ Doing(ToBridge) => snapshot # None

\* What the history leads to, at every write.
HistoryLeads ==
  ~unseen =>
    /\ writing = H!Quiet /\ snapshot # None =>
         replayed = snapshot \/ (replayed = file /\ menu \in {None, file})
    /\ Doing(ToBridge) => replayed \in {snapshot, menu}
    /\ Doing(ToBase) => snapshot = None \/ replayed = menu
    /\ Doing(ToConfig) => replayed = menu
    /\ Doing(ToPatch) => H!ApplyPatch(replayed, writing.patch) = writing.doc
    /\ Doing(ToSnapshot) => replayed = writing.doc

\* All of it.
SetupInv == SetupTypeOK /\ SettingFollowsMenu /\ HistoryLeads

\* A command is at one of its writes.
LEMMA DoingFacts ==
  /\ \A rest : Doing(rest) => writing.todo = rest
  /\ \A rest, patch, doc : writing = H!Writing(rest, patch, doc) =>
       /\ writing.todo = rest /\ writing.patch = patch /\ writing.doc = doc /\ Doing(rest)
  /\ \A rest : Doing(rest) /\ rest # <<>> => writing # H!Quiet
  /\ writing = H!Quiet => writing.todo = <<>>
<1>1. \A rest, patch, doc : writing = H!Writing(rest, patch, doc) =>
       /\ writing.todo = rest /\ writing.patch = patch /\ writing.doc = doc /\ Doing(rest)
    BY DEF H!Writing, Doing
<1>2. writing = H!Quiet => writing.todo = <<>>
    BY DEF H!Quiet
<1> QED
    BY <1>1, <1>2 DEF Doing

\* Where a command stands when its next write is known, and where after it.
LEMMA StageReached ==
  ASSUME SetupTypeOK, H!Done
  PROVE  /\ H!Pending("bridge") =>
              Doing(ToBridge) /\ writing' = H!Writing(ToBase, writing.patch, writing.doc)
         /\ H!Pending("base") =>
              Doing(ToBase) /\ writing' = H!Writing(ToConfig, writing.patch, writing.doc)
         /\ H!Pending("config") =>
              Doing(ToConfig) /\ writing' = H!Writing(ToPatch, writing.patch, writing.doc)
         /\ H!Pending("patch") =>
              Doing(ToPatch) /\ writing' = H!Writing(ToSnapshot, writing.patch, writing.doc)
         /\ H!Pending("snapshot") => Doing(ToSnapshot) /\ writing' = H!Quiet
<1>1. writing.todo # <<>> => \E rest \in Stages : Doing(rest)
    BY DoingFacts DEF SetupTypeOK
<1>3. ASSUME NEW rest, Doing(rest), Len(rest) # 1
      PROVE  writing' = H!Writing(Tail(rest), writing.patch, writing.doc)
    BY <1>3, DoingFacts DEF H!Done
<1>4. Doing(ToSnapshot) => writing' = H!Quiet
    BY DoingFacts, StageFacts DEF H!Done
<1>2. /\ Len(ToBridge) # 1 /\ Len(ToBase) # 1 /\ Len(ToConfig) # 1 /\ Len(ToPatch) # 1
    BY StageFacts
<1>5. /\ Doing(ToBridge) => writing' = H!Writing(ToBase, writing.patch, writing.doc)
      /\ Doing(ToBase) => writing' = H!Writing(ToConfig, writing.patch, writing.doc)
      /\ Doing(ToConfig) => writing' = H!Writing(ToPatch, writing.patch, writing.doc)
      /\ Doing(ToPatch) => writing' = H!Writing(ToSnapshot, writing.patch, writing.doc)
    BY <1>2, <1>3, StageFacts
<1>6. /\ H!Pending("bridge") => Doing(ToBridge)
      /\ H!Pending("base") => Doing(ToBase)
      /\ H!Pending("config") => Doing(ToConfig)
      /\ H!Pending("patch") => Doing(ToPatch)
      /\ H!Pending("snapshot") => Doing(ToSnapshot)
    BY <1>1, DoingFacts, StageFacts DEF H!Pending, Stages
<1> QED
    BY <1>4, <1>5, <1>6

\* The invariant holds at the start.
LEMMA SetupInit == ASSUME SetupNames, H!Init PROVE SetupInv
<1>1. writing = H!Quiet /\ writing.todo = <<>> /\ snapshot = None
    BY DoingFacts DEF H!Init
<1>2. \A rest \in Stages : ~Doing(rest)
    BY <1>1, DoingFacts, StageFacts DEF Stages
<1>3. history \in Seq(Patches)
    BY DEF H!Init
<1> QED
    BY <1>1, <1>2, <1>3 DEF H!Init, SetupInv, SetupTypeOK, SettingFollowsMenu, HistoryLeads, Stages

\* It holds where a command goes on to a write, and what is known of it is true.
LEMMA NextWrite ==
  ASSUME SetupInv, NEW rest \in Stages, NEW patch \in Patches, NEW doc \in H!Documents,
         writing' = H!Writing(rest, patch, doc),
         file' \in H!Documents, menu' \in H!Documents \cup {None}, snapshot' \in H!Documents \cup {None},
         history' \in Seq(Patches),
         rest \in {ToBridge, ToBase, ToConfig} => menu' # None /\ patch = H!ComputePatch(menu', doc),
         rest = ToBridge => snapshot' # None,
         ~unseen' => /\ rest = ToBridge => replayed' \in {snapshot', menu'}
                     /\ rest = ToBase => snapshot' = None \/ replayed' = menu'
                     /\ rest = ToConfig => replayed' = menu'
                     /\ rest = ToPatch => H!ApplyPatch(replayed', patch) = doc
                     /\ rest = ToSnapshot => replayed' = doc
  PROVE  SetupInv'
<1>1. /\ writing'.todo = rest /\ writing'.patch = patch /\ writing'.doc = doc /\ Doing(rest)'
    BY DEF H!Writing, Doing
<1>2. \A other : Doing(other)' => other = rest
    BY <1>1 DEF H!Writing, Doing
<1>3. writing' # H!Quiet
    BY <1>1, StageFacts DEF H!Quiet, Stages
<1>4. SetupTypeOK'
    BY <1>1 DEF SetupTypeOK, Patches
<1>5. SettingFollowsMenu'
    BY <1>1, <1>2 DEF SettingFollowsMenu
<1>6. HistoryLeads'
    BY <1>1, <1>2, <1>3 DEF HistoryLeads
<1> QED
    BY <1>4, <1>5, <1>6 DEF SetupInv

\* It holds where no command writes, and the history leads to the snapshot or the
\* document.
LEMMA NextQuiet ==
  ASSUME writing' = H!Quiet,
         file' \in H!Documents, menu' \in H!Documents \cup {None}, snapshot' \in H!Documents \cup {None},
         history' \in Seq(Patches),
         ~unseen' /\ snapshot' # None =>
           replayed' = snapshot' \/ (replayed' = file' /\ menu' \in {None, file'})
  PROVE  SetupInv'
<1>1. \A rest \in Stages : ~Doing(rest)'
  <2>1. writing'.todo = <<>>
      BY DEF H!Quiet
  <2>2. \A rest : Doing(rest)' => writing'.todo = rest
      BY DEF Doing, H!Writing
  <2> QED
      BY <2>1, <2>2, StageFacts DEF Stages
<1>2. SetupTypeOK'
    BY DEF SetupTypeOK
<1>3. SettingFollowsMenu'
    BY <1>1 DEF SettingFollowsMenu, Stages
<1>4. HistoryLeads'
    BY <1>1 DEF HistoryLeads, Stages
<1> QED
    BY <1>2, <1>3, <1>4 DEF SetupInv

\* Every step keeps it: the edits of others, the settings, the undo and its writes,
\* and a kill between any two of them.
LEMMA SetupStep ==
  ASSUME SetupNames, SetupInv, [H!Next]_H!vars
  PROVE  SetupInv'
<1> USE DEF SetupInv
<1>0. /\ file \in H!Documents /\ menu \in H!Documents \cup {None} /\ snapshot \in H!Documents \cup {None}
      /\ history \in Seq(Patches)
    BY DEF SetupTypeOK
<1>1. CASE H!ExternalEdit
  <2>1. file' \in H!Documents /\ UNCHANGED <<snapshot, history, menu, writing, replayed>>
      BY <1>1 DEF H!ExternalEdit
  <2>2. ~unseen' => ~unseen /\ (writing = H!Quiet /\ snapshot # None => replayed = snapshot)
      BY <1>1 DEF H!ExternalEdit
  <2>3. /\ \A rest : Doing(rest)' <=> Doing(rest)
        /\ writing' = writing
      BY <2>1 DEF Doing
  <2>4. SetupTypeOK'
      BY <2>1, <2>3 DEF SetupTypeOK
  <2>5. SettingFollowsMenu'
      BY <2>1, <2>3 DEF SettingFollowsMenu
  <2>6. HistoryLeads'
      BY <2>1, <2>2, <2>3 DEF HistoryLeads
  <2> QED
      BY <2>4, <2>5, <2>6
<1>2. CASE H!RunSetup \/ H!Exit
  <2>1. /\ writing' = H!Quiet /\ writing = H!Quiet /\ menu' \in {file, None}
        /\ UNCHANGED <<file, snapshot, history, replayed, unseen>>
      BY <1>2 DEF H!RunSetup, H!Exit
  <2> QED
      BY <1>0, <2>1, NextQuiet DEF HistoryLeads
<1>3. CASE H!RunSingleSetting
  <2>1. PICK doc \in H!Documents :
          writing' = H!Writing(H!CheckBridge(menu) \o ToConfig, H!ComputePatch(menu, doc), doc)
      BY <1>3 DEF H!RunSingleSetting, ToConfig
  <2>2. /\ menu # None /\ writing = H!Quiet
        /\ UNCHANGED <<file, snapshot, history, menu, replayed, unseen>>
      BY <1>3 DEF H!RunSingleSetting
  <2>3. H!ComputePatch(menu, doc) \in Patches
      BY <1>0, <2>2, Computed DEF Patches, PatchOK
  <2>4. ~unseen /\ snapshot # None => replayed = snapshot \/ (replayed = file /\ menu \in {None, file})
      BY <2>2 DEF HistoryLeads
  <2>5. CASE snapshot = None
    <3>1. writing' = H!Writing(ToBase, H!ComputePatch(menu, doc), doc)
        BY <2>1, <2>5, StageFacts DEF H!CheckBridge
    <3> QED
        BY <1>0, <2>2, <2>3, <2>5, <3>1, NextWrite, StageFacts DEF Stages
  <2>6. CASE snapshot # None /\ snapshot = menu
    <3>1. writing' = H!Writing(ToConfig, H!ComputePatch(menu, doc), doc)
        BY <2>1, <2>6, StageFacts DEF H!CheckBridge
    <3> QED
        BY <1>0, <2>2, <2>3, <2>4, <2>6, <3>1, NextWrite, StageFacts DEF Stages
  <2>7. CASE snapshot # None /\ snapshot # menu
    <3>1. writing' = H!Writing(ToBridge, H!ComputePatch(menu, doc), doc)
        BY <2>1, <2>7, StageFacts DEF H!CheckBridge
    <3> QED
        BY <1>0, <2>2, <2>3, <2>4, <2>7, <3>1, NextWrite, StageFacts DEF Stages
  <2> QED
      BY <2>5, <2>6, <2>7
<1>4. CASE H!PerformUndo
  <2>1. PICK i \in DOMAIN history :
          /\ file' = H!ApplyPatch(file, H!Mirrored(history[i]))
          /\ writing' = H!Writing(ToPatch, H!Mirrored(history[i]), file')
      BY <1>4 DEF H!PerformUndo, ToPatch
  <2>2. /\ UNCHANGED <<snapshot, history, menu, replayed>>
        /\ ~unseen' => replayed = file
      BY <1>4 DEF H!PerformUndo
  <2>3. PatchOK(history[i])
      BY <1>0, <2>1 DEF Patches
  <2>4. PatchOK(H!Mirrored(history[i]))
      BY <2>3, MirroredIsOK
  <2>5. H!Mirrored(history[i]) \in Patches
      BY <2>4 DEF Patches, PatchOK
  <2>6. file' \in H!Documents
      BY <1>0, <2>1, <2>4, PatchedIsDocument
  <2> QED
      BY <1>0, <2>1, <2>2, <2>5, <2>6, NextWrite, StageFacts DEF Stages
<1>5. ASSUME H!Done, writing # H!Quiet
      PROVE  writing.doc \in H!Documents /\ writing.patch \in Patches
    BY <1>5 DEF SetupTypeOK, Patches, PatchOK
<1>6. CASE H!WriteBridge
  <2>1. /\ Doing(ToBridge) /\ writing' = H!Writing(ToBase, writing.patch, writing.doc)
        /\ UNCHANGED <<file, snapshot, menu, unseen>>
        /\ history' = Append(history, H!ComputePatch(snapshot, menu))
        /\ replayed' = H!ApplyPatch(replayed, H!ComputePatch(snapshot, menu))
      BY <1>6, StageReached DEF H!WriteBridge, H!AppendToHistory
  <2>2. /\ writing.doc \in H!Documents /\ writing.patch \in Patches
        /\ menu # None /\ writing.patch = H!ComputePatch(menu, writing.doc) /\ snapshot # None
      BY <1>5, <1>6, <2>1, DoingFacts, StageFacts DEF H!WriteBridge, SettingFollowsMenu
  <2>3. H!ComputePatch(snapshot, menu) \in Patches
      BY <1>0, <2>2, Computed DEF Patches, PatchOK
  <2>4. history' \in Seq(Patches)
      BY <1>0, <2>1, <2>3
  <2>5. ~unseen => replayed' = menu
      BY <1>0, <2>1, <2>2, Computed DEF HistoryLeads
  <2> QED
      BY <1>0, <2>1, <2>2, <2>4, <2>5, NextWrite, StageFacts DEF Stages
<1>7. CASE H!WriteBase
  <2>1. /\ Doing(ToBase) /\ writing' = H!Writing(ToConfig, writing.patch, writing.doc)
        /\ UNCHANGED <<file, history, menu, unseen>>
        /\ snapshot' = menu /\ replayed' = IF snapshot = None THEN menu ELSE replayed
      BY <1>7, StageReached DEF H!WriteBase
  <2>2. /\ writing.doc \in H!Documents /\ writing.patch \in Patches
        /\ menu # None /\ writing.patch = H!ComputePatch(menu, writing.doc)
      BY <1>5, <1>7, <2>1, DoingFacts, StageFacts DEF H!WriteBase, SettingFollowsMenu
  <2>3. ~unseen => replayed' = menu
      BY <2>1 DEF HistoryLeads
  <2> QED
      BY <1>0, <2>1, <2>2, <2>3, NextWrite, StageFacts DEF Stages
<1>8. CASE H!WriteConfig
  <2>1. /\ Doing(ToConfig) /\ writing' = H!Writing(ToPatch, writing.patch, writing.doc)
        /\ UNCHANGED <<snapshot, history, replayed, unseen>>
        /\ file' = writing.doc /\ menu' = writing.doc
      BY <1>8, StageReached DEF H!WriteConfig
  <2>2. /\ writing.doc \in H!Documents /\ writing.patch \in Patches
        /\ menu # None /\ writing.patch = H!ComputePatch(menu, writing.doc)
      BY <1>5, <1>8, <2>1, DoingFacts, StageFacts DEF H!WriteConfig, SettingFollowsMenu
  <2>3. ~unseen => H!ApplyPatch(replayed, writing.patch) = writing.doc
      BY <1>0, <2>1, <2>2, Computed DEF HistoryLeads
  <2> QED
      BY <1>0, <2>1, <2>2, <2>3, NextWrite, StageFacts DEF Stages
<1>9. CASE H!WritePatch
  <2>1. /\ Doing(ToPatch) /\ writing' = H!Writing(ToSnapshot, writing.patch, writing.doc)
        /\ UNCHANGED <<file, snapshot, menu, unseen>>
        /\ history' = Append(history, writing.patch)
        /\ replayed' = H!ApplyPatch(replayed, writing.patch)
      BY <1>9, StageReached DEF H!WritePatch, H!AppendToHistory
  <2>2. writing.doc \in H!Documents /\ writing.patch \in Patches
      BY <1>5, <1>9, <2>1, DoingFacts, StageFacts DEF H!WritePatch
  <2>3. history' \in Seq(Patches)
      BY <1>0, <2>1, <2>2
  <2>4. ~unseen => replayed' = writing.doc
      BY <2>1 DEF HistoryLeads
  <2> QED
      BY <1>0, <2>1, <2>2, <2>3, <2>4, NextWrite, StageFacts DEF Stages
<1>10. CASE H!WriteSnapshot
  <2>1. /\ Doing(ToSnapshot) /\ writing' = H!Quiet
        /\ UNCHANGED <<file, history, menu, replayed, unseen>> /\ snapshot' = writing.doc
      BY <1>10, StageReached DEF H!WriteSnapshot
  <2>2. writing.doc \in H!Documents
      BY <1>5, <1>10, <2>1, DoingFacts, StageFacts DEF H!WriteSnapshot
  <2>3. ~unseen => replayed' = snapshot'
      BY <2>1 DEF HistoryLeads
  <2> QED
      BY <1>0, <2>1, <2>2, <2>3, NextQuiet
<1>11. CASE H!Killed
  <2>1. /\ writing' = H!Quiet /\ menu' = None /\ UNCHANGED <<file, snapshot, history, replayed>>
        /\ ~unseen' /\ snapshot # None => replayed \in {snapshot, file}
      BY <1>11 DEF H!Killed
  <2> QED
      BY <1>0, <2>1, NextQuiet
<1>12. CASE UNCHANGED H!vars
    BY <1>12 DEF H!vars, SetupTypeOK, SettingFollowsMenu, HistoryLeads, Doing
<1> QED
    BY <1>1, <1>2, <1>3, <1>4, <1>6, <1>7, <1>8, <1>9, <1>10, <1>11, <1>12 DEF H!Next

\* What an undo changes had the value of its entry and gets the one from before:
\* checkReverseApplies has compared each path with what the entry left there.
LEMMA UndoneLeaf ==
  ASSUME SetupNames, NEW doc \in H!Documents, NEW patch, PatchOK(patch),
         H!CheckReverseApplies(doc, patch), NEW back, back = H!Mirrored(patch),
         NEW r, r = H!ApplyPatch(doc, back), NEW p \in H!Leaves, H!At(r, p) # H!At(doc, p)
  PROVE  \E c \in back :
           /\ c.path[1] = p[1] /\ (Len(c.path) = 2 => c.path = p)
           /\ (IF Len(c.path) = Len(p) THEN c.old ELSE H!Leaf(c.old, p)) = H!At(doc, p)
           /\ (IF Len(c.path) = Len(p) THEN c.new ELSE H!Leaf(c.new, p)) = H!At(r, p)
<1>1. PatchOK(back)
    BY MirroredIsOK
<1>2. \A c \in back : H!At(doc, c.path) = c.old \/ H!At(doc, c.path) = c.new
  <2>1. \A c \in back : \E e \in patch : c.path = e.path /\ c.old = e.new /\ c.new = e.old
      BY DEF H!Mirrored
  <2> QED
      BY <2>1 DEF H!CheckReverseApplies
<1>5. ASSUME NEW k \in Sections
      PROVE  \A c \in back, f \in Fields : c.path = <<k, f>> =>
               /\ r[k] = [g \in Fields |-> r[k][g]] /\ r[k][f] = c.new
               /\ \A g \in Fields : (\A d \in back : d.path # <<k, g>>) => r[k][g] = H!At(doc, <<k, g>>)
    BY <1>1, PatchedField
<1>3. CASE \E k \in Plain : p = <<k>>
  <2>1. PICK k \in Plain : p = <<k>>
      BY <1>3
  <2>2. k \in H!TopKeys /\ k \notin Sections
      BY DEF H!TopKeys, SetupNames
  <2>3. \A c \in back : \A f : c.path # <<k, f>>
      BY <1>1, <2>2, PathFacts DEF PatchOK, Changes
  <2>4. H!At(doc, p) = doc[k] /\ H!At(r, p) = r[k] /\ Len(p) = 1 /\ p[1] = k
      BY <2>1, AtFacts, PathFacts
  <2>5. \E c \in back : c.path = p
    <3>1. ASSUME \A c \in back : c.path # p PROVE Kept(back, k)
        BY <2>1, <2>3, <3>1 DEF Kept
    <3>2. Kept(back, k) => r[k] = doc[k]
        BY <1>1, <2>2, PatchedKey
    <3> QED
        BY <2>4, <3>1, <3>2
  <2>6. PICK c \in back : c.path = p
      BY <2>5
  <2>7. r[k] = c.new
      BY <1>1, <2>1, <2>2, <2>6, PatchedKey
  <2>8. c.old = doc[k]
      BY <1>2, <2>4, <2>6, <2>7
  <2> QED
      BY <2>4, <2>6, <2>7, <2>8
<1>4. CASE \E k \in Sections, f \in Fields : p = <<k, f>>
  <2>1. PICK k \in Sections, f \in Fields : p = <<k, f>>
      BY <1>4
  <2>2. k \in H!TopKeys
      BY DEF H!TopKeys
  <2>3. /\ Len(p) = 2 /\ p[1] = k /\ p[2] = f
        /\ H!At(doc, p) = (IF doc[k] = None THEN None ELSE doc[k][f])
        /\ H!At(r, p) = (IF r[k] = None THEN None ELSE r[k][f])
      BY <2>1, AtFacts, PathFacts
  <2>4. CASE \E c \in back : c.path = <<k>>
    <3>1. PICK c \in back : c.path = <<k>>
        BY <2>4
    <3>2. r[k] = c.new
        BY <1>1, <2>2, <3>1, PatchedKey
    <3>3. H!At(doc, <<k>>) = doc[k] /\ Len(<<k>>) = 1 /\ <<k>>[1] = k
        BY AtFacts, PathFacts
    <3>4. c.old = doc[k]
        BY <1>2, <2>3, <3>1, <3>2, <3>3
    <3>5. H!Leaf(c.old, p) = H!At(doc, p) /\ H!Leaf(c.new, p) = H!At(r, p)
        BY <2>3, <3>2, <3>4 DEF H!Leaf
    <3> QED
        BY <2>3, <3>1, <3>3, <3>5
  <2>5. CASE \E c \in back, g \in Fields : c.path = <<k, g>>
    <3>1. PICK c \in back, g \in Fields : c.path = <<k, g>>
        BY <2>5
    <3>2. \A h \in Fields : (\A d \in back : d.path # <<k, h>>) => r[k][h] = H!At(doc, <<k, h>>)
        BY <1>5, <3>1
    <3>5. \A d \in back : d.path = <<k, f>> => r[k][f] = d.new
        BY <1>5
    <3>0. r[k] # None
        BY <1>1, <2>5, PatchedSection DEF SetupNames
    <3>3. H!At(r, p) = r[k][f]
        BY <2>3, <3>0
    <3>4. PICK d \in back : d.path = p
        BY <2>1, <3>2, <3>3
    <3>6. d.new = H!At(r, p) /\ d.old = H!At(doc, p)
        BY <1>2, <2>1, <3>3, <3>4, <3>5
    <3> QED
        BY <3>4, <3>6
  <2>6. CASE Kept(back, k)
      BY <1>1, <2>2, <2>3, <2>6, PatchedKey
  <2> QED
      BY <2>4, <2>5, <2>6 DEF Kept
<1> QED
    BY <1>3, <1>4 DEF H!Leaves

\* The undo is the only step that begins to write and has the document written.
LEMMA UndoStep ==
  ASSUME SetupNames, SetupInv, [H!Next]_H!vars,
         file' # file, writing = H!Quiet, writing' # H!Quiet, NEW p \in H!Leaves,
         H!At(file', p) # H!At(file, p)
  PROVE  \E c \in writing'.patch :
           /\ c.path[1] = p[1] /\ (Len(c.path) = 2 => c.path = p)
           /\ (IF Len(c.path) = Len(p) THEN c.old ELSE H!Leaf(c.old, p)) = H!At(file, p)
           /\ (IF Len(c.path) = Len(p) THEN c.new ELSE H!Leaf(c.new, p)) = H!At(file', p)
<1>1. H!PerformUndo
  <2>1. ~H!ExternalEdit /\ ~H!RunSetup /\ ~H!Exit /\ ~H!RunSingleSetting /\ ~UNCHANGED H!vars
      BY DEF H!ExternalEdit, H!RunSetup, H!Exit, H!RunSingleSetting, H!vars
  <2>2. ~H!Pending("bridge") /\ ~H!Pending("base") /\ ~H!Pending("config") /\ ~H!Pending("patch")
        /\ ~H!Pending("snapshot") /\ ~H!Killed
      BY DoingFacts DEF H!Pending, H!Killed
  <2> QED
      BY <2>1, <2>2 DEF H!Next, H!WriteBridge, H!WriteBase, H!WriteConfig, H!WritePatch, H!WriteSnapshot
<1>2. PICK i \in DOMAIN history :
        /\ H!CheckReverseApplies(file, history[i])
        /\ file' = H!ApplyPatch(file, H!Mirrored(history[i]))
        /\ writing' = H!Writing(<<"patch", "snapshot">>, H!Mirrored(history[i]), file')
    BY <1>1 DEF H!PerformUndo
<1>3. PatchOK(history[i]) /\ file \in H!Documents
    BY <1>2 DEF SetupInv, SetupTypeOK, Patches
<1>4. writing'.patch = H!Mirrored(history[i])
    BY <1>2 DEF H!Writing
<1> QED
    BY <1>2, <1>3, <1>4, UndoneLeaf

\* The history of a document explains it, whatever others edit and wherever a command
\* is killed, and an undo takes back what its entry had set and nothing else.
THEOREM HistoryIsKept == ASSUME SetupNames PROVE H!Spec => HistoryIsFaithful
<1>1. H!Init => SetupInv
    BY SetupInit
<1>2. SetupInv /\ [H!Next]_H!vars => SetupInv'
    BY SetupStep
<1>3. SetupInv => H!HistoryReplays
    BY DEF SetupInv, HistoryLeads, H!HistoryReplays
<1>4. SetupInv /\ [H!Next]_H!vars =>
        [file' # file /\ writing = H!Quiet /\ writing' # H!Quiet =>
           \A p \in H!Leaves : H!At(file', p) # H!At(file, p) =>
             \E c \in writing'.patch :
               /\ c.path[1] = p[1] /\ (Len(c.path) = 2 => c.path = p)
               /\ (IF Len(c.path) = Len(p) THEN c.old ELSE H!Leaf(c.old, p)) = H!At(file, p)
               /\ (IF Len(c.path) = Len(p) THEN c.new ELSE H!Leaf(c.new, p)) = H!At(file', p)]_H!vars
    BY UndoStep
<1> QED
    BY <1>1, <1>2, <1>3, <1>4, PTL DEF H!Spec, HistoryIsFaithful, H!HistoryIsFaithful, H!UndoKeepsTheRest
-----------------------------------------------------------------------------
(* Adoption.                                                              *)

\* The gateway, the proxy and the holder of the host port are applications, and none of
\* the events that AdoptionFaults names happens.
AdoptionNames ==
  /\ Gateway \in Apps /\ Proxy \in Apps /\ PortApp \in Apps /\ Gateway # Proxy
  /\ AdoptionFaults = {}

\* The stages of doStart, what a namespace and an application may be in, and the types.
Starts == {"ports", "list", "sweep", "inspect", "commit"}
Statuses == {"STOPPED", "STARTING", "RUNNING", "STOPPING"}
AppStates == {"none", "queued", "updating", "running", "stopping", "stopped", "failed"}
AdoptionTypeOK ==
  /\ want \in [Apps -> Nat] /\ def \in [Apps -> Nat]
  /\ ctr \in [Apps -> [hash : Nat, running : BOOLEAN]]
  /\ stale \in BOOLEAN /\ up \in BOOLEAN /\ dirty \in BOOLEAN
  /\ st \in [Apps -> AppStates]
  /\ detached \in SUBSET Apps /\ stops \in SUBSET Apps
  /\ saved \in [status : Statuses \cup {"NONE"}, detached : SUBSET Apps]
  /\ plan \in [pc : Starts \cup {"idle", "regenerate"},
               det : SUBSET Apps, seen : SUBSET Apps, reuse : SUBSET Apps]
  /\ loop \in {"none", "on", "ending"} /\ cmd \in {"none", "start", "stop", "regenerate"}
  /\ status \in Statuses
  /\ asked \in {"start", "stop"}
  /\ hostPort \in {"free", "ours", "late", "theirs"}
  /\ \A a \in Apps : ctr[a].running => ctr[a].hash # 0

NothingRuns == \A a \in Apps : ~ctr[a].running

\* Nothing of a daemon is left, and the next one finds what it was asked.
LeftInOrder ==
  ~up => /\ loop = "none" /\ status = "STOPPED" /\ cmd = "none" /\ plan = A!Idle
         /\ st = A!NoApps /\ stops = {} /\ ~dirty /\ ~stale
         /\ A!ShouldStart(saved.status) <=> asked = "start"
         /\ \A a \in Apps : ctr[a].running => a \notin saved.detached /\ A!ShouldStart(saved.status)

\* A daemon whose runtime has ended.
AtRest ==
  up /\ loop # "on" =>
    /\ status = "STOPPED" /\ cmd = "none" /\ plan = A!Idle /\ stops = {} /\ ~stale
    /\ asked = "stop" /\ NothingRuns
    /\ \A a \in Apps : st[a] \in {"none", "stopped"}
    /\ loop = "none" => ~dirty
    /\ ~dirty => ~A!ShouldStart(saved.status) /\ saved.detached = detached

\* doStart, from the queue to its commit.
Found ==
  /\ \A a \in Apps : A!Exists(a) => a \in plan.seen
  /\ \A a \in plan.reuse : a \in A!Desired /\ a \notin detached /\ a \in plan.seen /\ ctr[a].hash = want[a]
  /\ \A a \in A!Desired : A!Matches(a, detached) =>
       a \in plan.reuse \/ (a = Proxy /\ Gateway \in A!Desired /\ Gateway \notin plan.reuse)
  /\ Proxy \in plan.reuse /\ Gateway \in A!Desired => Gateway \in plan.reuse
  /\ Gateway \in plan.reuse => ctr[Gateway].running

\* What doStart knows at each of its stages.
StartsInOrder ==
  up /\ loop = "on" /\ cmd = "start" =>
    /\ asked = "start" /\ stops = {} /\ ~stale
    /\ \A a \in Apps : ctr[a].running => a \notin detached
    /\ \/ plan = A!Idle /\ status = "STOPPED" /\ st = A!NoApps
       \/ plan.pc \in Starts /\ status = "STARTING" /\ plan.det = detached /\ def = want
    /\ plan.pc \in Starts \ {"ports"} => (PortApp \in A!Desired => hostPort # "ours")
    /\ plan.pc \in {"sweep", "inspect", "commit"} => Found
    /\ plan.pc \in {"inspect", "commit"} => \A a \in Apps \ A!Desired : ~ctr[a].running

\* What the runtime knows of an application, its container and its workers.
AppOK(a) ==
  /\ ctr[a].running => st[a] = "running" \/ a \in stops
  /\ st[a] \in {"updating", "stopping"} => a \in stops
  /\ st[a] = "running" => a \notin stops /\ a \notin detached /\ ctr[a].hash = def[a]
  /\ st[a] # "none" => def[a] # 0
  /\ cmd # "regenerate" /\ status # "STOPPING" =>
       IF a \in A!Desired THEN def[a] = want[a] ELSE st[a] \in {"none", "stopping"}

\* The proxy does not serve while the gateway that it knows is replaced.
GatewayFirst ==
  /\ st[Gateway] = "running" => ctr[Gateway].running
  /\ Gateway \in A!Desired \ detached /\ st[Gateway] \in {"queued", "updating", "failed"} =>
       st[Proxy] # "running"
  /\ stale /\ st[Proxy] = "running" /\ Gateway \in A!Desired \ detached => st[Gateway] = "none"

\* A runtime that serves, reloads or stops.
ServesInOrder ==
  up /\ loop = "on" /\ cmd # "start" =>
    /\ \/ plan = A!Idle
       \/ plan.pc = "regenerate" /\ cmd = "regenerate" /\ plan.det = detached
    /\ \/ status \in {"STARTING", "RUNNING"} /\ asked = (IF cmd = "stop" THEN "stop" ELSE "start")
       \/ /\ status = "STOPPING" /\ cmd = "none" /\ asked = "stop"
          /\ \A a \in Apps : st[a] \in {"none", "stopped", "stopping"}
    /\ \A a \in Apps : AppOK(a)
    /\ GatewayFirst
    /\ PortApp \in A!Desired \/ st[PortApp] # "none" => hostPort # "ours"

\* All of it.
AdoptionInv == AdoptionTypeOK /\ LeftInOrder /\ AtRest /\ StartsInOrder /\ ServesInOrder

\* A plan under way says whose it is.
LEMMA StartUnderWay ==
  ASSUME AdoptionInv, plan.pc \in Starts
  PROVE  /\ up /\ loop = "on" /\ cmd = "start" /\ asked = "start" /\ status = "STARTING"
         /\ plan.det = detached /\ def = want /\ stops = {} /\ ~stale
<1> plan # A!Idle
    BY DEF A!Idle, Starts
<1> plan.pc # "regenerate"
    BY DEF Starts
<1> QED
    BY DEF AdoptionInv, LeftInOrder, AtRest, StartsInOrder, ServesInOrder

\* And that of a reload is of one.
LEMMA RegenerateUnderWay ==
  ASSUME AdoptionInv, plan.pc = "regenerate"
  PROVE  /\ up /\ loop = "on" /\ cmd = "regenerate" /\ asked = "start"
         /\ status \in {"STARTING", "RUNNING"} /\ plan.det = detached
<1> plan # A!Idle
    BY DEF A!Idle
<1> plan.pc \notin Starts
    BY DEF Starts
<1> QED
    BY DEF AdoptionInv, LeftInOrder, AtRest, StartsInOrder, ServesInOrder

\* A daemon starts over what the last one left; one ends in each of three ways.
LEMMA BootKeeps == ASSUME AdoptionNames, AdoptionInv, A!Boot PROVE AdoptionInv'
<1> USE DEF A!Boot, A!docker, A!operators, A!ShouldStart
<1>1. AdoptionTypeOK'
    BY DEF AdoptionInv, AdoptionTypeOK
<1>2. LeftInOrder'
    BY DEF LeftInOrder
<1>3. AtRest'
    BY DEF AdoptionInv, AdoptionTypeOK, LeftInOrder, AtRest, NothingRuns, A!NoApps
<1>4. StartsInOrder'
    BY DEF AdoptionInv, LeftInOrder, StartsInOrder, A!Idle, Starts
<1>5. ServesInOrder'
  <2>1. loop' = "on" => cmd' = "start"
      BY DEF AdoptionInv, LeftInOrder
  <2> QED
      BY <2>1 DEF ServesInOrder
<1> QED
    BY <1>1, <1>2, <1>3, <1>4, <1>5 DEF AdoptionInv

LEMMA CrashKeeps == ASSUME AdoptionNames, AdoptionInv, A!Crash PROVE AdoptionInv'
<1> USE DEF A!Crash, A!Idle, A!NoApps, A!Fault, A!ShouldStart, A!Gone, A!LeavesWork
<1>1. AdoptionTypeOK'
    BY DEF AdoptionInv, AdoptionTypeOK, Statuses, AppStates
<1>2. LeftInOrder'
    BY DEF LeftInOrder, AdoptionNames
<1>3. AtRest'
    BY DEF AtRest
<1>4. StartsInOrder'
    BY DEF StartsInOrder
<1>5. ServesInOrder'
    BY DEF ServesInOrder
<1> QED
    BY <1>1, <1>2, <1>3, <1>4, <1>5 DEF AdoptionInv

LEMMA DetachKeeps == ASSUME AdoptionNames, AdoptionInv, A!Detach PROVE AdoptionInv'
<1> USE DEF A!Detach, A!Idle, A!NoApps, A!Op, A!Fault, A!ShouldStart, A!LeavesWork
<1>1. AdoptionTypeOK'
    BY DEF AdoptionInv, AdoptionTypeOK, Statuses, AppStates
<1>2. LeftInOrder'
    BY DEF AdoptionInv, LeftInOrder, ServesInOrder, AdoptionNames
<1>3. AtRest'
    BY DEF AtRest
<1>4. StartsInOrder'
    BY DEF StartsInOrder
<1>5. ServesInOrder'
    BY DEF ServesInOrder
<1> QED
    BY <1>1, <1>2, <1>3, <1>4, <1>5 DEF AdoptionInv

LEMMA ExitKeeps == ASSUME AdoptionNames, AdoptionInv, A!Exit PROVE AdoptionInv'
<1> USE DEF A!Exit, A!Idle, A!NoApps, A!Gone
<1>1. AdoptionTypeOK'
    BY DEF AdoptionInv, AdoptionTypeOK, Statuses, AppStates
<1>2. LeftInOrder'
    BY DEF AdoptionInv, LeftInOrder, AtRest, NothingRuns
<1>3. AtRest'
    BY DEF AtRest
<1>4. StartsInOrder'
    BY DEF StartsInOrder
<1>5. ServesInOrder'
    BY DEF ServesInOrder
<1> QED
    BY <1>1, <1>2, <1>3, <1>4, <1>5 DEF AdoptionInv

\* The operator's commands, the edits of the workspace and what he asks of one
\* application.
LEMMA StartKeeps == ASSUME AdoptionNames, AdoptionInv, A!Start PROVE AdoptionInv'
<1> USE DEF A!Start, A!docker, A!NoApps, A!Op, A!Fault
<1>1. AdoptionTypeOK'
    BY DEF AdoptionInv, AdoptionTypeOK, AppStates
<1>2. LeftInOrder'
    BY DEF LeftInOrder
<1>3. AtRest'
    BY DEF AtRest, AdoptionNames
<1>4. StartsInOrder'
    BY DEF AdoptionInv, AtRest, StartsInOrder, NothingRuns, A!Idle, Starts
<1>5. ServesInOrder'
    BY DEF ServesInOrder
<1> QED
    BY <1>1, <1>2, <1>3, <1>4, <1>5 DEF AdoptionInv

LEMMA StopKeeps == ASSUME AdoptionNames, AdoptionInv, A!Stop PROVE AdoptionInv'
<1> USE DEF A!Stop, A!docker, A!Op
<1>1. AdoptionTypeOK'
    BY DEF AdoptionInv, AdoptionTypeOK
<1>2. LeftInOrder'
    BY DEF AdoptionInv, LeftInOrder
<1>3. AtRest'
    BY DEF AtRest
<1>4. StartsInOrder'
    BY DEF StartsInOrder
<1>5. ServesInOrder'
    BY DEF AdoptionInv, ServesInOrder, AppOK, GatewayFirst, A!Desired
<1> QED
    BY <1>1, <1>2, <1>3, <1>4, <1>5 DEF AdoptionInv

LEMMA ChangeKeeps ==
  ASSUME AdoptionNames, AdoptionInv, NEW a \in Apps, NEW h \in Nat, A!Change(a, h)
  PROVE  AdoptionInv'
<1> USE DEF A!Change, A!docker, A!Op, A!Fault
<1>1. AdoptionTypeOK'
    BY DEF AdoptionInv, AdoptionTypeOK
<1>2. LeftInOrder'
    BY DEF AdoptionInv, LeftInOrder
<1>3. AtRest'
    BY DEF AdoptionInv, AtRest, NothingRuns
<1>4. StartsInOrder'
    BY DEF StartsInOrder
<1>5. ServesInOrder'
    BY DEF AdoptionInv, ServesInOrder, AppOK, GatewayFirst, AdoptionNames, A!Desired
<1> QED
    BY <1>1, <1>2, <1>3, <1>4, <1>5 DEF AdoptionInv

LEMMA StopAppKeeps == ASSUME AdoptionNames, AdoptionInv, NEW a \in Apps, A!StopApp(a) PROVE AdoptionInv'
<1> USE DEF A!StopApp, A!docker, A!Op, A!Fault
<1>1. AdoptionTypeOK'
    BY DEF AdoptionInv, AdoptionTypeOK, AppStates
<1>2. LeftInOrder'
    BY DEF LeftInOrder
<1>3. AtRest'
    BY DEF AdoptionInv, AtRest, NothingRuns, A!ShouldStart
<1>4. StartsInOrder'
    BY DEF AdoptionInv, StartsInOrder, AdoptionNames, A!NoApps, Starts
<1>5. ServesInOrder'
    BY DEF AdoptionInv, AdoptionTypeOK, ServesInOrder, AppOK, GatewayFirst, AdoptionNames, A!Desired,
       AppStates
<1> QED
    BY <1>1, <1>2, <1>3, <1>4, <1>5 DEF AdoptionInv

LEMMA StartAppKeeps == ASSUME AdoptionNames, AdoptionInv, NEW a \in Apps, A!StartApp(a) PROVE AdoptionInv'
<1> USE DEF A!StartApp, A!docker, A!Op, A!Fault
<1>1. AdoptionTypeOK'
    BY DEF AdoptionInv, AdoptionTypeOK, AppStates
<1>2. LeftInOrder'
    BY DEF AdoptionInv, LeftInOrder
<1>3. AtRest'
    BY DEF AtRest
<1>4. StartsInOrder'
    BY DEF AdoptionInv, StartsInOrder, A!NoApps, Starts
<1>5. ServesInOrder'
    BY DEF AdoptionInv, ServesInOrder, AppOK, GatewayFirst, AdoptionNames, A!Desired
<1> QED
    BY <1>1, <1>2, <1>3, <1>4, <1>5 DEF AdoptionInv

\* doStart, stage by stage: what was found running is followed to the commit.
LEMMA SeedKeeps == ASSUME AdoptionNames, AdoptionInv, A!Seed PROVE AdoptionInv'
<1> USE DEF A!Seed, A!docker, A!operators, A!Idle, A!Desired
<1>1. AdoptionTypeOK'
    BY DEF AdoptionInv, AdoptionTypeOK, Statuses, AppStates, Starts
<1>2. LeftInOrder'
    BY DEF AdoptionInv, LeftInOrder
<1>3. AtRest'
    BY DEF AtRest
<1>4. StartsInOrder'
    BY DEF AdoptionInv, StartsInOrder, Starts
<1>5. ServesInOrder'
    BY DEF ServesInOrder
<1> QED
    BY <1>1, <1>2, <1>3, <1>4, <1>5 DEF AdoptionInv

LEMMA ResolveHostPortConflictsKeeps ==
  ASSUME AdoptionNames, AdoptionInv, A!ResolveHostPortConflicts
  PROVE  AdoptionInv'
<1> USE DEF A!ResolveHostPortConflicts, A!docker, A!Desired, A!Fault
<1>1. AdoptionTypeOK'
    BY DEF AdoptionInv, AdoptionTypeOK, Starts
<1>2. LeftInOrder'
    BY DEF AdoptionInv, LeftInOrder, A!Idle
<1>3. AtRest'
    BY DEF AdoptionInv, AtRest, A!Idle
<1>4. StartsInOrder'
    BY DEF AdoptionInv, StartsInOrder, AdoptionNames, A!Idle, Starts
<1>5. ServesInOrder'
    BY DEF AdoptionInv, ServesInOrder, A!Idle
<1> QED
    BY <1>1, <1>2, <1>3, <1>4, <1>5 DEF AdoptionInv

LEMMA BuildExistingContainerMapKeeps ==
  ASSUME AdoptionNames, AdoptionInv, A!BuildExistingContainerMap
  PROVE  AdoptionInv'
<1> USE DEF A!BuildExistingContainerMap, A!docker, A!operators, A!Exists, A!Fault
<1>1. AdoptionTypeOK'
  <2>1. PICK seen \in SUBSET Apps :
         plan' = [plan EXCEPT !.pc = "sweep", !.seen = seen, !.reuse = A!Reused(seen, plan.det)]
      BY DEF AdoptionNames
  <2>2. A!Reused(seen, plan.det) \in SUBSET Apps
      BY DEF A!Reused
  <2>3. plan' \in [pc : Starts \cup {"idle", "regenerate"},
                   det : SUBSET Apps, seen : SUBSET Apps, reuse : SUBSET Apps]
      BY <2>1, <2>2 DEF AdoptionInv, AdoptionTypeOK, Starts
  <2> QED
      BY <2>3 DEF AdoptionInv, AdoptionTypeOK
<1>2. LeftInOrder'
    BY DEF AdoptionInv, LeftInOrder, A!Idle
<1>3. AtRest'
    BY DEF AdoptionInv, AtRest, A!Idle
<1>4. StartsInOrder'
    BY DEF AdoptionInv, StartsInOrder, Found, A!Matches, A!Reused, AdoptionNames, A!Idle, A!Desired, Starts
<1>5. ServesInOrder'
    BY DEF AdoptionInv, ServesInOrder, A!Idle
<1> QED
    BY <1>1, <1>2, <1>3, <1>4, <1>5 DEF AdoptionInv

LEMMA RemoveUndesiredKeeps == ASSUME AdoptionNames, AdoptionInv, A!RemoveUndesired PROVE AdoptionInv'
<1> USE DEF A!RemoveUndesired, A!operators, A!Absent, A!Desired, A!Fault
<1>1. AdoptionTypeOK'
  <2>1. ctr' = [b \in Apps |-> IF b \in plan.seen \ A!Desired THEN A!Absent ELSE ctr[b]]
      BY DEF AdoptionNames
  <2>2. /\ ctr' \in [Apps -> [hash : Nat, running : BOOLEAN]]
        /\ \A b \in Apps : ctr'[b].running => ctr'[b].hash # 0
      BY <2>1 DEF AdoptionInv, AdoptionTypeOK
  <2>3. plan' \in [pc : Starts \cup {"idle", "regenerate"},
                   det : SUBSET Apps, seen : SUBSET Apps, reuse : SUBSET Apps]
      BY DEF AdoptionInv, AdoptionTypeOK, Starts
  <2>4. UNCHANGED <<stale, want, hostPort, asked, saved, up, loop, status, detached, st, def, stops, cmd,
                    dirty>>
      BY DEF AdoptionNames
  <2> HIDE DEF A!RemoveUndesired
  <2> QED
      BY <2>2, <2>3, <2>4 DEF AdoptionInv, AdoptionTypeOK
<1>2. LeftInOrder'
    BY DEF AdoptionInv, LeftInOrder, A!Idle
<1>3. AtRest'
    BY DEF AdoptionInv, AtRest, A!Idle
<1>4. StartsInOrder'
    BY DEF AdoptionInv, AdoptionTypeOK, StartsInOrder, Found, A!Matches, AdoptionNames, A!Idle, A!Exists,
       Starts
<1>5. ServesInOrder'
    BY DEF AdoptionInv, ServesInOrder, A!Idle
<1> QED
    BY <1>1, <1>2, <1>3, <1>4, <1>5 DEF AdoptionInv

LEMMA InspectReusedKeeps == ASSUME AdoptionNames, AdoptionInv, A!InspectReused PROVE AdoptionInv'
<1> USE DEF A!InspectReused, A!docker, A!operators
<1>1. AdoptionTypeOK'
  <2>1. plan' = [plan EXCEPT !.pc = "commit", !.reuse = {b \in plan.reuse : ctr[b].running}]
      BY DEF AdoptionNames
  <2>2. plan' \in [pc : Starts \cup {"idle", "regenerate"},
                   det : SUBSET Apps, seen : SUBSET Apps, reuse : SUBSET Apps]
      BY <2>1 DEF AdoptionInv, AdoptionTypeOK, Starts
  <2>3. UNCHANGED <<ctr, stale, want, hostPort, asked, saved, up, loop, status, detached, st, def, stops, cmd,
                    dirty>>
      BY DEF AdoptionNames
  <2> HIDE DEF A!InspectReused
  <2> QED
      BY <2>2, <2>3 DEF AdoptionInv, AdoptionTypeOK
<1>2. LeftInOrder'
    BY DEF AdoptionInv, LeftInOrder, A!Idle
<1>3. AtRest'
    BY DEF AdoptionInv, AtRest, A!Idle
<1>4. StartsInOrder'
    BY DEF AdoptionInv, StartsInOrder, Found, A!Matches, A!Idle, A!Desired, A!Exists, Starts
<1>5. ServesInOrder'
    BY DEF AdoptionInv, ServesInOrder, A!Idle
<1> QED
    BY <1>1, <1>2, <1>3, <1>4, <1>5 DEF AdoptionInv

LEMMA CommitKeeps == ASSUME AdoptionNames, AdoptionInv, A!Commit PROVE AdoptionInv'
<1> USE DEF A!Commit, A!docker, A!operators, A!Idle
<1>1. AdoptionTypeOK'
    BY DEF AdoptionInv, AdoptionTypeOK, A!Planned, AppStates
<1>2. LeftInOrder'
    BY DEF AdoptionInv, LeftInOrder
<1>3. AtRest'
    BY DEF AdoptionInv, AtRest
<1>4. StartsInOrder'
    BY DEF StartsInOrder
<1>5. ServesInOrder'
  <2> HIDE DEF A!Commit
  <2>1. /\ up /\ loop = "on" /\ asked = "start" /\ status = "STARTING"
        /\ plan.det = detached /\ def = want /\ ~stale
      BY StartUnderWay DEF A!Commit, Starts
  <2>2. /\ \A b \in Apps : ctr[b].running => b \notin detached /\ b \in A!Desired
        /\ Found /\ (PortApp \in A!Desired => hostPort # "ours")
      BY StartUnderWay DEF A!Commit, AdoptionInv, StartsInOrder, Starts
  <2>3. /\ UNCHANGED <<up, loop, asked, status, detached, def, want, ctr, stale, hostPort>>
        /\ plan' = A!Idle /\ cmd' = "none" /\ stops' = {b \in Apps : A!Planned(b) = "updating"}
        /\ \A b \in Apps : st'[b] = A!Planned(b)
      BY DEF A!Commit
  <2>4. \A b \in Apps : AppOK(b)'
      BY <2>1, <2>2, <2>3 DEF AdoptionInv, AdoptionTypeOK, AppOK, A!Planned, Found, A!Desired, A!Exists
  <2>5. GatewayFirst'
      BY <2>1, <2>2, <2>3 DEF GatewayFirst, A!Planned, Found, AdoptionNames
  <2>6. (PortApp \in A!Desired \/ st[PortApp] # "none" => hostPort # "ours")'
      BY <2>2, <2>3 DEF A!Planned, AdoptionNames, A!Desired
  <2> QED
      BY <2>1, <2>3, <2>4, <2>5, <2>6 DEF ServesInOrder
<1> QED
    BY <1>1, <1>2, <1>3, <1>4, <1>5 DEF AdoptionInv

\* A reload compares what it wants with what it knows.
LEMMA BeginRegenerateKeeps == ASSUME AdoptionNames, AdoptionInv, A!BeginRegenerate PROVE AdoptionInv'
<1> USE DEF A!BeginRegenerate, A!docker, A!operators, A!Idle
<1>1. AdoptionTypeOK'
    BY DEF AdoptionInv, AdoptionTypeOK, Statuses
<1>2. LeftInOrder'
    BY DEF AdoptionInv, LeftInOrder
<1>3. AtRest'
    BY DEF AtRest
<1>4. StartsInOrder'
    BY DEF StartsInOrder
<1>5. ServesInOrder'
    BY DEF AdoptionInv, ServesInOrder, AppOK, GatewayFirst, A!Desired
<1> QED
    BY <1>1, <1>2, <1>3, <1>4, <1>5 DEF AdoptionInv

LEMMA RegenerateKeeps == ASSUME AdoptionNames, AdoptionInv, A!Regenerate PROVE AdoptionInv'
<1> USE DEF A!Regenerate, A!docker, A!operators, A!Idle, A!Desired
<1>1. AdoptionTypeOK'
    BY DEF AdoptionInv, AdoptionTypeOK, A!Regenerated, AppStates
<1>2. LeftInOrder'
    BY DEF AdoptionInv, LeftInOrder
<1>3. AtRest'
    BY DEF AdoptionInv, AtRest
<1>4. StartsInOrder'
    BY DEF StartsInOrder
<1>5. ServesInOrder'
  <2> HIDE DEF A!Regenerate
  <2>1. /\ up /\ loop = "on" /\ cmd = "regenerate" /\ asked = "start"
        /\ status \in {"STARTING", "RUNNING"} /\ plan.det = detached
      BY RegenerateUnderWay DEF A!Regenerate
  <2>2. /\ \A b \in Apps : AppOK(b)
        /\ GatewayFirst /\ (PortApp \in A!Desired \/ st[PortApp] # "none" => hostPort # "ours")
      BY <2>1 DEF AdoptionInv, ServesInOrder
  <2>3. /\ UNCHANGED <<up, loop, asked, status, detached, want, ctr, stale, hostPort>>
        /\ plan' = A!Idle /\ cmd' = "none"
        /\ stops' = stops \cup {b \in Apps : /\ A!Regenerated(b) # st[b]
                                             /\ A!Regenerated(b) \in {"updating", "stopping"}}
        /\ \A b \in Apps : st'[b] = A!Regenerated(b) /\ def'[b] = IF b \in A!Desired THEN want[b] ELSE def[b]
      BY DEF A!Regenerate
  <2>4. ASSUME NEW b \in Apps PROVE AppOK(b)'
    <3>1. AppOK(b) /\ st[b] \in AppStates
        BY <2>2 DEF AdoptionInv, AdoptionTypeOK
    <3>2. CASE b \notin A!Desired
        BY <2>1, <2>3, <3>1, <3>2 DEF AppOK, A!Regenerated, A!HasContainer
    <3>3. CASE b \in A!Desired /\ A!Regenerated(b) = st[b]
        BY <2>1, <2>3, <3>1, <3>3 DEF AppOK, A!Regenerated
    <3>4. CASE b \in A!Desired /\ A!Regenerated(b) # st[b]
        BY <2>1, <2>3, <3>1, <3>4 DEF AppOK, A!Regenerated, A!HasContainer
    <3> QED
        BY <3>2, <3>3, <3>4 DEF AdoptionNames
  <2>5. GatewayFirst'
    <3>1. CASE A!GatewayRecreated
        BY <2>1, <2>2, <2>3, <3>1 DEF GatewayFirst, A!Regenerated, AdoptionNames
    <3>2. CASE ~A!GatewayRecreated
        BY <2>1, <2>2, <2>3, <3>2 DEF GatewayFirst, A!Regenerated, A!GatewayRecreated, AdoptionNames
    <3> QED
        BY <3>1, <3>2 DEF AdoptionNames
  <2>6. (PortApp \in A!Desired \/ st[PortApp] # "none" => hostPort # "ours")'
      BY <2>2, <2>3 DEF A!Regenerated, A!HasContainer, AdoptionNames
  <2> QED
      BY <2>1, <2>3, <2>4, <2>5, <2>6 DEF ServesInOrder
<1> QED
    BY <1>1, <1>2, <1>3, <1>4, <1>5 DEF AdoptionInv

\* The loop, which saves, tells the status and stops.
LEMMA PersistStateKeeps == ASSUME AdoptionNames, AdoptionInv, A!PersistState PROVE AdoptionInv'
<1> USE DEF A!PersistState, A!docker, A!operators
<1>1. AdoptionTypeOK'
    BY DEF AdoptionInv, AdoptionTypeOK
<1>2. LeftInOrder'
    BY DEF LeftInOrder
<1>3. AtRest'
    BY DEF AdoptionInv, AtRest, NothingRuns, A!ShouldStart
<1>4. StartsInOrder'
    BY DEF AdoptionInv, StartsInOrder, A!Desired
<1>5. ServesInOrder'
    BY DEF AdoptionInv, ServesInOrder, AppOK, GatewayFirst, A!Desired
<1> QED
    BY <1>1, <1>2, <1>3, <1>4, <1>5 DEF AdoptionInv

LEMMA UpdateNsStatusKeeps == ASSUME AdoptionNames, AdoptionInv, A!UpdateNsStatus PROVE AdoptionInv'
<1> USE DEF A!UpdateNsStatus, A!docker, A!operators, A!Desired
<1>1. AdoptionTypeOK'
    BY DEF AdoptionInv, AdoptionTypeOK, Statuses
<1>2. LeftInOrder'
    BY DEF AdoptionInv, LeftInOrder
<1>3. AtRest'
    BY DEF AtRest
<1>4. StartsInOrder'
    BY DEF AdoptionInv, StartsInOrder, Starts
<1>5. ServesInOrder'
    BY DEF AdoptionInv, ServesInOrder, AppOK, GatewayFirst
<1> QED
    BY <1>1, <1>2, <1>3, <1>4, <1>5 DEF AdoptionInv

LEMMA DoStopKeeps == ASSUME AdoptionNames, AdoptionInv, A!DoStop PROVE AdoptionInv'
<1> USE DEF A!DoStop, A!docker, A!operators
<1>1. AdoptionTypeOK'
    BY DEF AdoptionInv, AdoptionTypeOK, Statuses, AppStates
<1>2. LeftInOrder'
    BY DEF AdoptionInv, LeftInOrder
<1>3. AtRest'
    BY DEF AtRest
<1>4. StartsInOrder'
    BY DEF StartsInOrder
<1>5. ServesInOrder'
  <2>1. /\ up /\ loop = "on" /\ asked = "stop" /\ plan = A!Idle
        /\ (\A b \in Apps : AppOK(b)) /\ (st[PortApp] # "none" \/ PortApp \in A!Desired => hostPort # "ours")
      BY DEF AdoptionInv, LeftInOrder, ServesInOrder
  <2>2. \A b \in Apps : st'[b] = IF A!HasContainer(b) THEN "stopping"
                                 ELSE IF st[b] = "none" THEN "none" ELSE "stopped"
      BY DEF AdoptionNames
  <2>3. \A b \in Apps : AppOK(b)'
      BY <2>1, <2>2 DEF AppOK, A!HasContainer
  <2>4. GatewayFirst'
      BY <2>2 DEF GatewayFirst, AdoptionNames
  <2>5. UNCHANGED <<up, loop, plan, asked, hostPort, want>> /\ status' = "STOPPING" /\ cmd' = "none"
      BY DEF AdoptionNames
  <2>6. \A b \in Apps : st'[b] \in {"none", "stopped", "stopping"}
      BY <2>2 DEF AdoptionNames
  <2>7. (PortApp \in A!Desired \/ st[PortApp] # "none" => hostPort # "ours")'
      BY <2>1, <2>2, <2>5 DEF A!HasContainer, AdoptionNames, A!Desired
  <2> HIDE DEF A!DoStop
  <2> QED
      BY <2>1, <2>3, <2>4, <2>5, <2>6, <2>7 DEF ServesInOrder
<1> QED
    BY <1>1, <1>2, <1>3, <1>4, <1>5 DEF AdoptionInv

LEMMA StopEndsKeeps == ASSUME AdoptionNames, AdoptionInv, A!StopEnds PROVE AdoptionInv'
<1> USE DEF A!StopEnds, A!operators, A!Absent
<1>1. AdoptionTypeOK'
    BY DEF AdoptionInv, AdoptionTypeOK, Statuses
<1>2. LeftInOrder'
    BY DEF AdoptionInv, LeftInOrder
<1>3. AtRest'
  <2>1. cmd # "start"
      BY DEF AdoptionInv, StartsInOrder, LeftInOrder
  <2>2. plan = A!Idle /\ cmd = "none" /\ asked = "stop" /\ up
      BY <2>1 DEF AdoptionInv, ServesInOrder, LeftInOrder
  <2>3. \A b \in Apps : st[b] \in {"none", "stopped"}
      BY <2>1, <2>2 DEF AdoptionInv, ServesInOrder, AppOK
  <2>4. NothingRuns'
      BY DEF NothingRuns
  <2> QED
      BY <2>2, <2>3, <2>4 DEF AtRest
<1>4. StartsInOrder'
    BY DEF StartsInOrder
<1>5. ServesInOrder'
    BY DEF ServesInOrder
<1> QED
    BY <1>1, <1>2, <1>3, <1>4, <1>5 DEF AdoptionInv

LEMMA LoopExitsKeeps == ASSUME AdoptionNames, AdoptionInv, A!LoopExits PROVE AdoptionInv'
<1> USE DEF A!LoopExits, A!docker, A!operators
<1>1. AdoptionTypeOK'
    BY DEF AdoptionInv, AdoptionTypeOK
<1>2. LeftInOrder'
    BY DEF AdoptionInv, LeftInOrder
<1>3. AtRest'
    BY DEF AdoptionInv, AtRest, NothingRuns
<1>4. StartsInOrder'
    BY DEF StartsInOrder
<1>5. ServesInOrder'
    BY DEF ServesInOrder
<1> QED
    BY <1>1, <1>2, <1>3, <1>4, <1>5 DEF AdoptionInv

\* Workers, the reconciler, containers that die and other holders of the port.
LEMMA CreateContainerKeeps ==
  ASSUME AdoptionNames, AdoptionInv, NEW a \in Apps, A!CreateContainer(a)
  PROVE  AdoptionInv'
<1> USE DEF A!CreateContainer, A!docker, A!operators, A!Desired, A!Exists
<1>1. AdoptionTypeOK'
  <2>1. CASE ~(a = PortApp /\ hostPort # "free")
    <3>1. /\ ctr' = [ctr EXCEPT ![a] = [hash |-> def[a], running |-> TRUE]]
          /\ st' = [st EXCEPT ![a] = "running"] /\ stale' \in BOOLEAN
        BY <2>1 DEF AdoptionInv
    <3>2. def[a] # 0
        BY DEF AdoptionInv, LeftInOrder, StartsInOrder, ServesInOrder, AppOK, A!NoApps, Starts
    <3>3. /\ ctr' \in [Apps -> [hash : Nat, running : BOOLEAN]]
          /\ \A b \in Apps : ctr'[b].running => ctr'[b].hash # 0
        BY <3>1, <3>2 DEF AdoptionInv, AdoptionTypeOK
    <3> QED
        BY <3>1, <3>3 DEF AdoptionInv, AdoptionTypeOK, AppStates
  <2>2. CASE a = PortApp /\ hostPort # "free"
      BY <2>2 DEF AdoptionInv, AdoptionTypeOK, AppStates
  <2> QED
      BY <2>1, <2>2 DEF AdoptionNames
<1>2. LeftInOrder'
    BY DEF AdoptionInv, LeftInOrder
<1>3. AtRest'
    BY DEF AtRest
<1>4. StartsInOrder'
    BY DEF AdoptionInv, StartsInOrder, A!NoApps, Starts
<1>5. ServesInOrder'
  <2>1. /\ up /\ cmd # "start" /\ plan = A!Idle
      BY DEF AdoptionInv, LeftInOrder, StartsInOrder, ServesInOrder, A!NoApps, Starts
  <2>2. /\ \A b \in Apps : AppOK(b)
        /\ GatewayFirst /\ (PortApp \in A!Desired \/ st[PortApp] # "none" => hostPort # "ours")
        /\ status \in {"STARTING", "RUNNING"} /\ asked = (IF cmd = "stop" THEN "stop" ELSE "start")
      BY <2>1 DEF AdoptionInv, ServesInOrder
  <2>3. ASSUME NEW b \in Apps, b # a PROVE st'[b] = st[b] /\ ctr'[b] = ctr[b]
      BY <2>3 DEF AdoptionInv, AdoptionTypeOK
  <2>4. CASE a = PortApp /\ hostPort # "free"
    <3>1. st'[a] = "failed" /\ ctr' = ctr /\ stale' = stale
        BY <2>4 DEF AdoptionInv, AdoptionTypeOK
    <3>2. \A b \in Apps : AppOK(b)'
        BY <2>2, <2>3, <3>1 DEF AppOK
    <3>3. GatewayFirst'
        BY <2>2, <2>3, <3>1 DEF GatewayFirst, AdoptionNames
    <3> QED
        BY <2>1, <2>2, <2>3, <3>1, <3>2, <3>3 DEF ServesInOrder, AdoptionNames
  <2>5. CASE ~(a = PortApp /\ hostPort # "free")
    <3>1. /\ st'[a] = "running" /\ ctr'[a] = [hash |-> def[a], running |-> TRUE]
          /\ stale' = IF a = Proxy THEN FALSE ELSE stale \/ (a = Gateway /\ A!Exists(Proxy))
        BY <2>5 DEF AdoptionInv, AdoptionTypeOK
    <3>2. \A b \in Apps : AppOK(b)'
        BY <2>2, <2>3, <3>1 DEF AppOK
    <3>3. GatewayFirst'
      <4>1. CASE a = Proxy
          BY <2>2, <2>3, <3>1, <4>1 DEF GatewayFirst, AdoptionNames
      <4>2. CASE a = Gateway
          BY <2>2, <2>3, <3>1, <4>2 DEF GatewayFirst, AdoptionNames
      <4>3. CASE a \notin {Gateway, Proxy}
          BY <2>2, <2>3, <3>1, <4>3 DEF GatewayFirst, AdoptionNames
      <4> QED
          BY <4>1, <4>2, <4>3 DEF AdoptionNames
    <3> QED
        BY <2>1, <2>2, <2>3, <3>1, <3>2, <3>3 DEF ServesInOrder, AdoptionNames
  <2> QED
      BY <2>4, <2>5 DEF AdoptionNames
<1> QED
    BY <1>1, <1>2, <1>3, <1>4, <1>5 DEF AdoptionInv

LEMMA RetryKeeps == ASSUME AdoptionNames, AdoptionInv, NEW a \in Apps, A!Retry(a) PROVE AdoptionInv'
<1> USE DEF A!Retry, A!docker, A!operators
<1>1. AdoptionTypeOK'
    BY DEF AdoptionInv, AdoptionTypeOK, AppStates
<1>2. LeftInOrder'
    BY DEF AdoptionInv, LeftInOrder
<1>3. AtRest'
    BY DEF AtRest
<1>4. StartsInOrder'
    BY DEF AdoptionInv, StartsInOrder, A!NoApps
<1>5. ServesInOrder'
    BY DEF AdoptionInv, ServesInOrder, AppOK, GatewayFirst, A!Desired
<1> QED
    BY <1>1, <1>2, <1>3, <1>4, <1>5 DEF AdoptionInv

LEMMA StopAndRemoveContainerKeeps ==
  ASSUME AdoptionNames, AdoptionInv, NEW a \in Apps, A!StopAndRemoveContainer(a)
  PROVE  AdoptionInv'
<1> USE DEF A!StopAndRemoveContainer, A!operators, A!Absent, A!Desired
<1>1. AdoptionTypeOK'
    BY DEF AdoptionInv, AdoptionTypeOK, AppStates
<1>2. LeftInOrder'
    BY DEF AdoptionInv, LeftInOrder
<1>3. AtRest'
    BY DEF AdoptionInv, AtRest
<1>4. StartsInOrder'
    BY DEF AdoptionInv, StartsInOrder
<1>5. ServesInOrder'
    BY DEF AdoptionInv, AdoptionTypeOK, ServesInOrder, AppOK, GatewayFirst
<1> QED
    BY <1>1, <1>2, <1>3, <1>4, <1>5 DEF AdoptionInv

LEMMA ReconcileKeeps == ASSUME AdoptionNames, AdoptionInv, NEW a \in Apps, A!Reconcile(a) PROVE AdoptionInv'
<1> USE DEF A!Reconcile, A!docker, A!operators
<1>1. AdoptionTypeOK'
    BY DEF AdoptionInv, AdoptionTypeOK, AppStates
<1>2. LeftInOrder'
    BY DEF AdoptionInv, LeftInOrder
<1>3. AtRest'
    BY DEF AtRest
<1>4. StartsInOrder'
    BY DEF AdoptionInv, StartsInOrder, A!NoApps, A!Desired
<1>5. ServesInOrder'
    BY DEF AdoptionInv, ServesInOrder, AppOK, GatewayFirst, A!Desired
<1> QED
    BY <1>1, <1>2, <1>3, <1>4, <1>5 DEF AdoptionInv

LEMMA DiesKeeps == ASSUME AdoptionNames, AdoptionInv, NEW a \in Apps, A!Dies(a) PROVE AdoptionInv'
<1> USE DEF A!Dies, A!Op, A!Fault
<1>1. AdoptionTypeOK'
  <2>1. ctr \in [Apps -> [hash : Nat, running : BOOLEAN]] /\ ctr' = [ctr EXCEPT ![a].running = FALSE]
      BY DEF AdoptionInv, AdoptionTypeOK
  <2> DEFINE dead == [ctr[a] EXCEPT !.running = FALSE]
  <2>a. ctr[a] \in [hash : Nat, running : BOOLEAN]
      BY <2>1 DEF AdoptionNames
  <2>b. dead \in [hash : Nat, running : BOOLEAN] /\ dead.running = FALSE
      BY <2>a DEF AdoptionNames
  <2>c. ctr' = [ctr EXCEPT ![a] = dead]
      BY <2>1 DEF AdoptionNames
  <2> HIDE DEF dead
  <2>2. /\ ctr' \in [Apps -> [hash : Nat, running : BOOLEAN]] /\ ctr'[a].running = FALSE
        /\ \A b \in Apps \ {a} : ctr'[b] = ctr[b]
      BY <2>1, <2>b, <2>c DEF AdoptionNames
  <2>3. \A b \in Apps : ctr'[b].running => ctr'[b].hash # 0
      BY <2>2 DEF AdoptionInv, AdoptionTypeOK
  <2> QED
      BY <2>2, <2>3 DEF AdoptionInv, AdoptionTypeOK
<1>2. LeftInOrder'
    BY DEF AdoptionInv, LeftInOrder
<1>3. AtRest'
    BY DEF AdoptionInv, AtRest, NothingRuns
<1>4. StartsInOrder'
    BY DEF AdoptionInv, StartsInOrder, Found, A!Matches, AdoptionNames, A!Desired, A!Exists
<1>5. ServesInOrder'
    BY DEF AdoptionInv, ServesInOrder, AppOK, GatewayFirst, AdoptionNames, A!Desired
<1> QED
    BY <1>1, <1>2, <1>3, <1>4, <1>5 DEF AdoptionInv

LEMMA HoldPortKeeps ==
  ASSUME AdoptionNames, AdoptionInv, NEW who \in {"free", "ours", "late", "theirs"}, A!HoldPort(who)
  PROVE  AdoptionInv'
<1> USE DEF A!HoldPort, A!docker, A!Op
<1>1. AdoptionTypeOK'
    BY DEF AdoptionInv, AdoptionTypeOK
<1>2. LeftInOrder'
    BY DEF AdoptionInv, LeftInOrder
<1>3. AtRest'
    BY DEF AdoptionInv, AtRest, NothingRuns
<1>4. StartsInOrder'
    BY DEF AdoptionInv, StartsInOrder, Found, A!Matches, A!Desired, A!Exists
<1>5. ServesInOrder'
    BY DEF AdoptionInv, ServesInOrder, AppOK, GatewayFirst, A!Desired
<1> QED
    BY <1>1, <1>2, <1>3, <1>4, <1>5 DEF AdoptionInv

\* The invariant holds at the start, and every step keeps it.
LEMMA AdoptionInit == A!Init => AdoptionInv
<1> SUFFICES ASSUME A!Init PROVE AdoptionInv
    OBVIOUS
<1>1. AdoptionTypeOK
    BY DEF A!Init, AdoptionTypeOK, A!Absent, A!Idle, A!NoApps, Statuses, AppStates, Starts
<1> QED
    BY <1>1 DEF AdoptionInv, A!Init, LeftInOrder, AtRest, StartsInOrder, ServesInOrder, A!Absent,
       A!ShouldStart

LEMMA AdoptionStep ==
  ASSUME AdoptionNames, AdoptionInv, [A!Next]_A!vars
  PROVE  AdoptionInv'
<1>1. CASE UNCHANGED A!vars
    BY <1>1 DEF A!vars, AdoptionInv, AdoptionTypeOK, LeftInOrder, AtRest, StartsInOrder, ServesInOrder,
                NothingRuns, Found, AppOK, GatewayFirst, A!Desired, A!Exists, A!Matches
<1>2. CASE \E a \in Apps, h \in 0 .. MaxHash : A!Change(a, h)
    BY <1>2, ChangeKeeps
<1>3. CASE \E a \in Apps : \/ A!StopApp(a) \/ A!StartApp(a) \/ A!CreateContainer(a) \/ A!Retry(a)
                           \/ A!StopAndRemoveContainer(a) \/ A!Reconcile(a) \/ A!Dies(a)
    BY <1>3, StopAppKeeps, StartAppKeeps, CreateContainerKeeps, RetryKeeps, StopAndRemoveContainerKeeps,
       ReconcileKeeps, DiesKeeps
<1>4. CASE \E who \in {"free", "ours", "late", "theirs"} : A!HoldPort(who)
    BY <1>4, HoldPortKeeps
<1>5. CASE \/ A!Boot \/ A!Crash \/ A!Detach \/ A!Exit \/ A!Start \/ A!Stop \/ A!Seed
           \/ A!ResolveHostPortConflicts \/ A!BuildExistingContainerMap \/ A!RemoveUndesired
           \/ A!InspectReused \/ A!Commit \/ A!BeginRegenerate \/ A!Regenerate
           \/ A!PersistState \/ A!UpdateNsStatus \/ A!DoStop \/ A!StopEnds \/ A!LoopExits
    BY <1>5, BootKeeps, CrashKeeps, DetachKeeps, ExitKeeps, StartKeeps, StopKeeps, SeedKeeps,
       ResolveHostPortConflictsKeeps, BuildExistingContainerMapKeeps, RemoveUndesiredKeeps,
       InspectReusedKeeps, CommitKeeps, BeginRegenerateKeeps, RegenerateKeeps, PersistStateKeeps,
       UpdateNsStatusKeeps, DoStopKeeps, StopEndsKeeps, LoopExitsKeeps
<1> QED
    BY <1>1, <1>2, <1>3, <1>4, <1>5 DEF A!Next

\* A takeover or a reload ends by being committed, unless the daemon ends first.
LEMMA PlanEnds ==
  ASSUME AdoptionNames, AdoptionInv, [A!Next]_A!vars, plan.pc # "idle", plan'.pc = "idle", up'
  PROVE  A!Commit \/ A!Regenerate
<1> USE DEF AdoptionInv, AdoptionTypeOK, A!Idle
<1>1. CASE plan' = plan
    BY <1>1
<1>2. CASE A!Crash \/ A!Detach \/ A!Exit
    BY <1>2 DEF A!Crash, A!Detach, A!Exit, A!Gone
<1>3. CASE A!Seed \/ A!ResolveHostPortConflicts
    BY <1>3 DEF A!Seed, A!ResolveHostPortConflicts
<1>4. CASE A!BuildExistingContainerMap
    BY <1>4 DEF A!BuildExistingContainerMap
<1>5. CASE A!RemoveUndesired \/ A!InspectReused \/ A!BeginRegenerate
    BY <1>5 DEF A!RemoveUndesired, A!InspectReused, A!BeginRegenerate
<1>6. CASE UNCHANGED A!vars
    BY <1>6, <1>1 DEF A!vars
<1>7. ASSUME NEW a \in Apps
      PROVE  /\ A!StopApp(a) \/ A!StartApp(a) \/ A!CreateContainer(a) \/ A!Retry(a)
                \/ A!StopAndRemoveContainer(a) \/ A!Reconcile(a) \/ A!Dies(a) => plan' = plan
             /\ \A h : A!Change(a, h) => plan' = plan
    BY DEF A!StopApp, A!StartApp, A!CreateContainer, A!Retry, A!StopAndRemoveContainer, A!Reconcile, A!Dies,
       A!Change
<1>8. \A who : A!HoldPort(who) => plan' = plan
    BY DEF A!HoldPort
<1>9. A!Boot \/ A!Start \/ A!Stop \/ A!PersistState \/ A!UpdateNsStatus \/ A!DoStop \/ A!StopEnds
      \/ A!LoopExits => plan' = plan
    BY DEF A!Boot, A!Start, A!Stop, A!PersistState, A!UpdateNsStatus, A!DoStop, A!StopEnds, A!LoopExits
<1> QED
    BY <1>1, <1>2, <1>3, <1>4, <1>5, <1>6, <1>7, <1>8, <1>9 DEF A!Next

\* What an application that did not fail before needs to fail.
LEMMA Failures ==
  ASSUME AdoptionNames, AdoptionInv, [A!Next]_A!vars, NEW a \in Apps, st[a] # "failed", st'[a] = "failed"
  PROVE  a = PortApp /\ hostPort # "free" /\ A!CreateContainer(a)
<1> USE DEF AdoptionInv, AdoptionTypeOK
<1>1. st'[a] # st[a]
    OBVIOUS
<1>2. ~(A!Crash \/ A!Detach \/ A!Exit \/ A!Start)
    BY <1>1 DEF A!Crash, A!Detach, A!Exit, A!Gone, A!Start, A!NoApps
<1>3. ~(A!Seed \/ A!Commit)
    BY DEF A!Seed, A!Commit, A!Planned
<1>4. ~(A!Regenerate \/ A!DoStop)
    BY DEF A!Regenerate, A!DoStop, A!Regenerated
<1>5. ASSUME NEW b \in Apps
      PROVE  ~(A!StopApp(b) \/ A!StartApp(b) \/ A!Retry(b) \/ A!StopAndRemoveContainer(b) \/ A!Reconcile(b)
               \/ A!Dies(b)) /\ \A h : ~A!Change(b, h)
  <2>1. ~A!StopApp(b)
      BY DEF A!StopApp
  <2>2. ~A!StopAndRemoveContainer(b)
      BY DEF A!StopAndRemoveContainer
  <2>3. ~(A!StartApp(b) \/ A!Retry(b) \/ A!Reconcile(b))
      BY DEF A!StartApp, A!Retry, A!Reconcile
  <2>4. ~A!Dies(b) /\ \A h : ~A!Change(b, h)
      BY DEF A!Dies, A!Change
  <2> QED
      BY <2>1, <2>2, <2>3, <2>4
<1>6. ASSUME NEW b \in Apps, A!CreateContainer(b) PROVE b = a /\ a = PortApp /\ hostPort # "free"
    BY <1>6 DEF A!CreateContainer
<1>7. \A who : ~A!HoldPort(who)
    BY <1>1 DEF A!HoldPort
<1>8. ~(A!Boot \/ A!Stop \/ A!ResolveHostPortConflicts \/ A!BuildExistingContainerMap \/ A!RemoveUndesired
        \/ A!InspectReused \/ A!BeginRegenerate \/ A!PersistState \/ A!UpdateNsStatus \/ A!StopEnds
        \/ A!LoopExits)
    BY <1>1 DEF A!Boot, A!Stop, A!ResolveHostPortConflicts, A!BuildExistingContainerMap, A!RemoveUndesired,
       A!InspectReused, A!BeginRegenerate, A!PersistState, A!UpdateNsStatus, A!StopEnds, A!LoopExits
<1>9. ~UNCHANGED A!vars
    BY <1>1 DEF A!vars
<1> QED
    BY <1>2, <1>3, <1>4, <1>5, <1>6, <1>7, <1>8, <1>9 DEF A!Next

\* What a start or a reload may do to an application that runs, when one fails for
\* the port, and what the plan of a reload said of each.
LEMMA AdoptionMoves ==
  ASSUME AdoptionNames, AdoptionInv, [A!Next]_A!vars
  PROVE  A!KeepsWhatRuns /\ A!PortIsFreed /\ A!PlanTells
<1>1. A!PortIsFreed
  <2> SUFFICES ASSUME NEW a \in Apps, st[a] # "failed", st'[a] = "failed"
               PROVE  hostPort \in {"theirs", "late"}
      BY DEF A!PortIsFreed
  <2>1. a = PortApp /\ hostPort # "free" /\ A!CreateContainer(a)
      BY Failures
  <2>2. up /\ loop = "on" /\ cmd # "start" /\ st[PortApp] # "none"
      BY <2>1 DEF A!CreateContainer, AdoptionInv, LeftInOrder, StartsInOrder, A!NoApps, A!Idle, Starts
  <2>3. hostPort # "ours"
      BY <2>2 DEF AdoptionInv, ServesInOrder
  <2> QED
      BY <2>1, <2>3 DEF AdoptionInv, AdoptionTypeOK
<1>2. A!PlanTells
  <2> SUFFICES ASSUME plan.pc = "regenerate", plan'.pc = "idle", up', NEW a \in Apps
               PROVE  CASE A!Verdict(a) = "keep" -> st'[a] = st[a] \/ (a = Proxy /\ A!GatewayRecreated)
                        [] A!Verdict(a) = "recreate" -> st'[a] \in {"updating", "queued"}
                        [] A!Verdict(a) = "create" -> st'[a] = "queued"
                        [] A!Verdict(a) = "detached" -> st'[a] = "stopped"
                        [] OTHER -> st'[a] \in {"stopping", "none"}
      BY DEF A!PlanTells
  <2>1. A!Regenerate /\ plan.det = detached
      BY PlanEnds, RegenerateUnderWay DEF A!Commit
  <2>2. st'[a] = A!Regenerated(a)
      BY <2>1 DEF A!Regenerate
  <2>3. CASE a \notin A!Desired
      BY <2>2, <2>3 DEF A!Verdict, A!Regenerated
  <2>4. CASE a \in A!Desired /\ a \in detached
      BY <2>1, <2>2, <2>4 DEF A!Verdict, A!Regenerated
  <2>5. CASE a \in A!Desired /\ a \notin detached /\ st[a] = "none"
      BY <2>1, <2>2, <2>5 DEF A!Verdict, A!Regenerated
  <2>6. CASE a \in A!Desired /\ a \notin detached /\ st[a] # "none" /\ def[a] = want[a]
      BY <2>1, <2>2, <2>6 DEF A!Verdict, A!Regenerated
  <2>7. CASE a \in A!Desired /\ a \notin detached /\ st[a] # "none" /\ def[a] # want[a]
      BY <2>1, <2>2, <2>7 DEF A!Verdict, A!Regenerated
  <2> QED
      BY <2>3, <2>4, <2>5, <2>6, <2>7
<1>3. A!KeepsWhatRuns
  <2> SUFFICES ASSUME plan.pc \in {"commit", "regenerate"}, plan'.pc = "idle", up',
                      NEW a \in A!Desired \ plan.det, A!Matches(a, plan.det),
                      plan.pc = "commit" \/ st[a] = "running"
               PROVE  st'[a] = "running" \/ (a = Proxy /\ st'[Gateway] # "running")
      BY DEF A!KeepsWhatRuns
  <2> a \in Apps
      BY DEF A!Desired
  <2>1. CASE plan.pc = "commit"
    <3>1. A!Commit /\ Found /\ plan.det = detached
        BY <2>1, PlanEnds, StartUnderWay DEF A!Regenerate, AdoptionInv, StartsInOrder, Starts
    <3>2. \A b \in Apps : st'[b] = A!Planned(b)
        BY <3>1 DEF A!Commit
    <3> QED
        BY <3>1, <3>2 DEF Found, A!Planned, AdoptionNames
  <2>2. CASE plan.pc = "regenerate"
    <3>1. A!Regenerate /\ AppOK(a) /\ st[a] = "running"
        BY <2>2, PlanEnds, RegenerateUnderWay DEF A!Commit, AdoptionInv, ServesInOrder
    <3>2. \A b \in Apps : st'[b] = A!Regenerated(b)
        BY <3>1 DEF A!Regenerate
    <3>3. def[a] = want[a]
        BY <3>1 DEF AppOK, A!Matches
    <3>4. CASE a = Proxy /\ A!GatewayRecreated
        BY <3>2, <3>4 DEF A!Regenerated, A!GatewayRecreated, AdoptionNames
    <3>5. CASE ~(a = Proxy /\ A!GatewayRecreated)
        BY <3>1, <3>2, <3>3, <3>5 DEF A!Regenerated
    <3> QED
        BY <3>4, <3>5
  <2> QED
      BY <2>1, <2>2
<1> QED
    BY <1>1, <1>2, <1>3

\* What follows from the invariant whenever the runtime has settled.
LEMMA AdoptionHolds ==
  ASSUME AdoptionNames, AdoptionInv
  PROVE  A!Applied /\ A!StoppedIsStopped /\ A!WordStands /\ A!ProxyFollows
<1> USE DEF AdoptionInv, A!Settled, A!Idle
<1>1. A!Applied
    BY DEF A!Applied, AtRest, ServesInOrder, AppOK
<1>2. A!StoppedIsStopped
    BY DEF A!StoppedIsStopped, AtRest, ServesInOrder, NothingRuns
<1>3. A!WordStands
    BY DEF A!WordStands, AtRest, ServesInOrder, AdoptionTypeOK
<1>4. A!ProxyFollows
    BY DEF A!ProxyFollows, AtRest, ServesInOrder, AppOK, GatewayFirst, AdoptionNames
<1> QED
    BY <1>1, <1>2, <1>3, <1>4

\* A daemon that takes over applies the configuration, keeps what it can keep, leaves
\* stopped what was stopped and lets the proxy follow the gateway, whatever the crashes.
THEOREM TakeoversAreFaithful ==
  ASSUME AdoptionNames
  PROVE  A!Spec => AdoptionIsFaithful
<1>1. AdoptionInv /\ [A!Next]_A!vars => AdoptionInv'
    BY AdoptionStep
<1>2. AdoptionInv => A!Applied /\ A!StoppedIsStopped /\ A!WordStands /\ A!ProxyFollows
    BY AdoptionHolds
<1>3. AdoptionInv /\ [A!Next]_A!vars => [A!KeepsWhatRuns /\ A!PortIsFreed /\ A!PlanTells]_A!vars
    BY AdoptionMoves
<1> QED
    BY AdoptionInit, <1>1, <1>2, <1>3, PTL DEF A!Spec, AdoptionIsFaithful, A!AdoptionIsFaithful
-----------------------------------------------------------------------------
(* Generator.                                                             *)

\* Names that the generators of the infrastructure give, and all that ships.
Infra == {"mailpit", "mongo", "pgadmin", "postgres", "zookeeper", "rabbitmq", "keycloak", "alf-postgres",
          "alfresco", "alf-solr", "obs-postgres", "observer", "stt-sidecar", "proxy", "onlyoffice"}
Shipped == Infra \cup G!Bundled
\* Webapps and additional applications are not named like what ships.
GeneratorNames == Webapps \cap Infra = {} /\ Extras \cap Shipped = {}

\* What an application that ships may depend on.
MayNeed(n) ==
  IF n = "keycloak" THEN {"postgres"}
  ELSE IF n = "alfresco" THEN {"alf-postgres"}
  ELSE IF n = "observer" THEN {"obs-postgres", "zookeeper"}
  ELSE IF n = "proxy" THEN {"gateway", "onlyoffice", "ai", "alfresco", "keycloak"}
  ELSE IF n \in G!Bundled
  THEN {"zookeeper", "rabbitmq", "postgres", "mongo", "keycloak", "stt-sidecar"}
  ELSE {}
Needs(m) ==
  \A n \in DOMAIN m : \/ n \in Extras /\ m[n].deps = cfg.extras[n]
                      \/ n \in Shipped /\ m[n].deps \subseteq MayNeed(n)
\* Nothing that ships waits for what is not there or still to come.
Closed(m) == \A n \in DOMAIN m \ Extras : m[n].deps \subseteq DOMAIN m \cup {"gateway", "onlyoffice"}

\* What each phase finds.
Present ==
  /\ phase # "infra" => {"mongo", "postgres", "zookeeper", "rabbitmq"} \subseteq DOMAIN apps
  /\ phase = "webapps" => todo \subseteq cfg.bundle /\ cfg.bundle \subseteq DOMAIN apps \cup todo
  /\ phase \in {"sttSidecar", "additional", "proxy", "onlyoffice", "prune", "done"} =>
       cfg.bundle \subseteq DOMAIN apps
  /\ phase = "additional" => Extras \subseteq DOMAIN apps \cup todo
  /\ phase \in {"proxy", "onlyoffice"} => Extras \subseteq DOMAIN apps
  /\ phase \in {"onlyoffice", "prune", "done"} => "proxy" \in DOMAIN apps
  /\ phase \in {"prune", "done"} => "onlyoffice" \in DOMAIN apps

Pruning == phase \in {"prune", "done"}
CompleteSet(s) == s \subseteq Extras /\ \A n \in s : cfg.extras[n] \subseteq s \cup (DOMAIN apps \ Extras)
\* All of it: a generated map before and while it is pruned.
GeneratorInv ==
  /\ cfg \in G!AllConfigs
  /\ phase \in {"infra", "keycloak", "alfresco", "observer", "webapps", "sttSidecar", "additional", "proxy",
                "onlyoffice", "prune", "done"}
  /\ phase = "infra" => DOMAIN apps = {}
  /\ Needs(apps)
  /\ (Pruning => "gateway" \in cfg.bundle) => Present /\ Closed(apps)
  /\ Pruning /\ "gateway" \in cfg.bundle => \A s \in SUBSET Extras : CompleteSet(s) => s \subseteq DOMAIN apps
  /\ phase = "done" => G!Incomplete(apps) = {}

\* What an application is made of, and what a map has after one was put.
LEMMA AppDeps == \A d, p : G!App(d, p).deps = d
BY DEF G!App

LEMMA PutFacts ==
  ASSUME NEW m, NEW name, NEW app
  PROVE  /\ DOMAIN G!Put(m, name, app) = DOMAIN m \cup {name}
         /\ \A n \in DOMAIN m : n # name => G!Put(m, name, app)[n] = m[n]
         /\ name \in DOMAIN m => G!Put(m, name, app)[name].deps = m[name].deps \cup app.deps
         /\ name \notin DOMAIN m => G!Put(m, name, app)[name] = app
<1>1. PICK r : r = G!Put(m, name, app)
    OBVIOUS
<1>2. DOMAIN r = DOMAIN m \cup {name} /\ \A n \in DOMAIN m : n # name => r[n] = m[n]
    BY <1>1 DEF G!Put
<1>3. ASSUME name \in DOMAIN m PROVE r[name].deps = m[name].deps \cup app.deps
  <2>1. r[name] = G!App(m[name].deps \cup app.deps, m[name].ports \cup app.ports)
      BY <1>1, <1>3 DEF G!Put
  <2> QED
      BY <2>1, AppDeps
<1>4. ASSUME name \notin DOMAIN m PROVE r[name] = app
    BY <1>1, <1>4 DEF G!Put
<1> QED
    BY <1>1, <1>2, <1>3, <1>4

\* What a map is after an application of that name was put into it.
Grown(m, name, r) == Needs(r) /\ Closed(r) /\ DOMAIN r = DOMAIN m \cup {name}

\* A generator puts what ships, and may wait for what is there.
LEMMA PutShipped ==
  ASSUME GeneratorNames, NEW m, Needs(m), Closed(m), NEW name \in Shipped, NEW deps, NEW ports,
         deps \subseteq MayNeed(name), deps \subseteq DOMAIN m \cup {"gateway", "onlyoffice"}
  PROVE  Grown(m, name, G!Put(m, name, G!App(deps, ports)))
<1>0. PICK app : app = G!App(deps, ports)
    OBVIOUS
<1>1. PICK r : r = G!Put(m, name, app)
    OBVIOUS
<1>2. /\ DOMAIN r = DOMAIN m \cup {name} /\ \A n \in DOMAIN m : n # name => r[n] = m[n]
      /\ name \in DOMAIN m => r[name].deps = m[name].deps \cup deps
      /\ name \notin DOMAIN m => r[name].deps = deps
  <2>1. app.deps = deps
      BY <1>0, AppDeps
  <2>2. /\ DOMAIN r = DOMAIN m \cup {name} /\ \A n \in DOMAIN m : n # name => r[n] = m[n]
        /\ name \in DOMAIN m => r[name].deps = m[name].deps \cup app.deps
        /\ name \notin DOMAIN m => r[name] = app
    <3>1. /\ DOMAIN G!Put(m, name, app) = DOMAIN m \cup {name}
          /\ \A n \in DOMAIN m : n # name => G!Put(m, name, app)[n] = m[n]
          /\ name \in DOMAIN m => G!Put(m, name, app)[name].deps = m[name].deps \cup app.deps
          /\ name \notin DOMAIN m => G!Put(m, name, app)[name] = app
        BY PutFacts
    <3> QED
        BY <1>1, <3>1
  <2> QED
      BY <2>1, <2>2
<1>3. name \notin Extras
    BY DEF GeneratorNames
<1>4. ASSUME NEW n \in DOMAIN r
      PROVE  \/ n \in Extras /\ r[n].deps = cfg.extras[n]
             \/ n \in Shipped /\ r[n].deps \subseteq MayNeed(n)
  <2>1. CASE n # name
      BY <1>2, <1>4, <2>1 DEF Needs
  <2>2. CASE n = name
      BY <1>2, <1>3, <2>2 DEF Needs
  <2> QED
      BY <2>1, <2>2
<1>5. ASSUME NEW n \in DOMAIN r \ Extras PROVE r[n].deps \subseteq DOMAIN r \cup {"gateway", "onlyoffice"}
  <2>1. CASE n # name
      BY <1>2, <1>5, <2>1 DEF Closed
  <2>2. CASE n = name
      BY <1>2, <1>3, <2>2 DEF Closed
  <2> QED
      BY <2>1, <2>2
<1>6. Needs(r)
    BY <1>4 DEF Needs
<1>7. Closed(r)
    BY <1>5 DEF Closed
<1> QED
    BY <1>0, <1>1, <1>2, <1>6, <1>7 DEF Grown

\* The invariant holds at the start.
LEMMA GeneratorInit == ASSUME G!Init PROVE GeneratorInv
<1>1. apps = <<>> /\ DOMAIN apps = {}
    BY DEF G!Init
<1>2. cfg \in G!AllConfigs /\ phase = "infra"
    BY DEF G!Init
<1> QED
    BY <1>1, <1>2 DEF GeneratorInv, Needs, Closed, Present, Pruning

\* A phase that does not prune.
LEMMA NextPhase ==
  ASSUME GeneratorInv, cfg' = cfg, Needs(apps'), phase' \notin {"infra", "prune", "done"},
         phase' \in {"keycloak", "alfresco", "observer", "webapps", "sttSidecar", "additional", "proxy",
                     "onlyoffice"},
         Closed(apps'), Present'
  PROVE  GeneratorInv'
<1>1. Needs(apps)' /\ Closed(apps)'
    BY DEF Needs, Closed
<1> QED
    BY <1>1 DEF GeneratorInv, Pruning

\* Every generator and every removal keeps it.
LEMMA GeneratorStep ==
  ASSUME GeneratorNames, GeneratorInv, [G!Next]_G!vars
  PROVE  GeneratorInv'
<1>0. /\ cfg \in G!AllConfigs /\ Needs(apps)
      /\ ~Pruning => Present /\ Closed(apps)
    BY DEF GeneratorInv
<1>1. CASE G!GenerateInfra
  <2>1. /\ phase = "infra" /\ phase' = "keycloak" /\ cfg' = cfg
        /\ apps' = G!GenerateRabbitMQ(G!GenerateZookeeper(G!GeneratePostgres(G!GeneratePgAdmin(
                     G!GenerateMongoDB(G!GenerateMailpit(apps))))))
      BY <1>1 DEF G!GenerateInfra, G!Goto
  <2>2. Needs(apps) /\ Closed(apps)
      BY <1>0, <2>1 DEF Pruning
  <2>3. {"mailpit", "mongo", "pgadmin", "postgres", "zookeeper", "rabbitmq"} \subseteq Shipped
      BY DEF Shipped, Infra
  <2>4. PICK m1 : m1 = G!GenerateMailpit(apps)
      OBVIOUS
  <2>5. Needs(m1) /\ Closed(m1)
    <3>1. Grown(apps, "mailpit", G!Put(apps, "mailpit", G!App({}, {1025, 8025})))
        BY <2>2, <2>3, PutShipped
    <3> QED
        BY <2>2, <2>4, <3>1 DEF Grown, G!GenerateMailpit
  <2>6. PICK m2 : m2 = G!GenerateMongoDB(m1)
      OBVIOUS
  <2>7. Needs(m2) /\ Closed(m2) /\ {"mongo"} \subseteq DOMAIN m2
    <3>1. Grown(m1, "mongo", G!Put(m1, "mongo", G!App({}, {27017})))
        BY <2>5, <2>3, PutShipped
    <3> QED
        BY <2>5, <2>6, <3>1 DEF Grown, G!GenerateMongoDB
  <2>8. PICK m3 : m3 = G!GeneratePgAdmin(m2)
      OBVIOUS
  <2>9. Needs(m3) /\ Closed(m3) /\ {"mongo"} \subseteq DOMAIN m3
    <3>1. Grown(m2, "pgadmin", G!Put(m2, "pgadmin", G!App({}, {5050})))
        BY <2>7, <2>3, PutShipped
    <3> QED
        BY <2>7, <2>8, <3>1 DEF Grown, G!GeneratePgAdmin
  <2>10. PICK m4 : m4 = G!GeneratePostgres(m3)
      OBVIOUS
  <2>11. Needs(m4) /\ Closed(m4) /\ {"mongo", "postgres"} \subseteq DOMAIN m4
    <3>1. Grown(m3, "postgres", G!Put(m3, "postgres", G!App({}, {14523})))
        BY <2>9, <2>3, PutShipped
    <3> QED
        BY <2>9, <2>10, <3>1 DEF Grown, G!GeneratePostgres
  <2>12. PICK m5 : m5 = G!GenerateZookeeper(m4)
      OBVIOUS
  <2>13. Needs(m5) /\ Closed(m5) /\ {"mongo", "postgres", "zookeeper"} \subseteq DOMAIN m5
    <3>1. Grown(m4, "zookeeper", G!Put(m4, "zookeeper", G!App({}, {2181, 17018})))
        BY <2>11, <2>3, PutShipped
    <3> QED
        BY <2>11, <2>12, <3>1 DEF Grown, G!GenerateZookeeper
  <2>14. PICK m6 : m6 = G!GenerateRabbitMQ(m5)
      OBVIOUS
  <2>15. Needs(m6) /\ Closed(m6) /\ {"mongo", "postgres", "zookeeper", "rabbitmq"} \subseteq DOMAIN m6
    <3>1. Grown(m5, "rabbitmq", G!Put(m5, "rabbitmq", G!App({}, {5672, 15672})))
        BY <2>13, <2>3, PutShipped
    <3> QED
        BY <2>13, <2>14, <3>1 DEF Grown, G!GenerateRabbitMQ
  <2>16. apps' = m6
      BY <2>1, <2>4, <2>6, <2>8, <2>10, <2>12, <2>14
  <2>17. Present'
      BY <2>1, <2>15, <2>16 DEF Present
  <2> QED
      BY <2>1, <2>15, <2>16, <2>17, NextPhase
<1>2. CASE G!GenerateKeycloak
  <2>1. /\ phase = "keycloak" /\ phase' = "alfresco" /\ cfg' = cfg
        /\ apps' = apps \/ apps' = G!Put(apps, "keycloak", G!App({"postgres"}, {17013}))
      BY <1>2 DEF G!GenerateKeycloak, G!Goto
  <2>2. Closed(apps) /\ {"mongo", "postgres", "zookeeper", "rabbitmq"} \subseteq DOMAIN apps
      BY <1>0, <2>1 DEF Pruning, Present
  <2>3. "keycloak" \in Shipped /\ {"postgres"} \subseteq MayNeed("keycloak")
      BY DEF Shipped, Infra, MayNeed
  <2>4. Grown(apps, "keycloak", G!Put(apps, "keycloak", G!App({"postgres"}, {17013})))
      BY <1>0, <2>2, <2>3, PutShipped
  <2>5. Needs(apps') /\ Closed(apps') /\ DOMAIN apps \subseteq DOMAIN apps'
      BY <1>0, <2>1, <2>2, <2>4 DEF Grown
  <2>6. Present'
      BY <2>1, <2>2, <2>5 DEF Present
  <2> QED
      BY <2>1, <2>5, <2>6, NextPhase
<1>3. CASE G!GenerateAlfresco
  <2>1. PICK m1 : m1 = G!Put(apps, "alf-postgres", G!App({}, {54329}))
      OBVIOUS
  <2>2. PICK m2 : m2 = G!Put(m1, "alfresco", G!App({"alf-postgres"}, {17019}))
      OBVIOUS
  <2>3. /\ phase = "alfresco" /\ phase' = "observer" /\ cfg' = cfg
        /\ apps' = apps \/ apps' = G!Put(m2, "alf-solr", G!App({}, {38080}))
      BY <1>3, <2>1, <2>2 DEF G!GenerateAlfresco, G!Goto
  <2>4. Closed(apps) /\ {"mongo", "postgres", "zookeeper", "rabbitmq"} \subseteq DOMAIN apps
      BY <1>0, <2>3 DEF Pruning, Present
  <2>5. /\ {"alf-postgres", "alfresco", "alf-solr"} \subseteq Shipped
        /\ {"alf-postgres"} \subseteq MayNeed("alfresco")
      BY DEF Shipped, Infra, MayNeed
  <2>6. Grown(apps, "alf-postgres", m1)
    <3>1. Grown(apps, "alf-postgres", G!Put(apps, "alf-postgres", G!App({}, {54329})))
        BY <1>0, <2>4, <2>5, PutShipped
    <3> QED
        BY <2>1, <3>1
  <2>7. Grown(m1, "alfresco", m2)
    <3>1. Needs(m1) /\ Closed(m1) /\ {"alf-postgres"} \subseteq DOMAIN m1
        BY <2>6 DEF Grown
    <3>2. Grown(m1, "alfresco", G!Put(m1, "alfresco", G!App({"alf-postgres"}, {17019})))
        BY <2>5, <3>1, PutShipped
    <3> QED
        BY <2>2, <3>2
  <2>8. Grown(m2, "alf-solr", G!Put(m2, "alf-solr", G!App({}, {38080})))
    <3>1. Needs(m2) /\ Closed(m2)
        BY <2>7 DEF Grown
    <3> QED
        BY <2>5, <3>1, PutShipped
  <2>9. Needs(apps') /\ Closed(apps') /\ DOMAIN apps \subseteq DOMAIN apps'
      BY <1>0, <2>3, <2>4, <2>6, <2>7, <2>8 DEF Grown
  <2>10. Present'
      BY <2>3, <2>4, <2>9 DEF Present
  <2> QED
      BY <2>3, <2>9, <2>10, NextPhase
<1>4. CASE G!GenerateObserver
  <2>1. PICK m1 : m1 = G!Put(apps, "obs-postgres", G!App({}, {14524}))
      OBVIOUS
  <2>2. PICK deps : deps = {"obs-postgres", "zookeeper"}
      OBVIOUS
  <2>3. PICK r : r = G!Put(m1, "observer", G!App(deps, {17014, 17015, 17016, 17017}))
      OBVIOUS
  <2>4. /\ phase = "observer" /\ phase' = "webapps" /\ cfg' = cfg /\ todo' = cfg.bundle
        /\ apps' = apps \/ apps' = r
      BY <1>4, <2>1, <2>2, <2>3 DEF G!GenerateObserver, G!Goto
  <2>5. Closed(apps) /\ {"mongo", "postgres", "zookeeper", "rabbitmq"} \subseteq DOMAIN apps
      BY <1>0, <2>4 DEF Pruning, Present
  <2>6. {"obs-postgres", "observer"} \subseteq Shipped /\ deps \subseteq MayNeed("observer")
      BY <2>2 DEF Shipped, Infra, MayNeed
  <2>7. Grown(apps, "obs-postgres", m1)
    <3>1. Grown(apps, "obs-postgres", G!Put(apps, "obs-postgres", G!App({}, {14524})))
        BY <1>0, <2>5, <2>6, PutShipped
    <3> QED
        BY <2>1, <3>1
  <2>8. Grown(m1, "observer", r)
    <3>1. Needs(m1) /\ Closed(m1) /\ deps \subseteq DOMAIN m1
        BY <2>2, <2>5, <2>7 DEF Grown
    <3>2. Grown(m1, "observer", G!Put(m1, "observer", G!App(deps, {17014, 17015, 17016, 17017})))
        BY <2>6, <3>1, PutShipped
    <3> QED
        BY <2>3, <3>2
  <2>9. Needs(apps') /\ Closed(apps') /\ DOMAIN apps \subseteq DOMAIN apps'
      BY <1>0, <2>4, <2>5, <2>7, <2>8 DEF Grown
  <2>10. Present'
      BY <2>4, <2>5, <2>9 DEF Present
  <2> QED
      BY <2>4, <2>9, <2>10, NextPhase
<1>5. ASSUME NEW name \in G!Bundled, G!GenerateWebapp(name) PROVE GeneratorInv'
  <2> DEFINE deps == {"zookeeper", "rabbitmq"} \cup G!ProcessWebappDataSources
                       \cup {d \in {"keycloak"} : name = "emodel" /\ G!Has(d)}
  <2>1. /\ phase = "webapps" /\ phase' = "webapps" /\ cfg' = cfg /\ todo' = todo \ {name}
        /\ apps' = G!Put(apps, name, G!App(deps, {port}))
      BY <1>5 DEF G!GenerateWebapp
  <2>2. /\ Closed(apps) /\ {"mongo", "postgres", "zookeeper", "rabbitmq"} \subseteq DOMAIN apps
        /\ todo \subseteq cfg.bundle /\ cfg.bundle \subseteq DOMAIN apps \cup todo
      BY <1>0, <2>1 DEF Pruning, Present
  <2>3. /\ name \in Shipped
        /\ MayNeed(name) = {"zookeeper", "rabbitmq", "postgres", "mongo", "keycloak", "stt-sidecar"}
      BY DEF Shipped, Infra, MayNeed, GeneratorNames, G!Bundled
  <2>4. deps \subseteq MayNeed(name) /\ deps \subseteq DOMAIN apps
      BY <2>2, <2>3 DEF G!ProcessWebappDataSources, G!Has
  <2> HIDE DEF deps
  <2>5. Needs(apps') /\ Closed(apps') /\ DOMAIN apps' = DOMAIN apps \cup {name}
    <3>1. Grown(apps, name, G!Put(apps, name, G!App(deps, {port})))
        BY <1>0, <2>2, <2>3, <2>4, PutShipped
    <3> QED
        BY <2>1, <3>1 DEF Grown
  <2>6. Present'
      BY <2>1, <2>2, <2>5 DEF Present
  <2> QED
      BY <2>1, <2>5, <2>6, NextPhase
<1>6. CASE G!WebappsDone
  <2>1. phase = "webapps" /\ phase' = "sttSidecar" /\ cfg' = cfg /\ apps' = apps /\ todo = {}
      BY <1>6 DEF G!WebappsDone, G!Goto
  <2>2. Closed(apps') /\ Needs(apps') /\ Present'
      BY <1>0, <2>1 DEF Pruning, Present
  <2> QED
      BY <2>1, <2>2, NextPhase
<1>7. CASE G!GenerateSttSidecar
  <2>1. PICK m1 : m1 = G!Put(apps, "stt-sidecar", G!App({}, {14080}))
      OBVIOUS
  <2>2. PICK r : r = G!Put(m1, "ai", G!App({"stt-sidecar"}, {}))
      OBVIOUS
  <2>3. /\ phase = "sttSidecar" /\ phase' = "additional" /\ cfg' = cfg /\ todo' = Extras
        /\ apps' = apps \/ apps' = r
      BY <1>7, <2>1, <2>2 DEF G!GenerateSttSidecar, G!Goto
  <2>4. /\ Closed(apps) /\ {"mongo", "postgres", "zookeeper", "rabbitmq"} \subseteq DOMAIN apps
        /\ cfg.bundle \subseteq DOMAIN apps
      BY <1>0, <2>3 DEF Pruning, Present
  <2>5. {"stt-sidecar", "ai"} \subseteq Shipped /\ {"stt-sidecar"} \subseteq MayNeed("ai")
      BY DEF Shipped, Infra, MayNeed, G!Bundled
  <2>6. Grown(apps, "stt-sidecar", m1)
    <3>1. Grown(apps, "stt-sidecar", G!Put(apps, "stt-sidecar", G!App({}, {14080})))
        BY <1>0, <2>4, <2>5, PutShipped
    <3> QED
        BY <2>1, <3>1
  <2>7. Grown(m1, "ai", r)
    <3>1. Needs(m1) /\ Closed(m1) /\ {"stt-sidecar"} \subseteq DOMAIN m1
        BY <2>6 DEF Grown
    <3>2. Grown(m1, "ai", G!Put(m1, "ai", G!App({"stt-sidecar"}, {})))
        BY <2>5, <3>1, PutShipped
    <3> QED
        BY <2>2, <3>2
  <2>8. Needs(apps') /\ Closed(apps') /\ DOMAIN apps \subseteq DOMAIN apps'
      BY <1>0, <2>3, <2>4, <2>6, <2>7 DEF Grown
  <2>9. Present'
      BY <2>3, <2>4, <2>8 DEF Present
  <2> QED
      BY <2>3, <2>8, <2>9, NextPhase
<1>8. ASSUME NEW name \in Extras, G!GenerateAdditionalApps(name) PROVE GeneratorInv'
  <2>1. /\ phase = "additional" /\ phase' = "additional" /\ cfg' = cfg /\ todo' = todo \ {name}
        /\ apps' = IF name \in DOMAIN apps THEN apps ELSE G!Put(apps, name, G!App(cfg.extras[name], {}))
      BY <1>8 DEF G!GenerateAdditionalApps, G!Has
  <2>2. /\ Closed(apps) /\ {"mongo", "postgres", "zookeeper", "rabbitmq"} \subseteq DOMAIN apps
        /\ cfg.bundle \subseteq DOMAIN apps /\ Extras \subseteq DOMAIN apps \cup todo
      BY <1>0, <2>1 DEF Pruning, Present
  <2>3. /\ DOMAIN apps' = DOMAIN apps \cup {name} /\ \A n \in DOMAIN apps : apps'[n] = apps[n]
        /\ name \notin DOMAIN apps => apps'[name].deps = cfg.extras[name]
    <3>1. PICK app : app = G!App(cfg.extras[name], {})
        OBVIOUS
    <3>2. app.deps = cfg.extras[name]
        BY <3>1, AppDeps
    <3>3. /\ DOMAIN G!Put(apps, name, app) = DOMAIN apps \cup {name}
          /\ \A n \in DOMAIN apps : n # name => G!Put(apps, name, app)[n] = apps[n]
          /\ name \in DOMAIN apps => G!Put(apps, name, app)[name].deps = apps[name].deps \cup app.deps
          /\ name \notin DOMAIN apps => G!Put(apps, name, app)[name] = app
        BY PutFacts
    <3>4. CASE name \in DOMAIN apps
        BY <2>1, <3>4
    <3>5. CASE name \notin DOMAIN apps
      <4>1. apps' = G!Put(apps, name, app)
          BY <2>1, <3>1, <3>5
      <4> QED
          BY <3>2, <3>3, <3>5, <4>1
    <3> QED
        BY <3>4, <3>5
  <2>4. Needs(apps')
      BY <1>0, <2>3 DEF Needs
  <2>5. Closed(apps')
      BY <2>2, <2>3 DEF Closed
  <2>6. Present'
      BY <2>1, <2>2, <2>3 DEF Present
  <2> QED
      BY <2>1, <2>4, <2>5, <2>6, NextPhase
<1>9. CASE G!AdditionalDone
  <2>1. phase = "additional" /\ phase' = "proxy" /\ cfg' = cfg /\ apps' = apps /\ todo = {}
      BY <1>9 DEF G!AdditionalDone, G!Goto
  <2>2. Closed(apps') /\ Needs(apps') /\ Present'
      BY <1>0, <2>1 DEF Pruning, Present
  <2> QED
      BY <2>1, <2>2, NextPhase
<1>10. CASE G!GenerateProxy
  <2>1. /\ phase = "proxy" /\ phase' = "onlyoffice" /\ cfg' = cfg
        /\ apps' = G!Put(apps, "proxy", G!App(G!ProxyTargets, {80}))
      BY <1>10 DEF G!GenerateProxy, G!Goto
  <2>2. /\ Closed(apps) /\ {"mongo", "postgres", "zookeeper", "rabbitmq"} \subseteq DOMAIN apps
        /\ cfg.bundle \subseteq DOMAIN apps /\ Extras \subseteq DOMAIN apps
      BY <1>0, <2>1 DEF Pruning, Present
  <2>3. /\ "proxy" \in Shipped /\ G!ProxyTargets \subseteq MayNeed("proxy")
        /\ G!ProxyTargets \subseteq DOMAIN apps \cup {"gateway", "onlyoffice"}
      BY DEF Shipped, Infra, MayNeed, G!ProxyTargets, G!Has
  <2>4. Needs(apps') /\ Closed(apps') /\ DOMAIN apps' = DOMAIN apps \cup {"proxy"}
    <3>1. Grown(apps, "proxy", G!Put(apps, "proxy", G!App(G!ProxyTargets, {80})))
        BY <1>0, <2>2, <2>3, PutShipped
    <3> QED
        BY <2>1, <3>1 DEF Grown
  <2>5. Present'
      BY <2>1, <2>2, <2>4 DEF Present
  <2> QED
      BY <2>1, <2>4, <2>5, NextPhase
<1>11. CASE G!GenerateOnlyOffice
  <2>1. /\ phase = "onlyoffice" /\ phase' = "prune" /\ cfg' = cfg
        /\ apps' = G!Put(apps, "onlyoffice", G!App({}, {8070}))
      BY <1>11 DEF G!GenerateOnlyOffice, G!Goto
  <2>2. /\ Closed(apps) /\ {"mongo", "postgres", "zookeeper", "rabbitmq"} \subseteq DOMAIN apps
        /\ cfg.bundle \subseteq DOMAIN apps /\ Extras \subseteq DOMAIN apps /\ "proxy" \in DOMAIN apps
      BY <1>0, <2>1 DEF Pruning, Present
  <2>3. "onlyoffice" \in Shipped
      BY DEF Shipped, Infra
  <2>4. Needs(apps') /\ Closed(apps') /\ DOMAIN apps' = DOMAIN apps \cup {"onlyoffice"}
    <3>1. Grown(apps, "onlyoffice", G!Put(apps, "onlyoffice", G!App({}, {8070})))
        BY <1>0, <2>2, <2>3, PutShipped
    <3> QED
        BY <2>1, <3>1 DEF Grown
  <2>5. Present'
      BY <2>1, <2>2, <2>4 DEF Present
  <2>6. Needs(apps)' /\ Closed(apps)' /\ \A s \in SUBSET Extras : s \subseteq DOMAIN apps'
      BY <2>1, <2>2, <2>4 DEF Needs, Closed
  <2> QED
      BY <1>0, <2>1, <2>5, <2>6 DEF GeneratorInv, Pruning
<1>12. ASSUME NEW name, G!PruneAppsWithMissingDeps(name) PROVE GeneratorInv'
  <2>1. /\ phase = "prune" /\ phase' = "prune" /\ cfg' = cfg /\ name \in DOMAIN apps
        /\ ~(apps[name].deps \subseteq DOMAIN apps)
        /\ DOMAIN apps' = DOMAIN apps \ {name} /\ \A n \in DOMAIN apps' : apps'[n] = apps[n]
      BY <1>12 DEF G!PruneAppsWithMissingDeps, G!Incomplete, G!Restrict
  <2>2. Needs(apps)'
      BY <1>0, <2>1 DEF Needs
  <2>3. ASSUME "gateway" \in cfg.bundle
        PROVE  /\ Present' /\ Closed(apps)'
               /\ \A s \in SUBSET Extras : CompleteSet(s)' => s \subseteq DOMAIN apps'
    <3>1. /\ Present /\ Closed(apps) /\ \A s \in SUBSET Extras : CompleteSet(s) => s \subseteq DOMAIN apps
        BY <2>1, <2>3 DEF GeneratorInv, Pruning
    <3>2. {"gateway", "onlyoffice"} \subseteq DOMAIN apps
        BY <2>1, <2>3, <3>1 DEF Present
    <3>3. name \in Extras /\ apps[name].deps = cfg.extras[name]
        BY <1>0, <2>1, <3>1, <3>2 DEF Closed, Needs, GeneratorNames
    <3>4. \A n \in DOMAIN apps \ Extras : n # name
        BY <3>3
    <3>5. cfg.bundle \cap Extras = {}
        BY <1>0 DEF G!AllConfigs, GeneratorNames, Shipped
    <3>6. {"mongo", "postgres", "zookeeper", "rabbitmq", "proxy", "onlyoffice"} \cap Extras = {}
        BY DEF GeneratorNames, Shipped, Infra
    <3>7. Present'
        BY <2>1, <3>1, <3>3, <3>5, <3>6 DEF Present
    <3>8. \A n \in DOMAIN apps \ Extras : apps[n].deps \cap Extras = {}
        BY <1>0 DEF Needs, GeneratorNames, Shipped, Infra, MayNeed, G!Bundled
    <3>9. Closed(apps)'
        BY <2>1, <3>1, <3>3, <3>8 DEF Closed
    <3>10. ASSUME NEW s \in SUBSET Extras, CompleteSet(s)' PROVE s \subseteq DOMAIN apps'
      <4>1. CompleteSet(s)
          BY <2>1, <3>3, <3>10 DEF CompleteSet
      <4>2. name \notin s
          BY <2>1, <3>1, <3>3, <4>1 DEF CompleteSet
      <4> QED
          BY <2>1, <3>1, <4>1, <4>2
    <3> QED
        BY <3>7, <3>9, <3>10
  <2> QED
      BY <1>0, <2>1, <2>2, <2>3 DEF GeneratorInv, Pruning
<1>13. CASE G!Pruned
  <2>1. /\ phase = "prune" /\ phase' = "done" /\ cfg' = cfg /\ G!Incomplete(apps) = {}
        /\ apps' = [n \in DOMAIN apps |->
                      IF cfg.desktop \/ n = "proxy" THEN apps[n] ELSE G!App(apps[n].deps, {})]
      BY <1>13 DEF G!Pruned, G!Goto
  <2>2. DOMAIN apps' = DOMAIN apps /\ \A n \in DOMAIN apps : apps'[n].deps = apps[n].deps
      BY <2>1 DEF G!App
  <2>3. Needs(apps)' /\ (Closed(apps) => Closed(apps)') /\ G!Incomplete(apps)' = {}
      BY <1>0, <2>1, <2>2 DEF Needs, Closed, G!Incomplete
  <2>4. (Present => Present') /\ \A s : CompleteSet(s)' => CompleteSet(s)
      BY <2>1, <2>2 DEF Present, CompleteSet
  <2> QED
      BY <2>1, <2>2, <2>3, <2>4 DEF GeneratorInv, Pruning
<1>14. CASE UNCHANGED G!vars
    BY <1>14 DEF G!vars, GeneratorInv, Pruning, Needs, Closed, Present, CompleteSet, G!Incomplete
<1> QED
    BY <1>1, <1>2, <1>3, <1>4, <1>5, <1>6, <1>7, <1>8, <1>9, <1>10, <1>11, <1>12, <1>13, <1>14 DEF G!Next

\* What was pruned had to be, and the core of a bundle with a gateway is there.
LEMMA PrunedLargest == ASSUME GeneratorNames, GeneratorInv PROVE G!PrunesOnlyIncomplete
<1> SUFFICES ASSUME phase = "done", "gateway" \in cfg.bundle
             PROVE  /\ G!Incomplete(apps) = {} /\ G!Largest
                    /\ cfg.bundle \cup {"proxy", "postgres", "onlyoffice"} \subseteq G!BuiltIn
    BY DEF G!PrunesOnlyIncomplete, G!Done
<1>1. /\ G!Incomplete(apps) = {} /\ Present /\ Needs(apps) /\ cfg \in G!AllConfigs
      /\ \A s \in SUBSET Extras : CompleteSet(s) => s \subseteq DOMAIN apps
    BY DEF GeneratorInv, Pruning
<1>2. cfg.bundle \cup {"proxy", "postgres", "onlyoffice"} \subseteq G!BuiltIn
    BY <1>1 DEF Present, G!BuiltIn, G!AllConfigs, GeneratorNames, Shipped, Infra
<1>3. \A n \in DOMAIN apps \cap Extras : cfg.extras[n] \subseteq DOMAIN apps
    BY <1>1 DEF Needs, G!Incomplete, GeneratorNames
<1>4. G!Largest
    BY <1>1, <1>3 DEF G!Largest, G!BuiltIn, CompleteSet
<1> QED
    BY <1>1, <1>2, <1>4

\* The sidecar, the editor and the sign-on wait for databases at most, webapps for those
\* and the former, and the proxy never for itself.
LEMMA SomethingStarts == ASSUME GeneratorNames, GeneratorInv PROVE G!StartsSomewhere
<1> DEFINE core == G!Bundled \cup {"proxy", "onlyoffice", "keycloak", "stt-sidecar"}
<1> SUFFICES ASSUME NEW s \in SUBSET (G!BuiltIn \cap core), s # {}
             PROVE  \E n \in s : apps[n].deps \cap s = {}
    BY DEF G!StartsSomewhere
<1>1. \A n \in s : n \in DOMAIN apps /\ n \in core /\ apps[n].deps \subseteq MayNeed(n)
    BY DEF G!BuiltIn, GeneratorInv, Needs
<1>2. {"postgres", "zookeeper", "rabbitmq", "mongo"} \cap core = {}
    BY DEF GeneratorNames, Infra, G!Bundled
<1>3. CASE s \cap {"onlyoffice", "keycloak", "stt-sidecar"} # {}
  <2>1. \A n \in {"onlyoffice", "keycloak", "stt-sidecar"} : MayNeed(n) \subseteq {"postgres"}
      BY DEF MayNeed, G!Bundled, GeneratorNames, Infra
  <2> QED
      BY <1>1, <1>2, <1>3, <2>1
<1>4. CASE s \cap {"onlyoffice", "keycloak", "stt-sidecar"} = {} /\ s \cap G!Bundled # {}
  <2>1. \A n \in G!Bundled : MayNeed(n) =
          {"zookeeper", "rabbitmq", "postgres", "mongo", "keycloak", "stt-sidecar"}
      BY DEF MayNeed, G!Bundled, GeneratorNames, Infra
  <2> QED
      BY <1>1, <1>2, <1>4, <2>1
<1>5. CASE s = {"proxy"}
    BY <1>1, <1>5 DEF MayNeed
<1> QED
    BY <1>1, <1>3, <1>4, <1>5

\* Whatever is configured and in whatever order the map is walked, what is generated
\* has all it waits for and keeps all that could stay, and nothing that ships waits for
\* itself.
THEOREM GeneratedIsStartable == ASSUME GeneratorNames PROVE G!Spec => []Startable
<1>1. G!Init => GeneratorInv
    BY GeneratorInit
<1>2. GeneratorInv /\ [G!Next]_G!vars => GeneratorInv'
    BY GeneratorStep
<1>3. GeneratorInv => Startable
    BY PrunedLargest, SomethingStarts DEF Startable, G!Startable
<1> QED
    BY <1>1, <1>2, <1>3, PTL DEF G!Spec
=============================================================================
