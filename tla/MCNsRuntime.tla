---------------------------- MODULE MCNsRuntime ----------------------------
(* Values of the constants of NsRuntime for the TLC configurations.        *)
EXTENDS NsRuntimeProps

CONSTANTS a, b   \* names of applications

One(x) == [y \in Apps |-> x]

NoDeps == One({})
BNeedsA == [y \in Apps |-> IF y = b THEN {a} ELSE {}]

NoInit == One(0)
TwoInit == One(2)

SameGroup == One(2)
AThenB == [y \in Apps |-> IF y = a THEN 2 ELSE 3]

\* Reloads: a alone at either version; b dropped and added again.
OnlyA == {[y \in {a} |-> ver] : ver \in Versions}
DropAndAddB == {[y \in {a} |-> 1], [y \in {a, b} |-> 1]}
=============================================================================
