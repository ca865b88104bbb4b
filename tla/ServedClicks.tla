---------------------------- MODULE ServedClicks ----------------------------
(***************************************************************************)
(* What "Update and start" promises: clicks wait, and a pass serves some   *)
(* of them together.  A pass that serves a forced click is forced, a click *)
(* is served once, by a pass that does its work after the click, and every *)
(* click that waits is served in the end.                                  *)
(***************************************************************************)
CONSTANTS Clicks, Forced

VARIABLES
  waiting,  \* clicks taken and not served yet
  served,   \* clicks that a pass has worked for
  forced    \* the clicks that were served by a forced pass

clickVars == <<waiting, served, forced>>

Init == waiting = {} /\ served = {} /\ forced = {}

\* Clicks come one by one or fold together.
Click(S) ==
  /\ S # {} /\ S \cap (waiting \cup served) = {}
  /\ waiting' = waiting \cup S
  /\ UNCHANGED <<served, forced>>

\* A pass fetches from the network when one of its clicks demands it; it may
\* do so for no reason that this specification knows.
Pass(S, force) ==
  /\ S # {} /\ S \subseteq waiting
  /\ S \cap Forced # {} => force
  /\ waiting' = waiting \ S /\ served' = served \cup S
  /\ forced' = IF force THEN forced \cup S ELSE forced

Next ==
  \/ \E S \in SUBSET Clicks : Click(S)
  \/ \E S \in SUBSET waiting, force \in BOOLEAN : Pass(S, force)

Spec == /\ Init /\ [][Next]_clickVars
        /\ \A c \in Clicks : WF_clickVars(\E S \in SUBSET waiting, f \in BOOLEAN : c \in S /\ Pass(S, f))
=============================================================================
