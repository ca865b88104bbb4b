------------------------------- MODULE MCApi -------------------------------
(***************************************************************************)
(* What the daemon's API promises its clients over time: the passes that   *)
(* clicks on Update & Start ask for, and the stream of events that keeps a *)
(* client's view of the namespace; and the daemon itself, as it is         *)
(* started, replaced and ended.  They share no state: one of the three     *)
(* moves in a behaviour, the others stay as they begin.                    *)
(***************************************************************************)
EXTENDS UpdateStart, Integers, Sequences, FiniteSets

CONSTANTS
  RingSize, ChanCap, MaxSeq, MaxDrops, StreamFaults,     \* EventStream
  MaxVersion, Dead, MaxKills, MaxVisits, InstallFaults  \* Installer

VARIABLES
  part,
  seq, ring, state, conn, sub, cutoff, wire, client, fetches, drops, epoch,
  proc, sock, target, bak, unit, main, restart, dropIn, root, cli, platform, stopped, asked,
  kills, visits

E == INSTANCE EventStream
I == INSTANCE Installer WITH Pids <- Clicks  \* one set of names for both

updateVars == vars
streamVars == <<seq, ring, state, conn, sub, cutoff, wire, client, fetches, drops, epoch>>
daemonVars == <<proc, sock, target, bak, unit, main, restart, dropIn, root, cli, platform,
                stopped, asked, kills, visits>>
apiVars == <<part, updateVars, streamVars, daemonVars>>

ApiInit ==
  /\ part \in {"updates", "stream", "daemon"}
  /\ Init /\ E!Init /\ I!Init
  /\ active.ns = CHOOSE n \in Nss : TRUE  \* one name is as good as another
  /\ part # "updates" => active.status = "STOPPED"
  /\ part # "daemon" => target = 0 /\ unit = "new" /\ root /\ main = CHOOSE c \in Clicks : TRUE

Updates == part = "updates" /\ UNCHANGED <<part, streamVars, daemonVars>>
Stream == part = "stream" /\ UNCHANGED <<part, updateVars, daemonVars>>
Daemon == part = "daemon" /\ UNCHANGED <<part, updateVars, streamVars>>

\* Clicks that are not forced differ in nothing but their names: the first of
\* them comes first.
First == CHOOSE c \in Clicks \ Forced : TRUE
InTurn == click'[First].pc = "idle" => \A c \in Clicks \ Forced : click'[c].pc = "idle"

ApiNext == (Next /\ Updates /\ InTurn) \/ (E!Next /\ Stream) \/ (I!Next /\ Daemon)

\* The fairness of the three, each in the behaviours in which it moves.  What
\* is fair of two of them is said at once: one of the two is never enabled.
ApiFair ==
  /\ \A c \in Clicks :
       /\ WF_apiVars((Updates /\ ClickStep(c)) \/ (Daemon /\ I!Daemon(c)))
       /\ WF_apiVars(Updates /\ PassStep(c))
  /\ WF_apiVars((Stream /\ E!AddSubscriber) \/ (Daemon /\ I!Installing))
  /\ WF_apiVars((Stream /\ E!Replay) \/ (Daemon /\ I!Restart))
  /\ WF_apiVars(Stream /\ E!Receive) /\ WF_apiVars(Stream /\ E!FetchDone)

ApiSpec == ApiInit /\ [][ApiNext]_apiVars /\ ApiFair
-----------------------------------------------------------------------------
StreamIsFaithful == E!StreamIsFaithful
InstallIsSafe == I!InstallIsSafe
UpgradeLands == I!UpgradeLands
=============================================================================
