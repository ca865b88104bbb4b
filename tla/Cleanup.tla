------------------------------ MODULE Cleanup ------------------------------
(***************************************************************************)
(* citeck clean and citeck uninstall, beside a launcher that goes on.      *)
(*                                                                         *)
(* clean asks which namespaces there are, then what Docker and the volumes *)
(* hold, then the operator, and removes by name what belonged to none when *)
(* it asked.  uninstall stops the platform, waits for the socket of the    *)
(* daemon to go, and removes the data and the binary.                      *)
(***************************************************************************)
EXTENDS Naturals, FiniteSets

CONSTANTS
  Wss, Ids,      \* workspaces, and the ids of namespaces
  None,
  CleanFaults    \* subset of {"created", "unreadable", "slow", "detached"}

VARIABLES
  desktop,   \* whether the namespaces are in the database of the desktop
  rows,      \* the namespaces that are listed, pairs <<workspace, id>>
  held,      \* what Docker and the volumes hold, of which namespace
  daemon,    \* "up", "stopping" or "down"
  clean,     \* citeck clean: where it is, what it knows and what it found
  removal,   \* citeck uninstall: where it is
  home       \* whether the data of the launcher are there

vars == <<desktop, rows, held, daemon, clean, removal, home>>

Namespaces == Wss \X Ids
Kinds == {"container", "network", "volumes"}
Held == [kind : Kinds, ns : Namespaces]
All(n) == {[kind |-> k, ns |-> n] : k \in Kinds}
Containers == {h \in held : h.kind = "container"}
NoClean == [pc |-> "idle", known |-> {}, found |-> {}]

Init ==
  /\ desktop \in BOOLEAN
  /\ rows \in SUBSET Namespaces
  /\ ~desktop => Cardinality(rows) <= 1
  /\ held \in {UNION {All(n) : n \in N} : N \in SUBSET Namespaces}
  /\ daemon = "up" /\ clean = NoClean /\ removal = "idle" /\ home = TRUE

-----------------------------------------------------------------------------
(* The launcher.                                                           *)

\* A namespace is made and started; what is made of it appears piece by piece.
Create(n) ==
  /\ daemon = "up" /\ n \notin rows
  /\ ~desktop => rows = {}
  /\ "created" \in CleanFaults \/ clean.pc = "idle"
  /\ rows' = rows \cup {n}
  /\ UNCHANGED <<desktop, held, daemon, clean, removal, home>>
Make(h) ==
  /\ daemon = "up" /\ h.ns \in rows /\ h \notin held
  /\ held' = held \cup {h}
  /\ UNCHANGED <<desktop, rows, daemon, clean, removal, home>>

\* A namespace is deleted; what is left of it is what could not be removed.
Delete(n) ==
  /\ daemon = "up" /\ n \in rows /\ rows' = rows \ {n}
  /\ \E left \in SUBSET All(n) : held' = {h \in held : h.ns # n \/ h \in left}
  /\ UNCHANGED <<desktop, daemon, clean, removal, home>>
-----------------------------------------------------------------------------
(* citeck clean.                                                           *)

\* Mutation of KnownIds: a workspace that cannot be listed is passed over.
KnownIdsOfListed(listed) == {n[2] : n \in {m \in rows : m[1] \in listed}}

\* desktopKnownNamespaceIDs: every workspace has to be listed, for one that is
\* not makes an orphan of all that it has.
KnownIds(listed) == IF listed = Wss THEN {n[2] : n \in rows} ELSE {None}

\* knownNamespaceIDs; on a server a namespace.yml that cannot be read is no error.
KnownNamespaceIDs ==
  /\ clean.pc = "idle" /\ home
  /\ \E known \in IF desktop THEN {KnownIds(listed) : listed \in SUBSET Wss}
                  ELSE {KnownIds(Wss)} \cup (IF "unreadable" \in CleanFaults THEN {{}} ELSE {}) :
       /\ None \notin known
       /\ clean' = [clean EXCEPT !.pc = "known", !.known = known]
  /\ UNCHANGED <<desktop, rows, held, daemon, removal, home>>

\* findOrphanContainers, findOrphanNetworks, findOrphanVolumeDirs: by the id
\* alone.  Containers that cannot be listed end the command, networks do not,
\* and directories are looked at only when that is asked for.
Orphans == {h \in held : h.ns[2] \notin clean.known}
ScanOrphans ==
  /\ clean.pc = "known"
  /\ \/ clean' = NoClean
     \/ \E kinds \in {{"container"}, {"container", "network"}, Kinds} :
          clean' = [clean EXCEPT !.pc = "ask", !.found = {h \in Orphans : h.kind \in kinds}]
  /\ UNCHANGED <<desktop, rows, held, daemon, removal, home>>

\* printOrphanFindings and confirmCleanRemoval: a dry run, or no, or yes.
ConfirmCleanRemoval ==
  /\ clean.pc = "ask"
  /\ \/ clean' = NoClean
     \/ clean.found # {} /\ clean' = [clean EXCEPT !.pc = "remove"]
  /\ UNCHANGED <<desktop, rows, held, daemon, removal, home>>

\* executeCleanRemoval: containers, then networks, then directories, each by its
\* name, and what fails is counted.
ContainersLeft == {g \in clean.found : g.kind = "container"}
Remove(h) ==
  /\ clean.pc = "remove" /\ h \in clean.found
  /\ h.kind = "container" \/ ContainersLeft = {}
  /\ held' \in {held, held \ {h}}
  /\ clean' = IF clean.found = {h} THEN NoClean ELSE [clean EXCEPT !.found = @ \ {h}]
  /\ UNCHANGED <<desktop, rows, daemon, removal, home>>
-----------------------------------------------------------------------------
(* citeck uninstall.                                                       *)

\* The platform is asked to stop where a daemon answers.  One that does not is
\* passed over, and with it what an upgrade or `stop --detach` has left running.
Uninstall ==
  /\ ~desktop /\ removal = "idle" /\ clean.pc = "idle"
  /\ IF daemon = "up" THEN daemon' = "stopping" /\ removal' = "wait"
                      ELSE removal' = "data" /\ UNCHANGED daemon
  /\ UNCHANGED <<desktop, rows, held, clean, home>>

\* The daemon stops: the containers of its namespace, itself and its socket last.
SocketGoes == \A h \in Containers : h.ns \notin rows
Stops ==
  \/ /\ daemon = "stopping" /\ held' = {h \in held : h.ns \in rows => h.kind # "container"}
     /\ UNCHANGED daemon
  \/ daemon = "stopping" /\ SocketGoes /\ daemon' = "down" /\ UNCHANGED held
  \/ /\ "detached" \in CleanFaults /\ daemon = "up" /\ removal = "idle" /\ daemon' = "down"
     /\ UNCHANGED held
DaemonStops == Stops /\ UNCHANGED <<desktop, rows, clean, removal, home>>

\* It waits for the socket to go, for half a minute and no longer.
WaitForSocket ==
  /\ removal = "wait" /\ (daemon = "down" \/ "slow" \in CleanFaults)
  /\ removal' = "data"
  /\ UNCHANGED <<desktop, rows, held, daemon, clean, home>>

\* The data are removed where the phrase is given, and the binary always.
RemoveData ==
  /\ removal = "data" /\ removal' = "done"
  /\ home' \in {home, FALSE}
  /\ rows' = IF home' THEN rows ELSE {}
  /\ held' = IF home' THEN held ELSE {h \in held : h.kind # "volumes"}
  /\ UNCHANGED <<desktop, daemon, clean>>

Next ==
  \/ \E n \in Namespaces : Create(n) \/ Delete(n)
  \/ \E h \in Held : Make(h) \/ Remove(h)
  \/ KnownNamespaceIDs \/ ScanOrphans \/ ConfirmCleanRemoval
  \/ Uninstall \/ DaemonStops \/ WaitForSocket \/ RemoveData

Spec == Init /\ [][Next]_vars
-----------------------------------------------------------------------------
\* What clean removes belongs to no namespace that is listed, at the moment that
\* it is removed and not only when clean asked.
CleanKeepsListed ==
  [][\A h \in held \ held' : clean.pc = "remove" /\ clean' # clean => h.ns \notin rows]_vars

\* uninstall leaves no container of the namespace running that nothing knows of,
\* and takes no data from under a daemon that is still stopping.
UninstallStops ==
  [][removal = "data" /\ removal' = "done" =>
       daemon = "down" /\ \A h \in Containers : h.ns \notin rows]_vars

RemovalIsSafe == CleanKeepsListed /\ UninstallStops
=============================================================================
