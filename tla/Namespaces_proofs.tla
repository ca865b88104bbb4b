-------------------------- MODULE Namespaces_proofs --------------------------
(***************************************************************************)
(* Proofs about Namespaces, for any workspaces, namespaces, requests and   *)
(* crashes: the Docker client follows the active namespace, a restart finds*)
(* it again with what runs for it, and a rotated password reaches it.      *)
(*                                                                         *)
(* A namespace that is loaded is installed some steps later, in the        *)
(* workspace that is active then.  That they still agree rests on reloadMu:*)
(* who is about to install holds it, and nobody else changes the workspace *)
(* without it.  The exception is the creation that looked before it took   *)
(* reloadMu, so that the theorem leaves StaleCreate out.                   *)
(***************************************************************************)
EXTENDS Namespaces, TLAPS

\* nil is no request and no name.
Apart == None \notin Requests \cup {"install", "client", "activate", "create", "switch"}

-----------------------------------------------------------------------------
NsFields == {"ws", "ns", "ver", "defs", "docker", "status", "pw"}
Shape ==
  /\ DOMAIN act = NsFields
  /\ DOMAIN req = Requests
  /\ \A r \in Requests : DOMAIN req[r] = {"op", "pc", "ws", "ns", "got"}

\* A namespace that was loaded for w and n.
LoadedFor(a, w, n) == DOMAIN a = NsFields /\ a.ns = n /\ a.docker = <<w, n>>

\* Who is about to install holds reloadMu, for the workspace that is active.
Installing(r) == req[r].op \in {"activate", "create", "switch"} /\ req[r].pc = "install"
Switching(r) == req[r].op = "switch" /\ req[r].pc = "client"
InstallsHere ==
  \A r \in Requests :
    /\ Installing(r) \/ Switching(r) => reloadMu = r
    /\ Installing(r) => LoadedFor(req[r].got, req[r].ws, req[r].ns) /\ req[r].ws = act.ws

\* A daemon that is down serves nobody.
DownIsQuiet == ~up => \A r \in Requests : req[r] = Free

IInv == Shape /\ InstallsHere /\ DownIsQuiet /\ DockerScoped

-----------------------------------------------------------------------------
\* What is loaded was loaded for its key.
LEMMA LoadFacts ==
    ASSUME NEW w, NEW n, LoadNamespace(w, n) # None
    PROVE  LoadedFor(LoadNamespace(w, n), w, n) /\ LoadNamespace(w, n).ws = w
BY DEF LoadNamespace, LoadedFor, NsFields

\* A request begins, moves on and ends.
LEMMA BeginFacts ==
    ASSUME Shape, NEW r \in Requests, NEW op, NEW pc, NEW w, NEW n, NEW got, Begin(r, op, pc, w, n, got)
    PROVE  /\ DOMAIN req' = Requests /\ DOMAIN req'[r] = {"op", "pc", "ws", "ns", "got"}
           /\ \A q \in Requests : q # r => req'[q] = req[q]
           /\ req'[r].op = op /\ req'[r].pc = pc /\ req'[r].ws = w /\ req'[r].ns = n /\ req'[r].got = got
<1>1. req'[r] = [op |-> op, pc |-> pc, ws |-> w, ns |-> n, got |-> got]
    BY DEF Begin, Shape
<1>2. DOMAIN req' = Requests /\ \A q \in Requests : q # r => req'[q] = req[q]
    BY DEF Begin, Shape
<1> QED
    BY <1>1, <1>2

\* The request goes on with what it has read.
LEMMA StepFacts ==
    ASSUME Shape, NEW r \in Requests, NEW pc, NEW got, Step(r, pc, got)
    PROVE  /\ DOMAIN req' = Requests /\ DOMAIN req'[r] = {"op", "pc", "ws", "ns", "got"}
           /\ \A q \in Requests : q # r => req'[q] = req[q]
           /\ req'[r].op = req[r].op /\ req'[r].pc = pc /\ req'[r].ws = req[r].ws
           /\ req'[r].ns = req[r].ns /\ req'[r].got = got
BY DEF Step, Shape

\* The request is answered.
LEMMA EndFacts ==
    ASSUME Shape, NEW r \in Requests, End(r)
    PROVE  /\ DOMAIN req' = Requests /\ DOMAIN req'[r] = {"op", "pc", "ws", "ns", "got"}
           /\ \A q \in Requests : q # r => req'[q] = req[q]
           /\ req'[r].op = None /\ req'[r].pc = None
<1>1. req'[r] = [op |-> None, pc |-> None, ws |-> None, ns |-> None, got |-> None]
    BY DEF End, Free, Shape
<1>2. DOMAIN req' = Requests /\ \A q \in Requests : q # r => req'[q] = req[q]
    BY DEF End, Shape
<1> QED
    BY <1>1, <1>2

-----------------------------------------------------------------------------
\* The others that are about to install still do so here, when a request takes or
\* gives back reloadMu and changes the workspace only while it holds it.
LEMMA OthersOK ==
    ASSUME Apart, IInv, NEW r \in Requests,
           \A q \in Requests : q # r => req'[q] = req[q],
           reloadMu' = reloadMu \/ reloadMu = None \/ reloadMu = r,
           act'.ws = act.ws \/ reloadMu = None \/ reloadMu = r
    PROVE  \A q \in Requests : q # r =>
             /\ Installing(q)' \/ Switching(q)' => reloadMu' = q
             /\ Installing(q)' => /\ LoadedFor(req'[q].got, req'[q].ws, req'[q].ns)
                                  /\ req'[q].ws = act'.ws
<1> SUFFICES ASSUME NEW q \in Requests, q # r
             PROVE  /\ Installing(q)' \/ Switching(q)' => reloadMu' = q
                    /\ Installing(q)' => /\ LoadedFor(req'[q].got, req'[q].ws, req'[q].ns)
                                         /\ req'[q].ws = act'.ws
    OBVIOUS
<1>1. req'[q] = req[q] /\ q # None
    BY DEF Apart
<1>2. Installing(q) \/ Switching(q) => reloadMu' = q /\ act'.ws = act.ws
    BY <1>1 DEF IInv, InstallsHere
<1>3. (Installing(q)' <=> Installing(q)) /\ (Switching(q)' <=> Switching(q))
    BY <1>1 DEF Installing, Switching
<1> QED
    BY <1>1, <1>2, <1>3 DEF IInv, InstallsHere

\* A request that ends, and leaves a namespace or none with its client.
LEMMA EndOK ==
    ASSUME Apart, IInv, NEW r \in Requests, up, up' = up, End(r),
           reloadMu' = reloadMu \/ reloadMu = None \/ reloadMu = r,
           act'.ws = act.ws \/ reloadMu = None \/ reloadMu = r,
           DOMAIN act' = NsFields, act'.ns # None => act'.docker = <<act'.ws, act'.ns>>
    PROVE  IInv'
<1>1. Shape
    BY DEF IInv
<1>2. ~Installing(r)' /\ ~Switching(r)'
    BY <1>1, EndFacts DEF Installing, Switching, Apart
<1>3. \A q \in Requests : q # r => req'[q] = req[q]
    BY <1>1, EndFacts
<1>4. InstallsHere'
    BY <1>2, <1>3, OthersOK DEF InstallsHere
<1>5. Shape'
    BY <1>1, <1>3, EndFacts DEF Shape
<1> QED
    BY <1>4, <1>5 DEF IInv, DownIsQuiet, DockerScoped, Key

\* A daemon starts with no request at work.
LEMMA StartOK == Apart /\ IInv /\ Start => IInv'
<1> SUFFICES ASSUME Apart, IInv, Start PROVE IInv'
    OBVIOUS
<1>1. up' = TRUE /\ UNCHANGED <<reloadMu, req>> /\ \A r \in Requests : req[r] = Free
    BY DEF Start, IInv, DownIsQuiet
<1>2. \A r \in Requests : ~Installing(r)' /\ ~Switching(r)'
    BY <1>1 DEF Installing, Switching, Free, Apart
<1>3. Shape'
  <2>1. DOMAIN act' = NsFields
      BY LoadFacts DEF Start, NoNamespace, NsFields, LoadedFor
  <2> QED
      BY <1>1, <2>1 DEF IInv, Shape
<1>4. DockerScoped'
  <2> DEFINE t == StartupTarget
             loaded == LoadNamespace(t[1], t[2])
  <2>1. CASE loaded = None
      BY <2>1 DEF Start, NoNamespace, DockerScoped
  <2>2. CASE loaded # None
    <3>1. LoadedFor(loaded, t[1], t[2]) /\ loaded.ws = t[1]
        BY <2>2, LoadFacts
    <3>2. act' = loaded \/ act' = [loaded EXCEPT !.status = "RUNNING"]
        BY <2>2 DEF Start
    <3> HIDE DEF loaded, t
    <3> QED
        BY <3>1, <3>2 DEF DockerScoped, Key, LoadedFor, NsFields
  <2> QED
      BY <2>1, <2>2
<1> QED
    BY <1>1, <1>2, <1>3, <1>4 DEF IInv, InstallsHere, DownIsQuiet

\* A crash ends all requests.
LEMMA CrashOK == Apart /\ IInv /\ Crash => IInv'
<1> SUFFICES ASSUME Apart, IInv, Crash PROVE IInv'
    OBVIOUS
<1>1. /\ DOMAIN req' = Requests /\ \A r \in Requests : req'[r] = Free
      /\ DOMAIN act' = NsFields /\ act'.ns = None
    BY DEF Crash, NoNamespace, NsFields
<1>2. \A r \in Requests : ~Installing(r)' /\ ~Switching(r)' /\ DOMAIN req'[r] = {"op", "pc", "ws", "ns", "got"}
    BY <1>1 DEF Installing, Switching, Free, Apart
<1> QED
    BY <1>1, <1>2 DEF IInv, Shape, InstallsHere, DownIsQuiet, DockerScoped

\* The swap: what was loaded for this workspace.
LEMMA InstallOK == ASSUME Apart, IInv, NEW r \in Requests, Install(r) PROVE IInv'
<1>1. /\ Installing(r) /\ up /\ up' = up /\ End(r) /\ reloadMu = r
      /\ act' = [req[r].got EXCEPT !.ws = act.ws]
    BY DEF Install, At, Installing, Unlock, InstallLoadedNamespace
<1>2. LoadedFor(req[r].got, req[r].ws, req[r].ns) /\ req[r].ws = act.ws
    BY <1>1 DEF IInv, InstallsHere
<1>3. DOMAIN act' = NsFields /\ act'.docker = <<act'.ws, act'.ns>>
    BY <1>1, <1>2 DEF LoadedFor, NsFields
<1> QED
    BY <1>1, <1>3, EndOK

\* Nothing is active: the client is nobody's.
LEMMA DeactivateOK == ASSUME Apart, IInv, NEW r \in Requests, HandleDeactivateNamespace(r) PROVE IInv'
<1>1. /\ up /\ UNCHANGED <<up, reloadMu, req>> /\ act' = Cleared(act)
      /\ DOMAIN act = NsFields
    BY DEF HandleDeactivateNamespace, Idle, IInv, Shape
<1>2. DOMAIN act' = NsFields /\ act'.ns = None /\ act'.ws = act.ws
    BY <1>1 DEF Cleared, NsFields
<1> QED
    BY <1>1, <1>2 DEF IInv, Shape, InstallsHere, Installing, Switching, DownIsQuiet, DockerScoped

\* The namespace is loaded, to be installed: who loads it has reloadMu by then.
LEMMA LoadedOK ==
    ASSUME Apart, IInv, NEW r \in Requests, up, UNCHANGED <<up, act>>,
           reloadMu = None, reloadMu' = r,
           DOMAIN req' = Requests, DOMAIN req'[r] = {"op", "pc", "ws", "ns", "got"},
           \A q \in Requests : q # r => req'[q] = req[q],
           req'[r].pc = "install", req'[r].ws = act.ws, LoadedFor(req'[r].got, act.ws, req'[r].ns)
    PROVE  IInv'
<1>1. ~Switching(r)'
    BY DEF Switching
<1>2. InstallsHere'
    BY <1>1, OthersOK DEF InstallsHere
<1> QED
    BY <1>2 DEF IInv, Shape, DownIsQuiet, DockerScoped, Key

\* The check that StaleCreate leaves out is what makes this step safe.
LEMMA CreateLoadOK == ASSUME Apart, ~StaleCreate, IInv, NEW r \in Requests, CreateLoad(r) PROVE IInv'
<1> DEFINE loaded == LoadNamespace(req[r].ws, req[r].ns)
<1>0. up /\ UNCHANGED <<up, act>> /\ Shape /\ DOMAIN act = NsFields
    BY DEF CreateLoad, At, IInv, Shape
<1>1. CASE reloadMu # None \/ loaded = None
  <2>1. End(r) /\ reloadMu' = reloadMu
      BY <1>1 DEF CreateLoad
  <2> QED
      BY <1>0, <2>1, EndOK DEF IInv, DockerScoped, Key
<1>2. CASE ~(reloadMu # None \/ loaded = None)
  <2>1. reloadMu = None /\ reloadMu' = r /\ act.ws = req[r].ws /\ Step(r, "install", loaded)
      BY <1>2 DEF CreateLoad, TryLock
  <2>2. LoadedFor(loaded, req[r].ws, req[r].ns)
      BY <1>2, LoadFacts
  <2> HIDE DEF loaded
  <2> QED
      BY <1>0, <2>1, <2>2, StepFacts, LoadedOK
<1> QED
    BY <1>1, <1>2

\* The activation loads under reloadMu, in the workspace that is active.
LEMMA ActivateOK ==
    ASSUME Apart, IInv, NEW r \in Requests, NEW n \in NsIds, HandleActivateNamespace(r, n) PROVE IInv'
<1> DEFINE loaded == LoadNamespace(act.ws, n)
<1>0. up /\ UNCHANGED <<up, act>> /\ Shape
    BY DEF HandleActivateNamespace, Idle, IInv
<1>1. /\ reloadMu = None /\ reloadMu' = r
      /\ HasRow(act.ws, n) /\ Begin(r, "activate", "install", act.ws, n, loaded)
    BY DEF HandleActivateNamespace, TryLock
<1>2. LoadedFor(loaded, act.ws, n)
    BY <1>1 DEF LoadNamespace, LoadedFor, NsFields
<1> HIDE DEF loaded
<1> QED
    BY <1>0, <1>1, <1>2, BeginFacts, LoadedOK

\* A reload changes neither the workspace nor the name.
LEMMA ReloadCommitOK == ASSUME Apart, IInv, NEW r \in Requests, ReloadCommit(r) PROVE IInv'
<1>1. up /\ up' = up /\ End(r) /\ reloadMu = r /\ DOMAIN act = NsFields
    BY DEF ReloadCommit, At, Unlock, IInv, Shape
<1>2. \/ act' = act
      \/ act' = [act EXCEPT !.ver = req[r].got.ver, !.defs = req[r].got.ver, !.status = "RUNNING"]
      \/ act' = [act EXCEPT !.ver = req[r].got.ver, !.defs = req[r].got.ver]
    BY DEF ReloadCommit
<1>3. DOMAIN act' = NsFields /\ act'.ws = act.ws /\ act'.ns = act.ns /\ act'.docker = act.docker
    BY <1>1, <1>2 DEF NsFields
<1> QED
    BY <1>1, <1>3, EndOK DEF IInv, DockerScoped, Key

\* The deletion of what is active leaves nothing active.
LEMMA TeardownOK == ASSUME Apart, IInv, NEW r \in Requests, DeleteTeardown(r) PROVE IInv'
<1>1. /\ up /\ up' = up /\ reloadMu' = reloadMu /\ Step(r, "row", req[r].got)
      /\ Shape /\ DOMAIN act = NsFields /\ (act' = act \/ act' = Cleared(act))
    BY DEF DeleteTeardown, At, IInv, Shape
<1>2. DOMAIN act' = NsFields /\ act'.ws = act.ws
      /\ (act'.ns # None => act'.ns = act.ns /\ act'.docker = act.docker)
    BY <1>1 DEF Cleared, NsFields
<1>3. ~Installing(r)' /\ ~Switching(r)'
    BY <1>1, StepFacts DEF Installing, Switching
<1>4. \A q \in Requests : q # r => req'[q] = req[q]
    BY <1>1, StepFacts
<1>5. InstallsHere'
    BY <1>1, <1>2, <1>3, <1>4, OthersOK DEF InstallsHere
<1>6. Shape'
    BY <1>1, <1>2, <1>4, StepFacts DEF Shape
<1> QED
    BY <1>1, <1>2, <1>5, <1>6 DEF IInv, DownIsQuiet, DockerScoped, Key

\* The switch takes reloadMu and knows its namespace.
LEMMA SwitchPersistOK == ASSUME Apart, IInv, NEW r \in Requests, SwitchPersist(r) PROVE IInv'
<1>0. up /\ up' = up /\ act' = act /\ reloadMu = None /\ Shape /\ DOMAIN act = NsFields
      /\ req[r].op = "switch"
    BY DEF SwitchPersist, At, IInv, Shape
<1>1. CASE End(r)
    BY <1>0, <1>1, EndOK DEF IInv, DockerScoped, Key
<1>2. CASE ~End(r)
  <2>1. reloadMu' = r /\ \E n : req' = [req EXCEPT ![r].pc = "client", ![r].ns = n]
      BY <1>2 DEF SwitchPersist
  <2>2. /\ DOMAIN req' = Requests /\ DOMAIN req'[r] = {"op", "pc", "ws", "ns", "got"}
        /\ req'[r].pc = "client" /\ \A q \in Requests : q # r => req'[q] = req[q]
      BY <1>0, <2>1 DEF Shape
  <2>3. ~Installing(r)'
      BY <2>2 DEF Installing
  <2>4. InstallsHere'
      BY <1>0, <2>1, <2>2, <2>3, OthersOK DEF InstallsHere
  <2> QED
      BY <1>0, <2>2, <2>4 DEF IInv, Shape, DownIsQuiet, DockerScoped, Key
<1> QED
    BY <1>1, <1>2

\* The switch, which holds reloadMu, changes the workspace and loads for it.
LEMMA SwitchClearOK == ASSUME Apart, IInv, NEW r \in Requests, SwitchClear(r) PROVE IInv'
<1>0. up /\ up' = up /\ Shape /\ DOMAIN act = NsFields /\ Switching(r) /\ reloadMu = r
    BY DEF SwitchClear, At, Switching, IInv, InstallsHere, Shape
<1>1. PICK client \in BOOLEAN :
        LET w == req[r].ws
            loaded == LoadNamespace(w, req[r].ns)
        IN /\ act' = IF client THEN [Cleared(act) EXCEPT !.ws = w, !.docker = <<w, req[r].ns>>] ELSE act
           /\ IF loaded = None \/ ~client THEN End(r) /\ Unlock(r)
              ELSE Step(r, "install", loaded) /\ UNCHANGED reloadMu
    BY DEF SwitchClear
<1>2. /\ DOMAIN act' = NsFields
      /\ client => act'.ns = None /\ act'.ws = req[r].ws
      /\ ~client => act' = act
  <2>1. client => act' = [Cleared(act) EXCEPT !.ws = req[r].ws, !.docker = <<req[r].ws, req[r].ns>>]
      BY <1>1
  <2>2. DOMAIN Cleared(act) = NsFields /\ Cleared(act).ns = None
      BY <1>0 DEF Cleared, NsFields
  <2>3. ~client => act' = act
      BY <1>1
  <2> QED
      BY <1>0, <2>1, <2>2, <2>3 DEF NsFields
<1> DEFINE loaded == LoadNamespace(req[r].ws, req[r].ns)
<1>3. CASE loaded = None \/ ~client
  <2>1. End(r)
      BY <1>1, <1>3
  <2>2. act'.ns # None => act'.docker = <<act'.ws, act'.ns>>
      BY <1>2 DEF IInv, DockerScoped, Key
  <2> QED
      BY <1>0, <1>2, <2>1, <2>2, EndOK
<1>4. CASE ~(loaded = None \/ ~client)
  <2>1. Step(r, "install", loaded) /\ reloadMu' = r
      BY <1>0, <1>1, <1>4
  <2>2. LoadedFor(loaded, req[r].ws, req[r].ns)
      BY <1>4, LoadFacts
  <2> HIDE DEF loaded
  <2>3. ~Switching(r)'
      BY <1>0, <2>1, StepFacts DEF Switching
  <2>4. \A q \in Requests : q # r => req'[q] = req[q]
      BY <1>0, <2>1, StepFacts
  <2>5. LoadedFor(req'[r].got, req'[r].ws, req'[r].ns) /\ req'[r].ws = act'.ws
      BY <1>0, <1>2, <1>4, <2>1, <2>2, StepFacts
  <2>6. InstallsHere'
      BY <1>0, <2>1, <2>3, <2>4, <2>5, OthersOK DEF InstallsHere
  <2>7. Shape'
      BY <1>0, <1>2, <2>1, <2>4, StepFacts DEF Shape
  <2> QED
      BY <1>0, <1>2, <1>4, <2>6, <2>7 DEF IInv, DownIsQuiet, DockerScoped
<1> QED
    BY <1>3, <1>4

\* Every step keeps the client on the active namespace.
LEMMA StepOK == Apart /\ ~StaleCreate /\ IInv /\ [Next]_vars => IInv'
<1> SUFFICES ASSUME Apart, ~StaleCreate, IInv, [Next]_vars PROVE IInv'
    OBVIOUS
<1>0. Shape
    BY DEF IInv
<1> USE DEF IInv, Shape, InstallsHere, Installing, Switching, DownIsQuiet, DockerScoped, Key, Apart, At, Idle, TryLock, Unlock, store, vars
<1>1. CASE Start
    BY <1>1, StartOK
<1>2. CASE Crash
    BY <1>2, CrashOK
<1>3. CASE HandleStopNamespace
    BY <1>0, <1>3 DEF HandleStopNamespace
<1>4. CASE StopEnds
    BY <1>0, <1>4 DEF StopEnds
<1>5. ASSUME NEW r \in Requests, Install(r) PROVE IInv'
    BY <1>5, InstallOK
<1>6. ASSUME NEW r \in Requests, HandleDeactivateNamespace(r) PROVE IInv'
    BY <1>6, DeactivateOK
<1>7. ASSUME NEW r \in Requests, CreateLook(r) PROVE IInv'
    BY <1>0, <1>7, StepFacts, EndFacts DEF CreateLook
<1>8. ASSUME NEW r \in Requests, CreateLoad(r) PROVE IInv'
    BY <1>8, CreateLoadOK
<1>9. ASSUME NEW r \in Requests, HandleReloadNamespace(r) PROVE IInv'
    BY <1>0, <1>9, BeginFacts DEF HandleReloadNamespace
<1>10. ASSUME NEW r \in Requests, UpdateAndStart(r) PROVE IInv'
    BY <1>0, <1>10, BeginFacts DEF UpdateAndStart
<1>11. ASSUME NEW r \in Requests, EditPersist(r) PROVE IInv'
    BY <1>0, <1>11, EndFacts DEF EditPersist
<1>12. ASSUME NEW r \in Requests, ReloadCommit(r) PROVE IInv'
    BY <1>12, ReloadCommitOK
<1>13. ASSUME NEW r \in Requests, HandlePutConfig(r) PROVE IInv'
    BY <1>0, <1>13, BeginFacts DEF HandlePutConfig
<1>14. ASSUME NEW r \in Requests, PutConfigPersist(r) PROVE IInv'
    BY <1>0, <1>14, EndFacts DEF PutConfigPersist
<1>15. ASSUME NEW r \in Requests, DeleteTeardown(r) PROVE IInv'
    BY <1>15, TeardownOK
<1>16. ASSUME NEW r \in Requests, DeleteRow(r) PROVE IInv'
    BY <1>0, <1>16, StepFacts DEF DeleteRow
<1>17. ASSUME NEW r \in Requests, DeletePurge(r) PROVE IInv'
    BY <1>0, <1>17, EndFacts DEF DeletePurge
<1>18. ASSUME NEW r \in Requests, DeleteWorkspaceRow(r) PROVE IInv'
    BY <1>0, <1>18, EndFacts DEF DeleteWorkspaceRow
<1>19. ASSUME NEW r \in Requests, SwitchPersist(r) PROVE IInv'
    BY <1>19, SwitchPersistOK
<1>20. ASSUME NEW r \in Requests, SwitchClear(r) PROVE IInv'
    BY <1>20, SwitchClearOK
<1>21. ASSUME NEW r \in Requests, HandleSetAdminPassword(r) PROVE IInv'
    BY <1>0, <1>21, BeginFacts DEF HandleSetAdminPassword
<1>22. ASSUME NEW r \in Requests, RotateStore(r) PROVE IInv'
    BY <1>0, <1>22, StepFacts DEF RotateStore
<1>23. ASSUME NEW r \in Requests, RotateMemory(r) PROVE IInv'
    BY <1>0, <1>23, EndFacts DEF RotateMemory
<1>24. ASSUME NEW r \in Requests, NEW n \in NsIds, HandleActivateNamespace(r, n) PROVE IInv'
    BY <1>24, ActivateOK
<1>25. ASSUME NEW r \in Requests, NEW n \in NsIds, HandleNamespaceEdit(r, n) PROVE IInv'
    BY <1>0, <1>25, BeginFacts DEF HandleNamespaceEdit
<1>26. ASSUME NEW r \in Requests, NEW n \in NsIds, HandleDeleteNamespace(r, n) PROVE IInv'
    BY <1>0, <1>26, BeginFacts DEF HandleDeleteNamespace
<1>27. ASSUME NEW r \in Requests, NEW w \in Ws, NEW n \in NsIds, CreateNamespace(r, w, n) PROVE IInv'
    BY <1>0, <1>27, BeginFacts DEF CreateNamespace
<1>28. ASSUME NEW r \in Requests, NEW w \in Ws, HandleCreateWorkspace(r, w) PROVE IInv'
    BY <1>0, <1>28 DEF HandleCreateWorkspace
<1>29. ASSUME NEW r \in Requests, NEW w \in Ws, HandleDeleteWorkspace(r, w) PROVE IInv'
    BY <1>0, <1>29, BeginFacts DEF HandleDeleteWorkspace
<1>30. ASSUME NEW r \in Requests, NEW w \in Ws, SwitchWorkspace(r, w) PROVE IInv'
    BY <1>0, <1>30, BeginFacts DEF SwitchWorkspace
<1>31. CASE UNCHANGED vars
    BY <1>31
<1> QED
    BY <1>1, <1>2, <1>3, <1>4, <1>5, <1>6, <1>7, <1>8, <1>9, <1>10, <1>11, <1>12, <1>13, <1>14, <1>15, <1>16, <1>17, <1>18, <1>19, <1>20, <1>21, <1>22, <1>23, <1>24, <1>25, <1>26, <1>27, <1>28, <1>29, <1>30, <1>31 DEF Next, Ws

\* "dockerClient is ALWAYS scoped to the active (workspaceID, nsConfig.ID) pair"
\* (server.go), whatever is created, activated, switched, reloaded and deleted,
\* while no creation activates what it looked at before it took reloadMu.
THEOREM ClientIsScoped == Apart /\ ~StaleCreate => (Spec => []DockerScoped)
<1> SUFFICES ASSUME Apart, ~StaleCreate PROVE Spec => []DockerScoped
    OBVIOUS
<1>1. Init => IInv
    BY DEF Init, NoNamespace, Free, NsFields, LoadedFor, IInv, Shape, InstallsHere, Installing, Switching, DownIsQuiet, DockerScoped, Key, Apart, At, Idle, TryLock, Unlock, store, vars
<1>2. IInv => DockerScoped
    BY DEF IInv
<1> QED
    BY <1>1, <1>2, StepOK, PTL DEF Spec
-----------------------------------------------------------------------------
(* A restart finds what was active, and nothing runs out of reach: what the *)
(* store, the memory and Docker say of each other between the steps of the  *)
(* requests, one request at a time and in pairs.                            *)

\* nil is no name, no version, no loaded namespace and none of the words.
Distinct ==
  /\ Apart
  /\ None \notin NsIds \cup Nat
  /\ DOMAIN None # NsFields
  /\ None \notin {"delete", "deletews", "edit", "reload", "start", "putconfig", "rotate",
                "RUNNING", "STOPPING", "STOPPED"}
Unraced == ~StaleCreate /\ ~DeleteUnlocked /\ ~NoClient

Activates(r) == req[r].op \in {"activate", "create", "switch"}
Deletes(q) == req[q].op = "delete"
Cascades(q) == req[q].op = "deletews"

StoreShape ==
  /\ DOMAIN stored = Keys /\ \A k \in Keys : stored[k] \in Nat \cup {None}
  /\ DOMAIN sel = Ws
  /\ wsRows \subseteq Custom /\ curWs \in wsRows \cup {"default"}

\* The active namespace has its row and is the one selected.
ActiveOK ==
  /\ act.ns # None => HasRow(act.ws, act.ns) /\ sel[act.ws] = act.ns
  /\ act.ns = None <=> act.status = None
  /\ up /\ (\A r \in Requests : ~Switching(r)) => curWs = act.ws

\* Containers run for it only; while the daemon is down, for what it will load.
RunsOK ==
  /\ up => runs \subseteq {Key(act)} /\ (act.ns = None => runs = {})
  /\ ~up => act.ns = None /\ \A k \in runs : k = <<curWs, sel[curWs]>> /\ HasRow(k[1], k[2])

\* The deletion of what is active holds reloadMu, any other is of something else.
DeleteOK(r) ==
  /\ req[r].ns \in NsIds /\ req[r].got \in BOOLEAN
  /\ req[r].got = FALSE => <<req[r].ws, req[r].ns>> # Key(act)
  /\ req[r].got = TRUE => /\ reloadMu = r
                          /\ IF req[r].pc = "teardown" THEN <<req[r].ws, req[r].ns>> = Key(act)
                             ELSE act.ns = None

RequestOK(r) ==
  /\ req[r].op \in {"edit", "putconfig"} => req[r].got \in Nat
  /\ req[r].op \in {"reload", "start", "edit"} => reloadMu = r
  /\ req[r].op = "start" => act.ns # None
  /\ req[r].op = "switch" => /\ req[r].ws \in wsRows \cup {"default"}
                             /\ req[r].pc = "lock" => req[r].ns = None
  /\ Switching(r) => curWs = req[r].ws /\ runs = {}
  /\ Installing(r) => HasRow(req[r].ws, req[r].ns) /\ req[r].got.status = "STOPPED"
  /\ Deletes(r) => DeleteOK(r)
  /\ Cascades(r) => req[r].ws # act.ws /\ req[r].ns = None

\* Nobody deletes, without reloadMu, what another is about to activate.
NoClash(r, q) ==
  Activates(r) /\ req[q].ws = req[r].ws =>
    /\ ~Cascades(q)
    /\ Deletes(q) /\ req[q].got = FALSE =>
         req[q].ns # req[r].ns /\ ~(req[r].op = "switch" /\ req[r].pc = "lock")

RInv ==
  /\ StoreShape /\ ActiveOK /\ RunsOK
  /\ \A r \in Requests : RequestOK(r)
  /\ \A r, q \in Requests : NoClash(r, q)

-----------------------------------------------------------------------------
\* nil holds nothing; who is about to install or to switch holds reloadMu.
LEMMA HolderFacts ==
    ASSUME Distinct, IInv, NEW q \in Requests
    PROVE  q # None /\ (Installing(q) \/ Switching(q) => reloadMu = q)
BY DEF Distinct, Apart, IInv, InstallsHere

\* A row that stays, or is written, is still there.
LEMMA RowStays ==
    ASSUME Distinct, StoreShape, NEW w, NEW n, HasRow(w, n),
           \A k \in Keys : stored'[k] = stored[k] \/ stored'[k] \in Nat
    PROVE  HasRow(w, n)'
BY DEF HasRow, Distinct

\* What holds of a request that is not at work in this step, when nothing else
\* of what it has looked at changes.
LEMMA OtherStill ==
    ASSUME Distinct, IInv, RInv, NEW q \in Requests, req'[q] = req[q],
           reloadMu = q => reloadMu' = q /\ runs' \subseteq runs,
           UNCHANGED curWs, wsRows \subseteq wsRows', act'.ws = act.ws, act'.ns = act.ns,
           \A k \in Keys : stored'[k] = stored[k] \/ stored'[k] \in Nat
    PROVE  RequestOK(q)'
<1>1. RequestOK(q) /\ StoreShape
    BY DEF RInv
<1>2. (Installing(q)' <=> Installing(q)) /\ (Switching(q)' <=> Switching(q))
    BY DEF Installing, Switching
<1>3. Switching(q) => runs' = {}
    BY <1>1, HolderFacts DEF RequestOK
<1>4. Installing(q) => HasRow(req[q].ws, req[q].ns)'
    BY <1>1, RowStays DEF RequestOK
<1>5. DeleteOK(q) => DeleteOK(q)'
    BY DEF DeleteOK, Key
<1> QED
    BY <1>1, <1>2, <1>3, <1>4, <1>5 DEF RequestOK, Deletes, Cascades

\* A step of one request that leaves the active namespace, the selection and the
\* workspaces as they are.
LEMMA StillOK ==
    ASSUME Distinct, IInv, RInv, NEW r \in Requests, up, up' = up, ~Switching(r), ~Switching(r)',
           \A q \in Requests : q # r => req'[q] = req[q],
           reloadMu' = reloadMu \/ reloadMu = None \/ reloadMu = r,
           UNCHANGED <<wsRows, curWs, sel>>, act'.ws = act.ws, act'.ns = act.ns,
           act'.status = None <=> act.status = None,
           DOMAIN stored' = Keys, \A k \in Keys : stored'[k] = stored[k] \/ stored'[k] \in Nat,
           runs' \subseteq runs \/ (runs' = runs \cup {Key(act)} /\ act.ns # None /\ reloadMu = r),
           RequestOK(r)', \A q \in Requests : NoClash(r, q)' /\ NoClash(q, r)'
    PROVE  RInv'
<1>1. StoreShape'
    BY DEF RInv, StoreShape
<1>2. \A q \in Requests : q # r => (Switching(q)' <=> Switching(q))
    BY DEF Switching
<1>3. ActiveOK'
  <2>1. act.ns # None => HasRow(act.ws, act.ns)'
      BY RowStays DEF RInv, ActiveOK
  <2> QED
      BY <1>2, <2>1 DEF RInv, ActiveOK
<1>4. RunsOK'
    BY DEF RInv, RunsOK, Key
<1>5. \A q \in Requests : q # r => RequestOK(q)'
    BY OtherStill, HolderFacts
<1>6. \A p, q \in Requests : NoClash(p, q)'
    BY DEF RInv, NoClash, Activates, Cascades, Deletes
<1> QED
    BY <1>1, <1>3, <1>4, <1>5, <1>6 DEF RInv

\* What neither activates nor deletes is in nobody's way.
LEMMA Harmless ==
    ASSUME NEW r \in Requests, req'[r].op \notin {"activate", "create", "switch", "delete", "deletews"}
    PROVE  \A q \in Requests : NoClash(r, q)' /\ NoClash(q, r)'
BY DEF NoClash, Activates, Cascades, Deletes

\* A request that does no more than go on is in the way of what it was.
LEMMA SameWay ==
    ASSUME RInv, NEW r \in Requests, \A q \in Requests : q # r => req'[q] = req[q],
           req'[r].op = req[r].op, req'[r].ws = req[r].ws, req'[r].ns = req[r].ns,
           Deletes(r) => req'[r].got = req[r].got, req'[r].pc # "lock"
    PROVE  \A q \in Requests : NoClash(r, q)' /\ NoClash(q, r)'
BY DEF RInv, NoClash, Activates, Cascades, Deletes

\* A request that begins, under reloadMu or not, and has nothing to install.
LEMMA BeginStill ==
    ASSUME Distinct, IInv, RInv, NEW r \in Requests, Idle(r), NEW op, NEW pc, NEW w, NEW n, NEW got,
           Begin(r, op, pc, w, n, got),
           UNCHANGED <<wsRows, stored, curWs, sel, up, act>>, runs' \subseteq runs,
           reloadMu' = reloadMu \/ reloadMu = None, pc \notin {"install", "client"},
           RequestOK(r)', \A q \in Requests : NoClash(r, q)' /\ NoClash(q, r)'
    PROVE  RInv'
<1>1. Shape /\ up /\ DOMAIN stored = Keys
    BY DEF IInv, Idle, RInv, StoreShape
<1>2. (\A q \in Requests : q # r => req'[q] = req[q]) /\ req'[r].pc = pc
    BY <1>1, BeginFacts
<1>3. ~Switching(r) /\ ~Switching(r)'
    BY <1>2 DEF Idle, Free, Switching, Distinct, Apart
<1> QED
    BY <1>1, <1>2, <1>3, StillOK

\* A request that is answered, and leaves all as it was.
LEMMA EndStill ==
    ASSUME Distinct, IInv, RInv, NEW r \in Requests, up, ~Switching(r), End(r),
           UNCHANGED <<wsRows, curWs, sel, up>>,
           act'.ws = act.ws, act'.ns = act.ns, act'.status = None <=> act.status = None,
           DOMAIN stored' = Keys, \A k \in Keys : stored'[k] = stored[k] \/ stored'[k] \in Nat,
           runs' \subseteq runs \/ (runs' = runs \cup {Key(act)} /\ act.ns # None /\ reloadMu = r),
           reloadMu' = reloadMu \/ reloadMu = None \/ reloadMu = r
    PROVE  RInv'
<1>1. Shape
    BY DEF IInv
<1>2. (\A q \in Requests : q # r => req'[q] = req[q]) /\ req'[r].op = None /\ req'[r].pc = None
    BY <1>1, EndFacts
<1>3. ~Switching(r)' /\ ~Installing(r)' /\ ~Deletes(r)' /\ ~Cascades(r)'
    BY <1>2 DEF Switching, Installing, Deletes, Cascades, Distinct, Apart
<1>4. RequestOK(r)' /\ \A q \in Requests : NoClash(r, q)' /\ NoClash(q, r)'
    BY <1>2, <1>3, Harmless DEF RequestOK, Distinct, Apart
<1> QED
    BY <1>2, <1>3, <1>4, StillOK

\* The reloads and the edits hold reloadMu, the rotation and the raw edit nothing.
LEMMA BeginsOK ==
    ASSUME Distinct, IInv, RInv, NEW r \in Requests,
           \/ HandleReloadNamespace(r) \/ UpdateAndStart(r) \/ HandlePutConfig(r) \/ HandleSetAdminPassword(r)
           \/ \E n \in NsIds : HandleNamespaceEdit(r, n)
    PROVE  RInv'
<1>1. /\ Idle(r) /\ UNCHANGED <<wsRows, stored, curWs, sel, up, act, runs>>
      /\ reloadMu' = reloadMu \/ reloadMu = None
    BY DEF HandleReloadNamespace, UpdateAndStart, HandlePutConfig, HandleSetAdminPassword,
           HandleNamespaceEdit, TryLock, store
<1>2. PICK op \in {"reload", "start", "edit", "putconfig", "rotate"}, pc \in {"commit", "persist", "store"} :
        /\ op = "start" => act.ns # None
        /\ op \in {"reload", "start", "edit"} => reloadMu' = r
        /\ \E w, n, got : /\ Begin(r, op, pc, w, n, got)
                          /\ op \in {"edit", "putconfig"} => got \in Nat
  <2>1. CASE HandleReloadNamespace(r)
      BY <2>1 DEF HandleReloadNamespace, TryLock
  <2>2. CASE UpdateAndStart(r)
      BY <2>2 DEF UpdateAndStart, TryLock
  <2>3. CASE HandlePutConfig(r)
    <3>1. stored[Key(act)] \in Nat
        BY <2>3 DEF HandlePutConfig, RInv, StoreShape, ActiveOK, HasRow, Key
    <3>2. stored[Key(act)] + 1 \in Nat
        BY <3>1
    <3> QED
        BY <2>3, <3>2 DEF HandlePutConfig
  <2>4. CASE HandleSetAdminPassword(r)
      BY <2>4 DEF HandleSetAdminPassword
  <2>5. ASSUME NEW n \in NsIds, HandleNamespaceEdit(r, n)
        PROVE  Begin(r, "edit", "persist", act.ws, n, stored[<<act.ws, n>>] + 1) /\ reloadMu' = r
               /\ stored[<<act.ws, n>>] + 1 \in Nat
    <3>1. stored[<<act.ws, n>>] \in Nat
        BY <2>5 DEF HandleNamespaceEdit, RInv, StoreShape, HasRow
    <3> QED
        BY <2>5, <3>1 DEF HandleNamespaceEdit, TryLock
  <2> QED
      BY <2>1, <2>2, <2>3, <2>4, <2>5
<1>3. PICK w, n, got : Begin(r, op, pc, w, n, got) /\ (op \in {"edit", "putconfig"} => got \in Nat)
    BY <1>2
<1>4. req'[r].op = op /\ req'[r].pc = pc /\ req'[r].got = got
    BY <1>3, BeginFacts DEF IInv
<1>5. ~Switching(r)' /\ ~Installing(r)' /\ ~Deletes(r)' /\ ~Cascades(r)'
    BY <1>4 DEF Switching, Installing, Deletes, Cascades
<1>6. RequestOK(r)' /\ \A q \in Requests : NoClash(r, q)' /\ NoClash(q, r)'
    BY <1>1, <1>2, <1>3, <1>4, <1>5, Harmless DEF RequestOK
<1> QED
    BY <1>1, <1>3, <1>6, BeginStill

\* What was read is written, or applied to the runtime that was there all along.
LEMMA PersistsOK ==
    ASSUME Distinct, IInv, RInv, NEW r \in Requests,
           EditPersist(r) \/ ReloadCommit(r) \/ PutConfigPersist(r) \/ RotateStore(r) \/ RotateMemory(r)
    PROVE  RInv'
<1>0. Shape /\ RequestOK(r) /\ StoreShape /\ DOMAIN act = NsFields /\ DOMAIN stored = Keys
    BY DEF IInv, RInv, Shape, StoreShape
<1>1. CASE EditPersist(r)
  <2>1. /\ up /\ ~Switching(r) /\ reloadMu = r /\ req[r].got \in Nat
        /\ UNCHANGED <<wsRows, curWs, sel, up, act, runs>>
        /\ stored' = [stored EXCEPT ![<<req[r].ws, req[r].ns>>] = req[r].got]
      BY <1>0, <1>1 DEF EditPersist, At, RequestOK, Switching
  <2>2. DOMAIN stored' = Keys /\ \A k \in Keys : stored'[k] = stored[k] \/ stored'[k] \in Nat
      BY <1>0, <2>1 DEF StoreShape
  <2>3. CASE End(r)
      BY <1>1, <2>1, <2>2, <2>3, EndStill DEF EditPersist, Unlock
  <2>4. CASE ~End(r)
    <3>1. /\ \A q \in Requests : q # r => req'[q] = req[q]
          /\ req'[r].op = "reload" /\ req'[r].pc = "commit" /\ reloadMu' = r
        BY <1>0, <1>1, <2>1, <2>4 DEF EditPersist, Shape
    <3>2. RequestOK(r)' /\ ~Switching(r)' /\ \A q \in Requests : NoClash(r, q)' /\ NoClash(q, r)'
        BY <3>1, Harmless DEF RequestOK, Switching, Installing, Deletes, Cascades
    <3> QED
        BY <2>1, <2>2, <3>1, <3>2, StillOK
  <2> QED
      BY <2>3, <2>4
<1>2. CASE ReloadCommit(r)
  <2>1. /\ up /\ ~Switching(r) /\ reloadMu = r /\ reloadMu' = None /\ End(r)
        /\ UNCHANGED <<wsRows, stored, curWs, sel, up>>
      BY <1>2 DEF ReloadCommit, At, Unlock, Switching
  <2>2. \/ UNCHANGED <<act, runs>>
        \/ /\ req[r].op = "start" /\ runs' = runs \cup {Key(act)}
           /\ act' = [act EXCEPT !.ver = req[r].got.ver, !.defs = req[r].got.ver, !.status = "RUNNING"]
        \/ act' = [act EXCEPT !.ver = req[r].got.ver, !.defs = req[r].got.ver] /\ runs' = runs
      BY <1>2 DEF ReloadCommit
  <2>3. req[r].op = "start" => act.ns # None /\ act.status # None
      BY <1>0 DEF RequestOK, RInv, ActiveOK
  <2>4. act'.ws = act.ws /\ act'.ns = act.ns /\ (act'.status = None <=> act.status = None)
      BY <1>0, <2>2, <2>3 DEF NsFields, Distinct
  <2> QED
      BY <1>0, <2>1, <2>2, <2>3, <2>4, EndStill
<1>3. CASE PutConfigPersist(r)
  <2>1. /\ up /\ ~Switching(r) /\ End(r) /\ req[r].got \in Nat
        /\ UNCHANGED <<wsRows, curWs, sel, up, act, runs, reloadMu>>
        /\ stored' = [stored EXCEPT ![<<req[r].ws, req[r].ns>>] = req[r].got]
      BY <1>0, <1>3 DEF PutConfigPersist, At, RequestOK, Switching
  <2>2. DOMAIN stored' = Keys /\ \A k \in Keys : stored'[k] = stored[k] \/ stored'[k] \in Nat
      BY <1>0, <2>1 DEF StoreShape
  <2> QED
      BY <2>1, <2>2, EndStill
<1>4. CASE RotateStore(r)
  <2>1. /\ up /\ req[r].op = "rotate" /\ Step(r, "memory", req[r].got)
        /\ UNCHANGED <<wsRows, stored, curWs, sel, up, act, runs, reloadMu>>
      BY <1>4 DEF RotateStore, At
  <2>2. /\ \A q \in Requests : q # r => req'[q] = req[q]
        /\ req'[r].op = "rotate" /\ req'[r].pc = "memory"
      BY <1>0, <2>1, StepFacts
  <2>3. RequestOK(r)' /\ ~Switching(r) /\ ~Switching(r)'
        /\ \A q \in Requests : NoClash(r, q)' /\ NoClash(q, r)'
      BY <2>1, <2>2, Harmless DEF RequestOK, Switching, Installing, Deletes, Cascades
  <2> QED
      BY <1>0, <2>1, <2>2, <2>3, StillOK
<1>5. CASE RotateMemory(r)
  <2>1. /\ up /\ ~Switching(r) /\ End(r) /\ act' = [act EXCEPT !.pw = req[r].got]
        /\ UNCHANGED <<wsRows, stored, curWs, sel, up, runs, reloadMu>>
      BY <1>5 DEF RotateMemory, At, Switching, store
  <2>2. act'.ws = act.ws /\ act'.ns = act.ns /\ act'.status = act.status
      BY <1>0, <2>1 DEF NsFields
  <2> QED
      BY <1>0, <2>1, <2>2, EndStill
<1> QED
    BY <1>1, <1>2, <1>3, <1>4, <1>5

\* The activation finds its row under reloadMu, and nobody at work to delete it.
LEMMA ActivateStoredOK ==
    ASSUME Distinct, Unraced, IInv, RInv, NEW r \in Requests, NEW n \in NsIds, HandleActivateNamespace(r, n)
    PROVE  RInv'
<1> DEFINE loaded == LoadNamespace(act.ws, n)
<1>1. /\ Idle(r) /\ up /\ HasRow(act.ws, n) /\ ~Deleting(act.ws, n)
      /\ UNCHANGED <<wsRows, stored, curWs, sel, up, act, runs>> /\ reloadMu = None /\ reloadMu' = r
      /\ Begin(r, "activate", "install", act.ws, n, loaded)
    BY DEF HandleActivateNamespace, Idle, TryLock, Unraced, store
<1>2. loaded.status = "STOPPED"
    BY <1>1 DEF LoadNamespace
<1> HIDE DEF loaded
<1>3. /\ \A q \in Requests : q # r => req'[q] = req[q]
      /\ req'[r].op = "activate" /\ req'[r].pc = "install" /\ req'[r].ws = act.ws /\ req'[r].ns = n
      /\ req'[r].got = loaded /\ ~Switching(r) /\ ~Switching(r)'
    BY <1>1, BeginFacts DEF IInv, Idle, Free, Switching, Distinct, Apart
<1>4. RequestOK(r)'
    BY <1>1, <1>2, <1>3 DEF RequestOK, HasRow, Deletes, Cascades
<1>5. \A q \in Requests : NoClash(r, q)' /\ NoClash(q, r)'
  <2>1. \A q \in Requests : req[q].op \in {"delete", "deletews"} /\ req[q].ws = act.ws =>
          req[q].ns # n /\ req[q].ns # None
      BY <1>1 DEF Deleting
  <2>2. \A q \in Requests : Cascades(q) => req[q].ws # act.ws
      BY DEF RInv, RequestOK
  <2> QED
      BY <1>3, <2>1, <2>2 DEF NoClash, Activates, Deletes, Cascades
<1>6. DOMAIN stored = Keys
    BY DEF RInv, StoreShape
<1> QED
    BY <1>1, <1>3, <1>4, <1>5, <1>6, StillOK

\* A creation persists where nobody deletes.
LEMMA CreateStoredOK ==
    ASSUME Distinct, Unraced, IInv, RInv, NEW r \in Requests, NEW w \in Ws, NEW n \in NsIds,
           CreateNamespace(r, w, n)
    PROVE  RInv'
<1>1. /\ Idle(r) /\ up /\ ~Deleting(w, n) /\ stored' = [stored EXCEPT ![<<w, n>>] = 1]
      /\ UNCHANGED <<wsRows, curWs, sel, up, act, runs, reloadMu>>
      /\ Begin(r, "create", "look", w, n, None)
    BY DEF CreateNamespace, Idle, Unraced
<1>2. DOMAIN stored' = Keys /\ \A k \in Keys : stored'[k] = stored[k] \/ stored'[k] \in Nat
    BY <1>1 DEF RInv, StoreShape
<1>3. /\ \A q \in Requests : q # r => req'[q] = req[q]
      /\ req'[r].op = "create" /\ req'[r].pc = "look" /\ req'[r].ws = w /\ req'[r].ns = n
      /\ ~Switching(r) /\ ~Switching(r)'
    BY <1>1, BeginFacts DEF IInv, Idle, Free, Switching, Distinct, Apart
<1>4. RequestOK(r)'
    BY <1>3 DEF RequestOK, Deletes, Cascades, Installing
<1>5. \A q \in Requests : NoClash(r, q)' /\ NoClash(q, r)'
  <2>1. \A q \in Requests : Deletes(q) \/ Cascades(q) =>
          req[q].ws # w \/ (req[q].ns # n /\ req[q].ns # None)
      BY <1>1 DEF Deleting, Deletes, Cascades
  <2>2. \A q \in Requests : Cascades(q) => req[q].ns = None
      BY DEF RInv, RequestOK
  <2> QED
      BY <1>3, <2>1, <2>2 DEF NoClash, Activates, Deletes, Cascades
<1> QED
    BY <1>1, <1>2, <1>3, <1>4, <1>5, StillOK

\* It loads what it has persisted, if that is still there.
LEMMA CreateGoesOnOK ==
    ASSUME Distinct, IInv, RInv, NEW r \in Requests, CreateLook(r) \/ CreateLoad(r)
    PROVE  RInv'
<1> DEFINE loaded == LoadNamespace(req[r].ws, req[r].ns)
<1>0. /\ Shape /\ DOMAIN stored = Keys /\ up /\ req[r].op = "create" /\ ~Switching(r)
      /\ UNCHANGED <<wsRows, stored, curWs, sel, up, act, runs>>
    BY DEF IInv, RInv, StoreShape, CreateLook, CreateLoad, At, Switching, store
<1>1. CASE End(r) /\ UNCHANGED reloadMu
    BY <1>0, <1>1, EndStill
<1>2. CASE ~(End(r) /\ UNCHANGED reloadMu)
  <2>1. \/ Step(r, "load", None) /\ reloadMu' = reloadMu
        \/ /\ Step(r, "install", loaded) /\ loaded # None
           /\ reloadMu = None /\ reloadMu' = r
      BY <1>2 DEF CreateLook, CreateLoad, TryLock
  <2>2. loaded # None => HasRow(req[r].ws, req[r].ns) /\ loaded.status = "STOPPED"
      BY DEF LoadNamespace
  <2> HIDE DEF loaded
  <2>3. /\ \A q \in Requests : q # r => req'[q] = req[q]
        /\ req'[r].op = "create" /\ req'[r].ws = req[r].ws /\ req'[r].ns = req[r].ns
        /\ req'[r].pc # "lock" /\ ~Switching(r)'
      BY <1>0, <2>1, StepFacts DEF Switching
  <2>4. RequestOK(r)'
    <3>1. CASE Step(r, "load", None)
      <4>1. ~Installing(r)'
          BY <1>0, <3>1, StepFacts DEF Installing
      <4> QED
          BY <2>3, <4>1 DEF RequestOK, Deletes, Cascades
    <3>2. CASE Step(r, "install", loaded) /\ loaded # None
      <4>1. req'[r].got = loaded /\ HasRow(req[r].ws, req[r].ns)'
          BY <1>0, <2>2, <3>2, StepFacts DEF HasRow
      <4> QED
          BY <2>2, <2>3, <3>2, <4>1 DEF RequestOK, Deletes, Cascades, HasRow
    <3> QED
        BY <2>1, <3>1, <3>2
  <2>5. \A q \in Requests : NoClash(r, q)' /\ NoClash(q, r)'
      BY <1>0, <2>3, SameWay DEF Deletes
  <2> QED
      BY <1>0, <2>1, <2>3, <2>4, <2>5, StillOK
<1> QED
    BY <1>1, <1>2

\* The deletion of what is active takes reloadMu; any other keeps off what is
\* being activated.
LEMMA DeleteBeginsOK ==
    ASSUME Distinct, Unraced, IInv, RInv, NEW r \in Requests, NEW n \in NsIds, HandleDeleteNamespace(r, n)
    PROVE  RInv'
<1> DEFINE got == act.ns = n
<1>1. /\ Idle(r) /\ up /\ UNCHANGED <<wsRows, stored, curWs, sel, up, act, runs>>
      /\ act.ns = n \/ Activating(act.ws) \cap {n, None} = {}
      /\ IF act.ns = n THEN reloadMu = None /\ reloadMu' = r ELSE reloadMu' = reloadMu
      /\ Begin(r, "delete", "teardown", act.ws, n, got)
    BY DEF HandleDeleteNamespace, Idle, Unraced, store, TryLock
<1>2. got \in BOOLEAN /\ (got = TRUE <=> act.ns = n)
    OBVIOUS
<1> HIDE DEF got
<1>3. /\ \A q \in Requests : q # r => req'[q] = req[q]
      /\ req'[r].op = "delete" /\ req'[r].pc = "teardown" /\ req'[r].ws = act.ws /\ req'[r].ns = n
      /\ req'[r].got = got /\ ~Switching(r) /\ ~Switching(r)'
    BY <1>1, BeginFacts DEF IInv, Idle, Free, Switching, Distinct, Apart
<1>4. RequestOK(r)'
    BY <1>1, <1>2, <1>3 DEF RequestOK, DeleteOK, Deletes, Cascades, Installing, Key
<1>5. \A q \in Requests : NoClash(r, q)' /\ NoClash(q, r)'
  <2>1. got = FALSE => \A q \in Requests : Activates(q) /\ req[q].ws = act.ws =>
          req[q].ns # n /\ req[q].ns # None
      BY <1>1, <1>2 DEF Activating, Activates
  <2>2. \A q \in Requests : req[q].op = "switch" /\ req[q].pc = "lock" => req[q].ns = None
      BY DEF RInv, RequestOK
  <2> QED
      BY <1>2, <1>3, <2>1, <2>2 DEF NoClash, Activates, Deletes, Cascades
<1>6. DOMAIN stored = Keys
    BY DEF RInv, StoreShape
<1> QED
    BY <1>1, <1>3, <1>4, <1>5, <1>6, StillOK

\* What is active, and about to be deleted, is nothing any more.
LEMMA TeardownStoredOK ==
    ASSUME Distinct, IInv, RInv, NEW r \in Requests, DeleteTeardown(r)
    PROVE  RInv'
<1>1. /\ Shape /\ up /\ req[r].op = "delete" /\ req[r].pc = "teardown" /\ RequestOK(r) /\ DeleteOK(r)
      /\ UNCHANGED <<wsRows, stored, curWs, up, reloadMu>> /\ Step(r, "row", req[r].got)
      /\ DOMAIN act = NsFields
    BY DEF DeleteTeardown, At, IInv, Shape, RInv, RequestOK, Deletes
<1>2. /\ \A q \in Requests : q # r => req'[q] = req[q]
      /\ req'[r].op = "delete" /\ req'[r].pc = "row" /\ req'[r].ws = req[r].ws /\ req'[r].ns = req[r].ns
      /\ req'[r].got = req[r].got /\ ~Switching(r) /\ ~Switching(r)'
    BY <1>1, StepFacts DEF Switching
<1>3. \A q \in Requests : NoClash(r, q)' /\ NoClash(q, r)'
    BY <1>1, <1>2, SameWay DEF Deletes
<1>4. CASE req[r].got = FALSE
  <2>1. UNCHANGED <<sel, act, runs>> /\ DOMAIN stored = Keys
      BY <1>4 DEF DeleteTeardown, RInv, StoreShape
  <2>2. RequestOK(r)'
      BY <1>1, <1>2, <1>4, <2>1 DEF RequestOK, DeleteOK, Deletes, Cascades, Installing, Key
  <2> QED
      BY <1>1, <1>2, <1>3, <2>1, <2>2, StillOK
<1>5. CASE req[r].got = TRUE
  <2>1. req[r].ws = act.ws /\ req[r].ns = act.ns /\ reloadMu = r /\ act.ns # None /\ act.status # None
      BY <1>1, <1>5 DEF DeleteOK, Key, Distinct, RInv, ActiveOK
  <2>2. sel' = [sel EXCEPT ![act.ws] = None] /\ act' = Cleared(act) /\ runs' = runs \ {Key(act)}
      BY <1>5, <2>1 DEF DeleteTeardown, AfterShutdown
  <2>3. act'.ws = act.ws /\ act'.ns = None /\ act'.status = None
      BY <1>1, <2>2 DEF Cleared, NsFields
  <2>4. StoreShape'
      BY <1>1, <2>2 DEF RInv, StoreShape
  <2>5. runs' = {}
      BY <1>1, <2>2 DEF RInv, RunsOK
  <2>6. \A q \in Requests : q # r => (Switching(q)' <=> Switching(q))
      BY <1>2 DEF Switching
  <2>7. ActiveOK' /\ RunsOK'
      BY <1>1, <1>2, <2>3, <2>5, <2>6 DEF ActiveOK, RunsOK, RInv
  <2>8. ASSUME NEW q \in Requests, q # r PROVE RequestOK(q)'
    <3>1. req'[q] = req[q] /\ RequestOK(q) /\ reloadMu # q
        BY <1>2, <2>1, <2>8 DEF RInv
    <3>2. ~Installing(q)' /\ ~Switching(q)'
        BY <3>1, HolderFacts DEF Installing, Switching
    <3>3. DeleteOK(q) => DeleteOK(q)'
      <4>1. DeleteOK(q) => <<req[q].ws, req[q].ns>> # <<act'.ws, act'.ns>>
          BY <2>3 DEF DeleteOK, Distinct
      <4> QED
          BY <1>1, <3>1, <4>1 DEF DeleteOK, Key
    <3> QED
        BY <1>1, <2>3, <3>1, <3>2, <3>3 DEF RequestOK, Deletes, Cascades
  <2>9. RequestOK(r)'
      BY <1>1, <1>2, <1>5, <2>1, <2>3 DEF RequestOK, DeleteOK, Deletes, Cascades, Installing
  <2>10. \A p, q \in Requests : NoClash(p, q)'
      BY <1>2, <1>3 DEF RInv, NoClash, Activates, Cascades, Deletes
  <2> QED
      BY <2>4, <2>7, <2>8, <2>9, <2>10 DEF RInv
<1> QED
    BY <1>1, <1>4, <1>5 DEF DeleteOK

\* The row of nothing that is active, or about to be, goes.
LEMMA DeleteRowStoredOK ==
    ASSUME Distinct, IInv, RInv, NEW r \in Requests, DeleteRow(r)
    PROVE  RInv'
<1> DEFINE gone == <<req[r].ws, req[r].ns>>
<1>1. /\ Shape /\ up /\ req[r].op = "delete" /\ req[r].pc = "row" /\ RequestOK(r) /\ DeleteOK(r)
      /\ UNCHANGED <<wsRows, curWs, sel, up, reloadMu, act, runs>> /\ Step(r, "purge", req[r].got)
      /\ stored' = [stored EXCEPT ![gone] = None]
    BY DEF DeleteRow, At, IInv, RInv, RequestOK, Deletes
<1>2. /\ \A q \in Requests : q # r => req'[q] = req[q]
      /\ req'[r].op = "delete" /\ req'[r].pc = "purge" /\ req'[r].ws = req[r].ws /\ req'[r].ns = req[r].ns
      /\ req'[r].got = req[r].got /\ ~Switching(r) /\ ~Switching(r)'
    BY <1>1, StepFacts DEF Switching
<1>3. \A q \in Requests : NoClash(r, q)' /\ NoClash(q, r)'
    BY <1>1, <1>2, SameWay DEF Deletes
<1>4. StoreShape'
    BY <1>1 DEF RInv, StoreShape
<1>5. \A w, n : HasRow(w, n) /\ <<w, n>> # gone => HasRow(w, n)'
    BY <1>1 DEF HasRow, RInv, StoreShape
<1>6. act.ns # None => <<act.ws, act.ns>> # gone
    BY <1>1 DEF DeleteOK, Key
<1>7. ASSUME NEW q \in Requests, Installing(q) PROVE <<req[q].ws, req[q].ns>> # gone
  <2>1. reloadMu = q /\ q # r
      BY <1>1, <1>7, HolderFacts DEF Installing
  <2>2. req[r].got = FALSE
      BY <1>1, <2>1 DEF DeleteOK
  <2>3. NoClash(q, r)
      BY DEF RInv
  <2> QED
      BY <1>1, <1>7, <2>2, <2>3 DEF NoClash, Activates, Installing, Deletes
<1> HIDE DEF gone
<1>8. \A q \in Requests : q # r => (Switching(q)' <=> Switching(q)) /\ (Installing(q)' <=> Installing(q))
    BY <1>2 DEF Switching, Installing
<1>9. ActiveOK' /\ RunsOK'
    BY <1>1, <1>2, <1>5, <1>6, <1>8 DEF ActiveOK, RunsOK, RInv, Key
<1>10. ASSUME NEW q \in Requests, q # r PROVE RequestOK(q)'
  <2>1. req'[q] = req[q] /\ RequestOK(q)
      BY <1>2, <1>10 DEF RInv
  <2>2. Installing(q) => HasRow(req[q].ws, req[q].ns)'
      BY <1>5, <1>7, <2>1 DEF RequestOK
  <2>3. DeleteOK(q) => DeleteOK(q)'
      BY <1>1, <2>1 DEF DeleteOK, Key
  <2> QED
      BY <1>1, <1>8, <1>10, <2>1, <2>2, <2>3 DEF RequestOK, Deletes, Cascades
<1>11. RequestOK(r)'
    BY <1>1, <1>2 DEF RequestOK, DeleteOK, Deletes, Cascades, Installing, Key
<1>12. \A p, q \in Requests : NoClash(p, q)'
    BY <1>2, <1>3 DEF RInv, NoClash, Activates, Cascades, Deletes
<1> QED
    BY <1>4, <1>9, <1>10, <1>11, <1>12 DEF RInv

\* What is left of it in Docker goes with reloadMu.
LEMMA PurgeStoredOK ==
    ASSUME Distinct, IInv, RInv, NEW r \in Requests, DeletePurge(r)
    PROVE  RInv'
<1>1. /\ up /\ End(r) /\ ~Switching(r) /\ UNCHANGED <<wsRows, stored, curWs, sel, up, act>>
      /\ runs' \subseteq runs /\ (reloadMu' = reloadMu \/ reloadMu = r) /\ DOMAIN stored = Keys
    BY DEF DeletePurge, At, Switching, Unlock, store, RInv, StoreShape
<1> QED
    BY <1>1, EndStill

\* A workspace more is in nobody's way.
LEMMA WorkspaceStoredOK ==
    ASSUME Distinct, IInv, RInv, NEW r \in Requests, NEW w \in Custom, HandleCreateWorkspace(r, w)
    PROVE  RInv'
<1>1. up /\ wsRows' = wsRows \cup {w} /\ UNCHANGED <<stored, saved, curWs, sel, password, up, act, reloadMu, req, runs>>
    BY DEF HandleCreateWorkspace, Idle
<1>2. \A q \in Requests : RequestOK(q)'
    BY <1>1, OtherStill DEF RInv, StoreShape
<1>3. StoreShape'
    BY <1>1 DEF RInv, StoreShape
<1>4. ActiveOK' /\ RunsOK' /\ \A p, q \in Requests : NoClash(p, q)'
    BY <1>1 DEF RInv, ActiveOK, RunsOK, NoClash, HasRow, Switching, Key, Activates, Deletes, Cascades
<1> QED
    BY <1>2, <1>3, <1>4 DEF RInv

\* A workspace is deleted that nobody is in, or on the way to.
LEMMA CascadeBeginsOK ==
    ASSUME Distinct, Unraced, IInv, RInv, NEW r \in Requests, NEW w \in Custom, HandleDeleteWorkspace(r, w)
    PROVE  RInv'
<1>1. /\ Idle(r) /\ up /\ UNCHANGED <<wsRows, stored, curWs, sel, up, act, reloadMu>>
      /\ act.ws # w /\ Activating(w) = {} /\ runs' \subseteq runs /\ Begin(r, "deletews", "row", w, None, None)
    BY DEF HandleDeleteWorkspace, Idle, Unraced, store
<1>2. /\ \A q \in Requests : q # r => req'[q] = req[q]
      /\ req'[r].op = "deletews" /\ req'[r].pc = "row" /\ req'[r].ws = w /\ req'[r].ns = None
      /\ ~Switching(r) /\ ~Switching(r)'
    BY <1>1, BeginFacts DEF IInv, Idle, Free, Switching, Distinct, Apart
<1>3. RequestOK(r)'
    BY <1>1, <1>2 DEF RequestOK, Deletes, Cascades, Installing
<1>4. \A q \in Requests : NoClash(r, q)' /\ NoClash(q, r)'
  <2>1. \A q \in Requests : Activates(q) => req[q].ws # w
      BY <1>1 DEF Activating, Activates
  <2> QED
      BY <1>2, <2>1 DEF NoClash, Activates, Deletes, Cascades
<1>5. DOMAIN stored = Keys
    BY DEF RInv, StoreShape
<1> QED
    BY <1>1, <1>2, <1>3, <1>4, <1>5, StillOK

\* Its rows go, none of them active or about to be.
LEMMA CascadeStoredOK ==
    ASSUME Distinct, IInv, RInv, NEW r \in Requests, DeleteWorkspaceRow(r)
    PROVE  RInv'
<1> DEFINE w == req[r].ws
<1>1. /\ Shape /\ up /\ Cascades(r) /\ RequestOK(r) /\ End(r) /\ act.ws # w
      /\ UNCHANGED <<curWs, sel, up, act, reloadMu, runs>>
      /\ wsRows' = wsRows \ {w} /\ stored' = [k \in Keys |-> IF k[1] = w THEN None ELSE stored[k]]
    BY DEF DeleteWorkspaceRow, At, IInv, RInv, RequestOK, Cascades
<1>2. /\ \A q \in Requests : q # r => req'[q] = req[q]
      /\ req'[r].op = None /\ req'[r].pc = None
    BY <1>1, EndFacts
<1>3. ~Switching(r) /\ ~Switching(r)' /\ ~Installing(r)' /\ ~Deletes(r)' /\ ~Cascades(r)'
    BY <1>1, <1>2 DEF Switching, Installing, Deletes, Cascades, Distinct, Apart
<1>4. \A q \in Requests : Activates(q) => req[q].ws # w
    BY <1>1 DEF RInv, NoClash
<1>5. curWs # w
  <2>1. CASE \E q \in Requests : Switching(q)
    <3>1. PICK q \in Requests : Switching(q)
        BY <2>1
    <3> QED
        BY <1>4, <3>1 DEF RInv, RequestOK, Activates, Switching
  <2>2. CASE \A q \in Requests : ~Switching(q)
      BY <1>1, <2>2 DEF RInv, ActiveOK
  <2> QED
      BY <2>1, <2>2
<1> HIDE DEF w
<1>6. StoreShape'
    BY <1>1, <1>5 DEF RInv, StoreShape
<1>7. \A v, n : HasRow(v, n) /\ v # w => HasRow(v, n)'
    BY <1>1 DEF HasRow
<1>8. \A q \in Requests : q # r => (Switching(q)' <=> Switching(q)) /\ (Installing(q)' <=> Installing(q))
    BY <1>2 DEF Switching, Installing
<1>9. ActiveOK' /\ RunsOK'
    BY <1>1, <1>3, <1>7, <1>8 DEF ActiveOK, RunsOK, RInv, Key
<1>10. ASSUME NEW q \in Requests, q # r PROVE RequestOK(q)'
  <2>1. req'[q] = req[q] /\ RequestOK(q) /\ (Activates(q) => req[q].ws # w)
      BY <1>2, <1>4, <1>10 DEF RInv
  <2>2. Installing(q) => HasRow(req[q].ws, req[q].ns)'
      BY <1>7, <2>1 DEF RequestOK, Installing, Activates
  <2>3. DeleteOK(q) => DeleteOK(q)'
      BY <1>1, <2>1 DEF DeleteOK, Key
  <2>4. req[q].op = "switch" => req[q].ws \in wsRows' \cup {"default"}
      BY <1>1, <2>1 DEF RequestOK, Activates
  <2> QED
      BY <1>1, <1>8, <1>10, <2>1, <2>2, <2>3, <2>4 DEF RequestOK, Deletes, Cascades
<1>11. RequestOK(r)'
    BY <1>2, <1>3 DEF RequestOK, Distinct, Apart
<1>12. \A p, q \in Requests : NoClash(p, q)'
    BY <1>2, <1>3 DEF RInv, NoClash, Activates, Cascades, Deletes, Distinct, Apart
<1> QED
    BY <1>6, <1>9, <1>10, <1>11, <1>12 DEF RInv

\* The switch to a workspace that is there, and that nobody deletes.
LEMMA SwitchBeginsOK ==
    ASSUME Distinct, Unraced, IInv, RInv, NEW r \in Requests, NEW w \in Ws, SwitchWorkspace(r, w)
    PROVE  RInv'
<1>1. /\ Idle(r) /\ up /\ UNCHANGED <<wsRows, stored, curWs, sel, up, act, reloadMu, runs>>
      /\ w \in wsRows \cup {"default"} /\ Begin(r, "switch", "lock", w, None, None)
      /\ \A q \in Requests : Deletes(q) \/ Cascades(q) => req[q].ws # w
    BY DEF SwitchWorkspace, Idle, Unraced, store, Deletes, Cascades
<1>2. /\ \A q \in Requests : q # r => req'[q] = req[q]
      /\ req'[r].op = "switch" /\ req'[r].pc = "lock" /\ req'[r].ws = w /\ req'[r].ns = None
      /\ ~Switching(r) /\ ~Switching(r)'
    BY <1>1, BeginFacts DEF IInv, Idle, Free, Switching, Distinct, Apart
<1>3. RequestOK(r)'
    BY <1>1, <1>2 DEF RequestOK, Deletes, Cascades, Installing
<1>4. \A q \in Requests : NoClash(r, q)' /\ NoClash(q, r)'
    BY <1>1, <1>2 DEF NoClash, Activates, Deletes, Cascades
<1>5. DOMAIN stored = Keys
    BY DEF RInv, StoreShape
<1> QED
    BY <1>1, <1>2, <1>3, <1>4, <1>5, StillOK

\* The switch is persisted, with what was active last, before anything is left.
LEMMA SwitchPersistStoredOK ==
    ASSUME Distinct, IInv, RInv, NEW r \in Requests, SwitchPersist(r)
    PROVE  RInv'
<1>0. /\ Shape /\ up /\ req[r].op = "switch" /\ req[r].pc = "lock" /\ RequestOK(r) /\ StoreShape
      /\ reloadMu = None /\ UNCHANGED <<wsRows, stored, up, act>> /\ DOMAIN stored = Keys /\ ~Switching(r)
    BY DEF SwitchPersist, At, IInv, RInv, StoreShape, Switching, NoClash
<1>1. CASE End(r) /\ UNCHANGED <<curWs, sel, reloadMu, runs>>
    BY <1>0, <1>1, EndStill
<1>2. CASE ~(End(r) /\ UNCHANGED <<curWs, sel, reloadMu, runs>>)
  <2>1. /\ reloadMu' = r /\ curWs' = req[r].ws /\ runs' = AfterShutdown(act)
        /\ sel' = IF act.ns = None THEN sel ELSE [sel EXCEPT ![act.ws] = act.ns]
        /\ \E n : req' = [req EXCEPT ![r].pc = "client", ![r].ns = n]
      BY <1>0, <1>2 DEF SwitchPersist
  <2>2. /\ \A q \in Requests : q # r => req'[q] = req[q]
        /\ req'[r].op = "switch" /\ req'[r].pc = "client" /\ req'[r].ws = req[r].ws
      BY <1>0, <2>1 DEF Shape
  <2>3. Switching(r)' /\ ~Installing(r)' /\ ~Deletes(r)' /\ ~Cascades(r)'
      BY <2>2 DEF Switching, Installing, Deletes, Cascades
  <2>4. runs' = {}
      BY <1>0, <2>1 DEF AfterShutdown, RInv, RunsOK, ActiveOK
  <2>5. StoreShape'
      BY <1>0, <2>1 DEF StoreShape, RequestOK
  <2>6. act.ns # None => HasRow(act.ws, act.ns)' /\ sel'[act.ws] = act.ns
    <3>1. act.ns # None => HasRow(act.ws, act.ns)
        BY DEF RInv, ActiveOK
    <3>2. act.ns # None => act.ws \in Ws
        BY <3>1, KeysAssumption DEF HasRow
    <3> QED
        BY <1>0, <2>1, <3>1, <3>2 DEF HasRow, StoreShape
  <2>7. ActiveOK' /\ RunsOK'
      BY <1>0, <2>3, <2>4, <2>6 DEF ActiveOK, RunsOK, RInv
  <2>8. ASSUME NEW q \in Requests, q # r PROVE RequestOK(q)'
    <3>1. req'[q] = req[q] /\ RequestOK(q) /\ reloadMu # q
        BY <1>0, <2>2, <2>8, HolderFacts DEF RInv
    <3>2. ~Installing(q)' /\ ~Switching(q)'
        BY <3>1, HolderFacts DEF Installing, Switching
    <3>3. DeleteOK(q) => DeleteOK(q)'
        BY <1>0, <3>1 DEF DeleteOK, Key
    <3> QED
        BY <1>0, <3>1, <3>2, <3>3 DEF RequestOK, Deletes, Cascades
  <2>9. RequestOK(r)'
      BY <1>0, <2>1, <2>2, <2>3, <2>4 DEF RequestOK
  <2>10. ASSUME NEW q \in Requests PROVE NoClash(r, q)' /\ NoClash(q, r)'
    <3>1. q # r /\ req[q].ws = req[r].ws => ~Cascades(q) /\ ~(Deletes(q) /\ req[q].got = FALSE)
        BY <1>0 DEF RInv, NoClash, Activates
    <3> QED
        BY <2>2, <2>3, <3>1 DEF NoClash, Deletes, Cascades
  <2>11. \A p, q \in Requests : NoClash(p, q)'
      BY <2>2, <2>10 DEF RInv, NoClash, Activates, Cascades, Deletes
  <2> QED
      BY <2>5, <2>7, <2>8, <2>9, <2>11 DEF RInv
<1> QED
    BY <1>1, <1>2

\* The memory follows: nothing runs, nothing is active, here.
LEMMA SwitchClearStoredOK ==
    ASSUME Distinct, Unraced, IInv, RInv, NEW r \in Requests, SwitchClear(r)
    PROVE  RInv'
<1> DEFINE w == req[r].ws
           loaded == LoadNamespace(w, req[r].ns)
<1>0. /\ Shape /\ up /\ Switching(r) /\ RequestOK(r) /\ StoreShape /\ reloadMu = r
      /\ DOMAIN act = NsFields /\ UNCHANGED <<wsRows, stored, curWs, sel, up, runs>>
    BY HolderFacts DEF SwitchClear, At, IInv, Shape, RInv, Switching, store
<1>1. /\ act' = [Cleared(act) EXCEPT !.ws = w, !.docker = <<w, req[r].ns>>]
      /\ \/ End(r)
         \/ Step(r, "install", loaded) /\ loaded # None /\ reloadMu' = r
    BY <1>0 DEF SwitchClear, Unraced
<1>2. loaded # None => HasRow(w, req[r].ns) /\ loaded.status = "STOPPED"
    BY DEF LoadNamespace
<1> HIDE DEF loaded
<1>3. act'.ws = w /\ act'.ns = None /\ act'.status = None
    BY <1>0, <1>1 DEF Cleared, NsFields
<1>4. /\ \A q \in Requests : q # r => req'[q] = req[q]
      /\ ~Switching(r)' /\ ~Deletes(r)' /\ ~Cascades(r)' /\ req'[r].op \in {None, "switch"}
      /\ Activates(r)' => /\ req'[r].ws = w /\ req'[r].ns = req[r].ns /\ req'[r].pc = "install"
                          /\ loaded # None /\ req'[r].got = loaded
      /\ Installing(r)' => Activates(r)'
  <2>1. CASE End(r)
      BY <1>0, <2>1, EndFacts DEF Switching, Deletes, Cascades, Activates, Installing, Distinct, Apart
  <2>2. CASE Step(r, "install", loaded) /\ loaded # None
      BY <1>0, <2>2, StepFacts DEF Switching, Deletes, Cascades, Activates, Installing
  <2> QED
      BY <1>1, <2>1, <2>2
<1>5. runs = {} /\ curWs = w /\ w \in wsRows \cup {"default"}
    BY <1>0 DEF RequestOK, Switching
<1>6. StoreShape'
    BY <1>0 DEF StoreShape
<1>7. ActiveOK' /\ RunsOK'
    BY <1>0, <1>3, <1>5 DEF ActiveOK, RunsOK
<1>8. RequestOK(r)'
  <2>1. Installing(r)' => HasRow(req'[r].ws, req'[r].ns) /\ req'[r].got.status = "STOPPED"
      BY <1>2, <1>4
  <2>2. Installing(r)' => (HasRow(req[r].ws, req[r].ns) /\ req[r].got.status = "STOPPED")'
      BY <1>0, <2>1 DEF HasRow
  <2>3. req'[r].op = "switch" => req'[r].ws = w /\ req'[r].pc = "install"
      BY <1>4 DEF Activates
  <2> QED
      BY <1>0, <1>4, <1>5, <2>2, <2>3 DEF RequestOK, Distinct, Apart
<1>9. ASSUME NEW q \in Requests, q # r PROVE RequestOK(q)'
  <2>1. req'[q] = req[q] /\ RequestOK(q) /\ reloadMu # q /\ NoClash(r, q)
      BY <1>0, <1>4, <1>9 DEF RInv
  <2>2. ~Installing(q)' /\ ~Switching(q)'
      BY <2>1, HolderFacts DEF Installing, Switching
  <2>3. DeleteOK(q) => DeleteOK(q)'
    <3>1. DeleteOK(q) => <<req[q].ws, req[q].ns>> # <<act'.ws, act'.ns>>
        BY <1>3 DEF DeleteOK, Distinct
    <3> QED
        BY <1>0, <2>1, <3>1 DEF DeleteOK, Key
  <2>4. Cascades(q) => req[q].ws # act'.ws
      BY <1>0, <1>3, <2>1 DEF NoClash, Activates, Switching
  <2> QED
      BY <1>0, <2>1, <2>2, <2>3, <2>4 DEF RequestOK, Deletes, Cascades
<1>10. \A q \in Requests : NoClash(r, q)' /\ NoClash(q, r)'
  <2>1. \A q \in Requests : NoClash(r, q)
      BY DEF RInv
  <2> QED
      BY <1>0, <1>4, <2>1 DEF NoClash, Activates, Deletes, Cascades, Switching
<1>11. \A p, q \in Requests : NoClash(p, q)'
    BY <1>4, <1>10 DEF RInv, NoClash, Activates, Cascades, Deletes
<1> QED
    BY <1>6, <1>7, <1>8, <1>9, <1>11 DEF RInv

\* The swap: selected, active, and the last one's containers gone.
LEMMA InstallStoredOK ==
    ASSUME Distinct, IInv, RInv, NEW r \in Requests, Install(r)
    PROVE  RInv'
<1> DEFINE w == req[r].ws
           n == req[r].ns
<1>0. /\ Shape /\ up /\ Installing(r) /\ RequestOK(r) /\ StoreShape /\ reloadMu = r /\ End(r)
      /\ UNCHANGED <<wsRows, stored, curWs, up>>
      /\ LoadedFor(req[r].got, w, n) /\ w = act.ws
      /\ sel' = [sel EXCEPT ![w] = n] /\ act' = [req[r].got EXCEPT !.ws = act.ws]
      /\ runs' = AfterShutdown(act)
    BY DEF Install, At, Installing, InstallLoadedNamespace, Unlock, IInv, InstallsHere, RInv
<1>1. HasRow(w, n) /\ req[r].got.status = "STOPPED" /\ w \in Ws /\ n # None
    BY <1>0, KeysAssumption DEF RequestOK, HasRow, Distinct
<1>2. act'.ws = w /\ act'.ns = n /\ act'.status = "STOPPED"
    BY <1>0, <1>1 DEF LoadedFor, NsFields
<1>3. /\ \A q \in Requests : q # r => req'[q] = req[q]
      /\ req'[r].op = None /\ req'[r].pc = None
    BY <1>0, EndFacts
<1>4. ~Switching(r)' /\ ~Installing(r)' /\ ~Deletes(r)' /\ ~Cascades(r)' /\ ~Switching(r)
    BY <1>0, <1>3 DEF Switching, Installing, Deletes, Cascades, Distinct, Apart
<1>5. \A q \in Requests : ~Switching(q)
    BY <1>0, <1>4, HolderFacts
<1>6. runs' = {}
    BY <1>0 DEF AfterShutdown, RInv, RunsOK, ActiveOK
<1>7. StoreShape'
    BY <1>0 DEF StoreShape
<1> HIDE DEF w, n
<1>8. HasRow(act'.ws, act'.ns) /\ sel'[act'.ws] = act'.ns
    BY <1>0, <1>1, <1>2 DEF StoreShape
<1>9. ActiveOK' /\ RunsOK'
  <2>1. (HasRow(act.ws, act.ns) /\ sel[act.ws] = act.ns)'
      BY <1>0, <1>8 DEF HasRow
  <2>2. curWs' = act'.ws
      BY <1>0, <1>2, <1>5 DEF RInv, ActiveOK
  <2> QED
      BY <1>0, <1>1, <1>2, <1>6, <2>1, <2>2 DEF ActiveOK, RunsOK, Distinct
<1>10. RequestOK(r)'
    BY <1>3, <1>4 DEF RequestOK, Distinct, Apart
<1>11. ASSUME NEW q \in Requests, q # r PROVE RequestOK(q)'
  <2>1. req'[q] = req[q] /\ RequestOK(q) /\ reloadMu # q /\ NoClash(r, q)
      BY <1>0, <1>3, <1>11 DEF RInv
  <2>2. ~Installing(q)' /\ ~Switching(q)'
      BY <2>1, HolderFacts DEF Installing, Switching
  <2>3. Deletes(q) => DeleteOK(q)'
    <3>1. Deletes(q) => req[q].got = FALSE /\ DeleteOK(q)
        BY <2>1 DEF RequestOK, DeleteOK
    <3>2. Deletes(q) => <<req[q].ws, req[q].ns>> # <<act'.ws, act'.ns>>
        BY <1>0, <1>2, <2>1, <3>1 DEF NoClash, Activates, Installing, w, n
    <3> QED
        BY <1>0, <2>1, <3>1, <3>2 DEF DeleteOK, Key
  <2> QED
      BY <1>0, <1>2, <2>1, <2>2, <2>3 DEF RequestOK, Deletes, Cascades
<1>12. \A p, q \in Requests : NoClash(p, q)'
    BY <1>3, <1>4 DEF RInv, NoClash, Activates, Cascades, Deletes, Distinct, Apart
<1> QED
    BY <1>7, <1>9, <1>10, <1>11, <1>12 DEF RInv

\* Nothing is active any more, and nothing selected.
LEMMA DeactivateStoredOK ==
    ASSUME Distinct, IInv, RInv, NEW r \in Requests, HandleDeactivateNamespace(r)
    PROVE  RInv'
<1>0. /\ StoreShape /\ up /\ reloadMu = None /\ act.ns # None /\ act.status # None /\ DOMAIN act = NsFields
      /\ UNCHANGED <<wsRows, stored, curWs, up, reloadMu, req>>
      /\ sel' = [sel EXCEPT ![act.ws] = None] /\ act' = Cleared(act) /\ runs' = runs \ {Key(act)}
    BY DEF HandleDeactivateNamespace, Idle, IInv, Shape, RInv, ActiveOK, AfterShutdown
<1>1. act'.ws = act.ws /\ act'.ns = None /\ act'.status = None
    BY <1>0 DEF Cleared, NsFields
<1>2. runs' = {}
    BY <1>0 DEF RInv, RunsOK
<1>3. StoreShape'
    BY <1>0 DEF StoreShape
<1>4. ActiveOK' /\ RunsOK'
    BY <1>0, <1>1, <1>2 DEF ActiveOK, RunsOK, RInv, Switching
<1>5. ASSUME NEW q \in Requests PROVE RequestOK(q)'
  <2>1. RequestOK(q) /\ reloadMu # q
      BY <1>0, HolderFacts DEF RInv
  <2>2. ~Installing(q)' /\ ~Switching(q)'
      BY <1>0, <2>1, HolderFacts DEF Installing, Switching
  <2>3. DeleteOK(q) => DeleteOK(q)'
    <3>1. DeleteOK(q) => <<req[q].ws, req[q].ns>> # <<act'.ws, act'.ns>>
        BY <1>1 DEF DeleteOK, Distinct
    <3> QED
        BY <1>0, <2>1, <3>1 DEF DeleteOK, Key
  <2> QED
      BY <1>0, <1>1, <2>1, <2>2, <2>3 DEF RequestOK, Deletes, Cascades
<1>6. \A p, q \in Requests : NoClash(p, q)'
    BY <1>0 DEF RInv, NoClash, Activates, Cascades, Deletes
<1> QED
    BY <1>3, <1>4, <1>5, <1>6 DEF RInv

\* The runtime of the active namespace stops.
LEMMA StopsStoredOK ==
    ASSUME Distinct, IInv, RInv, HandleStopNamespace \/ StopEnds
    PROVE  RInv'
<1>1. /\ up /\ UNCHANGED <<wsRows, stored, curWs, sel, up, reloadMu, req>> /\ DOMAIN act = NsFields
      /\ runs' \subseteq runs /\ act.status # None
      /\ act' = [act EXCEPT !.status = "STOPPING"] \/ act' = [act EXCEPT !.status = "STOPPED"]
    BY DEF HandleStopNamespace, StopEnds, IInv, Shape, Distinct
<1>2. act'.ws = act.ws /\ act'.ns = act.ns /\ act'.status # None
    BY <1>1 DEF NsFields, Distinct
<1>3. \A q \in Requests : RequestOK(q)'
    BY <1>1, <1>2, OtherStill
<1>4. StoreShape' /\ \A p, q \in Requests : NoClash(p, q)'
    BY <1>1 DEF RInv, StoreShape, NoClash, Activates, Cascades, Deletes
<1>5. ActiveOK' /\ RunsOK'
    BY <1>1, <1>2 DEF RInv, ActiveOK, RunsOK, HasRow, Switching, Key
<1> QED
    BY <1>3, <1>4, <1>5 DEF RInv

\* A daemon starts with no request at work, and loads what is selected where it was.
LEMMA StartStoredOK ==
    ASSUME Distinct, IInv, RInv, Start
    PROVE  RInv'
<1> DEFINE t == StartupTarget
           loaded == LoadNamespace(t[1], t[2])
<1>1. /\ ~up /\ up' = TRUE /\ UNCHANGED <<wsRows, stored, curWs, sel, reloadMu, req>> /\ StoreShape
      /\ \A q \in Requests : req[q] = Free
    BY DEF Start, IInv, DownIsQuiet, RInv
<1>2. t = <<curWs, sel[curWs]>>
    BY <1>1 DEF StartupTarget, StoreShape
<1>3. \A k \in runs : k = t /\ HasRow(t[1], t[2])
    BY <1>1, <1>2 DEF RInv, RunsOK
<1>4. /\ act'.ws = curWs
      /\ \/ act'.ns = None /\ act'.status = None /\ runs' = {}
         \/ /\ act'.ns = sel[curWs] /\ act'.ns # None /\ act'.status # None
            /\ HasRow(curWs, sel[curWs]) /\ runs' \subseteq {t}
  <2>1. CASE loaded = None
    <3>1. act' = NoNamespace(t[1], t) /\ runs' = Swept(t)
        BY <2>1 DEF Start
    <3>2. ~HasRow(t[1], t[2])
        BY <2>1 DEF LoadNamespace, NsFields, Distinct
    <3> QED
        BY <1>2, <1>3, <3>1, <3>2 DEF NoNamespace, Swept
  <2>2. CASE loaded # None
    <3>1. HasRow(t[1], t[2])
        BY <2>2 DEF LoadNamespace
    <3>2. loaded.ws = t[1] /\ loaded.ns = t[2] /\ loaded.status = "STOPPED" /\ DOMAIN loaded = NsFields
        BY <2>2 DEF LoadNamespace, NsFields
    <3>3. \/ act' = loaded /\ runs' = Swept(t)
          \/ act' = [loaded EXCEPT !.status = "RUNNING"] /\ runs' = Swept(t) \cup {t}
        BY <2>2 DEF Start
    <3>4. runs' \subseteq {t}
        BY <1>3, <3>3 DEF Swept
    <3>5. t[2] # None
        BY <3>1, KeysAssumption DEF HasRow, Distinct
    <3> HIDE DEF loaded
    <3>6. act'.ws = t[1] /\ act'.ns = t[2] /\ act'.status # None
        BY <3>2, <3>3 DEF NsFields, Distinct
    <3> QED
        BY <1>2, <3>1, <3>4, <3>5, <3>6
  <2> QED
      BY <2>1, <2>2
<1>5. StoreShape'
    BY <1>1 DEF StoreShape
<1>6. ActiveOK'
  <2>1. act'.ns # None => HasRow(act'.ws, act'.ns) /\ sel[act'.ws] = act'.ns
      BY <1>4
  <2>2. act'.ns # None => (HasRow(act.ws, act.ns))'
      BY <1>1, <2>1 DEF HasRow
  <2> QED
      BY <1>1, <1>4, <2>1, <2>2 DEF ActiveOK
<1>7. RunsOK'
    BY <1>1, <1>2, <1>4 DEF RunsOK, Key
<1>8. \A q \in Requests : RequestOK(q)'
    BY <1>1 DEF RequestOK, Free, Switching, Installing, Deletes, Cascades, Distinct, Apart
<1>9. \A p, q \in Requests : NoClash(p, q)'
    BY <1>1 DEF NoClash, Free, Activates, Distinct, Apart
<1> QED
    BY <1>5, <1>6, <1>7, <1>8, <1>9 DEF RInv

\* A crash forgets all but the store and what runs, which agree.
LEMMA CrashStoredOK ==
    ASSUME Distinct, IInv, RInv, Crash
    PROVE  RInv'
<1>1. /\ up /\ up' = FALSE /\ UNCHANGED <<wsRows, stored, curWs, sel, runs>> /\ StoreShape
      /\ act'.ns = None /\ act'.status = None /\ \A q \in Requests : req'[q] = Free
    BY DEF Crash, store, NoNamespace, RInv
<1>2. \A k \in runs : k = <<curWs, sel[curWs]>> /\ HasRow(k[1], k[2])
  <2>1. CASE \E q \in Requests : Switching(q)
    <3>1. runs = {}
        BY <2>1 DEF RInv, RequestOK
    <3> QED
        BY <3>1
  <2>2. CASE \A q \in Requests : ~Switching(q)
    <3>1. curWs = act.ws /\ runs \subseteq {Key(act)} /\ (act.ns = None => runs = {})
        BY <1>1, <2>2 DEF RInv, ActiveOK, RunsOK
    <3>2. act.ns # None => HasRow(act.ws, act.ns) /\ sel[act.ws] = act.ns
        BY DEF RInv, ActiveOK
    <3> QED
        BY <3>1, <3>2 DEF Key
  <2> QED
      BY <2>1, <2>2
<1>3. RunsOK'
    BY <1>1, <1>2 DEF RunsOK, HasRow
<1>4. StoreShape' /\ ActiveOK'
    BY <1>1 DEF StoreShape, ActiveOK
<1>5. \A q \in Requests : RequestOK(q)'
    BY <1>1 DEF RequestOK, Free, Switching, Installing, Deletes, Cascades, Distinct, Apart
<1>6. \A p, q \in Requests : NoClash(p, q)'
    BY <1>1 DEF NoClash, Free, Activates, Distinct, Apart
<1> QED
    BY <1>3, <1>4, <1>5, <1>6 DEF RInv

\* Every step keeps the store, the memory and Docker together.
LEMMA StoredStepOK == Distinct /\ Unraced /\ IInv /\ RInv /\ [Next]_vars => RInv'
<1> SUFFICES ASSUME Distinct, Unraced, IInv, RInv, [Next]_vars PROVE RInv'
    OBVIOUS
<1>1. CASE Start
    BY <1>1, StartStoredOK
<1>2. CASE Crash
    BY <1>2, CrashStoredOK
<1>3. CASE HandleStopNamespace \/ StopEnds
    BY <1>3, StopsStoredOK
<1>4. ASSUME NEW r \in Requests,
             \/ Install(r) \/ HandleDeactivateNamespace(r) \/ CreateLook(r) \/ CreateLoad(r)
             \/ \E n \in NsIds : HandleActivateNamespace(r, n)
             \/ \E w \in Ws, n \in NsIds : CreateNamespace(r, w, n)
      PROVE  RInv'
    BY <1>4, InstallStoredOK, DeactivateStoredOK, CreateGoesOnOK, ActivateStoredOK, CreateStoredOK
<1>5. ASSUME NEW r \in Requests,
             \/ HandleReloadNamespace(r) \/ UpdateAndStart(r) \/ EditPersist(r) \/ ReloadCommit(r)
             \/ HandlePutConfig(r) \/ PutConfigPersist(r)
             \/ HandleSetAdminPassword(r) \/ RotateStore(r) \/ RotateMemory(r)
             \/ \E n \in NsIds : HandleNamespaceEdit(r, n)
      PROVE  RInv'
    BY <1>5, BeginsOK, PersistsOK
<1>6. ASSUME NEW r \in Requests,
             \/ DeleteTeardown(r) \/ DeleteRow(r) \/ DeletePurge(r) \/ DeleteWorkspaceRow(r)
             \/ \E n \in NsIds : HandleDeleteNamespace(r, n)
             \/ \E w \in Custom : HandleDeleteWorkspace(r, w)
      PROVE  RInv'
    BY <1>6, TeardownStoredOK, DeleteRowStoredOK, PurgeStoredOK, CascadeStoredOK, DeleteBeginsOK, CascadeBeginsOK
<1>7. ASSUME NEW r \in Requests,
             \/ SwitchPersist(r) \/ SwitchClear(r)
             \/ \E w \in Custom : HandleCreateWorkspace(r, w)
             \/ \E w \in Ws : SwitchWorkspace(r, w)
      PROVE  RInv'
    BY <1>7, SwitchPersistStoredOK, SwitchClearStoredOK, WorkspaceStoredOK, SwitchBeginsOK
<1>8. CASE UNCHANGED vars
    BY <1>8 DEF vars, RInv, StoreShape, ActiveOK, RunsOK, RequestOK, NoClash, DeleteOK, HasRow, Key,
                Switching, Installing, Activates, Deletes, Cascades
<1> QED
    BY <1>1, <1>2, <1>3, <1>4, <1>5, <1>6, <1>7, <1>8 DEF Next

\* The same for all the behaviours of a daemon without the three races.
LEMMA StoredInvariant == Distinct /\ Unraced => (Spec => [](IInv /\ RInv))
<1> SUFFICES ASSUME Distinct, Unraced PROVE Spec => [](IInv /\ RInv)
    OBVIOUS
<1>1. Init => IInv
    BY DEF Init, NoNamespace, Free, NsFields, LoadedFor, IInv, Shape, InstallsHere, Installing, Switching,
           DownIsQuiet, DockerScoped, Key, Distinct, Apart
<1>2. Init => RInv
  <2> SUFFICES ASSUME Init PROVE RInv
      OBVIOUS
  <2>1. StoreShape /\ ActiveOK /\ RunsOK
      BY DEF Init, NoNamespace, StoreShape, ActiveOK, RunsOK, Distinct, Ws
  <2>2. \A q \in Requests : req[q] = Free
      BY DEF Init
  <2>3. \A q \in Requests : RequestOK(q)
      BY <2>2 DEF RequestOK, Free, Switching, Installing, Deletes, Cascades, Distinct, Apart
  <2>4. \A p, q \in Requests : NoClash(p, q)
      BY <2>2 DEF NoClash, Free, Activates, Distinct, Apart
  <2> QED
      BY <2>1, <2>3, <2>4 DEF RInv
<1>3. IInv /\ RInv /\ [Next]_vars => (IInv /\ RInv)'
    BY StepOK, StoredStepOK DEF Distinct, Unraced
<1> QED
    BY <1>1, <1>2, <1>3, PTL DEF Spec

\* A restart of the daemon finds what was active: it has its row, and it is the one
\* selected in the workspace that is current, whatever is created, activated,
\* edited, switched and deleted, and wherever the daemon crashes; while no creation
\* activates what it looked at before it took reloadMu, nothing is deleted while
\* it is being activated, and a switch of workspaces has its client of Docker.
THEOREM RestartFinds == Distinct /\ Unraced => (Spec => []RestartFindsActive)
<1> SUFFICES ASSUME Distinct, Unraced PROVE Spec => []RestartFindsActive
    OBVIOUS
<1>1. IInv /\ RInv => RestartFindsActive
  <2> SUFFICES ASSUME IInv, RInv PROVE RestartFindsActive
      OBVIOUS
  <2>1. ActiveIsStored
      BY DEF RInv, ActiveOK, ActiveIsStored, HasRow, Key
  <2>2. SelectionAgrees
      BY HolderFacts DEF RInv, ActiveOK, SelectionAgrees
  <2> QED
      BY <2>1, <2>2 DEF RestartFindsActive
<1> QED
    BY <1>1, StoredInvariant, PTL

\* Containers run for the active namespace and for no other, so that none is left
\* where the daemon would not look for it, through the same requests and crashes.
THEOREM RunsAreSeen == Distinct /\ Unraced => (Spec => []NothingRunsUnseen)
<1> SUFFICES ASSUME Distinct, Unraced PROVE Spec => []NothingRunsUnseen
    OBVIOUS
<1>1. IInv /\ RInv => NothingRunsUnseen
    BY DEF RInv, RunsOK, NothingRunsUnseen
<1> QED
    BY <1>1, StoredInvariant, PTL

-----------------------------------------------------------------------------
(* The rotation of the administrator's password lands on what is active,    *)
(* when nothing is on its way to be activated meanwhile.                    *)

Rotates(r) == req[r].op = "rotate"
InMemory(r) == Rotates(r) /\ req[r].pc = "memory"

PInv ==
  /\ \A r, q \in Requests : Rotates(r) => /\ ~Installing(q) /\ req[q].op \notin {"activate", "switch"}
                                          /\ Rotates(q) => q = r
  /\ \A r \in Requests : InMemory(r) => password = req[r].got
  /\ (\A r \in Requests : ~InMemory(r)) /\ act.ns # None => act.pw = password
  /\ \A r \in Requests : Installing(r) => req[r].got.pw = password

\* A step of a request that has no part in the rotation, and activates nothing.
LEMMA PasswordStill ==
    ASSUME Distinct, PInv, NEW r \in Requests, \A q \in Requests : q # r => req'[q] = req[q],
           password' = password, act'.ns # None => act.ns # None /\ act'.pw = act.pw,
           ~InMemory(r), ~InMemory(r)', ~Installing(r)',
           req'[r].op = req[r].op \/ req'[r].op \notin {"rotate", "activate", "switch"}
    PROVE  PInv'
<1>1. \A q \in Requests : q # r => /\ (InMemory(q)' <=> InMemory(q)) /\ (Installing(q)' <=> Installing(q))
                                   /\ (Rotates(q)' <=> Rotates(q))
    BY DEF InMemory, Installing, Rotates
<1>2. Rotates(r)' => Rotates(r)
    BY DEF Rotates
<1>3. \A p, q \in Requests : Rotates(p)' => /\ ~Installing(q)' /\ req'[q].op \notin {"activate", "switch"}
                                            /\ Rotates(q)' => q = p
  <2> SUFFICES ASSUME NEW p \in Requests, NEW q \in Requests, Rotates(p)'
               PROVE  ~Installing(q)' /\ req'[q].op \notin {"activate", "switch"} /\ (Rotates(q)' => q = p)
      OBVIOUS
  <2>1. Rotates(p)
      BY <1>1, <1>2
  <2>2. ~Installing(q) /\ req[q].op \notin {"activate", "switch"} /\ (Rotates(q) => q = p)
      BY <2>1 DEF PInv
  <2> QED
      BY <1>1, <1>2, <2>2
<1>4. \A q \in Requests : InMemory(q)' => password' = req'[q].got
    BY <1>1 DEF PInv
<1>5. (\A q \in Requests : ~InMemory(q)') /\ act'.ns # None => act'.pw = password'
    BY <1>1 DEF PInv
<1>6. \A q \in Requests : Installing(q)' => req'[q].got.pw = password'
    BY <1>1 DEF PInv
<1> QED
    BY <1>3, <1>4, <1>5, <1>6 DEF PInv

\* What is loaded while nobody rotates has the password of the store.
LEMMA PasswordLoaded ==
    ASSUME PInv, NEW r \in Requests, \A q \in Requests : q # r => req'[q] = req[q],
           password' = password, act'.ns # None => act.ns # None /\ act'.pw = act.pw,
           \A q \in Requests : ~Rotates(q), ~Rotates(r)', Installing(r)' => req'[r].got.pw = password
    PROVE  PInv'
<1>1. \A q \in Requests : ~Rotates(q)' /\ ~InMemory(q)' /\ ~InMemory(q)
    BY DEF Rotates, InMemory
<1>2. \A q \in Requests : q # r => (Installing(q)' <=> Installing(q))
    BY DEF Installing
<1>3. (\A q \in Requests : ~InMemory(q)') /\ act'.ns # None => act'.pw = password'
    BY <1>1 DEF PInv
<1>4. \A q \in Requests : Installing(q)' => req'[q].got.pw = password'
    BY <1>2 DEF PInv
<1> QED
    BY <1>1, <1>3, <1>4 DEF PInv

\* A load reads the password.
LEMMA LoadsPassword ==
    ASSUME NEW w, NEW n, LoadNamespace(w, n) # None
    PROVE  LoadNamespace(w, n).pw = password
BY DEF LoadNamespace

\* The steps that load, or will.
LEMMA ActivationsOK ==
    ASSUME Distinct, ~RotateUnlocked, IInv, PInv, NEW r \in Requests,
           \/ CreateLoad(r) \/ SwitchClear(r)
           \/ \E n \in NsIds : HandleActivateNamespace(r, n)
           \/ \E w \in Ws : SwitchWorkspace(r, w)
    PROVE  PInv'
<1>0. Shape /\ DOMAIN act = NsFields
    BY DEF IInv, Shape
<1>1. CASE CreateLoad(r)
  <2> DEFINE loaded == LoadNamespace(req[r].ws, req[r].ns)
  <2>1. req[r].op = "create" /\ UNCHANGED <<password, act>>
      BY <1>1 DEF CreateLoad, At, store
  <2>2. CASE End(r)
    <3>1. /\ \A q \in Requests : q # r => req'[q] = req[q]
          /\ ~InMemory(r) /\ ~InMemory(r)' /\ ~Installing(r)' /\ req'[r].op \notin {"rotate", "activate", "switch"}
        BY <1>0, <2>1, <2>2, EndFacts DEF InMemory, Rotates, Installing, Distinct, Apart
    <3> QED
        BY <2>1, <3>1, PasswordStill
  <2>3. CASE ~End(r)
    <3>1. Step(r, "install", loaded) /\ loaded # None /\ ~Rotating
        BY <1>1, <2>3 DEF CreateLoad
    <3>2. loaded.pw = password
        BY <3>1, LoadsPassword
    <3> HIDE DEF loaded
    <3>3. /\ \A q \in Requests : q # r => req'[q] = req[q]
          /\ ~Rotates(r)' /\ req'[r].got.pw = password
        BY <1>0, <2>1, <3>1, <3>2, StepFacts DEF Rotates
    <3>4. \A q \in Requests : ~Rotates(q)
        BY <3>1 DEF Rotating, Rotates
    <3> QED
        BY <2>1, <3>3, <3>4, PasswordLoaded
  <2> QED
      BY <2>2, <2>3
<1>2. CASE SwitchClear(r)
  <2> DEFINE loaded == LoadNamespace(req[r].ws, req[r].ns)
  <2>1. /\ req[r].op = "switch" /\ password' = password
        /\ \/ act' = act
           \/ act' = [Cleared(act) EXCEPT !.ws = req[r].ws, !.docker = <<req[r].ws, req[r].ns>>]
        /\ End(r) \/ (Step(r, "install", loaded) /\ loaded # None)
      BY <1>2 DEF SwitchClear, At, store
  <2>2. loaded # None => loaded.pw = password
      BY LoadsPassword
  <2> HIDE DEF loaded
  <2>3. act'.ns # None => act.ns # None /\ act'.pw = act.pw
      BY <1>0, <2>1 DEF Cleared, NsFields
  <2>4. \A q \in Requests : ~Rotates(q)
      BY <2>1 DEF PInv
  <2>5. /\ \A q \in Requests : q # r => req'[q] = req[q]
        /\ ~Rotates(r)' /\ (Installing(r)' => req'[r].got.pw = password)
    <3>1. CASE End(r)
        BY <1>0, <3>1, EndFacts DEF Rotates, Installing, Distinct, Apart
    <3>2. CASE Step(r, "install", loaded) /\ loaded # None
        BY <1>0, <2>1, <2>2, <3>2, StepFacts DEF Rotates
    <3> QED
        BY <2>1, <3>1, <3>2
  <2> QED
      BY <2>1, <2>3, <2>4, <2>5, PasswordLoaded
<1>3. ASSUME NEW n \in NsIds, HandleActivateNamespace(r, n) PROVE PInv'
  <2> DEFINE loaded == LoadNamespace(act.ws, n)
  <2>1. /\ Begin(r, "activate", "install", act.ws, n, loaded) /\ HasRow(act.ws, n) /\ ~Rotating
        /\ UNCHANGED <<password, act>>
      BY <1>3 DEF HandleActivateNamespace, store
  <2>2. loaded.pw = password
      BY <2>1 DEF LoadNamespace
  <2> HIDE DEF loaded
  <2>3. /\ \A q \in Requests : q # r => req'[q] = req[q]
        /\ ~Rotates(r)' /\ req'[r].got.pw = password
      BY <1>0, <2>1, <2>2, BeginFacts DEF Rotates
  <2>4. \A q \in Requests : ~Rotates(q)
      BY <2>1 DEF Rotating, Rotates
  <2> QED
      BY <2>1, <2>3, <2>4, PasswordLoaded
<1>4. ASSUME NEW w \in Ws, SwitchWorkspace(r, w) PROVE PInv'
  <2>1. Begin(r, "switch", "lock", w, None, None) /\ ~Rotating /\ UNCHANGED <<password, act>>
      BY <1>4 DEF SwitchWorkspace, store
  <2>2. /\ \A q \in Requests : q # r => req'[q] = req[q]
        /\ ~Rotates(r)' /\ ~Installing(r)'
      BY <1>0, <2>1, BeginFacts DEF Rotates, Installing
  <2>3. \A q \in Requests : ~Rotates(q)
      BY <2>1 DEF Rotating, Rotates
  <2> QED
      BY <2>1, <2>2, <2>3, PasswordLoaded
<1> QED
    BY <1>1, <1>2, <1>3, <1>4

\* The rotation itself: the store, then the memory.
LEMMA RotationOK ==
    ASSUME Distinct, ~RotateUnlocked, IInv, PInv, NEW r \in Requests,
           HandleSetAdminPassword(r) \/ RotateStore(r) \/ RotateMemory(r)
    PROVE  PInv'
<1>0. Shape /\ DOMAIN act = NsFields
    BY DEF IInv, Shape
<1>1. CASE HandleSetAdminPassword(r)
  <2>1. /\ \A q \in Requests : req[q].op \notin {"activate", "create", "switch", "rotate"}
        /\ Begin(r, "rotate", "store", None, None, password + 1) /\ UNCHANGED <<password, act>>
      BY <1>1 DEF HandleSetAdminPassword, store
  <2>2. /\ \A q \in Requests : q # r => req'[q] = req[q]
        /\ req'[r].op = "rotate" /\ req'[r].pc = "store"
      BY <1>0, <2>1, BeginFacts
  <2>3. \A q \in Requests : ~Installing(q)' /\ ~InMemory(q)' /\ req'[q].op \notin {"activate", "switch"}
                            /\ ~InMemory(q) /\ (Rotates(q)' => q = r)
      BY <2>1, <2>2 DEF Installing, InMemory, Rotates
  <2> QED
      BY <2>1, <2>3 DEF PInv
<1>2. CASE RotateStore(r)
  <2>1. Rotates(r) /\ Step(r, "memory", req[r].got) /\ password' = req[r].got /\ act' = act
      BY <1>2 DEF RotateStore, At, Rotates
  <2>2. /\ \A q \in Requests : q # r => req'[q] = req[q]
        /\ req'[r].op = "rotate" /\ req'[r].pc = "memory" /\ req'[r].got = req[r].got
      BY <1>0, <2>1, StepFacts DEF Rotates
  <2>3. \A q \in Requests : ~Installing(q) /\ req[q].op \notin {"activate", "switch"} /\ (Rotates(q) => q = r)
      BY <2>1 DEF PInv
  <2>4. \A q \in Requests : ~Installing(q)' /\ req'[q].op \notin {"activate", "switch"} /\ (Rotates(q)' => q = r)
      BY <2>2, <2>3 DEF Installing, Rotates
  <2>5. InMemory(r)' /\ \A q \in Requests : InMemory(q)' => q = r
      BY <2>2, <2>4 DEF InMemory, Rotates
  <2> QED
      BY <2>1, <2>2, <2>4, <2>5 DEF PInv
<1>3. CASE RotateMemory(r)
  <2>1. InMemory(r) /\ End(r) /\ password' = password /\ act' = [act EXCEPT !.pw = req[r].got]
      BY <1>3 DEF RotateMemory, At, InMemory, Rotates, store
  <2>2. /\ \A q \in Requests : q # r => req'[q] = req[q]
        /\ req'[r].op = None
      BY <1>0, <2>1, EndFacts
  <2>3. \A q \in Requests : ~Installing(q) /\ req[q].op \notin {"activate", "switch"} /\ (Rotates(q) => q = r)
      BY <2>1 DEF PInv, InMemory
  <2>4. \A q \in Requests : ~Installing(q)' /\ ~Rotates(q)' /\ ~InMemory(q)'
      BY <2>2, <2>3 DEF Installing, Rotates, InMemory, Distinct, Apart
  <2>5. act'.pw = password
      BY <1>0, <2>1 DEF NsFields, PInv
  <2> QED
      BY <2>1, <2>4, <2>5 DEF PInv
<1> QED
    BY <1>1, <1>2, <1>3

\* What was loaded with the password that is still the one is active with it.
LEMMA InstallPasswordOK ==
    ASSUME Distinct, IInv, PInv, NEW r \in Requests, Install(r)
    PROVE  PInv'
<1>1. /\ Installing(r) /\ End(r) /\ Shape /\ password' = password
      /\ act' = [req[r].got EXCEPT !.ws = act.ws] /\ LoadedFor(req[r].got, req[r].ws, req[r].ns)
    BY DEF Install, At, Installing, InstallLoadedNamespace, IInv, InstallsHere
<1>2. act'.pw = password /\ \A q \in Requests : ~Rotates(q)
    BY <1>1 DEF LoadedFor, NsFields, PInv
<1>3. (\A q \in Requests : q # r => req'[q] = req[q]) /\ req'[r].op = None
    BY <1>1, EndFacts
<1>4. \A q \in Requests : ~Rotates(q)' /\ ~InMemory(q)' /\ (Installing(q)' => Installing(q) /\ req'[q] = req[q])
    BY <1>2, <1>3 DEF Rotates, InMemory, Installing, Distinct, Apart
<1> QED
    BY <1>1, <1>2, <1>4 DEF PInv

\* The other requests: they neither load nor rotate.
LEMMA BystandersOK ==
    ASSUME Distinct, IInv, PInv, NEW r \in Requests,
           \/ CreateLook(r) \/ HandleReloadNamespace(r) \/ UpdateAndStart(r) \/ EditPersist(r) \/ ReloadCommit(r)
           \/ HandlePutConfig(r) \/ PutConfigPersist(r) \/ DeleteTeardown(r) \/ DeleteRow(r) \/ DeletePurge(r)
           \/ DeleteWorkspaceRow(r) \/ SwitchPersist(r)
           \/ \E n \in NsIds : HandleNamespaceEdit(r, n) \/ HandleDeleteNamespace(r, n)
           \/ \E w \in Ws, n \in NsIds : CreateNamespace(r, w, n)
           \/ \E w \in Custom : HandleDeleteWorkspace(r, w)
    PROVE  PInv'
<1>0. Shape /\ DOMAIN act = NsFields
    BY DEF IInv, Shape
<1>1. password' = password
    BY DEF CreateLook, HandleReloadNamespace, UpdateAndStart, EditPersist, ReloadCommit, HandlePutConfig,
           PutConfigPersist, DeleteTeardown, DeleteRow, DeletePurge, DeleteWorkspaceRow, SwitchPersist,
           HandleNamespaceEdit, HandleDeleteNamespace, CreateNamespace, HandleDeleteWorkspace, store
<1>2. act'.ns # None => act.ns # None /\ act'.pw = act.pw
  <2>1. CASE ReloadCommit(r)
    <3>1. \/ act' = act
          \/ act' = [act EXCEPT !.ver = req[r].got.ver, !.defs = req[r].got.ver, !.status = "RUNNING"]
          \/ act' = [act EXCEPT !.ver = req[r].got.ver, !.defs = req[r].got.ver]
        BY <2>1 DEF ReloadCommit
    <3> QED
        BY <1>0, <3>1 DEF NsFields
  <2>2. CASE DeleteTeardown(r)
    <3>1. act' = act \/ act' = Cleared(act)
        BY <2>2 DEF DeleteTeardown
    <3> QED
        BY <1>0, <3>1 DEF Cleared, NsFields
  <2>3. CASE ~ReloadCommit(r) /\ ~DeleteTeardown(r)
    <3>1. act' = act
        BY <2>3 DEF CreateLook, HandleReloadNamespace, UpdateAndStart, EditPersist, HandlePutConfig,
               PutConfigPersist, DeleteRow, DeletePurge, DeleteWorkspaceRow, SwitchPersist,
               HandleNamespaceEdit, HandleDeleteNamespace, CreateNamespace, HandleDeleteWorkspace
    <3> QED
        BY <3>1
  <2> QED
      BY <2>1, <2>2, <2>3
<1>3. ~Rotates(r)
  <2>1. CASE Idle(r)
      BY <2>1 DEF Idle, Free, Rotates, Distinct
  <2>2. CASE ~Idle(r)
    <3>1. \/ CreateLook(r) \/ EditPersist(r) \/ ReloadCommit(r) \/ PutConfigPersist(r) \/ DeleteTeardown(r)
          \/ DeleteRow(r) \/ DeletePurge(r) \/ DeleteWorkspaceRow(r) \/ SwitchPersist(r)
        BY <2>2 DEF HandleReloadNamespace, UpdateAndStart, HandlePutConfig, HandleNamespaceEdit,
                    HandleDeleteNamespace, CreateNamespace, HandleDeleteWorkspace
    <3> QED
        BY <3>1 DEF CreateLook, EditPersist, ReloadCommit, PutConfigPersist, DeleteTeardown, DeleteRow,
                    DeletePurge, DeleteWorkspaceRow, SwitchPersist, At, Rotates
  <2> QED
      BY <2>1, <2>2
<1>4. \/ End(r)
      \/ \E pc \in {"load", "row", "purge"} : \E got : Step(r, pc, got)
      \/ \E op \in {"reload", "start", "edit", "putconfig", "create", "delete", "deletews"},
            pc \in {"commit", "persist", "look", "teardown", "row"} : \E w, n, got : Begin(r, op, pc, w, n, got)
      \/ \E got : req' = [req EXCEPT ![r].op = "reload", ![r].pc = "commit", ![r].got = got]
      \/ \E n : req' = [req EXCEPT ![r].pc = "client", ![r].ns = n]
  <2>1. CASE CreateLook(r) \/ ReloadCommit(r) \/ PutConfigPersist(r) \/ DeletePurge(r) \/ DeleteWorkspaceRow(r)
      BY <2>1 DEF CreateLook, ReloadCommit, PutConfigPersist, DeletePurge, DeleteWorkspaceRow
  <2>2. CASE EditPersist(r) \/ SwitchPersist(r)
      BY <2>2 DEF EditPersist, SwitchPersist
  <2>3. CASE DeleteTeardown(r) \/ DeleteRow(r)
      BY <2>3 DEF DeleteTeardown, DeleteRow
  <2>4. CASE HandleReloadNamespace(r) \/ UpdateAndStart(r) \/ HandlePutConfig(r)
      BY <2>4 DEF HandleReloadNamespace, UpdateAndStart, HandlePutConfig
  <2>5. ASSUME NEW n \in NsIds, HandleNamespaceEdit(r, n) \/ HandleDeleteNamespace(r, n)
        PROVE  \E op \in {"edit", "delete"}, pc \in {"persist", "teardown"} : \E w, got : Begin(r, op, pc, w, n, got)
      BY <2>5 DEF HandleNamespaceEdit, HandleDeleteNamespace
  <2>6. ASSUME NEW w \in Ws, NEW n \in NsIds, CreateNamespace(r, w, n)
        PROVE  Begin(r, "create", "look", w, n, None)
      BY <2>6 DEF CreateNamespace
  <2>7. ASSUME NEW w \in Custom, HandleDeleteWorkspace(r, w)
        PROVE  Begin(r, "deletews", "row", w, None, None)
      BY <2>7 DEF HandleDeleteWorkspace
  <2> QED
      BY <2>1, <2>2, <2>3, <2>4, <2>5, <2>6, <2>7
<1>5. /\ \A q \in Requests : q # r => req'[q] = req[q]
      /\ req'[r].op = req[r].op \/ req'[r].op \notin {"rotate", "activate", "switch"}
      /\ req'[r].pc # "install"
  <2>1. CASE End(r)
      BY <1>0, <2>1, EndFacts DEF Distinct, Apart
  <2>2. CASE \E pc \in {"load", "row", "purge"} : \E got : Step(r, pc, got)
      BY <1>0, <2>2, StepFacts
  <2>3. CASE \E op \in {"reload", "start", "edit", "putconfig", "create", "delete", "deletews"},
               pc \in {"commit", "persist", "look", "teardown", "row"} : \E w, n, got : Begin(r, op, pc, w, n, got)
      BY <1>0, <2>3, BeginFacts
  <2>4. CASE \/ \E got : req' = [req EXCEPT ![r].op = "reload", ![r].pc = "commit", ![r].got = got]
             \/ \E n : req' = [req EXCEPT ![r].pc = "client", ![r].ns = n]
      BY <1>0, <2>4 DEF Shape
  <2> QED
      BY <1>4, <2>1, <2>2, <2>3, <2>4
<1>6. req'[r].op = "rotate" => req[r].op = "rotate"
    BY <1>5
<1> QED
    BY <1>1, <1>2, <1>3, <1>5, <1>6, PasswordStill DEF InMemory, Installing, Rotates

\* Every step keeps the password of what is active.
LEMMA PasswordStepOK == Distinct /\ ~RotateUnlocked /\ IInv /\ PInv /\ [Next]_vars => PInv'
<1> SUFFICES ASSUME Distinct, ~RotateUnlocked, IInv, PInv, [Next]_vars PROVE PInv'
    OBVIOUS
<1>0. DOMAIN act = NsFields
    BY DEF IInv, Shape
<1>1. ASSUME \A q \in Requests : req'[q] = req[q], password' = password,
             act'.ns # None => act.ns # None /\ act'.pw = act.pw
      PROVE  PInv'
    BY <1>1 DEF PInv, Rotates, InMemory, Installing
<1>2. CASE Start
  <2>1. password' = password /\ \A q \in Requests : req'[q] = Free
      BY <1>2 DEF Start, IInv, DownIsQuiet
  <2>2. act'.ns # None => act'.pw = password
    <3> DEFINE t == StartupTarget
               loaded == LoadNamespace(t[1], t[2])
    <3>1. CASE loaded = None
        BY <1>2, <3>1 DEF Start, NoNamespace
    <3>2. CASE loaded # None
      <4>1. loaded.pw = password /\ DOMAIN loaded = NsFields
          BY <3>2, LoadsPassword, LoadFacts DEF LoadedFor
      <4>2. act' = loaded \/ act' = [loaded EXCEPT !.status = "RUNNING"]
          BY <1>2, <3>2 DEF Start
      <4> HIDE DEF loaded
      <4> QED
          BY <4>1, <4>2 DEF NsFields
    <3> QED
        BY <3>1, <3>2
  <2>3. \A q \in Requests : ~Rotates(q)' /\ ~InMemory(q)' /\ ~Installing(q)'
      BY <2>1 DEF Rotates, InMemory, Installing, Free, Distinct, Apart
  <2> QED
      BY <2>1, <2>2, <2>3 DEF PInv
<1>3. CASE Crash
  <2>1. act'.ns = None /\ \A q \in Requests : req'[q] = Free
      BY <1>3 DEF Crash, NoNamespace
  <2>2. \A q \in Requests : ~Rotates(q)' /\ ~InMemory(q)' /\ ~Installing(q)'
      BY <2>1 DEF Rotates, InMemory, Installing, Free, Distinct, Apart
  <2> QED
      BY <2>1, <2>2 DEF PInv
<1>4. CASE HandleStopNamespace \/ StopEnds
  <2>1. UNCHANGED <<req, password>> /\ (act' = [act EXCEPT !.status = "STOPPING"] \/ act' = [act EXCEPT !.status = "STOPPED"])
      BY <1>4 DEF HandleStopNamespace, StopEnds
  <2> QED
      BY <1>0, <1>1, <2>1 DEF NsFields
<1>5. ASSUME NEW r \in Requests, HandleDeactivateNamespace(r) PROVE PInv'
  <2>1. UNCHANGED <<req, password>> /\ act' = Cleared(act)
      BY <1>5 DEF HandleDeactivateNamespace
  <2> QED
      BY <1>0, <1>1, <2>1 DEF Cleared, NsFields
<1>6. ASSUME NEW r \in Requests, NEW w \in Custom, HandleCreateWorkspace(r, w) PROVE PInv'
    BY <1>1, <1>6 DEF HandleCreateWorkspace
<1>7. CASE UNCHANGED vars
    BY <1>1, <1>7 DEF vars
<1> QED
    BY <1>2, <1>3, <1>4, <1>5, <1>6, <1>7, ActivationsOK, RotationOK, InstallPasswordOK, BystandersOK DEF Next

\* "The rotation always lands on the live struct": once no request is at work the
\* active namespace knows the administrator's password that the store holds, when
\* neither an activation nor a switch comes between its two writes.
THEOREM RotationIsKnown ==
    Distinct /\ ~StaleCreate /\ ~RotateUnlocked => (Spec => []MemoryHasPassword)
<1> SUFFICES ASSUME Distinct, ~StaleCreate, ~RotateUnlocked PROVE Spec => []MemoryHasPassword
    OBVIOUS
<1>1. Init => IInv
    BY DEF Init, NoNamespace, Free, NsFields, LoadedFor, IInv, Shape, InstallsHere, Installing, Switching,
           DownIsQuiet, DockerScoped, Key, Distinct, Apart
<1>2. Init => PInv
    BY DEF Init, NoNamespace, Free, PInv, Installing, Rotates, InMemory, Distinct, Apart
<1>3. IInv /\ PInv /\ [Next]_vars => (IInv /\ PInv)'
    BY StepOK, PasswordStepOK DEF Distinct
<1>4. PInv => MemoryHasPassword
    BY DEF PInv, MemoryHasPassword, Quiet, Free, InMemory, Rotates, Distinct
<1> QED
    BY <1>1, <1>2, <1>3, <1>4, PTL DEF Spec
=============================================================================
