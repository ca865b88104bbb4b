----------------------------- MODULE Generator -----------------------------
(***************************************************************************)
(* Generate: the applications of a namespace, their dependencies and host  *)
(* ports, made generator by generator into one map, pruned, patched by the *)
(* operator's edits.  Images, environments, probes and files are left out. *)
(*                                                                         *)
(* An application is [deps, ports]; the map is a function of its name.     *)
(***************************************************************************)
EXTENDS Integers, Functions

CONSTANTS
  Webapps,       \* webapps beside "gateway", "ai", "emodel": strings
  Extras,        \* names of additional applications: strings
  ExtraNeeds,    \* what an additional application may depend on
  Configs        \* the configurations to generate: some of AllConfigs

VARIABLES
  cfg,           \* the namespace, workspace and bundle: what generators ask
  phase,         \* the next generator
  apps,          \* ctx.Applications
  port,          \* ctx.portsCounter
  todo           \* webapps, then additional applications, that are left

vars == <<cfg, phase, apps, port, todo>>

Bundled == Webapps \cup {"gateway", "ai", "emodel"}
Detachable == {"ai", "onlyoffice", "alfresco"}

AllConfigs ==
  [desktop : BOOLEAN, keycloak : BOOLEAN, email : BOOLEAN, alfresco : BOOLEAN, observer : BOOLEAN,
   sttImage : BOOLEAN, bundle : SUBSET Bundled, detached : SUBSET Detachable,
   extras : [Extras -> SUBSET ExtraNeeds]]

App(deps, ports) == [deps |-> deps, ports |-> ports]
Has(name) == name \in DOMAIN apps
Goto(p) == phase' = p /\ UNCHANGED cfg

\* GetOrCreateApp, filled: what is there keeps its dependencies and ports.
Put(m, name, app) ==
  [n \in DOMAIN m \cup {name} |->
     IF n # name THEN m[n]
     ELSE IF n \in DOMAIN m THEN App(m[n].deps \cup app.deps, m[n].ports \cup app.ports) ELSE app]

Init == cfg \in Configs \cap AllConfigs /\ phase = "infra" /\ apps = <<>> /\ port = 17020 /\ todo = {}

-----------------------------------------------------------------------------
GenerateMailpit(m) == IF cfg.email THEN m ELSE Put(m, "mailpit", App({}, {1025, 8025}))
GenerateMongoDB(m) == Put(m, "mongo", App({}, {27017}))
GeneratePgAdmin(m) == IF cfg.desktop THEN Put(m, "pgadmin", App({}, {5050})) ELSE m
GeneratePostgres(m) == Put(m, "postgres", App({}, {14523}))
GenerateZookeeper(m) == Put(m, "zookeeper", App({}, {2181, 17018}))
GenerateRabbitMQ(m) == Put(m, "rabbitmq", App({}, {5672, 15672}))

GenerateInfra ==
  /\ phase = "infra" /\ Goto("keycloak")
  /\ apps' = GenerateRabbitMQ(GenerateZookeeper(GeneratePostgres(GeneratePgAdmin(
               GenerateMongoDB(GenerateMailpit(apps))))))
  /\ UNCHANGED <<port, todo>>

GenerateKeycloak ==
  /\ phase = "keycloak" /\ Goto("alfresco")
  /\ apps' = IF cfg.keycloak THEN Put(apps, "keycloak", App({"postgres"}, {17013})) ELSE apps
  /\ UNCHANGED <<port, todo>>

GenerateAlfresco ==
  /\ phase = "alfresco" /\ Goto("observer")
  /\ apps' = IF ~cfg.alfresco THEN apps
             ELSE Put(Put(Put(apps, "alf-postgres", App({}, {54329})),
                          "alfresco", App({"alf-postgres"}, {17019})),
                      "alf-solr", App({}, {38080}))
  /\ UNCHANGED <<port, todo>>

GenerateObserver ==
  /\ phase = "observer" /\ Goto("webapps")
  /\ apps' = IF ~cfg.observer THEN apps
             ELSE Put(Put(apps, "obs-postgres", App({}, {14524})),
                      "observer", App({"obs-postgres", "zookeeper"}, {17014, 17015, 17016, 17017}))
  /\ todo' = cfg.bundle /\ UNCHANGED port

\* Each data source adds the database it is in.
ProcessWebappDataSources == {"postgres"} \cup {"mongo"}

\* One after another, in one order of the names, each with the next free port.
GenerateWebapp(name) ==
  /\ phase = "webapps" /\ todo # {} /\ name = (CHOOSE n \in todo : TRUE) /\ todo' = todo \ {name}
  /\ apps' = Put(apps, name, App({"zookeeper", "rabbitmq"} \cup ProcessWebappDataSources
                                   \cup {d \in {"keycloak"} : name = "emodel" /\ Has(d)}, {port}))
  /\ port' = port + 1 /\ UNCHANGED <<cfg, phase>>
WebappsDone ==
  /\ phase = "webapps" /\ todo = {} /\ Goto("sttSidecar") /\ UNCHANGED <<apps, port, todo>>

\* The sidecar comes with its client, and the client waits for it.
GenerateSttSidecar ==
  /\ phase = "sttSidecar" /\ Goto("additional")
  /\ apps' = IF ~Has("ai") \/ "ai" \in cfg.detached \/ ~cfg.sttImage THEN apps
             ELSE Put(Put(apps, "stt-sidecar", App({}, {14080})), "ai", App({"stt-sidecar"}, {}))
  /\ todo' = Extras /\ UNCHANGED port

\* A name that is taken is skipped.
GenerateAdditionalApps(name) ==
  /\ phase = "additional" /\ name \in todo /\ todo' = todo \ {name}
  /\ apps' = IF Has(name) THEN apps ELSE Put(apps, name, App(cfg.extras[name], {}))
  /\ UNCHANGED <<cfg, phase, port>>
AdditionalDone ==
  /\ phase = "additional" /\ todo = {} /\ Goto("proxy") /\ UNCHANGED <<apps, port, todo>>

\* The proxy waits for what it routes to and would not resolve otherwise.
AllTargets == {"gateway", "onlyoffice", "ai", "alfresco", "keycloak"} \ cfg.detached
ProxyTargets ==
  {"gateway"} \cup ({"onlyoffice"} \ cfg.detached)
    \cup {t \in {"ai", "alfresco"} \ cfg.detached : Has(t)}
    \cup {t \in {"keycloak"} : Has(t)}
GenerateProxy ==
  /\ phase = "proxy" /\ Goto("onlyoffice")
  /\ apps' = Put(apps, "proxy", App(ProxyTargets, {80}))
  /\ UNCHANGED <<port, todo>>

GenerateOnlyOffice ==
  /\ phase = "onlyoffice" /\ Goto("prune")
  /\ apps' = Put(apps, "onlyoffice", App({}, {8070}))
  /\ UNCHANGED <<port, todo>>

\* pruneAppsWithMissingDeps removes one application after another, in the
\* order of a map.
Incomplete(m) == {n \in DOMAIN m : ~(m[n].deps \subseteq DOMAIN m)}
PruneAppsWithMissingDeps(name) ==
  /\ phase = "prune" /\ name \in Incomplete(apps)
  /\ apps' = Restrict(apps, DOMAIN apps \ {name})
  /\ UNCHANGED <<cfg, phase, port, todo>>
\* Then, on a server, only the proxy keeps its ports.
Pruned ==
  /\ phase = "prune" /\ Incomplete(apps) = {} /\ Goto("done")
  /\ apps' = [n \in DOMAIN apps |->
                IF cfg.desktop \/ n = "proxy" THEN apps[n] ELSE App(apps[n].deps, {})]
  /\ UNCHANGED <<port, todo>>

Next ==
  \/ GenerateInfra \/ GenerateKeycloak \/ GenerateAlfresco \/ GenerateObserver
  \/ \E n \in Bundled : GenerateWebapp(n)
  \/ WebappsDone \/ GenerateSttSidecar
  \/ \E n \in Extras : GenerateAdditionalApps(n)
  \/ AdditionalDone \/ GenerateProxy \/ GenerateOnlyOffice
  \/ \E n \in Bundled \cup Extras \cup {"proxy"} : PruneAppsWithMissingDeps(n)
  \/ Pruned

Spec == Init /\ [][Next]_vars /\ WF_vars(Next)
-----------------------------------------------------------------------------
Done == phase = "done"
BuiltIn == DOMAIN apps \ Extras

\* What is left depends on what is left, and nothing was removed that could
\* have stayed: the additional applications that remain are the largest set
\* that is complete, in whatever order the map was walked.
Largest ==
  LET kept == DOMAIN apps \cap Extras
      complete(s) == \A n \in s : cfg.extras[n] \subseteq s \cup BuiltIn
  IN complete(kept) /\ \A s \in SUBSET Extras : complete(s) => s \subseteq kept
PrunesOnlyIncomplete ==
  Done /\ "gateway" \in cfg.bundle =>
    /\ Incomplete(apps) = {} /\ Largest
    /\ cfg.bundle \cup {"proxy", "postgres", "onlyoffice"} \subseteq BuiltIn

\* Nothing that ships with the platform waits for itself through others, so a
\* start of built-in applications can always go on.
StartsSomewhere ==
  Done => \A s \in SUBSET (BuiltIn \cap (Bundled \cup {"proxy", "onlyoffice", "keycloak", "stt-sidecar"})) :
            s # {} => \E n \in s : apps[n].deps \cap s = {}

\* What is generated can be started.
Startable == PrunesOnlyIncomplete /\ StartsSomewhere
=============================================================================
