---------------------------- MODULE MCDocuments ----------------------------
(***************************************************************************)
(* What the launcher computes from what is there: the applications of a    *)
(* namespace, the operator's edits merged into what is generated, the      *)
(* order of the versions of bundles, the division of a JVM's memory, the   *)
(* history of settings, what the file of the Kotlin launcher says, and     *)
(* what a daemon makes of the containers that it finds.  One of them moves *)
(* in a behaviour, and the others stay as they begin.                      *)
(***************************************************************************)
EXTENDS Documents

CONSTANTS
  Kinds, Templates, Contents,                \* Edits, with MaxOps
  MaxEvents                                  \* bound: operations and crashes in an adoption

VARIABLES
  part,
  kind, upstream, tmpl, delta, live, running, reload, put, written, crossed, ops

E == INSTANCE Edits

editVars == <<kind, upstream, tmpl, delta, live, running, reload, put, written, crossed, ops>>
docVars == <<part, memoryVars, generatorVars, editVars, versionVars, setupVars, storeVars,
             adoptionVars>>

Some(S) == CHOOSE x \in S : TRUE
DocInit ==
  /\ part \in {"memory", "generator", "edits", "versions", "setup", "store", "adoption"}
  /\ part # "memory" => limit = Some(Limits) /\ given = Some(Options)
  /\ part # "generator" => cfg = Some(Configs)
  /\ part # "edits" => kind = Some(Kinds) /\ upstream = Some(Templates) /\ running = FALSE
  /\ Init /\ G!Init /\ E!Init /\ V!Init /\ H!Init /\ M!Init /\ A!Init
  /\ part # "setup" => file = [k \in Plain \cup Sections |-> None]

DocNext ==
  \/ /\ part = "memory" /\ Next
     /\ UNCHANGED <<part, generatorVars, editVars, versionVars, setupVars, storeVars, adoptionVars>>
  \/ /\ part = "generator" /\ G!Next
     /\ UNCHANGED <<part, memoryVars, editVars, versionVars, setupVars, storeVars, adoptionVars>>
  \/ /\ part = "edits" /\ E!Next
     /\ UNCHANGED <<part, memoryVars, generatorVars, versionVars, setupVars, storeVars, adoptionVars>>
  \/ /\ part = "versions" /\ V!Next
     /\ UNCHANGED <<part, memoryVars, generatorVars, editVars, setupVars, storeVars, adoptionVars>>
  \/ /\ part = "setup" /\ H!Next
     /\ UNCHANGED <<part, memoryVars, generatorVars, editVars, versionVars, storeVars, adoptionVars>>
  \/ /\ part = "store" /\ M!Next
     /\ UNCHANGED <<part, memoryVars, generatorVars, editVars, versionVars, setupVars, adoptionVars>>
  \/ /\ part = "adoption" /\ A!Next /\ moves' + crashes' <= MaxEvents
     /\ UNCHANGED <<part, memoryVars, generatorVars, editVars, versionVars, setupVars, storeVars>>

DocSpec == DocInit /\ [][DocNext]_docVars
-----------------------------------------------------------------------------
(* The instance.                                                           *)

MCLimits == {i * 256 * mib : i \in 1 .. 16} \cup {6 * gib, 16 * gib, 1000}
Flag(p, s) == [pool |-> p, size |-> s]
Flags == {Flag(p, s) : p \in Pools, s \in {64 * mib, 256 * mib, gib, 3 * gib}}
           \cup {Flag("pct", 50), Flag("pct", 90)}
MCOptions == {<<>>} \cup {<<f>> : f \in Flags} \cup {<<f, g>> : f, g \in Flags}

\* Every configuration without additional applications, and every dependency
\* of two of those under a few configurations.
NoExtras == [x \in Extras |-> {}]
MCConfigs ==
  [desktop : BOOLEAN, keycloak : BOOLEAN, email : {TRUE}, alfresco : BOOLEAN,
   observer : BOOLEAN, sttImage : BOOLEAN, bundle : SUBSET (Webapps \cup {"gateway", "ai", "emodel"}),
   detached : {{}, {"ai"}, {"ai", "onlyoffice", "alfresco"}}, extras : {NoExtras}]
  \cup [desktop : {FALSE}, keycloak : BOOLEAN, email : BOOLEAN, alfresco : {FALSE},
        observer : {FALSE}, sttImage : {FALSE}, bundle : {{"gateway", "eproc"}, {"eproc"}},
        detached : {{}}, extras : [Extras -> SUBSET ExtraNeeds]]

\* Documents of two keys, one of which may hold an object.
Doc(S, f(_)) == [obj |-> [k \in S |-> f(k)]]
x == [val |-> "x"]
y == [val |-> "y"]
MCTemplates ==
  {Doc({"k"}, LAMBDA k : x),
   Doc({"k", "l"}, LAMBDA k : IF k = "k" THEN y ELSE Doc({"m"}, LAMBDA m : x)),
   Doc({"l"}, LAMBDA k : Doc({"m", "n"}, LAMBDA m : x))}
MCContents ==
  {Doc({}, LAMBDA k : x), Doc({"k"}, LAMBDA k : x), Doc({"l"}, LAMBDA k : y),
   Doc({"k", "l"}, LAMBDA k : y),
   Doc({"k", "l"}, LAMBDA k : IF k = "k" THEN x ELSE Doc({"m"}, LAMBDA m : y)),
   Doc({"l"}, LAMBDA k : Doc({"n"}, LAMBDA m : y))}

Word(r) == [kind |-> "word", rank |-> r]
Nums(v) == [kind |-> "nums", nums |-> v]
MCScopes == {<<>>, <<1>>}
MCVersions == {<<1>>, <<1, 0>>, <<1, 2>>}
MCSuffixes == {<<>>, <<Word(1)>>, <<Word(1), Nums(<<1>>)>>, <<Nums(<<0>>), Word(1)>>}
-----------------------------------------------------------------------------
EditsStick == E!EditsStick
=============================================================================
