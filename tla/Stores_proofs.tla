---------------------------- MODULE Stores_proofs ----------------------------
(***************************************************************************)
(* Proofs about what the launcher keeps on disk, for every value of the    *)
(* constants: one section for each store, with the invariant that its      *)
(* property needs.  Each of them leaves out the hazards of section 4 of    *)
(* the README: the constant of the store that ends in Faults is empty.     *)
(***************************************************************************)
EXTENDS MCStores, TLAPS

-----------------------------------------------------------------------------
(* Migration.  An import goes through its steps with a set of rows that are *)
(* still to be written: what it has read is in the database or among them, *)
(* table by table.  A database of an older launcher never meets an import, *)
(* and what its columns say does not change with the version.              *)

DbFields == {"version", "items", "states", "degraded", "secret",
             "workspaceId", "namespaceId", "selectedNs"}
SecretFields == {"type", "value", "user", "host", "scope"}
KotlinFields == {"items", "states", "lost", "read", "invalid"}

\* nil is neither a database nor what one says.
NilIsNoDb == DOMAIN None \notin {DbFields, {"user", "value", "host", "selected"}}

\* storage.db keeps every item, and what a read of it yields.
KotlinOK ==
  /\ DOMAIN kotlin = KotlinFields
  /\ kotlin.items = D!Items /\ kotlin.states = Nss

\* An import that has come so far has these items in the database, and writes those.
Imported ==
  /\ step \in {"up", "down", "schema"} /\ db # None =>
        db.degraded \/ D!Items \subseteq db.items
  /\ step \in {"workspaces", "namespaces", "secrets", "states", "selection", "record", "dirs",
               "backup", "open", "schema", "up"} => db # None
  /\ step = "refused" => db = None
  /\ step = "workspaces" => D!Readable \cap D!Workspaces \subseteq db.items \cup todo
  /\ step \in {"namespaces", "secrets", "states", "selection", "record"} =>
        D!Readable \cap D!Workspaces \subseteq db.items
  /\ step = "namespaces" => D!Readable \cap Nss \subseteq db.items \cup todo
  /\ step \in {"secrets", "states", "selection", "record"} => D!Readable \cap Nss \subseteq db.items
  /\ step \in {"states", "selection", "record"} => D!Readable \cap {D!Vault} \subseteq db.items
  /\ step = "record" => D!Readable \cap {D!Selection} \subseteq db.items
  /\ step = "states" => todo \subseteq Nss
  /\ db # None => DOMAIN db = DbFields /\ db.version = D!Latest /\ db.states \subseteq Nss
                  /\ db.degraded \in BOOLEAN

\* A database that an older launcher left: what is still joined in its columns
\* has not been split, and what is not yet there is empty.
OldOK ==
  /\ step \in {"down", "schema", "up"}
  /\ db # None /\ DOMAIN db = DbFields /\ DOMAIN db.secret = SecretFields
  /\ db.version \in 1 .. D!Latest
  /\ db.version < 3 => db.secret.user = None
  /\ db.version < 4 => db.selectedNs = None
  /\ db.version < 8 => db.secret.host = None
  /\ D!Meaning(db) = meant

MigrationInv == KotlinOK /\ IF meant = None THEN Imported ELSE OldOK

\* What a database and storage.db are before the first start.
LEMMA MigrationInit ==
  ASSUME NilIsNoDb, MigrationFaults = {}, D!Init PROVE MigrationInv
<1>1. PICK lost \in SUBSET D!Items, invalid \in BOOLEAN, read \in {"ok", "broken"} :
        kotlin = [items |-> D!Items \ {}, states |-> Nss, lost |-> lost,
                  read |-> read, invalid |-> invalid]
  BY DEF D!Init
<1>2. KotlinOK
  BY <1>1 DEF KotlinOK, KotlinFields
<1>3. CASE db = None /\ meant = None
  BY <1>2, <1>3 DEF D!Init, MigrationInv, Imported
<1>4. CASE db \in D!OldDbs /\ meant = D!Meaning(db)
  <2>1. PICK v \in {1, 2}, s \in D!OldSecrets, w \in {None} \cup Wss, n \in {None, "ns"} :
          db = D!OldDb(v, s, w, n)
    BY <1>4 DEF D!OldDbs
  <2>2. /\ DOMAIN db = DbFields /\ db.version = v /\ db.secret = s /\ db.selectedNs = None
    BY <2>1 DEF D!OldDb, D!NewDb, DbFields
  <2>3. DOMAIN s = SecretFields /\ s.user = None /\ s.host = None
    BY DEF D!OldSecrets, D!Secret, SecretFields
  <2>4. db # None
    BY <2>2 DEF NilIsNoDb
  <2>5. DOMAIN meant = {"user", "value", "host", "selected"}
    BY <1>4 DEF D!Meaning
  <2>6. meant # None
    BY <2>5 DEF NilIsNoDb
  <2>7. OldOK
    BY <1>4, <2>2, <2>3, <2>4 DEF OldOK, D!Init, D!Latest
  <2> QED BY <1>2, <2>6, <2>7 DEF MigrationInv
<1> QED BY <1>3, <1>4 DEF D!Init

\* Each statement of the schema keeps what the columns say, together with the
\* version that says how to read them.
LEMMA StatementsKeep ==
  ASSUME OldOK, NilIsNoDb, D!ApplyMigration PROVE OldOK'
<1> DEFINE v == db.version + 1
           stmts == D!Stmts(db, v)
<1>1. /\ db.version \in 1 .. 8 /\ v \in 2 .. 9
      /\ db' = [stmts EXCEPT !.version = v] /\ step' = step /\ meant' = meant
  BY DEF D!ApplyMigration, OldOK, D!Latest
<1>2. \A s : DOMAIN s = SecretFields =>
        /\ DOMAIN D!SplitLogin(s) = SecretFields /\ DOMAIN D!TagHost(s) = SecretFields
        /\ D!SplitLogin(s).host = s.host
  BY DEF D!SplitLogin, D!TagHost, SecretFields
<1>3. /\ DOMAIN stmts = DbFields /\ DOMAIN stmts.secret = SecretFields
      /\ v < 4 => stmts.selectedNs = None
      /\ v < 8 => stmts.secret.host = None
      /\ v < 3 => stmts.secret.user = None
  BY <1>1, <1>2 DEF OldOK, D!Stmts, DbFields
<1>4. /\ DOMAIN db' = DbFields /\ db'.version = v /\ db'.secret = stmts.secret
      /\ db'.selectedNs = stmts.selectedNs /\ db'.workspaceId = stmts.workspaceId
      /\ db'.namespaceId = stmts.namespaceId
  BY <1>1, <1>3 DEF DbFields
<1>5. D!Meaning(db') = D!Meaning(db)
  <2>1. CASE v = 3
    <3>1. stmts = [db EXCEPT !.secret = D!SplitLogin(db.secret)]
      BY <2>1 DEF D!Stmts
    <3>2. /\ db'.secret = D!SplitLogin(db.secret) /\ db'.workspaceId = db.workspaceId
          /\ db'.namespaceId = db.namespaceId
      BY <3>1, <1>4 DEF OldOK, DbFields
    <3>3. db.secret.user = None /\ db.version = 2 /\ DOMAIN db.secret = SecretFields
      BY <2>1, <1>1 DEF OldOK
    <3>4. LET s == db.secret
              t == db'.secret
          IN /\ t.type = s.type /\ t.host = s.host /\ t.scope = s.scope
             /\ IF D!IsLogin(s) /\ Len(s.value) > 1
                THEN t.user = s.value[1] /\ t.value = Tail(s.value)
                ELSE t = s
      BY <3>2, <3>3 DEF D!SplitLogin, SecretFields
    <3>5. /\ db.version < 3 /\ ~(db'.version < 3) /\ db.version < 8 /\ db'.version < 8
          /\ ~(db.version >= 4) /\ ~(db'.version >= 4)
      BY <3>3, <1>4, <2>1
    <3>6. CASE D!IsLogin(db.secret) /\ Len(db.secret.value) > 1
      <4>1. db'.secret.user = db.secret.value[1] /\ db'.secret.value = Tail(db.secret.value)
        BY <3>4, <3>6
      <4>2. /\ db'.secret.type = db.secret.type /\ db'.secret.host = db.secret.host
            /\ db'.secret.scope = db.secret.scope
        BY <3>4
      <4> QED BY ONLY <3>2, <3>5, <3>6, <4>1, <4>2 DEF D!Meaning
    <3>7. CASE ~(D!IsLogin(db.secret) /\ Len(db.secret.value) > 1)
      <4>1. db'.secret = db.secret
        BY <3>4, <3>7
      <4> QED BY ONLY <3>2, <3>5, <3>7, <4>1 DEF D!Meaning
    <3> QED BY <3>6, <3>7
  <2>2. CASE v = 4
    <3>1. /\ db'.secret = db.secret
          /\ db'.selectedNs = IF None \in {db.workspaceId, db.namespaceId} THEN None
                              ELSE <<db.workspaceId, db.namespaceId>>
      BY <2>2, <1>1, <1>4 DEF D!Stmts, OldOK, DbFields
    <3> QED BY <3>1, <1>1, <1>4, <2>2 DEF D!Meaning
  <2>3. CASE v = 8
    <3>1. /\ db'.secret = D!TagHost(db.secret) /\ db'.selectedNs = db.selectedNs
          /\ db.secret.host = None
      BY <2>3, <1>1, <1>4 DEF D!Stmts, OldOK, DbFields
    <3>2. LET s == db.secret
              t == db'.secret
          IN /\ t.type = s.type /\ t.user = s.user /\ t.value = s.value
             /\ t.host = IF s.type = "REGISTRY_AUTH" THEN s.scope ELSE s.host
      BY <3>1 DEF D!TagHost, SecretFields, OldOK
    <3>3. db.version = 7 /\ db'.version = 8
      BY <1>1, <1>4, <2>3
    <3> QED BY <3>1, <3>2, <3>3 DEF D!Meaning
  <2>4. CASE v \notin {3, 4, 8}
    <3>1. stmts = db
      BY <2>4 DEF D!Stmts
    <3>2. /\ db'.secret = db.secret /\ db'.selectedNs = db.selectedNs
          /\ db'.workspaceId = db.workspaceId /\ db'.namespaceId = db.namespaceId
      BY <3>1, <1>4
    <3>3. /\ (db'.version < 3) = (db.version < 3)
          /\ (db'.version < 8) = (db.version < 8)
          /\ (db'.version >= 4) = (db.version >= 4)
      BY <1>1, <1>4, <2>4
    <3> QED BY ONLY <3>2, <3>3 DEF D!Meaning
  <2> QED BY <2>1, <2>2, <2>3, <2>4
<1>6. db' # None
  BY <1>4 DEF NilIsNoDb
<1> QED BY <1>1, <1>3, <1>4, <1>5, <1>6 DEF OldOK, D!Latest

\* A database of an older launcher is not touched by anything else.
LEMMA OldStep ==
  ASSUME MigrationFaults = {}, NilIsNoDb, OldOK, [D!Next]_(D!vars) PROVE OldOK'
<1>1. CASE D!ApplyMigration
  BY <1>1, StatementsKeep
<1>2. CASE UNCHANGED D!vars
  BY <1>2 DEF OldOK, D!vars, D!Meaning, D!IsLogin
<1>3. ASSUME D!Next, ~D!ApplyMigration PROVE db' = db /\ meant' = meant /\ step' \in {"down", "schema", "up"}
  BY <1>3 DEF OldOK, D!Next, D!Start, D!SchemaDone, D!BackupKotlinStorage, D!OpenMVStore,
     D!ImportWorkspaces, D!ImportNamespaces, D!ImportSecrets, D!ImportRuntimeState, D!ImportState,
     D!Record, D!MigrateFromFilesystem, D!Abort, D!Upgrade, D!Down, D!Go
<1> QED BY <1>1, <1>2, <1>3 DEF OldOK, D!Meaning, D!IsLogin

\* Saving one more row leaves what is read in the database or still to write.
LEMMA SaveRowKeeps ==
  ASSUME MigrationFaults = {}, Imported, KotlinOK, NEW i, D!SaveRow(i), db # None
  PROVE  /\ kotlin' = kotlin /\ step' = step /\ meant' = meant
         /\ todo' = todo \ {i} /\ i \in todo
         /\ db' = [db EXCEPT !.items = db.items \cup {i}]
         /\ DOMAIN db' = DbFields /\ db'.items = db.items \cup {i}
         /\ db'.version = db.version /\ db'.states = db.states /\ db'.degraded = db.degraded
BY DEF D!SaveRow, Imported, DbFields

\* An import loses nothing on its way, step by step.
LEMMA ImportStep ==
  ASSUME MigrationFaults = {}, NilIsNoDb, KotlinOK, Imported, meant = None, D!Next
  PROVE  Imported' /\ meant' = None
<1>1. D!Readable \subseteq D!Items /\ D!Items = D!Workspaces \cup Nss \cup {D!Vault, D!Selection}
  BY DEF D!Readable, KotlinOK, D!Items
<1>2. CASE D!Start
  <2>1. CASE db = None
    <3>1. /\ db' = [D!NewDb EXCEPT !.version = D!Latest] /\ step' = "backup"
      BY <1>2, <2>1 DEF D!Start, D!Go
    <3>2. DOMAIN db' = DbFields /\ db'.version = D!Latest /\ db'.states = {} /\ db'.degraded = FALSE
      BY <3>1 DEF D!NewDb, DbFields
    <3>3. db' # None
      BY <3>2 DEF NilIsNoDb
    <3> QED BY <1>2, <3>1, <3>2, <3>3 DEF Imported, D!Start
  <2>2. CASE db # None
    <3>1. step' = "schema" /\ db' = db /\ kotlin' = kotlin /\ meant' = meant /\ step \in {"down", "refused"}
      BY <1>2, <2>2 DEF D!Start, D!Go
    <3> QED BY <3>1, <2>2 DEF Imported
  <2> QED BY <2>1, <2>2
<1>3. CASE D!ApplyMigration
  BY <1>3 DEF D!ApplyMigration, Imported, D!Latest
<1>4. CASE D!SchemaDone \/ D!Upgrade \/ D!Down \/ D!Abort
  BY <1>4 DEF D!SchemaDone, D!Upgrade, D!Down, D!Abort, D!Go, Imported, KotlinOK, KotlinFields, D!Readable
<1>5. CASE D!BackupKotlinStorage \/ D!OpenMVStore
  BY <1>5, <1>1 DEF D!BackupKotlinStorage, D!OpenMVStore, D!Go, Imported, D!Readable
<1>6. CASE D!ImportWorkspaces
  <2>1. step = "workspaces" /\ db # None
    BY <1>6 DEF D!ImportWorkspaces, Imported
  <2>2. CASE \E w \in D!Workspaces : D!SaveRow(w)
    BY <2>1, <2>2, SaveRowKeeps DEF Imported, D!Readable, NilIsNoDb
  <2>3. CASE todo = {} /\ ~(\E w \in D!Workspaces : D!SaveRow(w))
    BY <1>6, <2>1, <2>3 DEF D!ImportWorkspaces, Imported, D!Readable, D!Go
  <2> QED BY <1>6, <2>2, <2>3 DEF D!ImportWorkspaces
<1>7. CASE D!ImportNamespaces
  <2>1. step = "namespaces" /\ db # None
    BY <1>7 DEF D!ImportNamespaces, Imported
  <2>2. CASE \E n \in Nss : D!SaveRow(n)
    BY <2>1, <2>2, SaveRowKeeps DEF Imported, D!Readable, NilIsNoDb
  <2>3. CASE ~(\E n \in Nss : D!SaveRow(n))
    BY <1>7, <2>1, <2>3 DEF D!ImportNamespaces, D!SaveFails, Imported, D!Readable, D!Go
  <2> QED BY <2>2, <2>3
<1>8. CASE D!ImportSecrets
  <2>1. /\ step = "secrets" /\ db # None /\ step' = "states" /\ todo' = Nss
        /\ db' = [db EXCEPT !.items = db.items \cup (D!Readable \cap {D!Vault})]
        /\ kotlin' = kotlin /\ meant' = meant
    BY <1>8 DEF D!ImportSecrets, Imported, D!Go, KotlinOK
  <2>2. /\ DOMAIN db' = DbFields /\ db'.items = db.items \cup (D!Readable \cap {D!Vault})
        /\ db'.version = db.version /\ db'.states = db.states /\ db'.degraded = db.degraded
    BY <2>1 DEF Imported, DbFields
  <2> QED BY <2>1, <2>2 DEF Imported, D!Readable, NilIsNoDb
<1>9. CASE D!ImportRuntimeState
  <2>1. /\ step = "states" /\ db # None /\ kotlin' = kotlin /\ meant' = meant
        /\ DOMAIN db = DbFields /\ todo \subseteq Nss
    BY <1>9 DEF D!ImportRuntimeState, Imported
  <2>2. CASE \E n \in todo : db' = [db EXCEPT !.states = @ \cup {n}] /\ D!Go("states", todo \ {n})
    <3>1. PICK n \in todo : db' = [db EXCEPT !.states = @ \cup {n}] /\ D!Go("states", todo \ {n})
      BY <2>2
    <3>2. /\ DOMAIN db' = DbFields /\ db'.items = db.items /\ db'.version = db.version
          /\ db'.states = db.states \cup {n} /\ db'.degraded = db.degraded
          /\ step' = "states" /\ todo' = todo \ {n}
      BY <3>1, <2>1 DEF DbFields, D!Go
    <3> QED BY <2>1, <3>2 DEF Imported, D!Readable, NilIsNoDb
  <2>3. CASE D!SaveFails
    BY <2>1, <2>3 DEF D!SaveFails, D!Go, Imported
  <2>4. CASE todo = {} /\ D!Go("selection", {}) /\ UNCHANGED db
    BY <2>1, <2>4 DEF D!Go, Imported, D!Readable
  <2> QED BY <1>9, <2>2, <2>3, <2>4 DEF D!ImportRuntimeState
<1>10. CASE D!ImportState
  <2>1. /\ step = "selection" /\ db # None /\ step' = "record"
        /\ db' = [db EXCEPT !.items = db.items \cup (D!Readable \cap {D!Selection})]
        /\ kotlin' = kotlin /\ meant' = meant
    BY <1>10 DEF D!ImportState, Imported, D!Go
  <2>2. /\ DOMAIN db' = DbFields /\ db'.items = db.items \cup (D!Readable \cap {D!Selection})
        /\ db'.version = db.version /\ db'.states = db.states /\ db'.degraded = db.degraded
    BY <2>1 DEF Imported, DbFields
  <2> QED BY <2>1, <2>2 DEF Imported, D!Readable, NilIsNoDb
<1>11. CASE D!Record
  <2>1. /\ step = "record" /\ db # None /\ step' = "up" /\ kotlin' = kotlin /\ meant' = meant
        /\ db' = [db EXCEPT !.degraded = db.degraded \/ D!RecordPartialRead]
    BY <1>11 DEF D!Record, Imported, D!Go
  <2>2. /\ DOMAIN db' = DbFields /\ db'.items = db.items /\ db'.version = db.version
        /\ db'.states = db.states /\ db'.degraded = (db.degraded \/ D!RecordPartialRead)
    BY <2>1 DEF Imported, DbFields
  <2>3. ~D!RecordPartialRead => D!Items \subseteq db.items
    BY <2>1, <1>1 DEF D!RecordPartialRead, D!Readable, Imported, KotlinOK
  <2> QED BY <2>1, <2>2, <2>3 DEF Imported, NilIsNoDb
<1>12. CASE D!MigrateFromFilesystem
  <2>1. step = "dirs" /\ db # None /\ DOMAIN db = DbFields
    BY <1>12 DEF D!MigrateFromFilesystem, Imported
  <2>2. CASE \E i : D!SaveRow(i)
    BY <2>1, <2>2, SaveRowKeeps DEF Imported, NilIsNoDb
  <2>3. CASE D!SaveFails
    BY <2>1, <2>3 DEF D!SaveFails, D!Go, Imported
  <2>4. CASE /\ D!Go("up", {}) /\ db' = [db EXCEPT !.degraded = TRUE]
             /\ UNCHANGED <<kotlin, backup, meant, starts>>
    <3>1. /\ DOMAIN db' = DbFields /\ db'.version = db.version /\ db'.degraded = TRUE
          /\ db'.states = db.states
      BY <2>1, <2>4 DEF DbFields
    <3> QED BY <2>1, <2>4, <3>1 DEF Imported, NilIsNoDb, D!Go
  <2> QED BY <1>12, <2>2, <2>3, <2>4 DEF D!MigrateFromFilesystem
<1> QED BY <1>2, <1>3, <1>4, <1>5, <1>6, <1>7, <1>8, <1>9, <1>10, <1>11, <1>12 DEF D!Next

\* Every step of a migration, of a start or of a schema upgrade keeps what was read.
LEMMA MigrationStep ==
  ASSUME MigrationFaults = {}, NilIsNoDb, MigrationInv, [D!Next]_(D!vars) PROVE MigrationInv'
<1>1. KotlinOK'
  BY DEF MigrationInv, KotlinOK, KotlinFields, D!vars, D!Next, D!Start, D!ApplyMigration,
     D!SchemaDone, D!BackupKotlinStorage, D!OpenMVStore, D!ImportWorkspaces, D!ImportNamespaces,
     D!ImportSecrets, D!ImportRuntimeState, D!ImportState, D!Record, D!MigrateFromFilesystem,
     D!Abort, D!Upgrade, D!Down, D!SaveRow, D!SaveFails, D!Items, D!Workspaces, D!Vault, D!Selection
<1>2. CASE meant = None /\ D!Next
  BY <1>1, <1>2, ImportStep DEF MigrationInv
<1>3. CASE meant = None /\ UNCHANGED D!vars
  BY <1>1, <1>3 DEF MigrationInv, Imported, D!vars, D!Readable
<1>4. CASE meant # None
  <2>1. OldOK'
    BY <1>4, OldStep DEF MigrationInv
  <2>2. meant' = meant
    BY DEF D!vars, D!Next, D!Start, D!ApplyMigration,
     D!SchemaDone, D!BackupKotlinStorage, D!OpenMVStore, D!ImportWorkspaces, D!ImportNamespaces,
     D!ImportSecrets, D!ImportRuntimeState, D!ImportState, D!Record, D!MigrateFromFilesystem,
     D!Abort, D!Upgrade, D!Down, D!SaveRow, D!SaveFails
  <2> QED BY <1>1, <1>4, <2>1, <2>2 DEF MigrationInv
<1> QED BY <1>2, <1>3, <1>4

\* What an import or an upgrade of launcher.db leaves is everything that was there,
\* or says so: a start that is cut, refused or repeated never passes for a whole one
\* (migrateH2IfNeeded, applyMigration), while no write of a row fails in silence.
THEOREM MigrationLosesNothing ==
  NilIsNoDb /\ MigrationFaults = {} => (Spec => []MigrationIsSafe)
<1> SUFFICES ASSUME NilIsNoDb, MigrationFaults = {} PROVE Spec => []MigrationIsSafe
  OBVIOUS
<1>1. Init => MigrationInv
  BY MigrationInit DEF Init
<1>2. MigrationInv /\ [Next]_vars => MigrationInv'
  <2>1. [Next]_vars => [D!Next]_(D!vars)
    BY DEF Next, vars, dbVars, D!vars
  <2> QED BY <2>1, MigrationStep
<1>3. MigrationInv => MigrationIsSafe
  <2> SUFFICES ASSUME MigrationInv PROVE MigrationIsSafe
    OBVIOUS
  <2>1. D!Items = D!Workspaces \cup Nss \cup {D!Vault, D!Selection}
    BY DEF D!Items
  <2>2. meant = None /\ step = "up" => db # None
    BY DEF MigrationInv, Imported
  <2> QED BY <2>1, <2>2 DEF MigrationInv, KotlinOK, Imported, OldOK, MigrationIsSafe, D!MigrationIsSafe,
        D!NothingLostSilently, D!NoGhosts, D!SchemaKeepsMeaning
<1> QED BY <1>1, <1>2, <1>3, PTL DEF Spec
-----------------------------------------------------------------------------
(* Cleanup.  No namespace is created while clean is at work, so that what it *)
(* has found to belong to none stays so; nothing is made once the daemon is  *)
(* asked to stop, and the data are removed when it is down.                  *)

CleanInv ==
  /\ cleaning.pc \in {"idle", "known", "ask", "remove"}
  /\ DOMAIN cleaning = {"pc", "known", "found"}
  /\ cleaning.pc # "idle" => \A n \in rows : n[2] \in cleaning.known
  /\ cleaning.pc \in {"ask", "remove"} => \A h \in cleaning.found : h.ns[2] \notin cleaning.known

UninstallInv ==
  /\ removal = "idle" => daemon = "up"
  /\ removal = "data" => daemon = "down"
  /\ daemon = "down" => R!SocketGoes

\* What is found to be an orphan stays one while the operator answers.
LEMMA CleanStep ==
  ASSUME CleanFaults = {}, CleanInv, [R!Next]_(R!vars) PROVE CleanInv'
<1>1. CASE R!KnownNamespaceIDs
  <2>1. PICK listed \in SUBSET CleanWss :
          /\ cleaning' = [cleaning EXCEPT !.pc = "known", !.known = R!KnownIds(listed)]
          /\ None \notin R!KnownIds(listed) /\ rows' = rows
    BY <1>1 DEF R!KnownNamespaceIDs
  <2>2. R!KnownIds(listed) = {n[2] : n \in rows}
    BY <2>1 DEF R!KnownIds
  <2> QED BY <2>1, <2>2 DEF CleanInv
<1>2. CASE R!ScanOrphans
  <2>1. CASE cleaning' = R!NoClean
    BY <2>1 DEF R!NoClean, CleanInv
  <2>2. CASE cleaning' # R!NoClean
    <3>1. PICK kinds : cleaning' = [cleaning EXCEPT !.pc = "ask",
                                      !.found = {h \in R!Orphans : h.kind \in kinds}]
      BY <1>2, <2>2 DEF R!ScanOrphans
    <3>2. /\ cleaning'.pc = "ask" /\ cleaning'.known = cleaning.known
          /\ cleaning'.found = {h \in R!Orphans : h.kind \in kinds}
          /\ DOMAIN cleaning' = {"pc", "known", "found"}
      BY <3>1 DEF CleanInv
    <3>3. rows' = rows /\ cleaning.pc = "known"
      BY <1>2 DEF R!ScanOrphans
    <3> QED BY <3>2, <3>3 DEF CleanInv, R!Orphans
  <2> QED BY <2>1, <2>2
<1>3. CASE R!ConfirmCleanRemoval
  BY <1>3 DEF R!ConfirmCleanRemoval, R!NoClean, CleanInv
<1>4. CASE \E h \in R!Held : R!Remove(h)
  BY <1>4 DEF R!Remove, R!NoClean, CleanInv
<1>5. CASE \E n \in R!Namespaces : R!Create(n)
  BY <1>5 DEF R!Create, CleanInv
<1>6. ASSUME \/ \E n \in R!Namespaces : R!Delete(n)
             \/ \E h \in R!Held : R!Make(h)
             \/ R!Uninstall \/ R!DaemonStops \/ R!WaitForSocket \/ R!RemoveData
             \/ UNCHANGED R!vars
      PROVE  cleaning' = cleaning /\ rows' \subseteq rows
  BY <1>6 DEF R!Delete, R!Make, R!Uninstall, R!DaemonStops, R!WaitForSocket, R!RemoveData, R!vars
<1> QED BY <1>1, <1>2, <1>3, <1>4, <1>5, <1>6 DEF R!Next, CleanInv

\* A daemon that is down has left no container of a listed namespace.
LEMMA UninstallStep ==
  ASSUME CleanFaults = {}, UninstallInv, [R!Next]_(R!vars) PROVE UninstallInv'
<1>1. CASE R!DaemonStops
  BY <1>1 DEF R!DaemonStops, R!Stops, R!SocketGoes, R!Containers, UninstallInv
<1>2. CASE \E h \in R!Held : R!Make(h) \/ R!Remove(h)
  BY <1>2 DEF R!Make, R!Remove, R!SocketGoes, R!Containers, UninstallInv
<1>3. CASE \E n \in R!Namespaces : R!Create(n) \/ R!Delete(n)
  BY <1>3 DEF R!Create, R!Delete, R!SocketGoes, R!Containers, UninstallInv
<1>4. CASE R!RemoveData
  BY <1>4 DEF R!RemoveData, R!SocketGoes, R!Containers, UninstallInv
<1>5. CASE R!Uninstall \/ R!WaitForSocket
  BY <1>5 DEF R!Uninstall, R!WaitForSocket, R!SocketGoes, R!Containers, UninstallInv
<1>6. CASE R!KnownNamespaceIDs \/ R!ScanOrphans \/ R!ConfirmCleanRemoval \/ UNCHANGED R!vars
  BY <1>6 DEF R!KnownNamespaceIDs, R!ScanOrphans, R!ConfirmCleanRemoval, R!vars,
     R!SocketGoes, R!Containers, UninstallInv
<1> QED BY <1>1, <1>2, <1>3, <1>4, <1>5, <1>6 DEF R!Next

\* citeck clean removes nothing of a namespace that is listed, and citeck uninstall
\* takes no data from under a daemon that still stops, however long the operator
\* takes to answer (executeCleanRemoval, removeData), while no namespace is created
\* meanwhile, the configuration can be read and the daemon stops in time.
THEOREM RemovalKeepsWhatIsUsed == CleanFaults = {} => (Spec => RemovalIsSafe)
<1> SUFFICES ASSUME CleanFaults = {} PROVE Spec => RemovalIsSafe
  OBVIOUS
<1>1. Init => CleanInv /\ UninstallInv
  BY DEF Init, R!Init, CleanInv, UninstallInv, R!NoClean
<1>2. [Next]_vars => [R!Next]_(R!vars)
  BY DEF Next, vars, cleanVars, R!vars
<1>3. CleanInv /\ UninstallInv /\ [Next]_vars => (CleanInv /\ UninstallInv)'
  BY <1>2, CleanStep, UninstallStep
<1>4. CleanInv /\ [Next]_vars =>
        [\A h \in held \ held' : cleaning.pc = "remove" /\ cleaning' # cleaning => h.ns \notin rows]_(R!vars)
  <2> SUFFICES ASSUME CleanInv, R!Next, NEW h \in held \ held', cleaning.pc = "remove",
                      cleaning' # cleaning
               PROVE  h.ns \notin rows
    BY <1>2
  <2>1. PICK g \in R!Held : R!Remove(g)
    BY DEF R!Next, R!Create, R!Delete, R!Make, R!KnownNamespaceIDs, R!ScanOrphans,
       R!ConfirmCleanRemoval, R!Uninstall, R!DaemonStops, R!WaitForSocket, R!RemoveData
  <2>2. h = g /\ g \in cleaning.found
    BY <2>1 DEF R!Remove
  <2> QED BY <2>2 DEF CleanInv
<1>5. UninstallInv /\ [Next]_vars =>
        [removal = "data" /\ removal' = "done" =>
           daemon = "down" /\ \A h \in R!Containers : h.ns \notin rows]_(R!vars)
  BY <1>2 DEF UninstallInv, R!SocketGoes
<1> QED BY <1>1, <1>3, <1>4, <1>5, PTL DEF Spec, RemovalIsSafe, R!RemovalIsSafe, R!CleanKeepsListed,
           R!UninstallStops
-----------------------------------------------------------------------------
(* Snapshots.  On a server an import moves all that is there aside before it *)
(* writes the first volume, and nothing takes what was moved aside away.     *)

Old == [v \in Volumes |-> "old"]

DataInv ==
  /\ DOMAIN vols = Volumes
  /\ DOMAIN work = {"kind", "phase", "todo"}
  /\ ~desktop => A!DataIsKept
  /\ ~desktop /\ work.kind = "import" /\ work.phase = "volumes" =>
        work.todo \subseteq Volumes /\ (Old \in aside \/ Volumes = {})

\* What handlers and workers do to an operation other than to import its volumes.
LEMMA WorkMoves ==
  ASSUME A!Next, DataInv, vols' = vols, aside' = aside
  PROVE  /\ DOMAIN work' = {"kind", "phase", "todo"}
         /\ work'.kind = "import" /\ work'.phase = "volumes" =>
               /\ work.kind = "import" /\ (work.phase = "volumes" \/ A!Import)
               /\ work'.todo \subseteq work.todo \/ A!Import
<1>1. CASE A!Worker
  <2>1. CASE A!Import
    BY <2>1 DEF A!Import, DataInv
  <2>2. CASE A!HandleExportSnapshot \/ A!HandleImportSnapshot \/ A!ExportVolume \/ A!ImportVolume
    BY <2>2 DEF A!HandleExportSnapshot, A!HandleImportSnapshot, A!ExportVolume, A!ImportVolume, DataInv
  <2>3. CASE \/ \E kind \in {"export", "import"} : A!Refused(kind)
             \/ \E ok \in BOOLEAN : A!Export(ok)
             \/ A!ImportFails \/ A!ImportEnds
    BY <2>3 DEF A!Refused, A!Export, A!ImportFails, A!ImportEnds, A!EndOp, A!NoOp
  <2> QED BY <1>1, <2>1, <2>2, <2>3 DEF A!Worker
<1>2. CASE A!SnapshotAndWait
  BY <1>2 DEF A!SnapshotAndWait, A!Requested, A!opVars, DataInv
<1>3. CASE A!Crash
  BY <1>3 DEF A!Crash, A!NoOp
<1>4. CASE \/ A!HandleDeleteSnapshot \/ A!WaitForStopped \/ A!StartBack \/ A!Stopped
           \/ \E kind \in {"export", "import"} : A!Command(kind)
           \/ \E answer \in {"complete", "error", "timeout"} : A!Waited(answer)
  BY <1>4 DEF A!HandleDeleteSnapshot, A!WaitForStopped, A!StartBack, A!Stopped, A!Command, A!Waited,
     A!opVars, DataInv
<1>5. CASE \/ \E sha \in 0 .. 2 : A!HandleDownloadSnapshot(sha)
           \/ A!DoGet \/ A!Read \/ A!Check \/ A!Retry \/ A!NewVersion
  BY <1>5 DEF A!HandleDownloadSnapshot, A!DoGet, A!Read, A!Check, A!Retry, A!NewVersion,
     A!opVars, DataInv
<1> QED BY <1>1, <1>2, <1>3, <1>4, <1>5 DEF A!Next

\* Nobody else writes volumes, or turns a server into a desktop.
LEMMA OnlyImportsWrite ==
  ASSUME A!Next, ~A!Import, ~A!ImportVolume
  PROVE  vols' = vols /\ aside' = aside
BY DEF A!Next, A!Worker, A!Refused, A!HandleExportSnapshot, A!HandleImportSnapshot, A!ExportVolume,
   A!Export, A!ImportFails, A!ImportEnds, A!HandleDeleteSnapshot, A!WaitForStopped,
   A!SnapshotAndWait, A!Requested, A!StartBack, A!Stopped, A!Command, A!Waited,
   A!HandleDownloadSnapshot, A!DoGet, A!Read, A!Check, A!Retry, A!NewVersion, A!Crash, A!opVars

\* A launcher does not change between a server and a desktop.
LEMMA DesktopStays == ASSUME A!Next PROVE desktop' = desktop
BY DEF A!Next, A!Worker, A!Refused, A!HandleExportSnapshot, A!HandleImportSnapshot, A!ExportVolume,
   A!Export, A!Import, A!ImportVolume, A!ImportFails, A!ImportEnds, A!HandleDeleteSnapshot,
   A!WaitForStopped, A!SnapshotAndWait, A!StartBack, A!Stopped, A!Command, A!Waited,
   A!HandleDownloadSnapshot, A!DoGet, A!Read, A!Check, A!Retry, A!NewVersion, A!Crash

\* Every step of a snapshot keeps the data, in the volumes or aside.
LEMMA DataStep == ASSUME DataInv, [A!Next]_(A!vars) PROVE DataInv'
<1>1. CASE A!Import
  <2>1. /\ work' = [work EXCEPT !.phase = "volumes", !.todo = Volumes]
        /\ desktop' = desktop /\ A!BackupServerVolumesDir
    BY <1>1 DEF A!Import
  <2>2. DOMAIN work' = {"kind", "phase", "todo"} /\ work'.todo = Volumes
    BY <2>1 DEF DataInv
  <2>3. CASE desktop
    BY <2>1, <2>2, <2>3 DEF A!BackupServerVolumesDir, DataInv
  <2>4. CASE ~desktop /\ \A v \in Volumes : vols[v] = "none"
    <3>1. vols' = vols /\ aside' = aside
      BY <2>1, <2>4 DEF A!BackupServerVolumesDir
    <3>2. vols = Old => Volumes = {}
      BY <2>4 DEF Old
    <3> QED BY <2>1, <2>2, <2>4, <3>1, <3>2 DEF DataInv, A!DataIsKept, Old
  <2>5. CASE ~desktop /\ ~\A v \in Volumes : vols[v] = "none"
    <3>1. vols' = [v \in Volumes |-> "none"] /\ aside' = aside \cup {vols}
      BY <2>1, <2>5 DEF A!BackupServerVolumesDir
    <3>2. Old \in aside'
      BY <2>5, <3>1 DEF DataInv, A!DataIsKept, Old
    <3> QED BY <2>1, <2>2, <3>1, <3>2 DEF DataInv, A!DataIsKept, Old
  <2> QED BY <2>3, <2>4, <2>5
<1>2. CASE A!ImportVolume
  <2>1. PICK v \in work.todo :
          /\ \E d \in {"torn", "new"} : vols' = [vols EXCEPT ![v] = d]
          /\ work' = work \/ work' = [work EXCEPT !.todo = @ \ {v}]
    BY <1>2 DEF A!ImportVolume
  <2>2. /\ desktop' = desktop /\ aside' = aside /\ work.kind = "import" /\ work.phase = "volumes"
    BY <1>2 DEF A!ImportVolume
  <2>3. DOMAIN vols' = Volumes
    BY <2>1 DEF DataInv
  <2>4. /\ DOMAIN work' = {"kind", "phase", "todo"} /\ work'.todo \subseteq work.todo
        /\ work'.kind = work.kind /\ work'.phase = work.phase
    BY <2>1 DEF DataInv
  <2>5. ~desktop => Old \in aside
    BY <2>1, <2>2 DEF DataInv
  <2> QED BY <2>2, <2>3, <2>4, <2>5 DEF DataInv, A!DataIsKept, Old
<1>3. CASE A!Next /\ ~A!Import /\ ~A!ImportVolume
  BY <1>3, WorkMoves, OnlyImportsWrite, DesktopStays DEF DataInv, A!DataIsKept, Old
<1>4. CASE UNCHANGED A!vars
  BY <1>4 DEF A!vars, A!opVars, DataInv, A!DataIsKept, Old
<1> QED BY <1>1, <1>2, <1>3, <1>4

\* Whatever imports of snapshots leave behind them on a server, the data that the
\* operator had are there, in the volumes or aside (backupServerVolumesDir), and an
\* archive that was downloaded with a digest is that archive, whole
\* (DownloadWithRetry), however often it was resumed.
THEOREM SnapshotsKeepData == Spec => SnapshotsAreSafe
<1>1. Init => DataInv
  BY DEF Init, A!Init, DataInv, A!NoOp, A!DataIsKept, Old
<1>2. [Next]_vars => [A!Next]_(A!vars)
  BY DEF Next, vars, dataVars, A!vars, A!opVars, A!cliVars, A!dlVars
<1>3. DataInv /\ [Next]_vars => DataInv'
  BY <1>2, DataStep
<1>4. DataInv => (~desktop => A!DataIsKept)
  BY DEF DataInv
<1>5. [Next]_vars => [dest' # dest /\ dl.sha # 0 => dest' \in {<<>>, A!Archive(dl.sha)}]_(A!vars)
  <2> SUFFICES ASSUME A!Next, dest' # dest, dl.sha # 0 PROVE dest' \in {<<>>, A!Archive(dl.sha)}
    BY <1>2
  <2>1. CASE A!Check
    BY <2>1 DEF A!Check
  <2>2. CASE \E sha \in 0 .. 2 : A!HandleDownloadSnapshot(sha)
    BY <2>2 DEF A!HandleDownloadSnapshot
  <2>3. A!Check \/ \E sha \in 0 .. 2 : A!HandleDownloadSnapshot(sha)
    BY DEF A!Next, A!Worker, A!Refused, A!HandleExportSnapshot, A!HandleImportSnapshot, A!ExportVolume,
       A!Export, A!Import, A!ImportVolume, A!ImportFails, A!ImportEnds, A!HandleDeleteSnapshot,
       A!WaitForStopped, A!SnapshotAndWait, A!StartBack, A!Stopped, A!Command, A!Waited,
       A!DoGet, A!Read, A!Retry, A!NewVersion, A!Crash, A!dlVars
  <2> QED BY <2>1, <2>2, <2>3
<1> QED BY <1>1, <1>3, <1>4, <1>5, PTL DEF Spec, SnapshotsAreSafe, A!SnapshotsAreSafe, A!CachedIsGenuine
-----------------------------------------------------------------------------
(* Bundles.  Only the flight changes the clone, and whoever waits for it has *)
(* seen no later commit than it fetches; a clone that a crash has torn is    *)
(* never taken for one that was synced a moment ago.                         *)

CloneFields == {"url", "commit", "whole", "meta"}
Clones == [url : Urls, commit : Nat, whole : BOOLEAN, meta : Urls \cup {None}]

\* nil is neither a remote, nor a clone, nor a time.
NilIsNoClone == None \notin Urls \cup Clones \cup {"recent"}

Stages == {"none", "start", "clone", "pull", "repair", "reclone", "remove", "rename", "record"}
Calls == [pc : {"idle", "wait", "done"}, url : Urls \cup {None}, force : BOOLEAN, saw : Nat, ok : BOOLEAN]
Flights == [pc : Stages, url : Urls \cup {None}, force : BOOLEAN, joined : SUBSET Callers]

CloneShape ==
  /\ url \in Urls /\ head \in [Urls -> Nat]
  /\ caller \in [Callers -> Calls] /\ flight \in Flights
  /\ flight.pc # "none" => flight.url \in Urls
  /\ flight.pc = "none" => flight.joined = {}
  /\ clone \in Clones \cup {None} /\ tmp \in Clones \cup {None}

\* What there is at each stage of a flight.
StageOK ==
  /\ flight.pc \in {"clone", "rename"} => clone = None
  /\ flight.pc \in {"pull", "repair", "reclone"} => clone # None
  /\ flight.pc \in {"remove", "rename"} => tmp # None /\ tmp.whole /\ tmp.url = flight.url
  /\ flight.pc = "record" => clone # None /\ clone.whole
  /\ flight.pc \in {"reclone", "remove"} /\ clone # None /\ clone.whole /\ clone.meta = flight.url =>
        clone.url = flight.url

\* A torn clone was not synced lately, for all that the memory and the store say.
TornIsStale == clone # None /\ ~clone.whole => saved # "recent" /\ lastSync # "recent"

\* A caller that forces finds what it saw in what the flight has fetched.
Fetches(c) ==
  /\ flight.force /\ caller[c].saw <= head[flight.url]
  /\ flight.pc \in {"remove", "rename"} => tmp # None /\ caller[c].saw <= tmp.commit
  /\ flight.pc = "record" => clone # None /\ caller[c].saw <= clone.commit
Fresh == \A c \in flight.joined : caller[c].force => Fetches(c)

CloneInv == CloneShape /\ StageOK /\ TornIsStale /\ Fresh

\* A flight that lands leaves callers that are calls and no flight.
LEMMA LandShape ==
  ASSUME CloneShape, NEW ok \in BOOLEAN, B!Land(ok)
  PROVE  /\ caller' \in [Callers -> Calls] /\ flight' \in Flights
         /\ flight'.pc = "none" /\ flight'.joined = {}
<1>1. flight' = [pc |-> "none", url |-> None, force |-> FALSE, joined |-> {}]
  BY DEF B!Land, B!NoFlight
<1>2. caller' = [c \in Callers |-> IF c \in flight.joined THEN [caller[c] EXCEPT !.pc = "done", !.ok = ok]
                                  ELSE caller[c]]
  BY DEF B!Land
<1>3. \A c \in Callers : caller'[c] \in Calls
  BY <1>2 DEF CloneShape, Calls
<1>4. caller' \in [Callers -> Calls]
  BY <1>2, <1>3
<1> QED BY <1>1, <1>4 DEF Flights, Stages

\* The flight lands: the clone is what it was or what a caller is given.
LEMMA LandInv ==
  ASSUME CloneInv, NEW ok \in BOOLEAN, B!Land(ok), url' = url, head' = head,
         clone' \in Clones \cup {None}, tmp' \in Clones \cup {None}, TornIsStale'
  PROVE  CloneInv'
BY LandShape DEF CloneInv, CloneShape, StageOK, Fresh

\* The flight looks at the clone before its first operation on the network.
LEMMA StartStep == ASSUME GitFaults = {}, NilIsNoClone, CloneInv, B!CloneOrPullInner PROVE CloneInv'
<1>1. /\ flight.pc = "start" /\ flight.url \in Urls
      /\ UNCHANGED <<url, head, clone, tmp, saved, skipped, cached, gitCrashes>>
  BY DEF B!CloneOrPullInner, CloneInv, CloneShape
<1>2. TornIsStale'
  BY DEF B!CloneOrPullInner, CloneInv, TornIsStale, B!KnownSync
<1>3. CASE B!Land(TRUE)
  BY <1>1, <1>2, <1>3, LandInv DEF CloneInv, CloneShape
<1>4. CASE ~B!Land(TRUE)
  <2>1. PICK st \in {"clone", "reclone", "pull"} :
          /\ flight' = [flight EXCEPT !.pc = st] /\ caller' = caller
          /\ st = "clone" => clone = None
          /\ st # "clone" => clone # None
          /\ st = "reclone" => B!RepoConfigChanged
    BY <1>4 DEF B!CloneOrPullInner
  <2>2. /\ flight' \in Flights /\ flight'.pc = st /\ flight'.url = flight.url
        /\ flight'.joined = flight.joined /\ flight'.force = flight.force
    BY <2>1 DEF CloneInv, CloneShape, Flights, Stages
  <2>3. st = "reclone" /\ clone.whole /\ clone.meta = flight.url => clone.url = flight.url
    BY <1>1, <2>1 DEF B!RepoConfigChanged, B!ForeignOrigin, NilIsNoClone
  <2>4. CloneShape' /\ StageOK'
    BY <1>1, <2>1, <2>2, <2>3 DEF CloneInv, CloneShape, StageOK
  <2>5. Fresh'
    BY <1>1, <2>1, <2>2 DEF CloneInv, Fresh, Fetches
  <2> QED BY <1>2, <2>4, <2>5 DEF CloneInv
<1> QED BY <1>3, <1>4

\* A step of the flight to its next stage, with what it has fetched.
LEMMA StageStep ==
  ASSUME CloneInv, NEW st \in Stages \ {"none", "start"}, flight.pc \notin {"none", "record"},
         flight' = [flight EXCEPT !.pc = st], caller' = caller, url' = url, head' = head,
         clone' \in Clones \cup {None}, tmp' \in Clones \cup {None}, TornIsStale', StageOK',
         st \in {"remove", "rename"} => tmp' # None /\ (tmp'.commit = head[flight.url]
                                          \/ (flight.pc \in {"remove", "rename"} /\ tmp' = tmp)),
         st = "record" => clone' # None /\ (clone'.commit = head[flight.url]
                                          \/ (flight.pc \in {"remove", "rename"} /\ clone' = tmp))
  PROVE  CloneInv'
<1>1. /\ flight' \in Flights /\ flight'.pc = st /\ flight'.url = flight.url
      /\ flight'.joined = flight.joined /\ flight'.force = flight.force
  BY DEF CloneInv, CloneShape, Flights
<1>2. CloneShape'
  BY <1>1 DEF CloneInv, CloneShape
<1>3. ASSUME NEW c \in flight.joined, caller[c].force PROVE Fetches(c)'
  <2>1. Fetches(c)
    BY <1>3 DEF CloneInv, Fresh
  <2>2. caller[c].saw \in Nat /\ head[flight.url] \in Nat
    BY <1>3 DEF CloneInv, CloneShape, Flights, Calls
  <2>3. st \in {"remove", "rename"} => caller[c].saw <= tmp'.commit
    BY <2>1, <2>2 DEF Fetches
  <2>4. st = "record" => caller[c].saw <= clone'.commit
    BY <2>1, <2>2 DEF Fetches
  <2> QED BY <1>1, <2>1, <2>3, <2>4 DEF Fetches
<1> QED BY <1>1, <1>2, <1>3 DEF CloneInv, Fresh

\* Every step of the flight.
LEMMA FlightStep ==
  ASSUME GitFaults = {}, NilIsNoClone, CloneInv, B!Sync PROVE CloneInv'
<1> DEFINE new == B!Clone(flight.url, head[flight.url], TRUE)
<1>1. flight.pc # "none" => new \in Clones /\ new.whole /\ new.url = flight.url
                            /\ new.commit = head[flight.url] /\ new # None
  <2> SUFFICES ASSUME flight.pc # "none" PROVE new \in Clones /\ new.whole /\ new.url = flight.url
                            /\ new.commit = head[flight.url] /\ new # None
    OBVIOUS
  <2>1. flight.url \in Urls /\ head[flight.url] \in Nat
    BY DEF CloneInv, CloneShape
  <2>2. new \in Clones
    BY <2>1 DEF Clones, B!Clone
  <2>3. new.whole /\ new.url = flight.url /\ new.commit = head[flight.url]
    BY DEF B!Clone
  <2>4. new # None
    BY ONLY <2>2, NilIsNoClone DEF NilIsNoClone
  <2> QED BY <2>2, <2>3, <2>4
<1>2. CASE B!CloneOrPullInner
  BY <1>2, StartStep
<1>3. CASE B!DoClone
  <2>1. flight.pc = "clone" /\ clone = None /\ UNCHANGED <<url, head, tmp, lastSync, saved>>
    BY <1>3 DEF B!DoClone, CloneInv, StageOK
  <2>2. CASE B!Land(FALSE) /\ UNCHANGED clone
    BY <2>1, <2>2, LandInv DEF CloneInv, CloneShape, TornIsStale
  <2>3. CASE clone' = new /\ flight' = [flight EXCEPT !.pc = "record"] /\ UNCHANGED caller
    <3>1. TornIsStale' /\ StageOK'
      BY <1>1, <2>1, <2>3 DEF TornIsStale, StageOK, CloneInv, CloneShape, Flights
    <3> QED BY <1>1, <2>1, <2>3, <3>1, StageStep DEF CloneInv, CloneShape, Stages
  <2> QED BY <1>3, <2>2, <2>3 DEF B!DoClone
<1>4. CASE B!DoPull
  <2>1. flight.pc = "pull" /\ clone # None /\ UNCHANGED <<url, head, tmp, lastSync, saved>>
    BY <1>4 DEF B!DoPull, CloneInv, StageOK
  <2>2. CASE B!Land(FALSE) /\ UNCHANGED clone
    BY <2>1, <2>2, LandInv DEF CloneInv, CloneShape, TornIsStale
  <2>3. CASE /\ clone.whole /\ clone' = [clone EXCEPT !.commit = head[flight.url]]
             /\ flight' = [flight EXCEPT !.pc = "record"] /\ UNCHANGED caller
    <3>1. /\ clone' \in Clones /\ clone'.whole /\ clone'.commit = head[flight.url]
      BY <2>1, <2>3 DEF CloneInv, CloneShape, Clones
    <3>2. TornIsStale' /\ StageOK'
      BY <2>1, <2>3, <3>1 DEF TornIsStale, StageOK, CloneInv, CloneShape, Flights, NilIsNoClone
    <3> QED BY <2>1, <2>3, <3>1, <3>2, StageStep DEF CloneInv, CloneShape, Stages, NilIsNoClone
  <2>4. CASE flight' = [flight EXCEPT !.pc = "repair"] /\ UNCHANGED <<caller, clone>>
    <3>1. TornIsStale' /\ StageOK'
      BY <2>1, <2>4 DEF TornIsStale, StageOK, CloneInv, CloneShape, Flights
    <3> QED BY <2>1, <2>4, <3>1, StageStep DEF CloneInv, CloneShape, Stages
  <2> QED BY <1>4, <2>2, <2>3, <2>4 DEF B!DoPull
<1>5. CASE B!RecloneForRepair
  <2>1. /\ flight.pc = "repair" /\ clone # None
        /\ UNCHANGED <<url, head, clone, tmp, lastSync, saved>>
    BY <1>5 DEF B!RecloneForRepair, B!git, CloneInv, StageOK
  <2>2. CASE B!ForeignOrigin
    BY <1>5, <2>1, <2>2, LandInv DEF B!RecloneForRepair, CloneInv, CloneShape, TornIsStale
  <2>3. CASE ~B!ForeignOrigin
    <3>1. flight' = [flight EXCEPT !.pc = "reclone"] /\ UNCHANGED caller
      BY <1>5, <2>3 DEF B!RecloneForRepair
    <3>2. TornIsStale' /\ StageOK'
      BY <2>1, <2>3, <3>1 DEF TornIsStale, StageOK, CloneInv, CloneShape, Flights, B!ForeignOrigin
    <3> QED BY <2>1, <3>1, <3>2, StageStep DEF CloneInv, CloneShape, Stages
  <2> QED BY <2>2, <2>3
<1>6. CASE B!RecloneTmp
  <2>1. flight.pc = "reclone" /\ UNCHANGED <<url, head, clone, lastSync, saved>>
    BY <1>6 DEF B!RecloneTmp
  <2>2. CASE tmp' = None /\ B!Land(FALSE)
    BY <2>1, <2>2, LandInv DEF CloneInv, CloneShape, TornIsStale
  <2>3. CASE tmp' = new /\ flight' = [flight EXCEPT !.pc = "remove"] /\ UNCHANGED caller
    <3>1. TornIsStale' /\ StageOK'
      BY <1>1, <2>1, <2>3 DEF TornIsStale, StageOK, CloneInv, CloneShape, Flights
    <3> QED BY <1>1, <2>1, <2>3, <3>1, StageStep DEF CloneInv, CloneShape, Stages
  <2> QED BY <1>6, <2>2, <2>3 DEF B!RecloneTmp
<1>7. CASE B!RecloneRemove
  <2>1. /\ flight.pc = "remove" /\ clone' = None /\ flight' = [flight EXCEPT !.pc = "rename"]
        /\ UNCHANGED <<url, head, tmp, lastSync, saved, caller>>
    BY <1>7 DEF B!RecloneRemove
  <2>2. TornIsStale' /\ StageOK'
    BY <2>1 DEF TornIsStale, StageOK, CloneInv, CloneShape, Flights
  <2> QED BY <2>1, <2>2, StageStep DEF CloneInv, CloneShape, StageOK, Stages
<1>8. CASE B!RecloneRename
  <2>1. /\ flight.pc = "rename" /\ clone' = tmp /\ tmp' = None
        /\ flight' = [flight EXCEPT !.pc = "record"]
        /\ UNCHANGED <<url, head, lastSync, saved, caller>>
    BY <1>8 DEF B!RecloneRename
  <2>2. TornIsStale' /\ StageOK'
    BY <2>1 DEF TornIsStale, StageOK, CloneInv, CloneShape, Flights
  <2> QED BY <2>1, <2>2, StageStep DEF CloneInv, CloneShape, StageOK, Stages
<1>9. CASE B!RecordSync
  <2>1. /\ flight.pc = "record" /\ B!Land(TRUE) /\ clone' = [clone EXCEPT !.meta = flight.url]
        /\ UNCHANGED <<url, head, tmp>> /\ clone # None /\ clone.whole /\ flight.url \in Urls
    BY <1>9 DEF B!RecordSync, CloneInv, StageOK, CloneShape
  <2>2. clone' \in Clones /\ clone'.whole
    BY <2>1 DEF CloneInv, CloneShape, Clones
  <2>3. TornIsStale'
    BY <2>2 DEF TornIsStale
  <2> QED BY <2>1, <2>2, <2>3, LandInv DEF CloneInv, CloneShape
<1> QED BY <1>2, <1>3, <1>4, <1>5, <1>6, <1>7, <1>8, <1>9 DEF B!Sync

\* Callers, the operator and time: what the flight has to fetch only grows.
LEMMA CallerStep ==
  ASSUME GitFaults = {}, NilIsNoClone, CloneInv, NEW c \in Callers,
         B!HardDeadline(c) \/ B!Resolve(c) \/ \E f \in BOOLEAN : B!CloneOrPullWithAuth(c, f)
  PROVE  CloneInv'
<1>1. CASE B!HardDeadline(c)
  <2>1. /\ caller' = [caller EXCEPT ![c] = [caller[c] EXCEPT !.pc = "done", !.ok = FALSE]]
        /\ flight' = [flight EXCEPT !.joined = flight.joined \ {c}]
        /\ UNCHANGED <<url, head, clone, tmp, lastSync, saved>>
    BY <1>1 DEF B!HardDeadline, B!git, CloneInv, CloneShape, Calls
  <2>2. /\ [caller[c] EXCEPT !.pc = "done", !.ok = FALSE] \in Calls
    BY DEF CloneInv, CloneShape, Calls
  <2>3. /\ caller' \in [Callers -> Calls] /\ flight' \in Flights /\ flight'.pc = flight.pc
        /\ flight'.url = flight.url /\ flight'.force = flight.force
        /\ flight'.joined = flight.joined \ {c}
        /\ \A d \in Callers \ {c} : caller'[d] = caller[d]
    BY <2>1, <2>2 DEF CloneInv, CloneShape, Flights
  <2>4. flight.joined \subseteq Callers
    BY DEF CloneInv, CloneShape, Flights
  <2> QED BY <2>1, <2>3, <2>4 DEF CloneInv, CloneShape, StageOK, TornIsStale, Fresh, Fetches
<1>2. CASE B!Resolve(c)
  <2>1. /\ caller' = [caller EXCEPT ![c] = B!NoCall] /\ caller[c].pc = "done"
        /\ UNCHANGED <<url, head, clone, tmp, lastSync, saved, flight>>
    BY <1>2 DEF B!Resolve, B!git
  <2>2. B!NoCall \in Calls /\ B!NoCall.force = FALSE
    BY DEF B!NoCall, Calls
  <2>3. caller' \in [Callers -> Calls] /\ \A d \in Callers : caller'[d] = IF d = c THEN B!NoCall ELSE caller[d]
    BY <2>1, <2>2 DEF CloneInv, CloneShape
  <2>4. flight.joined \subseteq Callers
    BY DEF CloneInv, CloneShape, Flights
  <2> QED BY <2>1, <2>2, <2>3, <2>4 DEF CloneInv, CloneShape, StageOK, TornIsStale, Fresh, Fetches
<1>3. ASSUME NEW f \in BOOLEAN, B!CloneOrPullWithAuth(c, f) PROVE CloneInv'
  <2> DEFINE call == [pc |-> "wait", url |-> url, force |-> f, saw |-> head[url], ok |-> FALSE]
  <2>1. /\ caller' = [caller EXCEPT ![c] = call]
        /\ UNCHANGED <<url, head, clone, tmp, lastSync, saved>>
    BY <1>3 DEF B!CloneOrPullWithAuth, B!git
  <2>2. call \in Calls /\ url \in Urls
    BY DEF CloneInv, CloneShape, Calls
  <2>3. caller' \in [Callers -> Calls] /\ \A d \in Callers : caller'[d] = IF d = c THEN call ELSE caller[d]
    BY <2>1, <2>2 DEF CloneInv, CloneShape
  <2>4. CASE flight.pc # "none"
    <3>1. /\ flight' = [flight EXCEPT !.joined = flight.joined \cup {c}]
          /\ flight.url = url /\ (f => flight.force /\ flight.pc = "start")
      BY <1>3, <2>4 DEF B!CloneOrPullWithAuth
    <3>2. /\ flight' \in Flights /\ flight'.pc = flight.pc /\ flight'.url = flight.url
          /\ flight'.force = flight.force /\ flight'.joined = flight.joined \cup {c}
      BY <3>1 DEF CloneInv, CloneShape, Flights
    <3>3. f => Fetches(c)'
      <4>1. head[url] \in Nat
        BY DEF CloneInv, CloneShape
      <4> QED BY <2>1, <2>3, <3>1, <3>2, <4>1 DEF Fetches
    <3>4. \A d \in flight.joined \ {c} : caller[d].force => Fetches(d)'
      BY <2>1, <2>3, <3>2 DEF CloneInv, CloneShape, Flights, Fresh, Fetches
    <3>5. flight.joined \subseteq Callers
      BY DEF CloneInv, CloneShape, Flights
    <3>6. Fresh'
      BY <2>3, <3>2, <3>3, <3>4, <3>5 DEF Fresh
    <3>7. CloneShape' /\ StageOK' /\ TornIsStale'
      BY <2>1, <2>3, <2>4, <3>1, <3>2 DEF CloneInv, CloneShape, StageOK, TornIsStale
    <3> QED BY <3>6, <3>7 DEF CloneInv
  <2>5. CASE flight.pc = "none"
    <3>1. flight' = [pc |-> "start", url |-> url, force |-> f, joined |-> {c}]
      BY <1>3, <2>5 DEF B!CloneOrPullWithAuth
    <3>2. flight' \in Flights /\ flight'.joined = {c} /\ flight'.force = f
      BY <2>2, <3>1 DEF Flights, Stages
    <3>3. head[url] \in Nat
      BY DEF CloneInv, CloneShape
    <3>4. Fresh'
      BY <2>1, <2>3, <3>1, <3>2, <3>3 DEF Fresh, Fetches
    <3> QED BY <2>1, <2>2, <2>3, <3>1, <3>2, <3>4 DEF CloneInv, CloneShape, StageOK, TornIsStale
  <2> QED BY <2>4, <2>5
<1> QED BY <1>1, <1>2, <1>3

\* The remotes, the configuration and the clock.
LEMMA WorldStep ==
  ASSUME GitFaults = {}, NilIsNoClone, CloneInv,
         \/ \E u \in Urls : B!SetUrl(u) \/ B!Commit(u)
         \/ B!Elapse \/ B!SkipPullForHost \/ UNCHANGED B!bundleVars
  PROVE  CloneInv'
<1>1. ASSUME NEW u \in Urls, B!Commit(u) PROVE CloneInv'
  <2>1. /\ head' = [head EXCEPT ![u] = head[u] + 1]
        /\ UNCHANGED <<url, clone, tmp, lastSync, saved, flight, caller>>
    BY <1>1 DEF B!Commit, B!git
  <2>2. head' \in [Urls -> Nat] /\ \A v \in Urls : head[v] <= head'[v]
    BY <2>1 DEF CloneInv, CloneShape
  <2>3. CloneShape'
    BY <2>1, <2>2 DEF CloneInv, CloneShape
  <2>4. ASSUME NEW c \in flight.joined, Fetches(c) PROVE Fetches(c)'
    <3>1. /\ flight.url \in Urls /\ caller[c].saw \in Nat /\ head[flight.url] \in Nat
          /\ head'[flight.url] \in Nat /\ head[flight.url] <= head'[flight.url]
      BY <2>2, <2>4 DEF CloneInv, CloneShape, Flights, Calls
    <3> QED BY <2>1, <2>4, <3>1 DEF Fetches
  <2> QED BY <2>1, <2>3, <2>4 DEF CloneInv, StageOK, TornIsStale, Fresh
<1>2. CASE B!Elapse
  <2>1. UNCHANGED <<url, head, clone, tmp, flight, caller>>
    BY <1>2 DEF B!Elapse
  <2>2. TornIsStale'
    BY <1>2 DEF B!Elapse, TornIsStale, CloneInv
  <2> QED BY <2>1, <2>2 DEF CloneInv, CloneShape, StageOK, Fresh, Fetches
<1>3. ASSUME NEW u \in Urls, B!SetUrl(u) PROVE CloneInv'
  <2>1. url' = u /\ UNCHANGED <<head, clone, tmp, lastSync, saved, flight, caller>>
    BY <1>3 DEF B!SetUrl, B!git
  <2> QED BY <2>1 DEF CloneInv, CloneShape, StageOK, TornIsStale, Fresh, Fetches
<1>4. CASE B!SkipPullForHost \/ UNCHANGED B!bundleVars
  <2>1. UNCHANGED <<url, head, clone, tmp, lastSync, saved, flight, caller>>
    BY <1>4 DEF B!SkipPullForHost, B!bundleVars, B!git
  <2> QED BY <2>1 DEF CloneInv, CloneShape, StageOK, TornIsStale, Fresh, Fetches
<1> QED BY <1>1, <1>2, <1>3, <1>4

\* A crash tears a clone only where the store does not know it as recent.
LEMMA CloneCrash ==
  ASSUME GitFaults = {}, NilIsNoClone, CloneInv, B!Crash PROVE CloneInv'
<1>1. /\ flight' = B!NoFlight /\ caller' = [c \in Callers |-> B!NoCall]
      /\ lastSync' = None /\ UNCHANGED <<url, head, tmp, saved>>
  BY DEF B!Crash
<1>2. B!NoFlight \in Flights /\ B!NoFlight.pc = "none" /\ B!NoFlight.joined = {} /\ B!NoCall \in Calls
  BY DEF B!NoFlight, B!NoCall, Flights, Calls, Stages
<1>3. \/ clone' = clone
      \/ clone' = None
      \/ flight.pc = "clone" /\ saved # "recent" /\ clone' = B!Clone(flight.url, 0, FALSE)
  BY DEF B!Crash
<1>4. flight.pc = "clone" => B!Clone(flight.url, 0, FALSE) \in Clones
  BY DEF CloneInv, CloneShape, B!Clone, Clones
<1>5. TornIsStale'
  BY <1>1, <1>3 DEF TornIsStale, CloneInv, NilIsNoClone
<1> QED BY <1>1, <1>2, <1>3, <1>4, <1>5 DEF CloneInv, CloneShape, StageOK, Fresh, TornIsStale

\* CloneInv is inductive.
LEMMA CloneStep ==
  ASSUME GitFaults = {}, NilIsNoClone, CloneInv, [B!Next]_(B!bundleVars) PROVE CloneInv'
BY FlightStep, CallerStep, WorldStep, CloneCrash DEF B!Next

\* A clone that a launcher starts with is whole.
LEMMA CloneInit == ASSUME NilIsNoClone, B!Init PROVE CloneInv
<1>1. clone = None \/ (clone \in Clones /\ clone.whole)
  <2>1. ASSUME NEW u \in Urls, NEW m \in {None, url}, clone = B!Recorded(u, m)
        PROVE  clone \in Clones /\ clone.whole
    <3>1. clone = [url |-> u, commit |-> 1, whole |-> TRUE, meta |-> m]
      BY <2>1 DEF B!Recorded, B!Clone
    <3>2. url \in Urls
      BY DEF B!Init
    <3> QED BY <3>1, <3>2 DEF Clones
  <2>2. clone \in {None} \cup {B!Recorded(u, m) : u \in Urls, m \in {None, url}}
    BY DEF B!Init
  <2> QED BY <2>1, <2>2
<1>2. flight = B!NoFlight /\ flight \in Flights /\ flight.pc = "none" /\ flight.joined = {}
  BY DEF B!Init, B!NoFlight, Flights, Stages
<1>3. caller \in [Callers -> Calls] /\ url \in Urls /\ head \in [Urls -> Nat] /\ tmp = None
  BY DEF B!Init, B!NoCall, Calls
<1> QED BY <1>1, <1>2, <1>3 DEF CloneInv, CloneShape, StageOK, TornIsStale, Fresh

\* Who is answered with success is answered by a flight that lands.
LEMMA AnsweredLands ==
  ASSUME CloneInv, B!Next, NEW c \in Callers, B!Answered(c, TRUE)
  PROVE  /\ c \in flight.joined
         /\ (B!CloneOrPullInner /\ B!Land(TRUE)) \/ B!RecordSync
<1>1. caller[c].pc = "wait" /\ caller'[c].pc = "done" /\ caller'[c].ok = TRUE
  BY DEF B!Answered
<1>2. caller \in [Callers -> Calls]
  BY DEF CloneInv, CloneShape
<1>3. ASSUME NEW ok \in BOOLEAN, B!Land(ok) PROVE c \in flight.joined /\ ok = TRUE
  <2>1. caller' = [d \in Callers |-> IF d \in flight.joined THEN [caller[d] EXCEPT !.pc = "done", !.ok = ok]
                                    ELSE caller[d]]
    BY <1>3 DEF B!Land
  <2>2. c \in flight.joined
    BY <1>1, <2>1
  <2> QED BY <1>1, <1>2, <2>1, <2>2 DEF Calls
<1>4. ~ (\E d \in Callers : B!HardDeadline(d))
  <2> SUFFICES ASSUME NEW d \in Callers, B!HardDeadline(d) PROVE FALSE
    OBVIOUS
  <2>1. caller' = [caller EXCEPT ![d] = [caller[d] EXCEPT !.pc = "done", !.ok = FALSE]]
    BY <1>2 DEF B!HardDeadline, Calls
  <2>2. CASE c = d
    BY <1>1, <1>2, <2>1, <2>2 DEF Calls
  <2>3. CASE c # d
    BY <1>1, <1>2, <2>1, <2>3
  <2> QED BY <2>2, <2>3
<1>5. ~ (\E d \in Callers : B!Resolve(d) \/ \E f \in BOOLEAN : B!CloneOrPullWithAuth(d, f))
  BY <1>1, <1>2 DEF B!Resolve, B!CloneOrPullWithAuth, B!NoCall
<1>6. ~ (\/ \E u \in Urls : B!SetUrl(u) \/ B!Commit(u)
         \/ B!Elapse \/ B!SkipPullForHost \/ B!Crash)
  <2>1. caller' # caller
    BY <1>1
  <2>2. ~B!Elapse /\ ~B!SkipPullForHost /\ ~ (\E u \in Urls : B!SetUrl(u) \/ B!Commit(u))
    BY ONLY <2>1 DEF B!SetUrl, B!Commit, B!Elapse, B!SkipPullForHost
  <2>3. ASSUME B!Crash PROVE FALSE
    <3>1. caller'[c] = B!NoCall
      BY <2>3 DEF B!Crash
    <3> QED BY <1>1, <3>1 DEF B!NoCall
  <2> QED BY <2>2, <2>3
<1>7. B!Sync
  BY <1>4, <1>5, <1>6 DEF B!Next
<1>8. caller' # caller
  BY <1>1
<1>9. CASE B!CloneOrPullInner
  BY <1>3, <1>8, <1>9 DEF B!CloneOrPullInner
<1>10. CASE B!RecordSync
  BY <1>3, <1>10 DEF B!RecordSync
<1>11. ~B!DoClone /\ ~B!DoPull
  BY <1>3, <1>8 DEF B!DoClone, B!DoPull
<1>12. ~B!RecloneForRepair /\ ~B!RecloneTmp
  BY <1>3, <1>8 DEF B!RecloneForRepair, B!RecloneTmp
<1>13. ~B!RecloneRemove /\ ~B!RecloneRename
  BY <1>8 DEF B!RecloneRemove, B!RecloneRename
<1> QED BY <1>7, <1>9, <1>10, <1>11, <1>12, <1>13 DEF B!Sync

\* A step gives a caller what it was promised, and loses no clone.
LEMMA CloneServes ==
  ASSUME GitFaults = {}, NilIsNoClone, CloneInv, [B!Next]_(B!bundleVars)
  PROVE  /\ \A c \in Callers : B!Answered(c, TRUE) /\ ~skipped =>
                clone'.whole /\ (caller[c].force => clone'.commit >= caller[c].saw)
         /\ clone # None /\ clone.whole /\ clone.meta = flight.url /\ flight.pc = "remove" =>
                clone.url = flight.url
         /\ B!Whole /\ flight.pc # "none" /\ flight.pc # "remove" => clone' # None /\ clone'.whole
<1>1. ASSUME NEW c \in Callers, B!Answered(c, TRUE), ~skipped
      PROVE  clone'.whole /\ (caller[c].force => clone'.commit >= caller[c].saw)
  <2>1. B!Next
    BY <1>1 DEF B!Answered, B!bundleVars
  <2>2. c \in flight.joined
    BY <1>1, <2>1, AnsweredLands
  <2>3. CASE B!CloneOrPullInner /\ B!Land(TRUE)
    <3>1. /\ clone # None /\ ~flight.force /\ B!KnownSync = "recent" /\ clone' = clone
      BY <1>1, <2>3 DEF B!CloneOrPullInner, B!Land, B!NoFlight, CloneInv, CloneShape, Flights
    <3>2. clone.whole
      BY <3>1 DEF CloneInv, TornIsStale, B!KnownSync
    <3>3. ~caller[c].force
      BY <2>2, <3>1 DEF CloneInv, Fresh, Fetches
    <3> QED BY <3>1, <3>2, <3>3
  <2>4. CASE B!RecordSync
    <3>1. /\ clone # None /\ clone.whole /\ clone' = [clone EXCEPT !.meta = flight.url]
          /\ clone \in Clones /\ flight.pc = "record" /\ flight.joined \subseteq Callers
      BY <2>4 DEF B!RecordSync, CloneInv, StageOK, CloneShape, Flights
    <3>2. clone'.whole /\ clone'.commit = clone.commit
      BY <3>1 DEF Clones
    <3>3. caller[c].force => caller[c].saw <= clone.commit
      BY <2>2, <3>1 DEF CloneInv, Fresh, Fetches
    <3>4. caller[c].saw \in Nat /\ clone.commit \in Nat
      BY <3>1 DEF CloneInv, CloneShape, Calls, Clones
    <3> QED BY <3>2, <3>3, <3>4
  <2> QED BY <1>1, <2>1, <2>3, <2>4, AnsweredLands
<1>2. clone # None /\ clone.whole /\ clone.meta = flight.url /\ flight.pc = "remove" =>
          clone.url = flight.url
  BY DEF CloneInv, StageOK
<1>3. ASSUME B!Whole, flight.pc # "none", flight.pc # "remove" PROVE clone' # None /\ clone'.whole
  <2>1. clone # None /\ clone.whole /\ clone \in Clones /\ flight.pc \notin {"clone", "rename"}
    BY <1>3 DEF B!Whole, CloneInv, CloneShape, StageOK
  <2>2. CASE B!DoPull \/ B!RecordSync
    <3>1. \/ clone' = clone
          \/ clone' = [clone EXCEPT !.commit = head[flight.url]]
          \/ clone' = [clone EXCEPT !.meta = flight.url]
      BY <2>2 DEF B!DoPull, B!RecordSync
    <3>2. clone'.whole /\ DOMAIN clone' = CloneFields
      BY <2>1, <3>1 DEF Clones, CloneFields
    <3>3. clone' \in Clones
      <4>1. CloneInv'
        BY CloneStep
      <4>2. clone' \in Clones \cup {None}
        BY <4>1 DEF CloneInv, CloneShape
      <4>3. flight.url \in Urls /\ head[flight.url] \in Nat
        BY <1>3 DEF CloneInv, CloneShape
      <4> QED BY <2>1, <3>1, <4>3 DEF Clones
    <3> QED BY <3>2, <3>3 DEF NilIsNoClone
  <2>3. CASE B!CloneOrPullInner \/ B!RecloneForRepair \/ B!RecloneTmp
    BY <2>1, <2>3 DEF B!CloneOrPullInner, B!RecloneForRepair, B!RecloneTmp, B!git
  <2>4. ~B!DoClone /\ ~B!RecloneRemove /\ ~B!RecloneRename
    BY <1>3, <2>1 DEF B!DoClone, B!RecloneRemove, B!RecloneRename
  <2>5. CASE B!Crash
    BY <2>1, <2>5 DEF B!Crash
  <2>6. CASE \/ \E c \in Callers : B!HardDeadline(c) \/ B!Resolve(c)
                                     \/ \E f \in BOOLEAN : B!CloneOrPullWithAuth(c, f)
             \/ \E u \in Urls : B!SetUrl(u) \/ B!Commit(u)
             \/ B!Elapse \/ B!SkipPullForHost \/ UNCHANGED B!bundleVars
    <3>1. clone' = clone
      BY <2>6 DEF B!HardDeadline, B!Resolve, B!CloneOrPullWithAuth, B!SetUrl, B!Commit, B!Elapse,
         B!SkipPullForHost, B!bundleVars, B!git
    <3> QED BY <2>1, <3>1
  <2> QED BY <2>2, <2>3, <2>4, <2>5, <2>6 DEF B!Next, B!Sync
<1> QED BY <1>1, <1>2, <1>3

\* A caller of CloneOrPullWithAuth that is answered with success finds a clone that
\* can be read, with what it saw in the remote if it forced the sync; no repair, move
\* or failure loses a clone (recloneReplace), however many callers, commits, changes of
\* the URL and crashes, while nobody joins the sync of another URL.
THEOREM ClonesAreKept == NilIsNoClone /\ GitFaults = {} => (Spec => ClonesServe)
<1> SUFFICES ASSUME NilIsNoClone, GitFaults = {} PROVE Spec => ClonesServe
  OBVIOUS
<1>1. Init => CloneInv
  BY CloneInit DEF Init
<1>2. [Next]_vars => [B!Next]_(B!bundleVars)
  BY DEF Next, vars, gitVars, B!bundleVars, B!git
<1>3. CloneInv /\ [Next]_vars => CloneInv'
  BY <1>2, CloneStep
<1>4. CloneInv /\ [Next]_vars =>
        [\A c \in Callers : B!Answered(c, TRUE) /\ caller[c].force /\ ~skipped =>
            clone'.commit >= caller[c].saw]_(B!bundleVars)
  BY <1>2, CloneServes
<1>5. CloneInv /\ [Next]_vars =>
        [\A c \in Callers : B!Answered(c, TRUE) /\ ~skipped => clone'.whole]_(B!bundleVars)
  BY <1>2, CloneServes
<1>6. CloneInv /\ [Next]_vars =>
        [clone # None /\ clone.whole /\ clone.meta = flight.url /\ flight.pc = "remove" =>
            clone.url = flight.url]_(B!bundleVars)
  BY <1>2, CloneServes
<1>7. CloneInv /\ [Next]_vars =>
        [B!Whole /\ flight.pc # "none" /\ flight.pc # "remove" =>
            (clone' # None /\ clone'.whole)]_(B!bundleVars)
  BY <1>2, CloneServes
<1> QED BY <1>1, <1>3, <1>4, <1>5, <1>6, <1>7, PTL DEF Spec, ClonesServe, B!ClonesServe,
       B!ForcedIsFresh, B!SuccessIsWhole, B!CloneIsKept, B!NoSubstitution, B!FailureKeepsClone
-----------------------------------------------------------------------------
(* Certificates.  One flow at a time writes, the key and then the          *)
(* certificate: a pair is whole except where that one is between the two.  *)
(* A load is under way only where what is there does not serve its host,   *)
(* and writes the pair that the next plan will find.                       *)

Keys == C!Flows \cup {"old"}
Certs == [key : Keys, host : Hosts, left : {0, 1, 2}]

\* No host, no key and no certificate is none of these.
NilIsNoCert == None \notin Keys \cup Hosts \cup Certs \cup {"acme", "self", "custom"}

CertShape ==
  /\ pairs \in [C!Pairs -> [key : Keys \cup {None}, cert : Certs \cup {None}]]
  /\ flow \in [C!Flows -> [pc : {"idle", "order", "key", "cert"}, pair : C!Pairs \cup {None},
                           host : Hosts \cup {None}]]
  /\ tlsCfg \in [tls : BOOLEAN, acme : BOOLEAN, host : Hosts \cup {None},
                 path : {None, "custom", "self"}]
  /\ tlsCfg.tls => tlsCfg.host \in Hosts
  /\ tlsCfg.acme => tlsCfg.tls /\ tlsCfg.path = None

\* What a load that is under way is about.
LoadFits ==
  /\ tlsCfg.tls /\ tlsCfg.path = None
  /\ tlsCfg.acme => ~C!CertMatchesHost(tlsCfg.host, pairs)
  /\ flow["load"].pair = "acme" => tlsCfg.acme /\ flow["load"].host = tlsCfg.host

FlowOK ==
  /\ \A f, g \in C!Flows : f # g => flow[f].pc = "idle" \/ flow[g].pc = "idle"
  /\ \A f \in C!Flows : flow[f].pc # "idle" => flow[f].pair \in C!Pairs /\ flow[f].host \in Hosts
  /\ \A f \in C!Flows : flow[f].pc = "order" => flow[f].pair = "acme"
  /\ \A f \in C!Flows : flow[f].pc = "cert" => pairs[flow[f].pair].key = f
  /\ flow["wizard"].pc # "idle" => flow["wizard"].pair = "self"
  /\ flow["load"].pc # "idle" => LoadFits

Between(p) == \E f \in C!Flows : flow[f].pc = "cert" /\ flow[f].pair = p

CertInv ==
  /\ CertShape /\ FlowOK
  /\ \A p \in C!Pairs : pairs[p].cert # None => C!Whole(pairs, p) \/ Between(p)
  /\ tlsCfg.path = "self" => pairs["self"].cert # None
  /\ proxy.whole /\ (proxy.pair \in C!Pairs => pairs[proxy.pair].cert # None)

\* Only one flow is under way, so that whoever writes knows who the others are not.
LEMMA Alone ==
  ASSUME FlowOK, NEW f \in C!Flows, flow[f].pc # "idle", NEW g \in C!Flows, g # f
  PROVE  flow[g].pc = "idle"
BY DEF FlowOK

\* Between idle flows every pair is whole.
LEMMA IdleIsWhole ==
  ASSUME CertInv, \A f \in C!Flows : flow[f].pc # "cert"
  PROVE  \A p \in C!Pairs : pairs[p].cert # None => C!Whole(pairs, p)
BY DEF CertInv, Between

\* What the prompts, the editor and the clock leave.
LEMMA CertAround ==
  ASSUME CertFaults = {}, NilIsNoCert, CertInv,
         \/ \E h \in Hosts, choice \in {"http", "custom", "trusted", "auto", "self"}, s \in BOOLEAN :
               C!ConfigureTLS(h, choice, s)
         \/ \E c \in C!Configs : C!EditConfig(c)
  PROVE  CertInv'
<1>1. C!Idle /\ UNCHANGED <<pairs, proxy>>
  BY DEF C!ConfigureTLS, C!MayBegin, C!EditConfig
<1>2. \/ flow' = flow
      \/ \E h \in Hosts : flow' = [flow EXCEPT !["wizard"] = [pc |-> "key", pair |-> "self", host |-> h]]
  BY DEF C!ConfigureTLS, C!EditConfig, C!ConfigureCustomCert, C!TryLEWithRecovery, C!WizardSelfSigns,
     C!Write, C!FirstFile
<1>3. /\ tlsCfg' \in [tls : BOOLEAN, acme : BOOLEAN, host : Hosts \cup {None}, path : {None, "custom", "self"}]
      /\ tlsCfg'.tls => tlsCfg'.host \in Hosts
      /\ tlsCfg'.path = "self" => tlsCfg.path = "self"
      /\ tlsCfg'.acme => tlsCfg'.tls /\ tlsCfg'.path = None
  <2>1. ASSUME tlsCfg' = C!Http
        PROVE  <1>3!1 /\ <1>3!2 /\ <1>3!3 /\ <1>3!4
    BY <2>1 DEF C!Http, NilIsNoCert
  <2>2. ASSUME NEW h \in Hosts, tlsCfg' = C!Acme(h)
        PROVE  <1>3!1 /\ <1>3!2 /\ <1>3!3 /\ <1>3!4
    BY <2>2 DEF C!Acme, NilIsNoCert
  <2>3. ASSUME NEW h \in Hosts, NEW q \in {None, "custom"}, tlsCfg' = C!SelfSigned(h, q)
        PROVE  <1>3!1 /\ <1>3!2 /\ <1>3!3 /\ <1>3!4
    BY <2>3 DEF C!SelfSigned, NilIsNoCert
  <2>4. ASSUME tlsCfg' = tlsCfg
        PROVE  <1>3!1 /\ <1>3!2 /\ <1>3!3 /\ <1>3!4
    BY <2>4 DEF CertInv, CertShape
  <2>5. \/ tlsCfg' = C!Http \/ tlsCfg' = tlsCfg
        \/ \E h \in Hosts : \/ tlsCfg' = C!Acme(h) \/ tlsCfg' = C!SelfSigned(h, None)
                            \/ tlsCfg' = C!SelfSigned(h, "custom")
    BY DEF C!ConfigureTLS, C!EditConfig, C!ConfigureCustomCert, C!TryLEWithRecovery,
       C!WizardSelfSigns, C!Configs
  <2> QED BY <2>1, <2>2, <2>3, <2>4, <2>5
<1>4. /\ flow' \in [C!Flows -> [pc : {"idle", "order", "key", "cert"}, pair : C!Pairs \cup {None},
                               host : Hosts \cup {None}]]
      /\ \A f \in C!Flows \ {"wizard"} : flow'[f].pc = "idle"
      /\ flow'["wizard"].pc \in {"idle", "key"}
      /\ flow'["wizard"].pc # "idle" => flow'["wizard"].pair = "self" /\ flow'["wizard"].host \in Hosts
  BY <1>1, <1>2 DEF CertInv, CertShape, C!Idle, C!Flows, C!Pairs
<1>5. CertShape'
  BY <1>1, <1>3, <1>4 DEF CertInv, CertShape
<1>6. FlowOK'
  BY <1>4 DEF FlowOK, C!Flows, C!Pairs
<1>7. \A p \in C!Pairs : pairs[p].cert # None => C!Whole(pairs, p)
  BY <1>1, IdleIsWhole DEF C!Idle
<1> QED BY <1>1, <1>3, <1>5, <1>6, <1>7 DEF CertInv, C!Whole

\* What a flow that begins for this host and this pair may be.
Begins(f, h, p) ==
  /\ f = "wizard" => p = "self"
  /\ f = "load" => /\ tlsCfg.tls /\ tlsCfg.path = None
                   /\ tlsCfg.acme => ~C!CertMatchesHost(tlsCfg.host, pairs)
                   /\ p = "acme" => tlsCfg.acme /\ h = tlsCfg.host

\* A flow that is not between its two files begins, goes on or ends, the others idle.
LEMMA FlowMoves ==
  ASSUME NilIsNoCert, CertInv, pairs' = pairs, tlsCfg' = tlsCfg,
         NEW f \in C!Flows, \A g \in C!Flows \ {f} : flow[g].pc = "idle", flow[f].pc # "cert",
         \/ C!End(f)
         \/ \E h \in Hosts, p \in C!Pairs : (C!Write(f, p, h) \/ (p = "acme" /\ C!Order(f, h))) /\ Begins(f, h, p),
         proxy'.whole, proxy'.pair \in C!Pairs => pairs[proxy'.pair].cert # None
  PROVE  CertInv'
<1>1. \A p \in C!Pairs : pairs[p].cert # None => C!Whole(pairs, p)
  BY IdleIsWhole
<1>2. /\ flow' \in [C!Flows -> [pc : {"idle", "order", "key", "cert"}, pair : C!Pairs \cup {None},
                               host : Hosts \cup {None}]]
      /\ \A g \in C!Flows \ {f} : flow'[g].pc = "idle"
      /\ \/ flow'[f].pc = "idle"
         \/ /\ flow'[f].pc \in {"key", "order"} /\ flow'[f].pair \in C!Pairs /\ flow'[f].host \in Hosts
            /\ Begins(f, flow'[f].host, flow'[f].pair)
            /\ flow'[f].pc = "order" => flow'[f].pair = "acme"
  <2>1. CASE C!End(f)
    BY <2>1 DEF C!End, C!NoFlow, CertInv, CertShape
  <2>2. ASSUME NEW h \in Hosts, NEW p \in C!Pairs, C!Write(f, p, h), Begins(f, h, p)
        PROVE  <1>2!1 /\ <1>2!2 /\ <1>2!3
    BY <2>2 DEF C!Write, C!FirstFile, CertInv, CertShape
  <2>3. ASSUME NEW h \in Hosts, C!Order(f, h), Begins(f, h, "acme")
        PROVE  <1>2!1 /\ <1>2!2 /\ <1>2!3
    BY <2>3 DEF C!Order, C!Pairs, CertInv, CertShape
  <2> QED BY <2>1, <2>2, <2>3
<1>3. FlowOK'
  BY <1>2 DEF FlowOK, LoadFits, Begins, C!CertMatchesHost, C!Flows, C!Pairs
<1> QED BY <1>1, <1>2, <1>3 DEF CertInv, CertShape, C!Whole

\* The proxy is served what is whole.
LEMMA Served ==
  ASSUME CertInv, NilIsNoCert, NEW p, C!Serve(p), \A f \in C!Flows : flow[f].pc # "cert",
         p \in {None, "custom"} \/ (p \in C!Pairs /\ pairs[p].cert # None)
  PROVE  C!End("load") /\ proxy'.whole /\ proxy'.pair = p
         /\ (proxy'.pair \in C!Pairs => pairs[proxy'.pair].cert # None)
<1>1. p \in C!Pairs => C!Whole(pairs, p)
  BY IdleIsWhole, NilIsNoCert DEF NilIsNoCert, C!Pairs
<1> QED BY <1>1 DEF C!Serve, C!NoProxy, C!Loaded, C!Pairs, NilIsNoCert

\* What a load does of itself, whether it has asked Let's Encrypt or not.
LEMMA LoadProvides ==
  ASSUME CertInv, NilIsNoCert, C!ProvideSelfSigned, pairs' = pairs, tlsCfg' = tlsCfg,
         tlsCfg.tls, tlsCfg.path = None, tlsCfg.acme => ~C!CertMatchesHost(tlsCfg.host, pairs),
         flow["load"].pc # "cert", \A g \in C!Flows \ {"load"} : flow[g].pc = "idle"
  PROVE  CertInv' /\ (proxy' # proxy => C!Serve("self") /\ pairs["self"].cert # None)
<1>1. tlsCfg.host \in Hosts
  BY DEF CertInv, CertShape
<1>2. "load" \in C!Flows /\ "self" \in C!Pairs /\ \A f \in C!Flows : flow[f].pc # "cert"
  BY DEF C!Flows, C!Pairs
<1>3. CASE C!Write("load", "self", tlsCfg.host) /\ UNCHANGED proxy
  <2>1. Begins("load", tlsCfg.host, "self")
    BY DEF Begins
  <2>2. proxy.whole /\ (proxy.pair \in C!Pairs => pairs[proxy.pair].cert # None)
    BY DEF CertInv
  <2> QED BY <1>1, <1>2, <1>3, <2>1, <2>2, FlowMoves
<1>4. CASE pairs["self"].cert # None /\ C!Serve("self")
  BY <1>2, <1>4, Served, FlowMoves
<1> QED BY <1>3, <1>4 DEF C!ProvideSelfSigned

\* A start or a reload provides a pair (ensureProxyTLSCerts).
LEMMA CertLoad ==
  ASSUME CertFaults = {}, NilIsNoCert, CertInv, C!EnsureProxyTLSCerts
  PROVE  CertInv'
<1>1. C!Idle /\ UNCHANGED <<pairs, tlsCfg>>
  BY DEF C!EnsureProxyTLSCerts, C!MayBegin
<1>2. "load" \in C!Flows /\ {"self", "acme"} \subseteq C!Pairs
      /\ (\A f \in C!Flows : flow[f].pc = "idle") /\ flow["load"].pc # "cert"
  BY <1>1 DEF C!Flows, C!Pairs, C!Idle
<1>3. ASSUME NEW p, C!Serve(p), p \in {None, "custom"} \/ (p \in C!Pairs /\ pairs[p].cert # None)
      PROVE  CertInv'
  BY <1>1, <1>2, <1>3, Served, FlowMoves
<1>4. CASE ~tlsCfg.tls /\ C!Serve(None)
  BY <1>3, <1>4
<1>5. CASE tlsCfg.path # None /\ C!Serve(tlsCfg.path)
  BY <1>2, <1>3, <1>5 DEF CertInv, CertShape
<1>6. CASE tlsCfg.tls /\ ~tlsCfg.acme /\ tlsCfg.path = None /\ C!ProvideSelfSigned
  BY <1>1, <1>2, <1>6, LoadProvides
<1>7. CASE tlsCfg.tls /\ tlsCfg.acme /\ C!ObtainIfNeeded
  <2>1. tlsCfg.host \in Hosts
    BY <1>7 DEF CertInv, CertShape
  <2>2. tlsCfg.path = None
    BY <1>7 DEF CertInv, CertShape
  <2>3. CASE C!CertMatchesHost(tlsCfg.host, pairs) /\ C!Serve("acme")
    BY <1>2, <1>3, <2>3 DEF C!CertMatchesHost
  <2>4. CASE ~C!CertMatchesHost(tlsCfg.host, pairs) /\ C!ProvideSelfSigned
    BY <1>1, <1>2, <1>7, <2>2, <2>4, LoadProvides
  <2>5. CASE ~C!CertMatchesHost(tlsCfg.host, pairs) /\ C!Order("load", tlsCfg.host) /\ UNCHANGED proxy
    <3>1. Begins("load", tlsCfg.host, "acme")
      BY <1>7, <2>2, <2>5 DEF Begins
    <3>2. proxy.whole /\ (proxy.pair \in C!Pairs => pairs[proxy.pair].cert # None)
      BY DEF CertInv
    <3> QED BY <1>1, <1>2, <2>1, <2>5, <3>1, <3>2, FlowMoves
  <2> QED BY <1>7, <2>3, <2>4, <2>5 DEF C!ObtainIfNeeded
<1> QED BY <1>4, <1>5, <1>6, <1>7 DEF C!EnsureProxyTLSCerts

\* The renewal orders a certificate (checkAndRenew).
LEMMA CertRenew ==
  ASSUME CertFaults = {}, NilIsNoCert, CertInv, C!CheckAndRenew
  PROVE  CertInv'
<1>1. C!Idle /\ pairs' = pairs /\ tlsCfg' = tlsCfg /\ proxy' = proxy /\ tlsCfg.acme
      /\ C!Order("renewal", tlsCfg.host) /\ pairs["acme"].cert # None
  BY DEF C!CheckAndRenew, C!MayBegin
<1>2. "renewal" \in C!Flows /\ "acme" \in C!Pairs /\ (\A f \in C!Flows : flow[f].pc = "idle")
  BY <1>1 DEF C!Flows, C!Pairs, C!Idle
<1>3. proxy.whole /\ (proxy.pair \in C!Pairs => pairs[proxy.pair].cert # None)
  BY DEF CertInv
<1>4. flow' = [flow EXCEPT !["renewal"] = [pc |-> "order", pair |-> "acme", host |-> tlsCfg.host]]
  BY <1>1 DEF C!Order
<1>5. tlsCfg.host \in Hosts
  BY <1>1 DEF CertInv, CertShape
<1>6. Begins("renewal", tlsCfg.host, "acme")
  BY DEF Begins
<1> QED BY <1>1, <1>2, <1>3, <1>5, <1>6, FlowMoves

\* An order is fulfilled, or is not.
LEMMA CertOrderEnds ==
  ASSUME CertFaults = {}, NilIsNoCert, CertInv, NEW f \in C!Flows, C!OrderEnds(f)
  PROVE  CertInv'
<1>1. flow[f].pc = "order" /\ pairs' = pairs /\ tlsCfg' = tlsCfg
  BY DEF C!OrderEnds
<1>2. \A g \in C!Flows \ {f} : flow[g].pc = "idle"
  BY <1>1, Alone DEF CertInv
<1>3. proxy.whole /\ (proxy.pair \in C!Pairs => pairs[proxy.pair].cert # None)
  BY DEF CertInv
<1>4. flow[f].host \in Hosts /\ "acme" \in C!Pairs
  BY <1>1 DEF CertInv, FlowOK, C!Pairs
<1>5. CASE C!Write(f, "acme", flow[f].host) /\ UNCHANGED proxy
  <2>1. Begins(f, flow[f].host, "acme")
    BY <1>1 DEF Begins, CertInv, FlowOK, LoadFits
  <2> QED BY <1>1, <1>2, <1>3, <1>4, <1>5, <2>1, FlowMoves
<1>6. CASE f = "load" /\ C!ProvideSelfSigned
  <2>1. LoadFits
    BY <1>1, <1>6 DEF CertInv, FlowOK
  <2> QED BY <1>1, <1>2, <1>6, <2>1, LoadProvides DEF LoadFits
<1>7. CASE C!End(f) /\ UNCHANGED proxy
  BY <1>1, <1>2, <1>3, <1>7, FlowMoves
<1> QED BY <1>5, <1>6, <1>7 DEF C!OrderEnds

\* The key is written: the certificate that is there is no longer that of the key.
LEMMA CertWritesKey ==
  ASSUME CertFaults = {}, NilIsNoCert, CertInv, NEW f \in C!Flows, C!WriteFile(f), flow[f].pc = "key"
  PROVE  CertInv'
<1> DEFINE p == flow[f].pair
           new == C!WithKey(f, pairs[p], TRUE)
<1>1. p \in C!Pairs /\ flow[f].host \in Hosts /\ f \in Keys
  BY DEF CertInv, FlowOK, Keys
<1>2. \A g \in C!Flows \ {f} : flow[g].pc = "idle"
  BY Alone DEF CertInv
<1>3. /\ pairs' = [pairs EXCEPT ![p] = new]
      /\ flow' = [flow EXCEPT ![f].pc = "cert"]
      /\ tlsCfg' = tlsCfg /\ proxy' = proxy
  <2>1. flow[f].pc = C!FirstFile /\ "disk" \notin CertFaults
    BY DEF C!FirstFile
  <2> QED BY <2>1 DEF C!WriteFile, C!FirstFile
<1>4. pairs[p] \in [key : Keys \cup {None}, cert : Certs \cup {None}]
  BY <1>1 DEF CertInv, CertShape
<1>5. ASSUME pairs[p].cert # None
      PROVE  /\ new.cert \in Certs /\ new.cert.host = pairs[p].cert.host
             /\ new.cert.left = pairs[p].cert.left
  <2>1. pairs[p].cert \in Certs
    BY <1>4, <1>5
  <2>2. new.cert = [pairs[p].cert EXCEPT !.key = C!Aged(@, f)]
    BY <1>5 DEF C!WithKey, C!Pair
  <2>3. C!Aged(pairs[p].cert.key, f) \in Keys
    BY <2>1 DEF C!Aged, Certs, Keys
  <2> QED BY <2>1, <2>2, <2>3 DEF Certs
<1>6. /\ new.key = f /\ new \in [key : Keys \cup {None}, cert : Certs \cup {None}]
      /\ (new.cert = None <=> pairs[p].cert = None)
  <2>1. CASE pairs[p].cert = None
    BY <1>1, <2>1 DEF C!WithKey, C!Pair
  <2>2. CASE pairs[p].cert # None
    BY <1>1, <1>5, <2>2 DEF C!WithKey, C!Pair, NilIsNoCert
  <2> QED BY <2>1, <2>2
<1> HIDE DEF new
<1>7. /\ pairs' \in [C!Pairs -> [key : Keys \cup {None}, cert : Certs \cup {None}]]
      /\ pairs'[p].key = f /\ \A q \in C!Pairs \ {p} : pairs'[q] = pairs[q]
      /\ \A q \in C!Pairs : pairs'[q].cert = None <=> pairs[q].cert = None
      /\ \A q \in C!Pairs : pairs[q].cert # None =>
            pairs'[q].cert.host = pairs[q].cert.host /\ pairs'[q].cert.left = pairs[q].cert.left
  BY <1>1, <1>3, <1>5, <1>6 DEF CertInv, CertShape
<1>8. /\ flow' \in [C!Flows -> [pc : {"idle", "order", "key", "cert"}, pair : C!Pairs \cup {None},
                                host : Hosts \cup {None}]]
      /\ flow'[f].pc = "cert" /\ flow'[f].pair = p /\ flow'[f].host = flow[f].host
      /\ \A g \in C!Flows \ {f} : flow'[g].pc = "idle"
  BY <1>2, <1>3 DEF CertInv, CertShape
<1> HIDE DEF p
<1>9. CertShape'
  BY <1>3, <1>7, <1>8 DEF CertInv, CertShape
<1>10. FlowOK'
  <2>1. f = "load" => LoadFits /\ flow'["load"].pair = flow["load"].pair
                      /\ flow'["load"].host = flow["load"].host
    BY <1>8 DEF CertInv, FlowOK, p
  <2>2. f = "load" => LoadFits'
    <3>1. "acme" \in C!Pairs
      BY DEF C!Pairs
    <3> QED BY <1>3, <1>7, <2>1, <3>1 DEF LoadFits, C!CertMatchesHost
  <2>3. f = "wizard" => flow'["wizard"].pair = "self"
    BY <1>8 DEF CertInv, FlowOK, p
  <2>4. "load" \in C!Flows /\ "wizard" \in C!Flows
    BY DEF C!Flows
  <2> QED BY <1>1, <1>7, <1>8, <2>2, <2>3, <2>4 DEF FlowOK
<1>11. \A q \in C!Pairs : pairs'[q].cert # None => C!Whole(pairs', q) \/ Between(q)'
  <2>1. \A q \in C!Pairs : q = p => Between(q)'
    BY <1>8 DEF Between
  <2>2. \A q \in C!Pairs \ {p} : ~Between(q)
    BY <1>2 DEF Between, p
  <2> QED BY <1>7, <2>1, <2>2 DEF CertInv, C!Whole
<1>12. tlsCfg'.path = "self" => pairs'["self"].cert # None
  <2>1. "self" \in C!Pairs
    BY DEF C!Pairs
  <2> QED BY <1>3, <1>7, <2>1 DEF CertInv
<1>13. proxy'.whole /\ (proxy'.pair \in C!Pairs => pairs'[proxy'.pair].cert # None)
  BY <1>3, <1>7 DEF CertInv
<1> QED BY <1>9, <1>10, <1>11, <1>12, <1>13 DEF CertInv

\* The certificate of the key is written: the pair is whole, and is what the flow
\* was about.
LEMMA CertWritesCert ==
  ASSUME CertFaults = {}, NilIsNoCert, CertInv, NEW f \in C!Flows, C!WriteFile(f), flow[f].pc = "cert"
  PROVE  /\ CertInv'
         /\ f = "load" => /\ proxy'.pair = flow[f].pair /\ tlsCfg' = tlsCfg
                          /\ pairs'[flow[f].pair] = C!Pair(f, C!Cert(f, flow[f].host))
                          /\ \A q \in C!Pairs \ {flow[f].pair} : pairs'[q] = pairs[q]
<1> DEFINE p == flow[f].pair
           new == C!WithCert(f, pairs[p], FALSE)
           files == [pairs EXCEPT ![p] = new]
<1>1. p \in C!Pairs /\ flow[f].host \in Hosts /\ f \in Keys /\ pairs[p].key = f
  BY DEF CertInv, FlowOK, Keys
<1>2. \A g \in C!Flows \ {f} : flow[g].pc = "idle"
  BY Alone DEF CertInv
<1>3. pairs' = files /\ C!Written(f, files)
  <2>1. flow[f].pc # C!FirstFile /\ "disk" \notin CertFaults
    BY DEF C!FirstFile
  <2> QED BY <2>1 DEF C!WriteFile, C!FirstFile
<1>4. new = C!Pair(f, C!Cert(f, flow[f].host))
  BY <1>1 DEF C!WithCert
<1> HIDE DEF new
<1>5. /\ new \in [key : Keys \cup {None}, cert : Certs \cup {None}]
      /\ new.key = f /\ new.cert.key = f /\ new.cert \in Certs
  <2>1. C!Cert(f, flow[f].host) \in Certs /\ C!Cert(f, flow[f].host).key = f
    BY <1>1 DEF C!Cert, C!Fresh, Certs
  <2>2. new.key = f /\ new.cert = C!Cert(f, flow[f].host)
    BY <1>4 DEF C!Pair
  <2>3. new \in [key : Keys \cup {None}, cert : Certs \cup {None}]
    BY <1>1, <1>4, <2>1 DEF C!Pair
  <2> QED BY <2>1, <2>2, <2>3
<1>6. /\ pairs' \in [C!Pairs -> [key : Keys \cup {None}, cert : Certs \cup {None}]]
      /\ pairs'[p] = new /\ \A q \in C!Pairs \ {p} : pairs'[q] = pairs[q]
  BY <1>1, <1>3, <1>5 DEF CertInv, CertShape
<1>7. /\ flow' \in [C!Flows -> [pc : {"idle", "order", "key", "cert"}, pair : C!Pairs \cup {None},
                                host : Hosts \cup {None}]]
      /\ \A g \in C!Flows : flow'[g].pc = "idle"
  BY <1>2, <1>3 DEF C!Written, C!End, C!NoFlow, CertInv, CertShape
<1>8. \A q \in C!Pairs : /\ pairs[q].cert # None => pairs'[q].cert # None
                         /\ pairs'[q].cert # None => C!Whole(pairs', q)
  <2>1. C!Whole(pairs', p) /\ pairs'[p].cert # None
    BY <1>5, <1>6 DEF C!Whole, NilIsNoCert
  <2>2. \A q \in C!Pairs \ {p} : ~Between(q)
    BY <1>2 DEF Between
  <2> QED BY <1>6, <2>1, <2>2 DEF CertInv, C!Whole
<1>9. FlowOK'
  BY <1>7 DEF FlowOK, C!Flows
<1>10. CASE f = "wizard"
  <2>1. tlsCfg' = C!SelfSigned(flow[f].host, "self") /\ proxy' = proxy
    BY <1>3, <1>10 DEF C!Written
  <2>2. p = "self"
    BY <1>10 DEF CertInv, FlowOK
  <2>3. CertShape'
    BY <1>1, <1>6, <1>7, <2>1 DEF CertShape, C!SelfSigned
  <2>4. pairs'["self"].cert # None
    BY <1>1, <1>5, <1>6, <2>2 DEF NilIsNoCert
  <2>5. proxy'.whole /\ (proxy'.pair \in C!Pairs => pairs'[proxy'.pair].cert # None)
    BY <1>8, <2>1 DEF CertInv
  <2> QED BY <1>8, <1>9, <1>10, <2>3, <2>4, <2>5 DEF CertInv
<1>11. ASSUME f # "wizard"
       PROVE  /\ tlsCfg' = tlsCfg
              /\ f = "load" => proxy' = C!Loaded(p, files)
              /\ proxy' = proxy \/ (proxy.pair \in C!Pairs /\ proxy' = C!Loaded(proxy.pair, files))
                 \/ proxy' = C!Loaded(p, files)
  BY <1>3, <1>11 DEF C!Written
<1>12. CASE f # "wizard"
  <2>1. CertShape'
    BY <1>6, <1>7, <1>11, <1>12 DEF CertInv, CertShape
  <2>2. tlsCfg'.path = "self" => pairs'["self"].cert # None
    BY <1>8, <1>11, <1>12 DEF CertInv, C!Pairs
  <2>3. \A q \in C!Pairs : pairs'[q].cert # None =>
          C!Loaded(q, files).whole /\ C!Loaded(q, files).pair = q
    BY <1>3, <1>8 DEF C!Loaded
  <2>4. pairs'[p].cert # None
    BY <1>5, <1>6 DEF NilIsNoCert
  <2>5. proxy'.whole /\ (proxy'.pair \in C!Pairs => pairs'[proxy'.pair].cert # None)
    BY <1>1, <1>8, <1>11, <1>12, <2>3, <2>4 DEF CertInv
  <2>6. f = "load" => proxy'.pair = p
    BY <1>1, <1>11, <1>12, <2>3, <2>4
  <2> QED BY <1>4, <1>6, <1>8, <1>9, <1>11, <1>12, <2>1, <2>2, <2>5, <2>6 DEF CertInv
<1> QED BY <1>10, <1>12

\* A certificate ages, the mark of the rate limit runs out.
LEMMA CertTime ==
  ASSUME CertFaults = {}, NilIsNoCert, CertInv, C!Time PROVE CertInv'
<1>1. "acme" \in C!Pairs /\ "self" \in C!Pairs /\ UNCHANGED <<flow, tlsCfg, proxy>>
  BY DEF C!Time, C!Pairs
<1>2. CASE UNCHANGED pairs
  BY <1>1, <1>2 DEF CertInv, CertShape, FlowOK, LoadFits, C!CertMatchesHost, C!Whole, Between
<1>3. ASSUME pairs["acme"].cert # None, pairs["acme"].cert.left > 0,
             pairs' = [pairs EXCEPT !["acme"].cert.left = @ - 1]
      PROVE  CertInv'
  <2> DEFINE old == pairs["acme"].cert
             cert == [old EXCEPT !.left = old.left - 1]
  <2>1. pairs["acme"] \in [key : Keys \cup {None}, cert : Certs \cup {None}] /\ old \in Certs
    BY <1>1, <1>3 DEF CertInv, CertShape
  <2>2. cert \in Certs /\ cert.key = old.key /\ cert.host = old.host /\ cert.left = old.left - 1
    BY <1>3, <2>1 DEF Certs
  <2>3. pairs' = [pairs EXCEPT !["acme"] = [pairs["acme"] EXCEPT !.cert = cert]]
    BY <1>3
  <2> HIDE DEF old, cert
  <2>4. /\ pairs' \in [C!Pairs -> [key : Keys \cup {None}, cert : Certs \cup {None}]]
        /\ pairs'["acme"].key = pairs["acme"].key /\ pairs'["acme"].cert = cert
        /\ \A q \in C!Pairs \ {"acme"} : pairs'[q] = pairs[q]
    BY <1>1, <2>1, <2>2, <2>3 DEF CertInv, CertShape
  <2>5. \A q \in C!Pairs : /\ pairs'[q].key = pairs[q].key
                           /\ pairs'[q].cert = None <=> pairs[q].cert = None
                           /\ C!Whole(pairs', q) <=> C!Whole(pairs, q)
    BY <1>1, <1>3, <2>2, <2>4 DEF C!Whole, NilIsNoCert, old
  <2>6. C!CertMatchesHost(tlsCfg.host, pairs') => C!CertMatchesHost(tlsCfg.host, pairs)
    BY <1>3, <2>2, <2>4 DEF C!CertMatchesHost, old
  <2>7. CertShape'
    BY <1>1, <2>4 DEF CertInv, CertShape
  <2>8. FlowOK'
    BY <1>1, <2>5, <2>6 DEF CertInv, FlowOK, LoadFits
  <2> QED BY <1>1, <2>5, <2>7, <2>8 DEF CertInv, Between
<1> QED BY <1>2, <1>3 DEF C!Time

\* The launcher ends, but not between the two files of a pair that is replaced.
LEMMA CertExit ==
  ASSUME CertFaults = {}, NilIsNoCert, CertInv, C!Exit PROVE CertInv'
<1>1. UNCHANGED <<pairs, tlsCfg, proxy>> /\ flow' = [f \in C!Flows |-> C!NoFlow]
      /\ \A f \in C!Flows : ~C!Replaces(f)
  BY DEF C!Exit
<1>2. \A p \in C!Pairs : pairs[p].cert # None => C!Whole(pairs, p)
  <2> SUFFICES ASSUME NEW p \in C!Pairs, pairs[p].cert # None, NEW f \in C!Flows,
                      flow[f].pc = "cert", flow[f].pair = p
               PROVE  FALSE
    BY DEF CertInv, Between
  <2> QED BY <1>1 DEF C!Replaces, C!FirstFile
<1>3. FlowOK' /\ CertShape'
  BY <1>1 DEF CertInv, CertShape, FlowOK, C!NoFlow, C!Flows
<1> QED BY <1>1, <1>2, <1>3 DEF CertInv, C!Whole

\* CertInv is inductive.
LEMMA CertStep ==
  ASSUME CertFaults = {}, NilIsNoCert, CertInv, [C!Next]_(C!vars) PROVE CertInv'
<1>1. CASE UNCHANGED C!vars
  BY <1>1 DEF C!vars, CertInv, CertShape, FlowOK, LoadFits, C!CertMatchesHost, C!Whole, Between
<1>2. ASSUME NEW f \in C!Flows, C!WriteFile(f) PROVE CertInv'
  <2>1. flow[f].pc \in {"key", "cert"}
    BY <1>2 DEF C!WriteFile
  <2> QED BY <1>2, <2>1, CertWritesKey, CertWritesCert
<1> QED BY <1>1, <1>2, CertAround, CertLoad, CertRenew, CertOrderEnds, CertTime, CertExit
        DEF C!Next, C!TryStaging

\* An installation begins without certificates.
LEMMA CertInit == ASSUME NilIsNoCert, C!Init PROVE CertInv
<1>1. pairs \in [C!Pairs -> [key : Keys \cup {None}, cert : Certs \cup {None}]]
      /\ \A p \in C!Pairs : pairs[p].cert = None
  BY DEF C!Init, C!Pair
<1>2. flow \in [C!Flows -> [pc : {"idle", "order", "key", "cert"}, pair : C!Pairs \cup {None},
                            host : Hosts \cup {None}]]
      /\ \A f \in C!Flows : flow[f].pc = "idle"
  BY DEF C!Init, C!NoFlow
<1>3. /\ tlsCfg \in [tls : BOOLEAN, acme : BOOLEAN, host : Hosts \cup {None}, path : {None, "custom", "self"}]
      /\ ~tlsCfg.tls /\ ~tlsCfg.acme /\ tlsCfg.path = None
  BY DEF C!Init, C!Http
<1>4. proxy.whole /\ proxy.pair = None
  BY DEF C!Init, C!NoProxy
<1>5. FlowOK
  BY <1>2 DEF FlowOK, C!Flows
<1> QED BY <1>1, <1>2, <1>3, <1>4, <1>5 DEF CertInv, CertShape, NilIsNoCert, C!Pairs

\* A pair that a load has served is the pair a plan finds.
Planned == proxy.pair = C!PairForPlan
           /\ (proxy.pair = "acme" => tlsCfg.acme /\ pairs["acme"].cert.host = tlsCfg.host)

\* What a load serves of what is there is what its plan finds.
LEMMA PlanOfServed ==
  ASSUME NilIsNoCert, CertInv, \A f \in C!Flows : flow[f].pc # "cert", NEW p, C!Serve(p),
         UNCHANGED <<pairs, tlsCfg>>,
         \/ p = None /\ ~tlsCfg.tls
         \/ p # None /\ p = tlsCfg.path /\ tlsCfg.tls /\ ~tlsCfg.acme
         \/ /\ p = "self" /\ tlsCfg.tls /\ tlsCfg.path = None /\ pairs["self"].cert # None
            /\ tlsCfg.acme => ~C!CertMatchesHost(tlsCfg.host, pairs)
         \/ p = "acme" /\ tlsCfg.tls /\ tlsCfg.acme /\ C!CertMatchesHost(tlsCfg.host, pairs)
  PROVE  Planned'
<1>1. p = C!PairForPlan
  <2>1. pairs["self"].cert # None => None \notin {pairs["self"].key, pairs["self"].cert}
    <3>1. "self" \in C!Pairs
      BY DEF C!Pairs
    <3>2. pairs["self"].cert # None => pairs["self"].cert \in Certs /\ C!Whole(pairs, "self")
      BY <3>1, IdleIsWhole DEF CertInv, CertShape
    <3> QED BY <3>2 DEF C!Whole, Certs, NilIsNoCert
  <2>2. tlsCfg.acme => tlsCfg.path = None
    BY DEF CertInv, CertShape
  <2> QED BY <2>1, <2>2 DEF C!PairForPlan
<1>2. C!PairForPlan' = C!PairForPlan
  BY DEF C!PairForPlan, C!CertMatchesHost
<1>3. proxy'.pair = p
  BY DEF C!Serve, C!NoProxy, C!Loaded
<1>4. p = "acme" => tlsCfg.acme /\ pairs["acme"].cert.host = tlsCfg.host
  BY DEF C!CertMatchesHost, CertInv, CertShape, NilIsNoCert
<1> QED BY <1>1, <1>2, <1>3, <1>4 DEF Planned

\* What a load gives the proxy, now or when its pair is written, the next plan finds.
LEMMA LoadIsPlanned ==
  ASSUME CertFaults = {}, NilIsNoCert, CertInv, C!Next, proxy' # proxy,
         flow["renewal"].pc \notin {"key", "cert"}
  PROVE  Planned' /\ tlsCfg' = tlsCfg
<1>1. CASE C!EnsureProxyTLSCerts
  <2>1. \A f \in C!Flows : flow[f].pc # "cert"
    BY <1>1 DEF C!EnsureProxyTLSCerts, C!MayBegin, C!Idle
  <2>2. UNCHANGED <<pairs, tlsCfg>>
    BY <1>1 DEF C!EnsureProxyTLSCerts
  <2>3. tlsCfg.acme => tlsCfg.path = None
    BY DEF CertInv, CertShape
  <2>4. CASE ~tlsCfg.tls /\ C!Serve(None)
    BY <2>1, <2>2, <2>4, PlanOfServed
  <2>5. CASE tlsCfg.tls /\ ~tlsCfg.acme /\ tlsCfg.path # None /\ C!Serve(tlsCfg.path)
    BY <2>1, <2>2, <2>5, PlanOfServed
  <2>6. CASE tlsCfg.tls /\ ~tlsCfg.acme /\ tlsCfg.path = None /\ C!ProvideSelfSigned
    <3>1. C!Serve("self") /\ pairs["self"].cert # None
      BY <2>6 DEF C!ProvideSelfSigned
    <3> QED BY <2>1, <2>2, <2>6, <3>1, PlanOfServed
  <2>7. CASE tlsCfg.tls /\ tlsCfg.acme /\ C!ObtainIfNeeded
    <3>1. CASE C!CertMatchesHost(tlsCfg.host, pairs) /\ C!Serve("acme")
      BY <2>1, <2>2, <2>7, <3>1, PlanOfServed
    <3>2. CASE ~C!CertMatchesHost(tlsCfg.host, pairs) /\ C!Serve("self") /\ pairs["self"].cert # None
      BY <2>1, <2>2, <2>3, <2>7, <3>2, PlanOfServed
    <3> QED BY <2>7, <3>1, <3>2 DEF C!ObtainIfNeeded, C!ProvideSelfSigned
  <2> QED BY <1>1, <2>2, <2>4, <2>5, <2>6, <2>7 DEF C!EnsureProxyTLSCerts
<1>2. ASSUME NEW f \in C!Flows, C!OrderEnds(f) PROVE Planned' /\ tlsCfg' = tlsCfg
  <2>1. f = "load" /\ flow["load"].pc = "order" /\ C!ProvideSelfSigned /\ UNCHANGED <<pairs, tlsCfg>>
    BY <1>2 DEF C!OrderEnds
  <2>2. C!Serve("self") /\ pairs["self"].cert # None
    BY <2>1 DEF C!ProvideSelfSigned
  <2>3. \A g \in C!Flows : flow[g].pc # "cert"
    BY <1>2, <2>1, Alone DEF CertInv
  <2>4. LoadFits
    BY <2>1 DEF CertInv, FlowOK
  <2> QED BY <2>1, <2>2, <2>3, <2>4, PlanOfServed DEF LoadFits
<1>3. ASSUME NEW f \in C!Flows, C!WriteFile(f) PROVE Planned' /\ tlsCfg' = tlsCfg
  <2>1. flow[f].pc = "cert" /\ C!Written(f, pairs')
    BY <1>3 DEF C!WriteFile, C!FirstFile
  <2>2. f = "load"
    BY <1>3, <2>1 DEF C!Written, C!Flows
  <2>3. /\ proxy'.pair = flow["load"].pair /\ tlsCfg' = tlsCfg
        /\ pairs'[flow["load"].pair] = C!Pair("load", C!Cert("load", flow["load"].host))
        /\ \A q \in C!Pairs \ {flow["load"].pair} : pairs'[q] = pairs[q]
    BY <1>3, <2>1, <2>2, CertWritesCert
  <2>4. LoadFits /\ flow["load"].pair \in C!Pairs /\ flow["load"].host \in Hosts
    BY <1>3, <2>1, <2>2 DEF CertInv, FlowOK
  <2> DEFINE pair == C!Pair("load", C!Cert("load", flow["load"].host))
  <2>5. /\ pair.key = "load" /\ pair.cert \in Certs
        /\ pair.cert.host = flow["load"].host /\ pair.cert.left > 0
    <3>1. C!Cert("load", flow["load"].host) \in Certs
      BY <2>4 DEF C!Cert, C!Fresh, Certs, Keys, C!Flows
    <3> QED BY <3>1 DEF C!Pair, C!Cert, C!Fresh
  <2> HIDE DEF pair
  <2>6. CASE flow["load"].pair = "acme"
    <3>1. tlsCfg.acme /\ flow["load"].host = tlsCfg.host
      BY <2>4, <2>6 DEF LoadFits
    <3>2. C!CertMatchesHost(tlsCfg'.host, pairs')
      BY <2>3, <2>5, <2>6, <3>1 DEF C!CertMatchesHost, NilIsNoCert, pair
    <3> QED BY <2>3, <2>4, <2>6, <3>1, <3>2 DEF Planned, C!PairForPlan, LoadFits, C!CertMatchesHost
  <2>7. CASE flow["load"].pair = "self"
    <3>1. None \notin {pairs'["self"].key, pairs'["self"].cert}
      BY <2>3, <2>5, <2>7 DEF NilIsNoCert, Keys, C!Flows, pair
    <3>2. pairs'["acme"] = pairs["acme"]
      BY <2>3, <2>7 DEF C!Pairs
    <3>3. tlsCfg'.acme => ~C!CertMatchesHost(tlsCfg'.host, pairs')
      BY <2>3, <2>4, <3>2 DEF LoadFits, C!CertMatchesHost
    <3> QED BY <2>3, <2>4, <2>7, <3>1, <3>3 DEF Planned, C!PairForPlan, LoadFits
  <2> QED BY <2>4, <2>6, <2>7 DEF C!Pairs
<1> QED BY <1>1, <1>2, <1>3 DEF C!Next, C!ConfigureTLS, C!EditConfig, C!CheckAndRenew, C!Time, C!Exit

\* The proxy is given a certificate and the key of it, the files stay pairs wherever the
\* launcher ends, and a load gives the pair for the host of the configuration that the
\* plan of the next reload finds (ensureProxyTLSCerts, resolveProxyTLSPathsForPlan),
\* while no renewal overlaps a load, no end falls between the two files of a pair that
\* is replaced and the disk takes what is written.
THEOREM CertificatesAreServed == NilIsNoCert /\ CertFaults = {} => (Spec => CertificatesServe)
<1> SUFFICES ASSUME NilIsNoCert, CertFaults = {} PROVE Spec => CertificatesServe
  OBVIOUS
<1>1. Init => CertInv
  BY CertInit DEF Init
<1>2. [Next]_vars => [C!Next]_(C!vars)
  BY DEF Next, vars, certVars, C!vars
<1>3. CertInv /\ [Next]_vars => CertInv'
  BY <1>2, CertStep
<1>4. CertInv => C!PairsAreWhole /\ C!FilesArePairs
  BY IdleIsWhole DEF CertInv, C!PairsAreWhole, C!FilesArePairs, C!Idle
<1>5. CertInv /\ [Next]_vars =>
        [proxy' # proxy /\ flow["renewal"].pc \notin {"key", "cert"} =>
            /\ proxy'.pair = C!PairForPlan'
            /\ proxy'.pair = "acme" => tlsCfg.acme /\ pairs'["acme"].cert.host = tlsCfg.host]_(C!vars)
  BY <1>2, LoadIsPlanned DEF Planned
<1> QED BY <1>1, <1>3, <1>4, <1>5, PTL DEF Spec, CertificatesServe, C!CertificatesServe, C!LoadGives
-----------------------------------------------------------------------------
(* Secrets.  Whoever changes the password or wipes the vault holds the lock *)
(* for many writes: until the last of them rows are in the keys of before   *)
(* and of after, and what tells which is who the holder is and how far he   *)
(* has come.                                                                *)

\* No user secret has the id of a system secret, "citeck" is a password, nil is no row, no
\* number and no read.
SecretNames ==
  /\ UserIds \cap SysIds = {} /\ "citeck" \in Pwds
  /\ None \notin Nat /\ DOMAIN None \notin {{"v", "keys"}, {"id", "x"}}

Setting == op.pc \in {"rows", "verify", "dflt", "enc", "done"}
Wiping == op.pc \in {"wipe", "reset", "wend"}

\* Not yet written in the new key.
Plain(i) == op.pc = "rows" /\ (i \in op.todo \/ (op.cur # None /\ i = op.cur.id))

\* The keys that a row is in.
KeysOf(i) ==
  IF Setting THEN IF Plain(i) THEN <<>> ELSE <<op.key>>
  ELSE IF meta.enc THEN <<meta.verify>> ELSE <<>>

Stored(x, keys) == x = [v |-> x.v, keys |-> keys]

VaultShape ==
  /\ DOMAIN meta = {"enc", "params", "verify", "dflt"} /\ meta.enc \in BOOLEAN
  /\ DOMAIN mem = {"enc", "key"} /\ mem.enc \in BOOLEAN
  /\ DOMAIN row = S!SecretIds /\ DOMAIN want = UserIds /\ salts \in Nat
  /\ DOMAIN op = {"kind", "pc", "todo", "cur", "key", "dflt"}
  /\ DOMAIN imp = {"pc", "todo"}

\* The holder of the lock, how far he has come and what he leaves behind.
HolderOK ==
  /\ Setting \/ Wiping \/ op = S!NoOp
  /\ Setting =>
       /\ clean = None /\ phase # "resolve"
       /\ \E n \in 1 .. salts, p \in Pwds : op.key = <<n, p>> /\ (op.dflt => p = "citeck")
       /\ meta.enc <=> op.pc = "done"
       /\ op.pc = "rows" /\ op.cur # None =>
             /\ op.cur = [id |-> op.cur.id, x |-> row[op.cur.id]]
             /\ op.cur.id \in S!Rows \ op.todo
       /\ op.pc = "rows" => op.todo \subseteq S!Rows
       /\ op.pc # "rows" => meta.params = op.key[1]
       /\ op.pc \in {"dflt", "enc", "done"} => meta.verify = op.key
       /\ op.pc \in {"enc", "done"} => meta.dflt = op.dflt
  /\ Wiping =>
       /\ phase \in {"up", "down"} /\ (op.kind = "clireset" => phase = "down")
       /\ \A i \in UserIds : want[i] = None
       /\ op.pc = "wipe" => S!Rows \subseteq op.todo
       /\ op.pc # "wipe" => S!Rows = {} /\ ~meta.enc

\* The rows, in the memory of the service and as they were last acknowledged.
RowsOK ==
  /\ \A i \in S!Rows : Stored(row[i], KeysOf(i))
  /\ \A i \in UserIds : want[i] # None => i \in S!Rows /\ row[i].v = want[i]

MemOK ==
  /\ S!Idle /\ phase # "down" => mem.enc = meta.enc
  /\ S!Idle /\ mem.enc /\ mem.key # None => meta.enc /\ mem.key = meta.verify

\* What is under way beside the holder of the lock.
BesidesOK ==
  /\ left \subseteq SysIds /\ (clean # None => clean.id \in SysIds)
  /\ phase \in {"down", "unlock"} => clean = None
  /\ edit # None => edit.id \in UserIds /\ Stored(edit.x, <<>>)
  /\ imp = S!NoImp \/ (imp.pc \in {"rows", "encrypt", "wait"} /\ phase = "up")
  /\ imp.pc \in {"rows", "encrypt"} => S!Idle /\ ~meta.enc
  /\ \A s \in imp.todo : s.id \in UserIds
  /\ imp.pc = "wait" => Setting /\ op.kind = "import"

SecretInv == VaultShape /\ HolderOK /\ RowsOK /\ MemOK /\ BesidesOK /\ S!KeystoreWhole

\* What is sealed with a key opens with it, and is what it was.
LEMMA Sealing ==
  ASSUME NEW x, NEW k, Stored(x, <<>>)
  PROVE  /\ Stored(S!Seal(x, k), <<k>>) /\ S!Seal(x, k).v = x.v
         /\ S!Opens(S!Seal(x, k), k)
<1>1. S!Seal(x, k) = [v |-> x.v, keys |-> <<k>>]
  BY DEF Stored, S!Seal
<1> QED BY <1>1 DEF Stored, S!Opens

\* And what is in a key opens with that key.
LEMMA Unsealing ==
  ASSUME NEW x, NEW k, Stored(x, <<k>>)
  PROVE  S!Opens(x, k) /\ S!Unsealed(x) = [v |-> x.v, keys |-> <<>>]
<1>1. x.keys = <<k>> /\ Len(x.keys) = 1
  BY DEF Stored
<1>2. SubSeq(<<k>>, 1, 0) = <<>>
  OBVIOUS
<1>3. S!Unsealed(x) = [v |-> x.v, keys |-> SubSeq(x.keys, 1, 0)]
  BY <1>1 DEF Stored, S!Unsealed
<1> QED BY <1>1, <1>2, <1>3 DEF S!Opens

\* What the service reads when nobody holds the lock is the row in plaintext.
LEMMA ReadIsPlain ==
  ASSUME SecretInv, SecretNames, S!Idle, phase # "down", NEW i \in S!Rows, S!GetSecret(i) # None
  PROVE  S!GetSecret(i) = [v |-> row[i].v, keys |-> <<>>]
<1>1. ~Setting
  BY DEF Setting, S!Idle, S!NoOp
<1>2. mem.enc = meta.enc /\ mem.enc \in BOOLEAN /\ row[i] # None
  BY DEF SecretInv, MemOK, VaultShape, S!Rows
<1>3. Stored(row[i], IF meta.enc THEN <<meta.verify>> ELSE <<>>)
  BY <1>1 DEF SecretInv, RowsOK, KeysOf
<1>4. CASE ~mem.enc
  BY <1>2, <1>3, <1>4 DEF S!GetSecret, Stored
<1>5. CASE mem.enc /\ mem.key # None
  <2>1. mem.key = meta.verify
    BY <1>5 DEF SecretInv, MemOK
  <2>2. Stored(row[i], <<mem.key>>)
    BY <1>2, <1>3, <1>5, <2>1
  <2>3. S!Opens(row[i], mem.key) /\ S!Unsealed(row[i]) = [v |-> row[i].v, keys |-> <<>>]
    BY <2>2, Unsealing
  <2> QED BY <1>2, <1>5, <2>3 DEF S!GetSecret
<1> QED BY <1>2, <1>4, <1>5 DEF S!GetSecret

\* While the rows, the keystore and the holder of the lock stay as they are.
LEMMA VaultStays ==
  ASSUME SecretInv, UNCHANGED <<row, meta, want, op>>
  PROVE  RowsOK' /\ S!KeystoreWhole'
BY DEF SecretInv, RowsOK, S!KeystoreWhole, Stored, KeysOf, Setting, Plain, S!Rows, S!SecretIds

\* SetMasterPassword takes the lock of a vault that is not encrypted.
LEMMA SetupBegins ==
  ASSUME Faults = {}, SecretNames, SecretInv, S!Idle, phase \in {"unlock", "up"},
         NEW kind, NEW p \in Pwds, NEW dflt, dflt => p = "citeck", S!BeginSetup(kind, p, dflt),
         UNCHANGED <<row, meta, want, mem, phase, clean>>
  PROVE  /\ VaultShape' <=> DOMAIN imp' = {"pc", "todo"}
         /\ HolderOK' /\ RowsOK' /\ MemOK' /\ S!KeystoreWhole'
         /\ Setting' /\ op'.kind = kind /\ ~S!Idle'
<1>1. ~mem.enc /\ clean = None /\ salts' = salts + 1
      /\ op' = [kind |-> kind, pc |-> "rows", todo |-> S!Rows, cur |-> None,
                key |-> <<salts + 1, p>>, dflt |-> dflt]
  BY DEF S!BeginSetup, S!EditRaces
<1>2. ~meta.enc /\ ~Setting /\ salts \in Nat
  BY <1>1 DEF SecretInv, MemOK, VaultShape, Setting, S!Idle, S!NoOp
<1>3. /\ op'.kind = kind /\ op'.pc = "rows" /\ op'.todo = S!Rows /\ op'.cur = None
      /\ op'.key = <<salts + 1, p>> /\ op'.dflt = dflt
      /\ DOMAIN op' = {"kind", "pc", "todo", "cur", "key", "dflt"}
  BY <1>1
<1>4. Setting' /\ ~Wiping' /\ ~S!Idle'
  BY <1>3 DEF Setting, Wiping, S!Idle, S!NoOp
<1>5. S!Rows' = S!Rows
  BY DEF S!Rows
<1>6. HolderOK'
  <2>1. salts + 1 \in 1 .. salts'
    BY <1>1, <1>2
  <2>2. \E n \in 1 .. salts', q \in Pwds : op'.key = <<n, q>> /\ (op'.dflt => q = "citeck")
    BY <1>3, <2>1
  <2> QED BY <1>1, <1>2, <1>3, <1>4, <1>5, <2>2 DEF HolderOK
<1>7. RowsOK'
  <2>1. \A i \in S!Rows : Stored(row[i], <<>>)
    BY <1>2 DEF SecretInv, RowsOK, KeysOf
  <2>2. \A i \in S!Rows : KeysOf(i)' = <<>>
    BY <1>3, <1>4 DEF KeysOf, Plain
  <2>3. \A i \in S!Rows : Stored(row[i], KeysOf(i))'
    BY <2>1, <2>2 DEF Stored
  <2> QED BY <1>5, <2>3 DEF SecretInv, RowsOK
<1>8. MemOK'
  BY <1>4 DEF MemOK
<1>9. S!KeystoreWhole'
  BY <1>2 DEF S!KeystoreWhole
<1>10. VaultShape' <=> DOMAIN imp' = {"pc", "todo"}
  BY <1>1, <1>2, <1>3 DEF SecretInv, VaultShape
<1> QED BY <1>3, <1>4, <1>6, <1>7, <1>8, <1>9, <1>10

\* The start of the daemon.
LEMMA SecretsBoot ==
  ASSUME Faults = {}, SecretNames, SecretInv,
         S!Boot \/ S!BootUnlock \/ S!BootFirst \/ S!Resolve \/ S!Up
  PROVE  SecretInv'
<1>1. CASE S!Boot
  <2>1. /\ phase = "down" /\ S!Idle /\ mem' = [enc |-> meta.enc, key |-> None] /\ phase' = "unlock"
        /\ UNCHANGED <<row, meta, want, op, salts, left, clean, edit, imp>>
    BY <1>1 DEF S!Boot, S!disk, S!ghosts, S!counts
  <2>2. RowsOK' /\ S!KeystoreWhole'
    BY <2>1, VaultStays
  <2>3. MemOK' /\ VaultShape'
    BY <2>1 DEF MemOK, SecretInv, VaultShape
  <2>4. HolderOK'
    BY <2>1 DEF SecretInv, HolderOK, Setting, Wiping, S!Idle, S!NoOp
  <2>5. BesidesOK'
    BY <2>1 DEF SecretInv, BesidesOK, Setting, S!Idle, S!NoImp, Stored
  <2> QED BY <2>2, <2>3, <2>4, <2>5 DEF SecretInv
<1>2. CASE S!BootUnlock
  <2>1. /\ phase = "unlock" /\ S!Idle /\ mem.enc
        /\ phase' \in {"resolve", "down"} /\ left' \in {left, SysIds}
        /\ UNCHANGED <<row, meta, want, op, salts, clean, edit, imp>>
        /\ mem' = mem \/ \E p \in Pwds : S!Unlocks(p) /\ mem' = [mem EXCEPT !.key = S!Derived(p)]
    BY <1>2 DEF S!BootUnlock, S!disk, S!ghosts, S!counts
  <2>2. RowsOK' /\ S!KeystoreWhole'
    BY <2>1, VaultStays
  <2>3. MemOK' /\ VaultShape'
    BY <2>1 DEF MemOK, SecretInv, VaultShape, S!Unlocks, S!Idle
  <2>4. HolderOK'
    BY <2>1 DEF SecretInv, HolderOK, Setting, Wiping, S!Idle, S!NoOp
  <2>5. BesidesOK'
    BY <2>1 DEF SecretInv, BesidesOK, Setting, S!Idle, S!NoImp, Stored
  <2> QED BY <2>2, <2>3, <2>4, <2>5 DEF SecretInv
<1>3. CASE S!BootFirst
  <2>1. /\ phase = "unlock" /\ S!Idle /\ left' \in {left, SysIds}
        /\ UNCHANGED <<row, meta, want, mem, clean, edit, imp>>
    BY <1>3 DEF S!BootFirst, S!disk, S!ghosts
  <2>2. imp = S!NoImp
    BY <2>1 DEF SecretInv, BesidesOK
  <2>3. CASE S!BeginSetup("boot", "citeck", TRUE) /\ UNCHANGED phase
    <3>1. "citeck" \in Pwds
      BY DEF SecretNames
    <3>2. /\ VaultShape' <=> DOMAIN imp' = {"pc", "todo"}
          /\ HolderOK' /\ RowsOK' /\ MemOK' /\ S!KeystoreWhole' /\ Setting'
      BY <2>1, <2>3, <3>1, SetupBegins
    <3>3. BesidesOK'
      BY <2>1, <2>2, <2>3 DEF SecretInv, BesidesOK, S!NoImp, Stored
    <3> QED BY <2>1, <2>2, <3>2, <3>3 DEF SecretInv, S!NoImp
  <2>4. CASE phase' = "resolve" /\ UNCHANGED <<op, salts>>
    <3>1. RowsOK' /\ S!KeystoreWhole'
      BY <2>1, <2>4, VaultStays
    <3>2. MemOK' /\ VaultShape'
      BY <2>1, <2>4 DEF MemOK, SecretInv, VaultShape, S!Idle
    <3>3. HolderOK'
      BY <2>1, <2>4 DEF SecretInv, HolderOK, Setting, Wiping, S!Idle, S!NoOp
    <3>4. BesidesOK'
      BY <2>1, <2>2, <2>4 DEF SecretInv, BesidesOK, S!NoImp, Stored
    <3> QED BY <3>1, <3>2, <3>3, <3>4 DEF SecretInv
  <2> QED BY <1>3, <2>3, <2>4 DEF S!BootFirst
<1>4. CASE S!Resolve \/ S!Up
  <2>1. /\ phase = "resolve" /\ phase' \in {"resolve", "up"} /\ clean = None
        /\ UNCHANGED <<row, meta, want, mem, op, salts, edit, imp>>
        /\ left' \subseteq left /\ (clean' # None => clean'.id \in left)
    <3>1. CASE S!Resolve
      BY <1>4, <3>1 DEF S!Resolve
    <3>2. CASE S!Up
      BY <1>4, <3>2 DEF S!Up, S!disk, S!ghosts, S!counts
    <3> QED BY <1>4, <3>1, <3>2
  <2>2. RowsOK' /\ S!KeystoreWhole'
    BY <2>1, VaultStays
  <2>3. ~Setting /\ ~Wiping /\ op = S!NoOp
    BY <2>1 DEF SecretInv, HolderOK
  <2>4. MemOK' /\ VaultShape'
    BY <2>1, <2>3 DEF MemOK, SecretInv, VaultShape, S!Idle
  <2>5. HolderOK'
    BY <2>1, <2>3 DEF HolderOK, Setting, Wiping
  <2>6. BesidesOK'
    BY <2>1 DEF SecretInv, BesidesOK, S!NoImp, Stored
  <2> QED BY <2>2, <2>4, <2>5, <2>6 DEF SecretInv
<1> QED BY <1>1, <1>2, <1>3, <1>4

\* SetMasterPassword reads a row.
LEMMA SecretsSetupRead ==
  ASSUME Faults = {}, SecretNames, SecretInv, S!SetupRead PROVE SecretInv'
<1>1. PICK i \in op.todo :
        op' = IF row[i] = None THEN [op EXCEPT !.pc = "failed"]
              ELSE [op EXCEPT !.cur = [id |-> i, x |-> row[i]], !.todo = op.todo \ {i}]
  BY DEF S!SetupRead
<1>2. /\ op.pc = "rows" /\ op.cur = None
      /\ UNCHANGED <<row, meta, want, mem, phase, left, clean, edit, imp, salts>>
  BY DEF S!SetupRead, S!disk, S!ghosts, S!counts
<1>3. Setting /\ ~Wiping
  BY <1>2 DEF Setting, Wiping
<1>4. i \in S!Rows
  BY <1>1, <1>2, <1>3 DEF SecretInv, HolderOK
<1>5. op' = [op EXCEPT !.cur = [id |-> i, x |-> row[i]], !.todo = op.todo \ {i}]
  BY <1>1, <1>4 DEF S!Rows
<1>6. /\ op'.pc = "rows" /\ op'.cur = [id |-> i, x |-> row[i]] /\ op'.todo = op.todo \ {i}
      /\ op'.key = op.key /\ op'.dflt = op.dflt /\ op'.kind = op.kind
      /\ DOMAIN op' = {"kind", "pc", "todo", "cur", "key", "dflt"}
  BY <1>2, <1>5 DEF SecretInv, VaultShape
<1>7. op'.cur # None /\ op'.cur.id = i
  BY <1>6 DEF SecretNames
<1>8. Setting' /\ ~Wiping' /\ ~S!Idle' /\ S!Rows' = S!Rows
  BY <1>2, <1>6 DEF Setting, Wiping, S!Idle, S!NoOp, S!Rows
<1>9. HolderOK'
  BY <1>2, <1>3, <1>4, <1>6, <1>7, <1>8 DEF SecretInv, HolderOK
<1>10. RowsOK'
  <2>1. \A j \in S!Rows : KeysOf(j)' = KeysOf(j)
    BY <1>1, <1>2, <1>3, <1>6, <1>7, <1>8 DEF KeysOf, Plain
  <2> QED BY <1>2, <1>8, <2>1 DEF SecretInv, RowsOK, Stored
<1>11. MemOK' /\ VaultShape' /\ S!KeystoreWhole'
  BY <1>2, <1>6, <1>8 DEF SecretInv, MemOK, VaultShape, S!KeystoreWhole
<1>12. BesidesOK'
  BY <1>2, <1>3, <1>6, <1>8 DEF SecretInv, BesidesOK, Stored, Setting, S!Idle, S!NoOp
<1> QED BY <1>9, <1>10, <1>11, <1>12 DEF SecretInv

\* And saves it in the new key.
LEMMA SecretsSetupSave ==
  ASSUME Faults = {}, SecretNames, SecretInv, S!SetupSave PROVE SecretInv'
<1> DEFINE i == op.cur.id
<1>1. /\ op.pc = "rows" /\ op.cur # None
      /\ row' = [row EXCEPT ![i] = S!Seal(op.cur.x, op.key)] /\ op' = [op EXCEPT !.cur = None]
      /\ UNCHANGED <<meta, want, mem, phase, left, clean, edit, imp, salts>>
  BY DEF S!SetupSave, S!ghosts, S!counts
<1>2. Setting /\ ~Wiping
  BY <1>1 DEF Setting, Wiping
<1>3. op.cur.x = row[i] /\ i \in S!Rows \ op.todo /\ op.todo \subseteq S!Rows
  BY <1>1, <1>2 DEF SecretInv, HolderOK
<1>4. Stored(row[i], <<>>)
  BY <1>1, <1>2, <1>3 DEF SecretInv, RowsOK, KeysOf, Plain
<1> HIDE DEF i
<1>5. Stored(S!Seal(row[i], op.key), <<op.key>>) /\ S!Seal(row[i], op.key).v = row[i].v
  BY <1>4, Sealing
<1>6. /\ row'[i] = S!Seal(row[i], op.key) /\ DOMAIN row' = S!SecretIds
      /\ \A j \in S!SecretIds \ {i} : row'[j] = row[j]
  BY <1>1, <1>3 DEF SecretInv, VaultShape, S!Rows
<1>7. row'[i] # None
  BY <1>5, <1>6 DEF Stored, SecretNames
<1>8. S!Rows' = S!Rows
  BY <1>3, <1>6, <1>7 DEF S!Rows, S!SecretIds
<1>9. /\ op'.pc = "rows" /\ op'.cur = None /\ op'.todo = op.todo /\ op'.kind = op.kind
      /\ op'.key = op.key /\ op'.dflt = op.dflt
      /\ DOMAIN op' = {"kind", "pc", "todo", "cur", "key", "dflt"}
  BY <1>1 DEF SecretInv, VaultShape
<1>10. Setting' /\ ~Wiping' /\ ~S!Idle'
  BY <1>9 DEF Setting, Wiping, S!Idle, S!NoOp
<1>11. HolderOK'
  BY <1>1, <1>2, <1>3, <1>8, <1>9, <1>10 DEF SecretInv, HolderOK
<1>12. RowsOK'
  <2>1. \A j \in S!Rows : j = i => Stored(row[j], KeysOf(j))'
    <3>1. \A j \in S!Rows : j = i => KeysOf(j)' = <<op.key>>
      BY <1>3, <1>9, <1>10 DEF KeysOf, Plain
    <3> QED BY <1>5, <1>6, <3>1 DEF Stored
  <2>2. \A j \in S!Rows : j # i => Stored(row[j], KeysOf(j))'
    <3>1. \A j \in S!Rows : j # i => KeysOf(j)' = KeysOf(j) /\ row'[j] = row[j]
      BY <1>1, <1>2, <1>6, <1>9, <1>10 DEF KeysOf, Plain, S!Rows, i
    <3> QED BY <3>1 DEF SecretInv, RowsOK, Stored
  <2>3. \A j \in S!Rows : row'[j].v = row[j].v
    BY <1>5, <1>6 DEF S!Rows
  <2> QED BY <1>1, <1>8, <2>1, <2>2, <2>3 DEF SecretInv, RowsOK
<1>13. MemOK' /\ VaultShape' /\ S!KeystoreWhole'
  BY <1>1, <1>6, <1>9, <1>10 DEF SecretInv, MemOK, VaultShape, S!KeystoreWhole, S!SecretIds
<1>14. BesidesOK'
  BY <1>1, <1>2, <1>9, <1>10 DEF SecretInv, BesidesOK, Stored, Setting, S!Idle, S!NoOp
<1> QED BY <1>11, <1>12, <1>13, <1>14 DEF SecretInv

\* SetMasterPassword writes the keystore, of which the last word is that it is one.
LEMMA SetupMetaCases ==
  ASSUME SecretInv, S!SetupMeta
  PROVE  /\ Setting /\ Setting' /\ ~Wiping /\ ~Wiping' /\ ~S!Idle' /\ op.pc # "done"
         /\ UNCHANGED <<row, want, mem, phase, left, clean, edit, imp, salts>>
         /\ op'.kind = op.kind /\ op'.key = op.key /\ op'.dflt = op.dflt
         /\ DOMAIN op' = {"kind", "pc", "todo", "cur", "key", "dflt"}
         /\ DOMAIN meta' = {"enc", "params", "verify", "dflt"}
         /\ \/ /\ op.pc = "rows" /\ op.todo = {} /\ op.cur = None /\ op'.pc = "verify"
               /\ meta'.params = op.key[1] /\ meta'.enc = meta.enc
            \/ /\ op.pc = "verify" /\ op'.pc = "dflt"
               /\ meta'.params = meta.params /\ meta'.verify = op.key /\ meta'.enc = meta.enc
            \/ /\ op.pc = "dflt" /\ op'.pc = "enc" /\ meta'.params = meta.params
               /\ meta'.verify = meta.verify /\ meta'.dflt = op.dflt /\ meta'.enc = meta.enc
            \/ /\ op.pc = "enc" /\ op'.pc = "done" /\ meta'.params = meta.params
               /\ meta'.verify = meta.verify /\ meta'.dflt = meta.dflt /\ meta'.enc = TRUE
<1>1. PICK n \in 1 .. 4 :
        /\ IF n = 1 THEN op.pc = "rows" /\ op.todo = {} /\ op.cur = None
                    ELSE op.pc = S!SetupOrder[n]
        /\ meta' = [meta EXCEPT ![S!SetupOrder[n]] = S!KeystoreOf(op)[S!SetupOrder[n]]]
        /\ op' = [op EXCEPT !.pc = IF n = 4 THEN "done" ELSE S!SetupOrder[n + 1]]
        /\ UNCHANGED <<row, want, mem, phase, left, clean, edit, imp, salts>>
  BY DEF S!SetupMeta, S!ghosts, S!counts
<1>2. /\ DOMAIN meta = {"enc", "params", "verify", "dflt"}
      /\ DOMAIN op = {"kind", "pc", "todo", "cur", "key", "dflt"}
  BY DEF SecretInv, VaultShape
<1>3. S!SetupOrder[1] = "params" /\ S!SetupOrder[2] = "verify" /\ S!SetupOrder[3] = "dflt"
      /\ S!SetupOrder[4] = "enc"
  BY DEF S!SetupOrder
<1>4. S!KeystoreOf(op) = [params |-> op.key[1], verify |-> op.key, dflt |-> op.dflt, enc |-> TRUE]
  BY DEF S!KeystoreOf
<1>5. CASE n = 1
  <2>1. S!SetupOrder[n] = "params"
    BY <1>3, <1>5
  <2>2. S!KeystoreOf(op)[S!SetupOrder[n]] = op.key[1]
    BY <1>4, <2>1
  <2>3. meta' = [meta EXCEPT !["params"] = op.key[1]]
    BY <1>1, <2>1, <2>2
  <2>4. op' = [op EXCEPT !.pc = "verify"]
    BY <1>1, <1>3, <1>5
  <2> QED BY <1>1, <1>2, <1>5, <2>1, <2>3, <2>4 DEF Setting, Wiping, S!Idle, S!NoOp
<1>6. CASE n = 2
  <2>1. S!SetupOrder[n] = "verify"
    BY <1>3, <1>6
  <2>2. S!KeystoreOf(op)[S!SetupOrder[n]] = op.key
    BY <1>4, <2>1
  <2>3. meta' = [meta EXCEPT !["verify"] = op.key]
    BY <1>1, <2>1, <2>2
  <2>4. op' = [op EXCEPT !.pc = "dflt"]
    BY <1>1, <1>3, <1>6
  <2> QED BY <1>1, <1>2, <1>6, <2>1, <2>3, <2>4 DEF Setting, Wiping, S!Idle, S!NoOp
<1>7. CASE n = 3
  <2>1. S!SetupOrder[n] = "dflt"
    BY <1>3, <1>7
  <2>2. S!KeystoreOf(op)[S!SetupOrder[n]] = op.dflt
    BY <1>4, <2>1
  <2>3. meta' = [meta EXCEPT !["dflt"] = op.dflt]
    BY <1>1, <2>1, <2>2
  <2>4. op' = [op EXCEPT !.pc = "enc"]
    BY <1>1, <1>3, <1>7
  <2> QED BY <1>1, <1>2, <1>7, <2>1, <2>3, <2>4 DEF Setting, Wiping, S!Idle, S!NoOp
<1>8. CASE n = 4
  <2>1. S!SetupOrder[n] = "enc"
    BY <1>3, <1>8
  <2>2. S!KeystoreOf(op)[S!SetupOrder[n]] = TRUE
    BY <1>4, <2>1
  <2>3. meta' = [meta EXCEPT !["enc"] = TRUE]
    BY <1>1, <2>1, <2>2
  <2>4. op' = [op EXCEPT !.pc = "done"]
    BY <1>1, <1>3, <1>8
  <2>5. /\ meta'.enc = TRUE /\ meta'.params = meta.params /\ meta'.verify = meta.verify
        /\ meta'.dflt = meta.dflt /\ DOMAIN meta' = {"enc", "params", "verify", "dflt"}
    BY ONLY <1>2, <2>3
  <2> QED BY <1>1, <1>2, <1>8, <2>1, <2>4, <2>5 DEF Setting, Wiping, S!Idle, S!NoOp
<1>9. n = 1 \/ n = 2 \/ n = 3 \/ n = 4
  OBVIOUS
<1> QED BY <1>5, <1>6, <1>7, <1>8, <1>9, Zenon

\* Until that word a restart finds plaintext, from then on the key that all rows are in.
LEMMA SecretsSetupMeta ==
  ASSUME Faults = {}, SecretNames, SecretInv, S!SetupMeta PROVE SecretInv'
<1>1. /\ Setting /\ Setting' /\ ~Wiping /\ ~Wiping' /\ ~S!Idle'
      /\ UNCHANGED <<row, want, mem, phase, left, clean, edit, imp, salts>>
      /\ op'.kind = op.kind /\ op'.key = op.key /\ op'.dflt = op.dflt
      /\ DOMAIN op' = {"kind", "pc", "todo", "cur", "key", "dflt"}
      /\ DOMAIN meta' = {"enc", "params", "verify", "dflt"}
  BY SetupMetaCases
<1>2. ~meta.enc /\ S!Rows' = S!Rows
  BY <1>1, SetupMetaCases DEF SecretInv, HolderOK, S!Rows
<1>3. op'.pc \in {"verify", "dflt", "enc", "done"}
  BY SetupMetaCases
<1>4. HolderOK'
  <2>1. /\ meta'.enc <=> op'.pc = "done"
        /\ meta'.params = op'.key[1]
        /\ op'.pc \in {"dflt", "enc", "done"} => meta'.verify = op'.key
        /\ op'.pc \in {"enc", "done"} => meta'.dflt = op'.dflt
    BY <1>1, <1>2, SetupMetaCases DEF SecretInv, HolderOK
  <2>2. /\ clean' = None /\ phase' # "resolve"
        /\ \E n \in 1 .. salts', p \in Pwds : op'.key = <<n, p>> /\ (op'.dflt => p = "citeck")
    BY <1>1 DEF SecretInv, HolderOK
  <2> QED BY <1>1, <1>3, <2>1, <2>2 DEF HolderOK
<1>5. RowsOK'
  <2>1. op.pc = "rows" => op.todo = {} /\ op.cur = None
    BY SetupMetaCases
  <2>2. \A i \in S!Rows : KeysOf(i)' = KeysOf(i)
    BY <1>1, <1>3, <2>1 DEF KeysOf, Plain
  <2> QED BY <1>1, <1>2, <2>2 DEF SecretInv, RowsOK, Stored
<1>6. S!KeystoreWhole'
  <2> SUFFICES ASSUME meta'.enc PROVE S!KeystoreWhole'
    BY DEF S!KeystoreWhole
  <2>1. meta'.params = op'.key[1] /\ meta'.verify = op'.key /\ meta'.dflt = op'.dflt
    BY <1>1, <1>3, <1>4 DEF HolderOK
  <2>2. PICK n \in 1 .. salts', p \in Pwds : op'.key = <<n, p>> /\ (op'.dflt => p = "citeck")
    BY <1>1, <1>4 DEF HolderOK
  <2>3. n # None /\ meta'.params = n
    <3>1. salts' \in Nat
      BY <1>1 DEF SecretInv, VaultShape
    <3> QED BY <2>1, <2>2, <3>1 DEF SecretNames
  <2> QED BY <2>1, <2>2, <2>3 DEF S!KeystoreWhole
<1>7. VaultShape'
  <2>1. meta'.enc \in BOOLEAN
    BY SetupMetaCases DEF SecretInv, VaultShape
  <2> QED BY <1>1, <2>1 DEF SecretInv, VaultShape, S!SecretIds
<1>8. MemOK' /\ BesidesOK'
  BY <1>1 DEF SecretInv, MemOK, BesidesOK, Stored, Setting, S!Idle, S!NoOp
<1> QED BY <1>4, <1>5, <1>6, <1>7, <1>8 DEF SecretInv

\* The lock is given back: the service knows the key that all the rows are in.
LEMMA SecretsSetupEnd ==
  ASSUME Faults = {}, SecretNames, SecretInv, S!SetupEnd PROVE SecretInv'
<1>1. /\ op.pc = "done" /\ mem' = [enc |-> TRUE, key |-> op.key] /\ op' = S!NoOp
      /\ phase' = CASE op.kind = "boot" -> "resolve" [] op.kind = "cli" -> "down" [] OTHER -> phase
      /\ left' = IF op.kind = "boot" THEN SysIds ELSE left
      /\ imp' = IF op.kind = "import" THEN S!NoImp ELSE imp
      /\ UNCHANGED <<row, meta, want, clean, edit, salts>>
  BY DEF S!SetupEnd, SecretInv, HolderOK, Setting, Wiping, S!NoOp, S!disk, S!ghosts, S!counts
<1>2. Setting /\ ~Setting' /\ ~Wiping' /\ S!Idle'
  BY <1>1 DEF Setting, Wiping, S!Idle, S!NoOp
<1>3. /\ meta.enc /\ meta.verify = op.key /\ clean = None
  BY <1>1, <1>2 DEF SecretInv, HolderOK
<1>4. RowsOK'
  <2>1. \A i \in S!Rows : KeysOf(i)' = KeysOf(i)
    BY <1>1, <1>2, <1>3 DEF KeysOf, Plain
  <2> QED BY <1>1, <2>1 DEF SecretInv, RowsOK, Stored, S!Rows, S!SecretIds
<1>5. MemOK' /\ VaultShape' /\ S!KeystoreWhole'
  BY <1>1, <1>3 DEF SecretInv, MemOK, VaultShape, S!KeystoreWhole, S!NoOp, S!NoImp, S!SecretIds
<1>6. HolderOK'
  BY <1>1, <1>2 DEF HolderOK
<1>7. BesidesOK'
  <2>1. imp' = S!NoImp \/ (imp' = imp /\ imp = S!NoImp)
    BY <1>1, <1>2 DEF SecretInv, BesidesOK, S!Idle, S!NoOp
  <2> QED BY <1>1, <1>3, <2>1 DEF SecretInv, BesidesOK, Stored, S!NoImp
<1> QED BY <1>4, <1>5, <1>6, <1>7 DEF SecretInv

\* ResetSecrets takes the lock, and nothing is wanted of the vault any more.
LEMMA SecretsResetBegin ==
  ASSUME Faults = {}, SecretNames, SecretInv, S!ApiReset \/ S!CliReset PROVE SecretInv'
<1>1. /\ S!Idle /\ phase \in {"up", "down"} /\ (phase = "up" => imp = S!NoImp)
      /\ UNCHANGED <<row, meta, mem, phase, left, clean, edit, imp, salts>>
      /\ want' = [i \in UserIds |-> None]
      /\ \E kind \in {"reset", "clireset"} :
           /\ op' = [S!NoOp EXCEPT !.kind = kind, !.pc = "wipe", !.todo = S!Rows]
           /\ kind = "clireset" => phase = "down"
  BY DEF S!ApiReset, S!CliReset, S!ResetBegin, S!disk, S!counts
<1>2. /\ op'.pc = "wipe" /\ op'.todo = S!Rows /\ (op'.kind = "clireset" => phase = "down")
      /\ DOMAIN op' = {"kind", "pc", "todo", "cur", "key", "dflt"}
  BY <1>1 DEF S!NoOp
<1>3. imp = S!NoImp
  BY <1>1 DEF SecretInv, BesidesOK
<1>4. ~Setting /\ ~Setting' /\ Wiping' /\ ~S!Idle' /\ S!Rows' = S!Rows
  <2>1. S!Idle /\ row' = row
    BY <1>1
  <2>2. op.pc = "none"
    BY <2>1 DEF S!Idle, S!NoOp
  <2>3. ~S!Idle'
    BY <1>2 DEF S!Idle, S!NoOp
  <2> QED BY ONLY <1>2, <2>1, <2>2, <2>3 DEF Setting, Wiping, S!Rows, S!SecretIds
<1>5. RowsOK'
  <2>1. \A i \in S!Rows : KeysOf(i)' = KeysOf(i)
    BY <1>1, <1>4 DEF KeysOf
  <2> QED BY <1>1, <1>4, <2>1 DEF SecretInv, RowsOK, Stored
<1>6. HolderOK'
  BY <1>1, <1>2, <1>4 DEF HolderOK
<1>7. MemOK' /\ VaultShape' /\ S!KeystoreWhole'
  BY <1>1, <1>2, <1>4 DEF SecretInv, MemOK, VaultShape, S!KeystoreWhole, S!SecretIds
<1>8. BesidesOK'
  BY <1>1, <1>3 DEF SecretInv, BesidesOK, Stored, S!NoImp
<1> QED BY <1>5, <1>6, <1>7, <1>8 DEF SecretInv

\* It removes the rows, one by one.
LEMMA SecretsResetRow ==
  ASSUME Faults = {}, SecretNames, SecretInv, S!ResetRow PROVE SecretInv'
<1>1. PICK i \in op.todo : row' = [row EXCEPT ![i] = None] /\ op' = [op EXCEPT !.todo = op.todo \ {i}]
  BY DEF S!ResetRow
<1>2. op.pc = "wipe" /\ UNCHANGED <<meta, want, mem, phase, left, clean, edit, imp, salts>>
  BY DEF S!ResetRow, S!ghosts, S!counts
<1>3. /\ op'.pc = "wipe" /\ op'.todo = op.todo \ {i} /\ op'.kind = op.kind
      /\ DOMAIN op' = {"kind", "pc", "todo", "cur", "key", "dflt"}
  BY <1>1, <1>2 DEF SecretInv, VaultShape
<1>4. ~Setting /\ ~Setting' /\ Wiping /\ Wiping' /\ ~S!Idle'
  BY <1>2, <1>3 DEF Setting, Wiping, S!Idle, S!NoOp
<1>5. /\ S!Rows' = S!Rows \ {i} /\ \A j \in S!Rows' : row'[j] = row[j]
      /\ DOMAIN row' = S!SecretIds
  BY <1>1 DEF SecretInv, VaultShape, S!Rows, S!SecretIds
<1>6. HolderOK'
  BY <1>2, <1>3, <1>4, <1>5 DEF SecretInv, HolderOK
<1>7. RowsOK'
  <2>1. \A j \in S!Rows : KeysOf(j)' = KeysOf(j)
    BY <1>2, <1>4 DEF KeysOf
  <2>2. \A j \in UserIds : want'[j] = None
    BY <1>2, <1>4 DEF SecretInv, HolderOK
  <2> QED BY <1>5, <2>1, <2>2 DEF SecretInv, RowsOK, Stored
<1>8. MemOK' /\ VaultShape' /\ S!KeystoreWhole'
  BY <1>2, <1>3, <1>4, <1>5 DEF SecretInv, MemOK, VaultShape, S!KeystoreWhole, S!SecretIds
<1>9. BesidesOK'
  BY <1>2, <1>4 DEF SecretInv, BesidesOK, Stored, Wiping, S!Idle, S!NoOp, S!NoImp
<1> QED BY <1>6, <1>7, <1>8, <1>9 DEF SecretInv

\* It takes the keystore away, and first that it is one.
LEMMA SecretsResetMeta ==
  ASSUME Faults = {}, SecretNames, SecretInv, S!ResetMeta PROVE SecretInv'
<1>1. PICK n \in 1 .. 4 :
        /\ IF n = 1 THEN op.pc = "wipe" /\ op.todo = {} ELSE op.pc = "reset" /\ op.todo = {n}
        /\ meta' = [meta EXCEPT ![S!ResetOrder[n]] = S!NoKeystore[S!ResetOrder[n]]]
        /\ op' = [op EXCEPT !.pc = IF n = 4 THEN "wend" ELSE "reset",
                            !.todo = IF n = 4 THEN {} ELSE {n + 1}]
        /\ UNCHANGED <<row, want, mem, phase, left, clean, edit, imp, salts>>
  BY DEF S!ResetMeta, S!ghosts, S!counts
<1>2. /\ DOMAIN meta = {"enc", "params", "verify", "dflt"} /\ DOMAIN meta' = DOMAIN meta
      /\ DOMAIN op = {"kind", "pc", "todo", "cur", "key", "dflt"}
  BY <1>1 DEF SecretInv, VaultShape
<1>3. /\ op'.pc \in {"reset", "wend"} /\ op'.kind = op.kind
      /\ DOMAIN op' = {"kind", "pc", "todo", "cur", "key", "dflt"}
  BY <1>1, <1>2
<1>4. /\ op.pc \in {"wipe", "reset"} /\ (n = 1 => op.pc = "wipe" /\ op.todo = {})
      /\ (n # 1 => op.pc = "reset")
  BY <1>1
<1>5. ~Setting /\ ~Setting' /\ Wiping /\ Wiping' /\ ~S!Idle'
  BY <1>3, <1>4 DEF Setting, Wiping, S!Idle, S!NoOp
<1>6. S!Rows = {} /\ S!Rows' = {}
  BY <1>1, <1>4, <1>5 DEF SecretInv, HolderOK, S!Rows
<1>7. meta'.enc = FALSE
  <2>1. CASE n = 1
    <3>1. S!ResetOrder[n] = "enc" /\ S!NoKeystore["enc"] = FALSE
      BY <2>1 DEF S!ResetOrder, S!NoKeystore
    <3>2. meta' = [meta EXCEPT !["enc"] = FALSE]
      BY <1>1, <3>1
    <3> QED BY ONLY <1>2, <3>2
  <2>2. CASE n # 1
    <3>1. S!ResetOrder[n] # "enc"
      BY <2>2 DEF S!ResetOrder
    <3>2. meta'.enc = meta.enc
      BY <1>1, <1>2, <3>1
    <3>3. ~meta.enc /\ meta.enc \in BOOLEAN
      BY <1>4, <1>5, <2>2 DEF SecretInv, HolderOK, VaultShape
    <3> QED BY <3>2, <3>3
  <2> QED BY <2>1, <2>2
<1>8. HolderOK'
  BY <1>1, <1>3, <1>5, <1>6, <1>7 DEF SecretInv, HolderOK
<1>9. RowsOK'
  BY <1>1, <1>5, <1>6 DEF SecretInv, HolderOK, RowsOK
<1>10. MemOK' /\ VaultShape' /\ S!KeystoreWhole'
  BY <1>1, <1>2, <1>3, <1>5, <1>7 DEF SecretInv, MemOK, VaultShape, S!KeystoreWhole, S!SecretIds
<1>11. BesidesOK'
  BY <1>1, <1>5 DEF SecretInv, BesidesOK, Stored, Wiping, S!Idle, S!NoOp, S!NoImp
<1> QED BY <1>8, <1>9, <1>10, <1>11 DEF SecretInv

\* The handler gives the lock back, the prompt keeps it for a new password.
LEMMA SecretsResetEnd ==
  ASSUME Faults = {}, SecretNames, SecretInv, S!ResetEnd PROVE SecretInv'
<1>1. /\ op.pc = "wend" /\ mem' = [enc |-> FALSE, key |-> None]
      /\ UNCHANGED <<row, meta, want, phase, left, clean, edit, imp>>
  BY DEF S!ResetEnd, S!ghosts
<1>2. Wiping /\ ~Setting /\ ~S!Idle
  BY <1>1 DEF Wiping, Setting, S!Idle, S!NoOp
<1>3. S!Rows = {} /\ S!Rows' = {} /\ ~meta.enc /\ (op.kind = "clireset" => phase = "down")
  BY <1>1, <1>2 DEF SecretInv, HolderOK, S!Rows
<1>4. RowsOK'
  BY <1>1, <1>2, <1>3 DEF SecretInv, HolderOK, RowsOK
<1>5. imp = S!NoImp /\ S!KeystoreWhole'
  BY <1>1, <1>2, <1>3 DEF SecretInv, BesidesOK, S!KeystoreWhole
<1>6. BesidesOK'
  BY <1>1, <1>5 DEF SecretInv, BesidesOK, Stored, S!NoImp
<1>7. CASE op' = S!NoOp /\ UNCHANGED salts
  <2>1. HolderOK'
    BY <1>7 DEF HolderOK, Setting, Wiping, S!NoOp
  <2>2. MemOK' /\ VaultShape'
    BY <1>1, <1>3, <1>7 DEF SecretInv, MemOK, VaultShape, S!SecretIds, S!NoOp
  <2> QED BY <1>4, <1>5, <1>6, <2>1, <2>2 DEF SecretInv
<1>8. ASSUME op.kind = "clireset", NEW p \in Pwds, salts' = salts + 1,
             op' = [kind |-> "cli", pc |-> "rows", todo |-> S!Rows, cur |-> None,
                    key |-> <<salts + 1, p>>, dflt |-> p = "citeck"]
      PROVE  SecretInv'
  <2>1. phase = "down" /\ clean = None /\ salts \in Nat
    BY <1>3, <1>8 DEF SecretInv, BesidesOK, VaultShape
  <2>2. /\ op'.pc = "rows" /\ op'.todo = {} /\ op'.cur = None /\ op'.key = <<salts + 1, p>>
        /\ (op'.dflt => p = "citeck")
        /\ DOMAIN op' = {"kind", "pc", "todo", "cur", "key", "dflt"}
    BY <1>3, <1>8
  <2>3. Setting' /\ ~Wiping' /\ ~S!Idle'
    BY <2>2 DEF Setting, Wiping, S!Idle, S!NoOp
  <2>4. \E n \in 1 .. salts', q \in Pwds : op'.key = <<n, q>> /\ (op'.dflt => q = "citeck")
    BY <1>8, <2>1, <2>2
  <2>5. HolderOK'
    BY <1>1, <1>3, <2>1, <2>2, <2>3, <2>4 DEF HolderOK
  <2>6. MemOK' /\ VaultShape'
    BY <1>1, <1>8, <2>1, <2>2, <2>3 DEF SecretInv, MemOK, VaultShape, S!SecretIds
  <2> QED BY <1>4, <1>5, <1>6, <2>5, <2>6 DEF SecretInv
<1> QED BY <1>7, <1>8 DEF S!ResetEnd

\* The older home of a system secret is emptied, or will be.
LEMMA SecretsClean ==
  ASSUME Faults = {}, SecretNames, SecretInv, S!Clean \/ \E s \in SysIds : S!Rotate(s)
  PROVE  SecretInv'
<1>1. CASE S!Clean
  <2> DEFINE i == clean.id
  <2>1. /\ clean # None /\ clean' = None /\ row' \in {row, [row EXCEPT ![i] = None]}
        /\ UNCHANGED <<meta, want, op, mem, phase, left, edit, imp, salts>>
    BY <1>1 DEF S!Clean, S!ghosts, S!counts
  <2>2. i \notin UserIds /\ ~Setting /\ ~Setting'
    BY <2>1 DEF SecretInv, BesidesOK, HolderOK, SecretNames, Setting
  <2> HIDE DEF i
  <2>3. /\ S!Rows' \subseteq S!Rows /\ S!Rows \ {i} \subseteq S!Rows' /\ DOMAIN row' = S!SecretIds
        /\ \A j \in S!Rows' : row'[j] = row[j]
    BY <2>1 DEF SecretInv, VaultShape, S!Rows, S!SecretIds
  <2>4. HolderOK'
    BY <2>1, <2>2, <2>3 DEF SecretInv, HolderOK, Setting, Wiping
  <2>5. RowsOK'
    <3>1. \A j \in S!Rows' : KeysOf(j)' = KeysOf(j)
      BY <2>1, <2>2 DEF KeysOf
    <3>2. \A j \in UserIds : want'[j] # None => j \in S!Rows'
      BY <2>1, <2>2, <2>3 DEF SecretInv, RowsOK
    <3> QED BY <2>1, <2>3, <3>1, <3>2 DEF SecretInv, RowsOK, Stored
  <2>6. MemOK' /\ VaultShape' /\ S!KeystoreWhole'
    BY <2>1, <2>3 DEF SecretInv, MemOK, VaultShape, S!KeystoreWhole, S!SecretIds, S!Idle
  <2>7. BesidesOK'
    BY <2>1 DEF SecretInv, BesidesOK, Stored, S!NoImp, S!Idle, Setting
  <2> QED BY <2>4, <2>5, <2>6, <2>7 DEF SecretInv
<1>2. ASSUME NEW s \in SysIds, S!Rotate(s) PROVE SecretInv'
  <2>1. /\ S!Idle /\ phase = "up" /\ (clean' # None => clean'.id \in SysIds)
        /\ UNCHANGED <<row, meta, want, op, mem, phase, left, edit, imp, salts>>
    BY <1>2 DEF S!Rotate
  <2>2. RowsOK' /\ S!KeystoreWhole'
    BY <2>1, VaultStays
  <2>3. HolderOK'
    BY <2>1 DEF HolderOK, Setting, Wiping, S!Idle, S!NoOp
  <2>4. MemOK' /\ VaultShape'
    BY <2>1 DEF SecretInv, MemOK, VaultShape, S!SecretIds, S!Idle
  <2>5. BesidesOK'
    BY <2>1 DEF SecretInv, BesidesOK, Stored, S!NoImp, S!Idle, S!NoOp, Setting
  <2> QED BY <2>2, <2>3, <2>4, <2>5 DEF SecretInv
<1> QED BY <1>1, <1>2

\* A row of a user secret is written, in the keys that the others are in.
LEMMA RowIsWritten ==
  ASSUME SecretNames, SecretInv, S!Idle, NEW i \in UserIds, NEW x,
         Stored(x, IF meta.enc THEN <<meta.verify>> ELSE <<>>),
         row' = [row EXCEPT ![i] = x], want' = [want EXCEPT ![i] = x.v],
         UNCHANGED <<meta, op, mem, phase, left, clean, salts>>
  PROVE  /\ VaultShape' <=> DOMAIN imp' = {"pc", "todo"}
         /\ HolderOK' /\ RowsOK' /\ MemOK' /\ S!KeystoreWhole'
<1>1. ~Setting /\ ~Setting' /\ ~Wiping'
  BY DEF Setting, Wiping, S!Idle, S!NoOp
<1>2. x # None
  BY DEF Stored, SecretNames
<1>3. /\ DOMAIN row' = S!SecretIds /\ DOMAIN want' = UserIds /\ row'[i] = x /\ want'[i] = x.v
      /\ \A j \in S!SecretIds \ {i} : row'[j] = row[j]
      /\ \A j \in UserIds \ {i} : want'[j] = want[j]
      /\ i \in S!SecretIds /\ UserIds \subseteq S!SecretIds
  BY DEF SecretInv, VaultShape, S!SecretIds
<1>4. S!Rows' = S!Rows \cup {i}
  BY <1>2, <1>3 DEF S!Rows, S!SecretIds
<1>5. RowsOK'
  <2>1. \A j \in S!Rows' : KeysOf(j)' = IF meta.enc THEN <<meta.verify>> ELSE <<>>
    BY <1>1 DEF KeysOf
  <2>2. \A j \in S!Rows \ {i} : Stored(row[j], IF meta.enc THEN <<meta.verify>> ELSE <<>>)
    BY <1>1 DEF SecretInv, RowsOK, KeysOf
  <2>3. \A j \in S!Rows' : Stored(row[j], KeysOf(j))'
    <3>1. \A j \in S!Rows : j \in S!SecretIds
      BY DEF S!Rows
    <3> QED BY <1>3, <1>4, <2>1, <2>2, <3>1 DEF Stored
  <2>4. \A j \in UserIds : want'[j] # None => j \in S!Rows' /\ row'[j].v = want'[j]
    BY <1>3, <1>4 DEF SecretInv, RowsOK
  <2> QED BY <2>3, <2>4 DEF RowsOK
<1>6. HolderOK' /\ MemOK' /\ S!KeystoreWhole'
  BY <1>1 DEF SecretInv, HolderOK, MemOK, S!KeystoreWhole, S!Idle
<1>7. VaultShape' <=> DOMAIN imp' = {"pc", "todo"}
  BY <1>3 DEF SecretInv, VaultShape, S!SecretIds
<1> QED BY <1>5, <1>6, <1>7

\* What is sealed in an open vault is in its key.
LEMMA SavesInKey ==
  ASSUME SecretInv, S!CanSave, NEW x, Stored(x, <<>>)
  PROVE  /\ Stored(S!Seal(x, mem.key), IF meta.enc THEN <<meta.verify>> ELSE <<>>)
         /\ S!Seal(x, mem.key).v = x.v
<1>1. meta.enc /\ mem.key = meta.verify
  BY DEF SecretInv, MemOK, S!CanSave
<1> QED BY <1>1, Sealing

\* The handlers that write one secret, and the read of a partial edit.
LEMMA SecretsEdit ==
  ASSUME Faults = {}, SecretNames, SecretInv,
         \/ \E i \in UserIds, v \in Vals : S!HandleCreateSecret(i, v)
         \/ \E i \in UserIds, v \in Vals \cup {None} : S!HandleUpdateSecretRead(i, v)
         \/ S!HandleUpdateSecretSave
         \/ \E i \in UserIds : S!HandleDeleteSecret(i)
  PROVE  SecretInv'
<1>1. ASSUME NEW i \in UserIds, NEW v \in Vals, S!HandleCreateSecret(i, v) PROVE SecretInv'
  <2> DEFINE x == [v |-> v, keys |-> <<>>]
  <2>1. /\ S!CanSave /\ row' = [row EXCEPT ![i] = S!Seal(x, mem.key)] /\ want' = [want EXCEPT ![i] = v]
        /\ UNCHANGED <<meta, op, mem, phase, left, clean, edit, imp, salts>>
    BY <1>1 DEF S!HandleCreateSecret, S!counts
  <2>2. Stored(x, <<>>) /\ x.v = v
    BY DEF Stored
  <2> HIDE DEF x
  <2>3. /\ VaultShape' <=> DOMAIN imp' = {"pc", "todo"}
        /\ HolderOK' /\ RowsOK' /\ MemOK' /\ S!KeystoreWhole'
    <3> DEFINE y == S!Seal(x, mem.key)
    <3>1. Stored(y, IF meta.enc THEN <<meta.verify>> ELSE <<>>) /\ y.v = v
      BY <2>1, <2>2, SavesInKey
    <3>2. row' = [row EXCEPT ![i] = y] /\ want' = [want EXCEPT ![i] = y.v]
      BY <2>1, <3>1
    <3>3. S!Idle
      BY <2>1 DEF S!CanSave
    <3> HIDE DEF y
    <3> QED BY <2>1, <3>1, <3>2, <3>3, RowIsWritten
  <2>4. BesidesOK'
    BY <2>1 DEF SecretInv, BesidesOK, Stored, S!NoImp, S!Idle, Setting
  <2> QED BY <2>1, <2>3, <2>4 DEF SecretInv, VaultShape
<1>2. ASSUME NEW i \in UserIds, NEW v \in Vals \cup {None}, S!HandleUpdateSecretRead(i, v)
      PROVE  SecretInv'
  <2>1. /\ S!Idle /\ phase = "up" /\ S!GetSecret(i) # None
        /\ edit' = [id |-> i, x |-> IF v = None THEN S!GetSecret(i) ELSE [v |-> v, keys |-> <<>>]]
        /\ UNCHANGED <<row, meta, want, op, mem, phase, left, clean, imp, salts>>
    BY <1>2 DEF S!HandleUpdateSecretRead, S!disk, S!ghosts, S!counts
  <2>2. i \in S!Rows
    BY <2>1 DEF S!GetSecret, S!Rows, S!SecretIds
  <2>3. S!GetSecret(i) = [v |-> row[i].v, keys |-> <<>>]
    BY <2>1, <2>2, ReadIsPlain
  <2>4. edit'.id \in UserIds /\ Stored(edit'.x, <<>>)
    BY <2>1, <2>3 DEF Stored
  <2>5. RowsOK' /\ S!KeystoreWhole'
    BY <2>1, VaultStays
  <2>6. HolderOK'
    BY <2>1 DEF HolderOK, Setting, Wiping, S!Idle, S!NoOp
  <2>7. MemOK' /\ VaultShape'
    BY <2>1 DEF SecretInv, MemOK, VaultShape, S!SecretIds, S!Idle
  <2>8. BesidesOK'
    BY <2>1, <2>4 DEF SecretInv, BesidesOK, S!NoImp, S!Idle, S!NoOp, Setting, Stored
  <2> QED BY <2>5, <2>6, <2>7, <2>8 DEF SecretInv
<1>3. CASE S!HandleUpdateSecretSave
  <2>1. /\ S!Idle /\ edit # None /\ edit' = None
        /\ UNCHANGED <<meta, op, mem, phase, left, clean, imp, salts>>
    BY <1>3 DEF S!HandleUpdateSecretSave, S!counts
  <2>2. BesidesOK'
    BY <2>1 DEF SecretInv, BesidesOK, S!NoImp, S!Idle, Setting
  <2>3. edit.id \in UserIds /\ Stored(edit.x, <<>>)
    BY <2>1 DEF SecretInv, BesidesOK
  <2>4. CASE S!CanSave
    <3>1. row' = [row EXCEPT ![edit.id] = S!Seal(edit.x, mem.key)]
          /\ want' = [want EXCEPT ![edit.id] = edit.x.v]
      BY <1>3, <2>4 DEF S!HandleUpdateSecretSave
    <3>2. /\ VaultShape' <=> DOMAIN imp' = {"pc", "todo"}
          /\ HolderOK' /\ RowsOK' /\ MemOK' /\ S!KeystoreWhole'
      <4> DEFINE y == S!Seal(edit.x, mem.key)
      <4>1. Stored(y, IF meta.enc THEN <<meta.verify>> ELSE <<>>) /\ y.v = edit.x.v
        BY <2>3, <2>4, SavesInKey
      <4>2. row' = [row EXCEPT ![edit.id] = y] /\ want' = [want EXCEPT ![edit.id] = y.v]
        BY <3>1, <4>1
      <4> HIDE DEF y
      <4> QED BY <2>1, <2>3, <4>1, <4>2, RowIsWritten
    <3> QED BY <2>1, <2>2, <3>2 DEF SecretInv, VaultShape
  <2>5. CASE UNCHANGED <<row, want>>
    <3>1. RowsOK' /\ S!KeystoreWhole'
      BY <2>1, <2>5, VaultStays
    <3>2. HolderOK'
      BY <2>1, <2>5 DEF HolderOK, Setting, Wiping, S!Idle, S!NoOp
    <3>3. MemOK' /\ VaultShape'
      BY <2>1, <2>5 DEF SecretInv, MemOK, VaultShape, S!SecretIds, S!Idle
    <3> QED BY <2>2, <3>1, <3>2, <3>3 DEF SecretInv
  <2> QED BY <1>3, <2>4, <2>5 DEF S!HandleUpdateSecretSave
<1>4. ASSUME NEW i \in UserIds, S!HandleDeleteSecret(i) PROVE SecretInv'
  <2>1. /\ S!Idle /\ row' = [row EXCEPT ![i] = None] /\ want' = [want EXCEPT ![i] = None]
        /\ UNCHANGED <<meta, op, mem, phase, left, clean, edit, imp, salts>>
    BY <1>4 DEF S!HandleDeleteSecret, S!EditRaces, S!counts
  <2>2. ~Setting /\ ~Setting' /\ ~Wiping'
    BY <2>1 DEF Setting, Wiping, S!Idle, S!NoOp
  <2>3. /\ S!Rows' = S!Rows \ {i} /\ DOMAIN row' = S!SecretIds /\ DOMAIN want' = UserIds
        /\ \A j \in S!Rows' : row'[j] = row[j]
        /\ want'[i] = None /\ \A j \in UserIds \ {i} : want'[j] = want[j]
    BY <2>1 DEF SecretInv, VaultShape, S!Rows, S!SecretIds
  <2>4. RowsOK'
    <3>1. \A j \in S!Rows' : KeysOf(j)' = KeysOf(j)
      BY <2>1, <2>2 DEF KeysOf
    <3> QED BY <2>3, <3>1 DEF SecretInv, RowsOK, Stored
  <2>5. HolderOK' /\ MemOK' /\ VaultShape' /\ S!KeystoreWhole'
    BY <2>1, <2>2, <2>3 DEF SecretInv, HolderOK, MemOK, VaultShape, S!KeystoreWhole, S!SecretIds, S!Idle
  <2>6. BesidesOK'
    BY <2>1 DEF SecretInv, BesidesOK, Stored, S!NoImp, S!Idle, Setting
  <2> QED BY <2>4, <2>5, <2>6 DEF SecretInv
<1> QED BY <1>1, <1>2, <1>3, <1>4

\* The vault is opened, or a first password is set.
LEMMA SecretsOpen ==
  ASSUME Faults = {}, SecretNames, SecretInv,
         NEW p \in Pwds, S!HandleUnlockSecrets(p) \/ S!HandleSetupPassword(p)
  PROVE  SecretInv'
<1>1. CASE S!HandleUnlockSecrets(p)
  <2>1. /\ phase = "up" /\ S!Idle /\ S!Unlocks(p) /\ mem' = [mem EXCEPT !.key = S!Derived(p)]
        /\ UNCHANGED <<row, meta, want, op, phase, left, clean, edit, imp, salts>>
    BY <1>1 DEF S!HandleUnlockSecrets, S!disk, S!ghosts, S!counts
  <2>2. RowsOK' /\ S!KeystoreWhole'
    BY <2>1, VaultStays
  <2>3. MemOK' /\ VaultShape'
    BY <2>1 DEF SecretInv, MemOK, VaultShape, S!SecretIds, S!Idle, S!Unlocks
  <2>4. HolderOK'
    BY <2>1 DEF HolderOK, Setting, Wiping, S!Idle, S!NoOp
  <2>5. BesidesOK'
    BY <2>1 DEF SecretInv, BesidesOK, Stored, S!NoImp, S!Idle, Setting
  <2> QED BY <2>2, <2>3, <2>4, <2>5 DEF SecretInv
<1>2. CASE S!HandleSetupPassword(p)
  <2>1. /\ phase = "up" /\ S!Idle /\ imp = S!NoImp
        /\ S!BeginSetup("setup", p, mode = "server") /\ (mode = "server" => p = "citeck")
        /\ UNCHANGED <<row, meta, want, mem, phase, left, clean, edit, imp>>
    BY <1>2 DEF S!HandleSetupPassword, S!ImportEncrypted, S!disk, S!ghosts
  <2>2. /\ VaultShape' <=> DOMAIN imp' = {"pc", "todo"}
        /\ HolderOK' /\ RowsOK' /\ MemOK' /\ S!KeystoreWhole'
    BY <2>1, SetupBegins
  <2>3. BesidesOK'
    BY <2>1 DEF SecretInv, BesidesOK, Stored, S!NoImp
  <2> QED BY <2>1, <2>2, <2>3 DEF SecretInv, S!NoImp
<1> QED BY <1>1, <1>2

\* The secrets of Kotlin are imported into a vault that is not encrypted yet.
LEMMA SecretsImport ==
  ASSUME Faults = {}, SecretNames, SecretInv,
         S!HandleSubmitMasterPassword \/ S!SubmitSave \/ S!SubmitClear \/ S!SubmitEncrypt
  PROVE  SecretInv'
<1>1. CASE S!HandleSubmitMasterPassword \/ S!SubmitClear
  <2>1. /\ S!Idle /\ phase = "up" /\ ~meta.enc
        /\ UNCHANGED <<row, meta, want, op, mem, phase, left, clean, edit, salts>>
        /\ imp'.pc \in {"rows", "encrypt"} /\ DOMAIN imp' = {"pc", "todo"}
        /\ \A s \in imp'.todo : s.id \in UserIds
    <3>1. CASE S!HandleSubmitMasterPassword
      <4>1. /\ S!Idle /\ phase = "up" /\ ~mem.enc
            /\ UNCHANGED <<row, meta, want, op, mem, phase, left, clean, edit, salts>>
        BY <3>1 DEF S!HandleSubmitMasterPassword, S!ImportEncrypted, S!disk, S!ghosts, S!counts
      <4>2. imp' = [pc |-> "rows",
                    todo |-> {[id |-> i, v |-> blob[i]] : i \in {j \in UserIds : blob[j] # None}}]
        BY <3>1 DEF S!HandleSubmitMasterPassword
      <4>3. \A s \in imp'.todo : s.id \in UserIds
        BY <4>2
      <4>4. ~meta.enc
        BY <4>1 DEF SecretInv, MemOK
      <4> QED BY <4>1, <4>2, <4>3, <4>4
    <3>2. CASE S!SubmitClear
      <4>1. /\ imp.pc = "rows" /\ imp.todo = {} /\ imp' = [imp EXCEPT !.pc = "encrypt"]
            /\ UNCHANGED <<row, meta, want, op, mem, phase, left, clean, edit, salts>>
        BY <3>2 DEF S!SubmitClear, S!ghosts, S!counts
      <4>2. imp'.pc = "encrypt" /\ imp'.todo = {} /\ DOMAIN imp' = {"pc", "todo"}
        BY <4>1 DEF SecretInv, VaultShape
      <4>3. S!Idle /\ ~meta.enc /\ phase = "up"
        BY <4>1 DEF SecretInv, BesidesOK, S!NoImp
      <4> QED BY <4>1, <4>2, <4>3
    <3> QED BY <1>1, <3>1, <3>2
  <2>2. RowsOK' /\ S!KeystoreWhole'
    BY <2>1, VaultStays
  <2>3. MemOK' /\ VaultShape'
    BY <2>1 DEF SecretInv, MemOK, VaultShape, S!SecretIds, S!Idle
  <2>4. HolderOK'
    BY <2>1 DEF HolderOK, Setting, Wiping, S!Idle, S!NoOp
  <2>5. BesidesOK'
    BY <2>1 DEF SecretInv, BesidesOK, Stored, S!Idle
  <2> QED BY <2>2, <2>3, <2>4, <2>5 DEF SecretInv
<1>2. CASE S!SubmitSave
  <2>1. PICK s \in imp.todo :
          /\ row' = [row EXCEPT ![s.id] = [v |-> s.v, keys |-> <<>>]]
          /\ want' = [want EXCEPT ![s.id] = s.v]
          /\ imp' = [imp EXCEPT !.todo = imp.todo \ {s}]
    BY <1>2 DEF S!SubmitSave
  <2>2. imp.pc = "rows" /\ UNCHANGED <<meta, op, mem, phase, left, clean, edit, salts>>
    BY <1>2 DEF S!SubmitSave, S!counts
  <2>3. S!Idle /\ ~meta.enc /\ s.id \in UserIds /\ phase = "up"
    BY <2>1, <2>2 DEF SecretInv, BesidesOK, S!NoImp
  <2> DEFINE x == [v |-> s.v, keys |-> <<>>]
  <2>4. Stored(x, IF meta.enc THEN <<meta.verify>> ELSE <<>>) /\ x.v = s.v
    BY <2>3 DEF Stored
  <2>5. row' = [row EXCEPT ![s.id] = x] /\ want' = [want EXCEPT ![s.id] = x.v]
    BY <2>1
  <2> HIDE DEF x
  <2>6. /\ VaultShape' <=> DOMAIN imp' = {"pc", "todo"}
        /\ HolderOK' /\ RowsOK' /\ MemOK' /\ S!KeystoreWhole'
    BY <2>2, <2>3, <2>4, <2>5, RowIsWritten
  <2>7. DOMAIN imp' = {"pc", "todo"} /\ imp'.pc = "rows" /\ imp'.todo \subseteq imp.todo
    BY <2>1, <2>2 DEF SecretInv, VaultShape
  <2>8. BesidesOK'
    BY <2>2, <2>3, <2>7 DEF SecretInv, BesidesOK, Stored, S!Idle
  <2> QED BY <2>6, <2>7, <2>8 DEF SecretInv
<1>3. CASE S!SubmitEncrypt
  <2>1. /\ imp.pc = "encrypt" /\ S!Idle /\ ~meta.enc /\ phase = "up"
        /\ UNCHANGED <<row, meta, want, mem, phase, left, clean, edit>>
    BY <1>3 DEF S!SubmitEncrypt, S!disk, S!ghosts, SecretInv, BesidesOK, S!NoImp
  <2>2. ~mem.enc
    BY <2>1 DEF SecretInv, MemOK
  <2>3. PICK p \in Pwds : (mode = "server" => p = "citeck") /\ S!BeginSetup("import", p, mode = "server")
    BY <1>3, <2>2 DEF S!SubmitEncrypt
  <2>4. imp' = [imp EXCEPT !.pc = "wait"]
    BY <1>3, <2>2 DEF S!SubmitEncrypt
  <2>5. DOMAIN imp' = {"pc", "todo"} /\ imp'.pc = "wait" /\ imp'.todo = imp.todo
    BY <2>4 DEF SecretInv, VaultShape
  <2>6. /\ VaultShape' <=> DOMAIN imp' = {"pc", "todo"}
        /\ HolderOK' /\ RowsOK' /\ MemOK' /\ S!KeystoreWhole'
        /\ Setting' /\ op'.kind = "import"
    BY <2>1, <2>3, SetupBegins
  <2>7. BesidesOK'
    BY <2>1, <2>5, <2>6 DEF SecretInv, BesidesOK, Stored
  <2> QED BY <2>5, <2>6, <2>7 DEF SecretInv
<1> QED BY <1>1, <1>2, <1>3

\* The process dies: what is on the disk says of itself in which keys it is.
LEMMA SecretsCrash ==
  ASSUME Faults = {}, SecretNames, SecretInv, S!Crash PROVE SecretInv'
<1>1. /\ op.pc \notin {"rows", "verify", "dflt", "enc"} \/ S!Rows = {}
      /\ phase' = "down" /\ mem' = [enc |-> FALSE, key |-> None]
      /\ left' = {} /\ clean' = None /\ op' = S!NoOp /\ imp' = S!NoImp /\ edit' = None
      /\ UNCHANGED <<row, meta, want, salts>>
  BY DEF S!Crash, S!CrashInSetup, S!disk, S!ghosts
<1>2. ~Setting' /\ ~Wiping' /\ S!Idle' /\ S!Rows' = S!Rows
  BY <1>1 DEF Setting, Wiping, S!Idle, S!NoOp, S!Rows
<1>3. \A i \in S!Rows : KeysOf(i)' = KeysOf(i)
  <2> SUFFICES ASSUME NEW i \in S!Rows PROVE KeysOf(i)' = KeysOf(i)
    OBVIOUS
  <2>1. CASE Setting
    <3>1. op.pc = "done"
      BY <1>1, <2>1 DEF Setting
    <3>2. meta.enc /\ meta.verify = op.key
      BY <2>1, <3>1 DEF SecretInv, HolderOK
    <3> QED BY <1>1, <1>2, <2>1, <3>1, <3>2 DEF KeysOf, Plain
  <2>2. CASE ~Setting
    BY <1>1, <1>2, <2>2 DEF KeysOf
  <2> QED BY <2>1, <2>2
<1>4. RowsOK'
  BY <1>1, <1>2, <1>3 DEF SecretInv, RowsOK, Stored
<1>5. HolderOK' /\ MemOK' /\ VaultShape' /\ S!KeystoreWhole'
  BY <1>1, <1>2 DEF SecretInv, HolderOK, MemOK, VaultShape, S!KeystoreWhole, S!SecretIds, S!NoOp, S!NoImp
<1>6. BesidesOK'
  BY <1>1 DEF BesidesOK, S!NoImp
<1> QED BY <1>4, <1>5, <1>6 DEF SecretInv

\* SecretInv is inductive.
LEMMA SecretStep ==
  ASSUME Faults = {}, SecretNames, SecretInv, [S!Next]_(S!vars) PROVE SecretInv'
<1>1. CASE UNCHANGED S!vars
  <2>1. UNCHANGED <<row, meta, want, op, mem, phase, left, clean, edit, imp, salts>>
    BY <1>1 DEF S!vars
  <2>2. RowsOK' /\ S!KeystoreWhole'
    BY <2>1, VaultStays
  <2>3. MemOK' /\ VaultShape' /\ HolderOK'
    BY <2>1 DEF SecretInv, MemOK, VaultShape, S!SecretIds, S!Idle, HolderOK, Setting, Wiping, S!Rows
  <2>4. BesidesOK'
    BY <2>1 DEF SecretInv, BesidesOK, Stored, S!NoImp, S!Idle, Setting
  <2> QED BY <2>2, <2>3, <2>4 DEF SecretInv
<1>2. CASE S!Next
  BY <1>2, SecretsBoot, SecretsSetupRead, SecretsSetupSave, SecretsSetupMeta, SecretsSetupEnd,
     SecretsResetBegin, SecretsResetRow, SecretsResetMeta, SecretsResetEnd, SecretsClean,
     SecretsEdit, SecretsOpen, SecretsImport, SecretsCrash DEF S!Next
<1> QED BY <1>1, <1>2

\* A vault is found encrypted with a password, or it is not encrypted.
LEMMA SecretInit == ASSUME SecretNames, S!Init PROVE SecretInv
<1>1. PICK p \in Pwds \cup {None} :
        meta = IF p = None
               THEN [enc |-> FALSE, params |-> None, verify |-> None, dflt |-> FALSE]
               ELSE [enc |-> TRUE, params |-> 1, verify |-> <<1, p>>, dflt |-> p = "citeck"]
  BY DEF S!Init
<1>2. /\ phase = "down" /\ mem = [enc |-> FALSE, key |-> None] /\ left = {} /\ clean = None
      /\ op = S!NoOp /\ imp = S!NoImp /\ edit = None /\ want = [i \in UserIds |-> None] /\ salts = 1
  BY DEF S!Init
<1>3. S!KeystoreWhole /\ DOMAIN meta = {"enc", "params", "verify", "dflt"} /\ meta.enc \in BOOLEAN
  <2>1. CASE p = None
    BY <1>1, <2>1 DEF S!KeystoreWhole
  <2>2. CASE p # None
    <3>1. /\ meta.enc /\ meta.params = 1 /\ meta.verify = <<1, p>> /\ (meta.dflt => p = "citeck")
          /\ DOMAIN meta = {"enc", "params", "verify", "dflt"} /\ p \in Pwds
      BY <1>1, <2>2
    <3>2. meta.enc = TRUE
      BY <1>1, <2>2
    <3> QED BY <3>1, <3>2 DEF S!KeystoreWhole, SecretNames
  <2> QED BY <2>1, <2>2
<1>4. PICK old \in SUBSET SysIds :
        row = [i \in S!SecretIds |-> IF i \notin old THEN None
                 ELSE [v |-> 1, keys |-> IF meta.enc THEN <<meta.verify>> ELSE <<>>]]
  BY DEF S!Init
<1>5. ~Setting /\ ~Wiping /\ S!Idle
  BY <1>2 DEF Setting, Wiping, S!Idle, S!NoOp
<1>6. RowsOK
  BY <1>2, <1>4, <1>5 DEF RowsOK, KeysOf, Stored, S!Rows
<1>7. VaultShape
  BY <1>2, <1>3, <1>4 DEF VaultShape, S!NoOp, S!NoImp
<1>8. HolderOK /\ MemOK /\ BesidesOK
  BY <1>2, <1>5 DEF HolderOK, MemOK, BesidesOK, S!NoImp
<1> QED BY <1>3, <1>6, <1>7, <1>8 DEF SecretInv

\* A master password opens the keystore wherever the launcher ends in SetMasterPassword
\* or ResetSecrets, and every user secret that was acknowledged can be read with its
\* value whenever the vault is open, while no crash meets a table half encrypted, no
\* blob is imported into an encrypted vault and no two edits of a secret race.
THEOREM SavedSecretsAreKept == SecretNames /\ Faults = {} => (Spec => []SecretsKept)
<1> SUFFICES ASSUME SecretNames, Faults = {} PROVE Spec => []SecretsKept
  OBVIOUS
<1>1. Init => SecretInv
  BY SecretInit DEF Init
<1>2. SecretInv /\ [Next]_vars => SecretInv'
  <2>1. [Next]_vars => [S!Next]_(S!vars)
    BY DEF Next, vars, secretVars, S!vars
  <2> QED BY <2>1, SecretStep
<1>3. SecretInv => SecretsKept
  <2> SUFFICES ASSUME SecretInv, phase = "up", S!Idle, ~S!Locked, NEW i \in UserIds, want[i] # None
               PROVE  S!GetSecret(i) = [v |-> want[i], keys |-> <<>>]
    BY DEF SecretsKept, S!SecretsKept, S!SavedIsReadable, SecretInv
  <2>1. i \in S!Rows /\ row[i].v = want[i]
    BY DEF SecretInv, RowsOK
  <2>2. S!GetSecret(i) # None
    <3>1. mem.enc \in BOOLEAN /\ row[i] # None
      BY <2>1 DEF SecretInv, VaultShape, S!Rows
    <3>2. ~Setting /\ mem.enc = meta.enc
      BY DEF SecretInv, MemOK, Setting, S!Idle, S!NoOp
    <3>3. Stored(row[i], IF meta.enc THEN <<meta.verify>> ELSE <<>>)
      BY <2>1, <3>2 DEF SecretInv, RowsOK, KeysOf
    <3>4. CASE ~mem.enc
      BY <3>1, <3>4 DEF S!GetSecret
    <3>5. CASE mem.enc
      <4>1. mem.key # None /\ mem.key = meta.verify
        BY <3>5 DEF SecretInv, MemOK, S!Locked
      <4>2. S!Opens(row[i], mem.key) /\ S!Unsealed(row[i]) = [v |-> row[i].v, keys |-> <<>>]
        BY <3>2, <3>3, <3>5, <4>1, Unsealing
      <4>3. S!Unsealed(row[i]) # None
        BY <4>2 DEF SecretNames
      <4> QED BY <3>1, <3>5, <4>1, <4>2, <4>3 DEF S!GetSecret
    <3> QED BY <3>1, <3>4, <3>5
  <2> QED BY <2>1, <2>2, ReadIsPlain
<1> QED BY <1>1, <1>2, <1>3, PTL DEF Spec

\* The daemon runs with the system secret that is stored in its state.
UsedIsStored == DOMAIN sys = SysIds /\ DOMAIN used = SysIds
                /\ \A s \in SysIds : used[s] # None => sys[s] = used[s]

\* A system secret changes only by a rotation, whatever the older homes hold, whatever
\* is set, wiped or unlocked, and wherever the launcher ends (systemsecrets.Get).
THEOREM SystemSecretsStay == Spec => SystemSecretsStable
<1>1. Init => UsedIsStored
  BY DEF Init, S!Init, UsedIsStored
<1>2. [Next]_vars => [S!Next]_(S!vars)
  BY DEF Next, vars, secretVars, S!vars
<1>3. ASSUME UsedIsStored, [S!Next]_(S!vars)
      PROVE  /\ UsedIsStored'
             /\ \A s \in SysIds : used[s] # None /\ used'[s] # used[s] => S!Rotate(s)
  <2>1. CASE S!Resolve
    <3>1. PICK s \in left :
            \/ sys[s] # None /\ sys' = sys /\ used' = [used EXCEPT ![s] = sys[s]]
            \/ /\ sys[s] = None /\ \E v : sys' = [sys EXCEPT ![s] = v]
               /\ \E v : used' = [used EXCEPT ![s] = v]
               /\ s \in SysIds => used'[s] = sys'[s]
      BY <1>3, <2>1 DEF S!Resolve, UsedIsStored
    <3>2. /\ DOMAIN sys' = SysIds /\ DOMAIN used' = SysIds
          /\ \A r \in SysIds \ {s} : sys'[r] = sys[r] /\ used'[r] = used[r]
      BY <1>3, <3>1 DEF UsedIsStored
    <3>3. s \in SysIds => used'[s] = sys'[s] /\ (used[s] # None => used'[s] = used[s])
      BY <1>3, <3>1 DEF UsedIsStored
    <3>4. UsedIsStored'
      BY <1>3, <3>2, <3>3 DEF UsedIsStored
    <3>5. \A r \in SysIds : used[r] # None => used'[r] = used[r]
      <4> SUFFICES ASSUME NEW r \in SysIds, used[r] # None PROVE used'[r] = used[r]
        OBVIOUS
      <4>1. CASE r = s
        BY <3>3, <4>1
      <4>2. CASE r # s
        BY <3>2, <4>2
      <4> QED BY <4>1, <4>2
    <3> QED BY ONLY <3>4, <3>5, Zenon
  <2>2. ASSUME NEW s \in SysIds, S!Rotate(s)
        PROVE  UsedIsStored' /\ \A r \in SysIds : used[r] # None /\ used'[r] # used[r] => S!Rotate(r)
    <3>1. sys' = [sys EXCEPT ![s] = made'] /\ used' = [used EXCEPT ![s] = made']
      BY <2>2 DEF S!Rotate
    <3> QED BY <1>3, <2>2, <3>1 DEF UsedIsStored
  <2>3. ASSUME UNCHANGED <<sys, used>>
        PROVE  UsedIsStored' /\ \A r \in SysIds : used[r] # None /\ used'[r] # used[r] => S!Rotate(r)
    BY <1>3, <2>3 DEF UsedIsStored
  <2>4. S!Resolve \/ (\E s \in SysIds : S!Rotate(s)) \/ UNCHANGED <<sys, used>>
    <3>1. CASE S!SetupRead \/ S!SetupSave \/ S!SetupMeta \/ S!SetupEnd
      BY <3>1 DEF S!SetupRead, S!SetupSave, S!SetupMeta, S!SetupEnd, S!disk, S!ghosts
    <3>2. CASE S!ApiReset \/ S!CliReset \/ S!ResetRow \/ S!ResetMeta \/ S!ResetEnd
      BY <3>2 DEF S!ApiReset, S!CliReset, S!ResetBegin, S!ResetRow, S!ResetMeta, S!ResetEnd,
         S!disk, S!ghosts
    <3>3. CASE S!Boot \/ S!BootUnlock \/ S!BootFirst \/ S!Clean \/ S!Up \/ S!Crash
      BY <3>3 DEF S!Boot, S!BootUnlock, S!BootFirst, S!Clean, S!Up, S!Crash, S!disk, S!ghosts
    <3>4. CASE \/ \E i \in UserIds, v \in Vals : S!HandleCreateSecret(i, v)
               \/ \E i \in UserIds, v \in Vals \cup {None} : S!HandleUpdateSecretRead(i, v)
               \/ S!HandleUpdateSecretSave
               \/ \E i \in UserIds : S!HandleDeleteSecret(i)
               \/ \E p \in Pwds : S!HandleUnlockSecrets(p)
      BY <3>4 DEF S!HandleCreateSecret, S!HandleUpdateSecretRead, S!HandleUpdateSecretSave,
         S!HandleDeleteSecret, S!HandleUnlockSecrets, S!disk, S!ghosts
    <3>5. CASE \/ \E p \in Pwds : S!HandleSetupPassword(p)
               \/ S!HandleSubmitMasterPassword \/ S!SubmitSave \/ S!SubmitClear \/ S!SubmitEncrypt
      BY <3>5 DEF S!HandleSetupPassword, S!HandleSubmitMasterPassword, S!SubmitSave, S!SubmitClear,
         S!SubmitEncrypt, S!disk, S!ghosts
    <3>6. CASE UNCHANGED S!vars
      BY <3>6 DEF S!vars
    <3> QED BY <1>3, <3>1, <3>2, <3>3, <3>4, <3>5, <3>6 DEF S!Next
  <2> QED BY <2>1, <2>2, <2>3, <2>4
<1>4. UsedIsStored /\ [Next]_vars => UsedIsStored'
  BY <1>2, <1>3
<1>5. UsedIsStored /\ [Next]_vars =>
        [\A s \in SysIds : used[s] # None /\ used'[s] # used[s] => S!Rotate(s)]_(S!vars)
  BY <1>2, <1>3
<1> QED BY <1>1, <1>4, <1>5, PTL DEF Spec, SystemSecretsStable, S!SystemSecretsStable
=============================================================================
