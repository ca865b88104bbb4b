----------------------------- MODULE Migration -----------------------------
(***************************************************************************)
(* launcher.db as a start of the desktop daemon finds it and makes it: the *)
(* schema of an older launcher is brought up to date version by version,   *)
(* and where there is no launcher.db what the Kotlin launcher kept in      *)
(* storage.db is imported into a new one.                                  *)
(*                                                                         *)
(* An item of storage.db is a workspace, a namespace, the vault or the     *)
(* selection.  Reading gives all of them, or some, or fails altogether, in *)
(* which case the directories of workspaces and namespaces are walked.     *)
(***************************************************************************)
EXTENDS Naturals, Sequences, FiniteSets

CONSTANTS
  Wss, Nss,         \* workspaces, and pairs <<workspace, namespace>>
  None,
  MaxStarts,        \* bound: starts of the daemon
  MigrationFaults   \* subset of {"crash", "save", "entry", "orphan"}: what else may
                    \* go wrong; the last is a runtime state without a namespace

VARIABLES
  kotlin,  \* storage.db: items, states, what a read loses, whether a namespace is invalid
  backup,  \* storage.db.kotlin-bak: "none", "tmp" (beside it) or "whole"
  db,      \* launcher.db, None where there is none
  step,    \* of the start, or "down", "up", "refused"
  todo,    \* rows the current step has still to write
  meant,   \* ghost: what an older launcher.db said
  starts

vars == <<kotlin, backup, db, step, todo, meant, starts>>

Workspaces == {<<w>> : w \in Wss}
Vault == <<"vault">>
Selection == <<"selection">>
Items == Workspaces \cup Nss \cup {Vault, Selection}
Latest == 9

\* A secret as a row has it: of a type, with a value of one or two parts
\* joined by a colon, a user, a host, the scope it was saved under.
Secret(type, value, user, host, scope) ==
  [type |-> type, value |-> value, user |-> user, host |-> host, scope |-> scope]
OldSecrets ==
  {Secret("REGISTRY_AUTH", <<"user", "pass">>, None, None, "images-repo:host"),
   Secret("BASIC_AUTH", <<"user", "pass", "more">>, None, None, "global"),
   Secret("GIT_TOKEN", <<"to", "ken">>, None, None, "global")}

\* The rows: the workspaces and the namespaces that have a configuration,
\* those that have a state, the vault and the selection; and whether
\* a record says that the migration lost something.
NewDb == [version |-> 0, items |-> {}, states |-> {}, degraded |-> FALSE,
          secret |-> None, workspaceId |-> None, namespaceId |-> None, selectedNs |-> None]

\* What the columns of a version say: the credentials, the host and the
\* selected namespace with its workspace.
IsLogin(s) == s.type \in {"BASIC_AUTH", "REGISTRY_AUTH"}
Meaning(d) ==
  LET s == d.secret
      joined == d.version < 3 /\ IsLogin(s) /\ Len(s.value) > 1
  IN [user |-> IF joined THEN s.value[1] ELSE s.user,
      value |-> IF joined THEN Tail(s.value) ELSE s.value,
      host |-> IF d.version < 8 /\ s.type = "REGISTRY_AUTH" THEN s.scope ELSE s.host,
      selected |-> IF d.version >= 4 THEN d.selectedNs
                   ELSE IF None \in {d.workspaceId, d.namespaceId} THEN None
                   ELSE <<d.workspaceId, d.namespaceId>>]

\* The databases of older launchers: none of those versions knows the columns
\* of the next ones.
OldDb(v, s, w, n) ==
  [NewDb EXCEPT !.version = v, !.secret = s, !.workspaceId = w, !.namespaceId = n]
OldDbs ==
  {OldDb(v, s, w, n) :
     v \in {1, 2}, s \in OldSecrets, w \in {None} \cup Wss, n \in {None, "ns"}}

Init ==
  /\ \/ db = None /\ meant = None
     \/ db \in OldDbs /\ meant = Meaning(db)
  /\ \E lost \in SUBSET Items, invalid \in BOOLEAN, read \in {"ok", "broken"} :
       \E without \in IF "orphan" \in MigrationFaults THEN SUBSET Nss ELSE {{}} :
         /\ db # None => lost = {} /\ ~invalid /\ read = "ok"
         /\ kotlin = [items |-> Items \ without, states |-> Nss, lost |-> lost,
                      read |-> read, invalid |-> invalid]
  /\ backup = "none" /\ step = "down" /\ todo = {} /\ starts = 0

Go(next, rows) == step' = next /\ todo' = rows
Readable == kotlin.items \ kotlin.lost

\* migrateH2IfNeeded: NeedsMigration asks for a storage.db and no launcher.db,
\* and NewSQLiteStore creates one.
Start ==
  /\ step \in {"down", "refused"} /\ starts < MaxStarts /\ starts' = starts + 1
  /\ IF db = None THEN db' = [NewDb EXCEPT !.version = Latest] /\ Go("backup", {})
                  ELSE Go("schema", {}) /\ UNCHANGED db
  /\ UNCHANGED <<kotlin, backup, meant>>

-----------------------------------------------------------------------------
\* The statements of a version.
SplitLogin(s) == IF IsLogin(s) /\ s.user = None /\ Len(s.value) > 1
                 THEN [s EXCEPT !.user = s.value[1], !.value = Tail(@)] ELSE s
TagHost(s) == IF s.host = None /\ s.type = "REGISTRY_AUTH" THEN [s EXCEPT !.host = s.scope] ELSE s
Stmts(d, v) ==
  CASE v = 3 -> [d EXCEPT !.secret = SplitLogin(@)]
    [] v = 4 -> [d EXCEPT !.namespaceId = None,
                   !.selectedNs = IF @ # None \/ None \in {d.workspaceId, d.namespaceId} THEN @
                                  ELSE <<d.workspaceId, d.namespaceId>>]
    [] v = 8 -> [d EXCEPT !.secret = TagHost(@)]
    [] OTHER -> d

\* applyMigration: the statements and the version in one transaction.
ApplyMigration ==
  /\ step = "schema" /\ db.version < Latest
  /\ db' = [Stmts(db, db.version + 1) EXCEPT !.version = db.version + 1]
  /\ UNCHANGED <<kotlin, backup, step, todo, meant, starts>>
SchemaDone ==
  /\ step = "schema" /\ db.version = Latest /\ Go("up", {})
  /\ UNCHANGED <<kotlin, backup, db, meant, starts>>

-----------------------------------------------------------------------------
\* backupKotlinStorage: beside it first, and never over one that is there;
\* when it fails the migration goes on.
BackupKotlinStorage ==
  /\ step = "backup"
  /\ \/ backup # "whole" /\ backup' = "tmp" /\ UNCHANGED <<step, todo>>
     \/ backup = "tmp" /\ backup' = "whole" /\ UNCHANGED <<step, todo>>
     \/ Go("open", {}) /\ UNCHANGED backup
  /\ UNCHANGED <<kotlin, db, meant, starts>>

\* OpenMVStore and DumpForImport, or the directories.
OpenMVStore ==
  /\ step = "open"
  /\ IF kotlin.read = "broken" THEN Go("dirs", Workspaces \cup Nss)
                               ELSE Go("workspaces", Readable \cap Workspaces)
  /\ UNCHANGED <<kotlin, backup, db, meant, starts>>

\* A row is saved; without "save" and "entry" among the faults no entry that
\* was read fails to be parsed, and no save of a workspace fails.
SaveRow(i) ==
  /\ i \in todo /\ todo' = todo \ {i}
  /\ \/ db' = [db EXCEPT !.items = @ \cup {i}]
     \/ db' = db /\ "save" \in MigrationFaults /\ i \in Workspaces
     \/ db' = db /\ "entry" \in MigrationFaults
  /\ UNCHANGED <<kotlin, backup, step, meant, starts>>

\* A save of a namespace or of its state that fails ends the migration.
SaveFails == todo # {} /\ Go("abort", {}) /\ UNCHANGED <<kotlin, backup, db, meant, starts>>

\* importWorkspaces; importNamespaces parses and validates all before it saves
\* one, and an invalid one ends the migration.
ImportWorkspaces ==
  /\ step = "workspaces"
  /\ \/ \E w \in Workspaces : SaveRow(w)
     \/ /\ todo = {}
        /\ IF kotlin.invalid /\ Readable \cap Nss # {} THEN Go("abort", {})
                                                     ELSE Go("namespaces", Readable \cap Nss)
        /\ UNCHANGED <<kotlin, backup, db, meant, starts>>
ImportNamespaces ==
  /\ step = "namespaces"
  /\ \/ \E n \in Nss : SaveRow(n)
     \/ SaveFails
     \/ todo = {} /\ Go("secrets", {}) /\ UNCHANGED <<kotlin, backup, db, meant, starts>>

\* importSecrets: the vault as it is, still encrypted.
ImportSecrets ==
  /\ step = "secrets" /\ Go("states", kotlin.states)
  /\ db' = [db EXCEPT !.items = @ \cup (Readable \cap {Vault})]
  /\ UNCHANGED <<kotlin, backup, meant, starts>>

\* importRuntimeState: the row is made if the namespace has none.
ImportRuntimeState ==
  /\ step = "states"
  /\ \/ \E n \in todo : db' = [db EXCEPT !.states = @ \cup {n}] /\ Go("states", todo \ {n})
     \/ SaveFails
     \/ todo = {} /\ Go("selection", {}) /\ UNCHANGED db
  /\ UNCHANGED <<kotlin, backup, meant, starts>>

\* importState, then recordPartialRead: what was lost is said to the user.
ImportState ==
  /\ step = "selection" /\ Go("record", {})
  /\ db' = [db EXCEPT !.items = @ \cup (Readable \cap {Selection})]
  /\ UNCHANGED <<kotlin, backup, meant, starts>>
RecordPartialRead == kotlin.lost # {}
Record ==
  /\ step = "record" /\ Go("up", {})
  /\ db' = [db EXCEPT !.degraded = @ \/ RecordPartialRead]
  /\ UNCHANGED <<kotlin, backup, meant, starts>>

\* migrateWorkspacesFromFilesystem and migrateStubNamespaces: the namespaces
\* of a workspace that is saved, all of them; then recordDegradation.
MigrateFromFilesystem ==
  /\ step = "dirs"
  /\ \/ \E w \in Workspaces : SaveRow(w)
     \/ \E n \in Nss : <<n[1]>> \in db.items /\ (SaveRow(n) \/ (n \in todo /\ SaveFails))
     \/ /\ \A i \in todo : i \in Nss /\ <<i[1]>> \notin db.items
        /\ Go("up", {}) /\ db' = [db EXCEPT !.degraded = TRUE]
        /\ UNCHANGED <<kotlin, backup, meant, starts>>

\* Mutation of Abort: what was imported stays.
KeepPartial ==
  /\ step = "abort" /\ Go("refused", {})
  /\ UNCHANGED <<kotlin, backup, db, meant, starts>>

\* The migration failed: the database is removed, and the start refused.
Abort ==
  /\ step = "abort" /\ Go("refused", {})
  /\ db' = None
  /\ UNCHANGED <<kotlin, backup, meant, starts>>

\* A later launcher accepts the namespace.
Upgrade ==
  /\ step = "refused" /\ kotlin.invalid /\ kotlin' = [kotlin EXCEPT !.invalid = FALSE]
  /\ UNCHANGED <<backup, db, step, todo, meant, starts>>

\* The launcher ends, in the middle of an import only where that is a fault.
Down ==
  /\ step \in {"up", "schema"} \/ ("crash" \in MigrationFaults /\ step \notin {"down", "refused"})
  /\ Go("down", {})
  /\ UNCHANGED <<kotlin, backup, db, meant, starts>>

Next ==
  \/ Start \/ ApplyMigration \/ SchemaDone \/ BackupKotlinStorage \/ OpenMVStore
  \/ ImportWorkspaces \/ ImportNamespaces \/ ImportSecrets \/ ImportRuntimeState \/ ImportState
  \/ Record \/ MigrateFromFilesystem \/ Abort \/ Upgrade \/ Down

Spec == Init /\ [][Next]_vars
-----------------------------------------------------------------------------
\* A launcher that is up on an imported database has everything that the Kotlin
\* launcher kept, or says that it does not: a migration that fails on the way
\* leaves nothing a later start would take for a whole one.
NothingLostSilently ==
  step = "up" /\ meant = None => db.degraded \/ kotlin.items \subseteq db.items

\* Every namespace that is listed, by its row, has a configuration, unless the
\* user was warned.
NoGhosts == step = "up" /\ meant = None => db.degraded \/ db.states \subseteq db.items

\* Whatever version a database comes from and wherever the upgrades of the schema
\* are interrupted, it says what it said.
SchemaKeepsMeaning == meant # None => Meaning(db) = meant

MigrationIsSafe == NothingLostSilently /\ NoGhosts /\ SchemaKeepsMeaning
=============================================================================
