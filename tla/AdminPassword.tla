---------------------------- MODULE AdminPassword ----------------------------
(***************************************************************************)
(* The rotation of the administrator's password over the systems that hold *)
(* a copy of it: two realms of Keycloak, RabbitMQ, PgAdmin, the store and  *)
(* the memory of the daemon.  Each copy is changed by a command in a       *)
(* container, or by a write, of which any may fail; a command whose answer *)
(* is lost, or for which the time is up, may have done its work.           *)
(*                                                                         *)
(* The launcher's own account in Keycloak, citeck, lets it in; when it does*)
(* not, a recovery user is made who restores it and is deleted again.  The *)
(* login of kcadm lives in the container, one for every rotation.          *)
(*                                                                         *)
(* A rotation stands for the password that it sets.                        *)
(***************************************************************************)
CONSTANTS
  Rotations,      \* bound: the rotations ever asked for
  AdminFaults     \* hazards let loose: see the definitions below

\* Nothing keeps two rotations apart.
Concurrent == "concurrent" \in AdminFaults
\* The exit code of add-roles is ignored: citeck may log in without the role.
RoleLost == "role_lost" \in AdminFaults

VARIABLES
  kc,        \* Keycloak: both administrators, citeck, its role, recovery users
  session,   \* whose login kcadm holds
  others,    \* the applications with a container, and the password of each
  launcher,  \* the store and systemSecrets.AdminPassword
  rot,       \* where each rotation is
  failed,    \* the rotations that a command, a write or a crash has failed
  last       \* the rotation asked for last

vars == <<kc, session, others, launcher, rot, failed, last>>

Old == "old"
Apps == {"rabbitmq", "pgadmin"}
Ended == {"new", "done", "refused"}
Quiet == \A r \in Rotations : rot[r] \in Ended

\* citeck is as the launcher left it, or a snapshot brought another password or
\* none at all.
Init ==
  /\ kc \in [realm : {Old}, master : {Old}, sa : {"gone", "off", "ok"}, role : BOOLEAN, temp : {{}}]
  /\ kc.sa = "gone" => ~kc.role
  /\ kc.sa = "ok" => kc.role
  /\ session = "none"
  /\ \E running \in SUBSET Apps : others = [a \in running |-> Old]
  /\ launcher = [store |-> Old, memory |-> Old]
  /\ rot = [r \in Rotations |-> "new"] /\ failed = {} /\ last = Old

\* kcadm may administer: its login is of a user who exists and has the role.
Authorized == \/ session = "sa" /\ kc.role
              \/ session \in kc.temp

\* ExecInContainer: what can be done is done and answered with 0, or the answer
\* is lost, whether it was done or not; what cannot is answered with an error.
Exec(r, can, done, not) ==
  \/ can /\ done /\ UNCHANGED failed
  \/ can /\ not /\ UNCHANGED kc /\ failed' = failed \cup {r}
  \/ ~can /\ not /\ UNCHANGED <<kc, failed>>
ExecLost(r, can, done) == can /\ done /\ failed' = failed \cup {r}

Go(r, pc) == rot' = [rot EXCEPT ![r] = pc]
Refuse(r) == Go(r, "refused")
-----------------------------------------------------------------------------
\* handleSetAdminPassword, with Keycloak's container running.
HandleSetAdminPassword(r) ==
  /\ rot[r] = "new"
  /\ Quiet \/ Concurrent
  /\ Go(r, "login") /\ last' = r
  /\ UNCHANGED <<kc, session, others, launcher, failed>>

\* kcadmLogin replaces the login that kcadm holds, or leaves it.
KcadmLogin(r, user, can, next, otherwise) ==
  /\ Exec(r, can, Go(r, next) /\ session' = user /\ UNCHANGED kc,
          Go(r, otherwise) /\ session' \in IF can THEN {session, user} ELSE {session})
  /\ UNCHANGED <<others, launcher, last>>

\* ensureCiteckSaUsable: the login as citeck; when it fails, for whatever
\* reason, the recovery begins.
EnsureCiteckSaUsable(r) == rot[r] = "login" /\ KcadmLogin(r, "sa", kc.sa = "ok", "realm", "bootstrap")

\* bootstrapKeycloakRecovery: a failure ends the rotation, and leaves the user
\* if he was made.
BootstrapKeycloakRecovery(r) ==
  LET made == kc' = [kc EXCEPT !.temp = @ \cup {r}]
  IN /\ rot[r] = "bootstrap"
     /\ \/ Exec(r, TRUE, made /\ Go(r, "recover"), Refuse(r))
        \/ ExecLost(r, TRUE, made /\ Refuse(r))
     /\ UNCHANGED <<session, others, launcher, last>>

\* From here on every return deletes the recovery user first: "undo" before the
\* rotation is refused, "clean" before it goes on.
LoginAsRecovery(r) == rot[r] = "recover" /\ KcadmLogin(r, r, TRUE, "ensure", "undo")

\* kcadmEnsureUser: a check whose failure counts as absence, and the creation,
\* which fails when there is such a user.
KcadmEnsureUser(r) ==
  LET made == kc' = [kc EXCEPT !.sa = "off"]
      able == Authorized /\ kc.sa = "gone"
  IN /\ rot[r] = "ensure"
     /\ \/ Authorized /\ kc.sa # "gone" /\ Go(r, "role") /\ UNCHANGED <<kc, failed>>
        \/ Authorized /\ kc.sa # "gone" /\ Go(r, "undo") /\ failed' = failed \cup {r} /\ UNCHANGED kc
        \/ (kc.sa = "gone" \/ ~Authorized) /\ Exec(r, able, made /\ Go(r, "role"), Go(r, "undo"))
        \/ ExecLost(r, able, made /\ Go(r, "undo"))
     /\ UNCHANGED <<session, others, launcher, last>>

\* kcadmAddRole: whatever comes of it, the recovery goes on.
KcadmAddRole(r) ==
  /\ rot[r] = "role" /\ Go(r, "sapassword")
  /\ \/ Authorized /\ kc' = [kc EXCEPT !.role = TRUE] /\ UNCHANGED failed
     \/ (RoleLost \/ kc.role) /\ UNCHANGED kc /\ failed' = failed \cup {r}
     \/ ~Authorized /\ UNCHANGED <<kc, failed>>
  /\ UNCHANGED <<session, others, launcher, last>>

\* kcadmSetUserPassword, to the password that the launcher keeps for citeck.
KcadmSetUserPassword(r) ==
  LET set == kc' = [kc EXCEPT !.sa = "ok"]
  IN /\ rot[r] = "sapassword"
     /\ \/ Exec(r, Authorized, set /\ Go(r, "relogin"), Go(r, "undo"))
        \/ ExecLost(r, Authorized, set /\ Go(r, "undo"))
     /\ UNCHANGED <<session, others, launcher, last>>

Relogin(r) == rot[r] = "relogin" /\ KcadmLogin(r, "sa", kc.sa = "ok", "clean", "undo")

\* kcadmDeleteUser, deferred: a login that is not authorized finds no user to
\* delete, which is no error; nor does an error change what is returned.
KcadmDeleteUser(r) ==
  /\ rot[r] \in {"undo", "clean"}
  /\ LET next == Go(r, IF rot[r] = "clean" THEN "realm" ELSE "refused")
     IN Exec(r, Authorized, kc' = [kc EXCEPT !.temp = @ \ {r}] /\ next, next)
  /\ UNCHANGED <<session, others, launcher, last>>
-----------------------------------------------------------------------------
\* kcadmSetPassword of "admin", in ecos-app and then in master: either failure
\* is the answer, and what was changed stays.
SetRealm(r) ==
  LET set == kc' = [kc EXCEPT !.realm = r]
  IN /\ rot[r] = "realm"
     /\ \/ Exec(r, Authorized, set /\ Go(r, "master"), Refuse(r))
        \/ ExecLost(r, Authorized, set /\ Refuse(r))
     /\ UNCHANGED <<session, others, launcher, last>>

\* Mutation of SetMaster: a failure is logged, as that of the others.
SetMasterWarns(r) ==
  LET set == kc' = [kc EXCEPT !.master = r]
  IN /\ rot[r] = "master" /\ Go(r, "rabbitmq")
     /\ Exec(r, Authorized, set, TRUE)
     /\ UNCHANGED <<session, others, launcher, last>>
SetMaster(r) ==
  LET set == kc' = [kc EXCEPT !.master = r]
  IN /\ rot[r] = "master"
     /\ \/ Exec(r, Authorized, set /\ Go(r, "rabbitmq"), Refuse(r))
        \/ ExecLost(r, Authorized, set /\ Refuse(r))
     /\ UNCHANGED <<session, others, launcher, last>>

\* rabbitmqctl and setup.py, in containers that run: a failure is logged.
ChangeOther(r, a, next) ==
  /\ rot[r] = a /\ Go(r, next)
  /\ \/ a \notin DOMAIN others /\ UNCHANGED <<others, failed>>
     \/ a \in DOMAIN others /\ others' = [others EXCEPT ![a] = r] /\ failed' \in {failed, failed \cup {r}}
     \/ a \in DOMAIN others /\ UNCHANGED others /\ failed' = failed \cup {r}
  /\ UNCHANGED <<kc, session, launcher, last>>

\* systemsecrets.Set: a failure is logged, and the memory has it all the same.
Persist(r) ==
  /\ rot[r] = "store" /\ Go(r, "memory")
  /\ \/ launcher' = [launcher EXCEPT !.store = r] /\ UNCHANGED failed
     \/ UNCHANGED launcher /\ failed' = failed \cup {r}
  /\ UNCHANGED <<kc, session, others, last>>
Remember(r) ==
  /\ rot[r] = "memory" /\ Go(r, "done")
  /\ launcher' = [launcher EXCEPT !.memory = r]
  /\ UNCHANGED <<kc, session, others, failed, last>>

\* The daemon dies: what its rotations did stays, and no deferred call is made.
Crash ==
  /\ ~Quiet
  /\ rot' = [r \in Rotations |-> IF rot[r] \in Ended THEN rot[r] ELSE "refused"]
  /\ failed' = failed \cup {r \in Rotations : rot[r] \notin Ended}
  /\ launcher' = [launcher EXCEPT !.memory = launcher.store]
  /\ UNCHANGED <<kc, session, others, last>>

Next ==
  \/ \E r \in Rotations :
       \/ HandleSetAdminPassword(r) \/ EnsureCiteckSaUsable(r) \/ BootstrapKeycloakRecovery(r)
       \/ LoginAsRecovery(r) \/ KcadmEnsureUser(r) \/ KcadmAddRole(r) \/ KcadmSetUserPassword(r)
       \/ Relogin(r) \/ KcadmDeleteUser(r) \/ SetRealm(r) \/ SetMaster(r)
       \/ ChangeOther(r, "rabbitmq", "pgadmin") \/ ChangeOther(r, "pgadmin", "store")
       \/ Persist(r) \/ Remember(r)
  \/ Crash

Spec == Init /\ [][Next]_vars
-----------------------------------------------------------------------------
\* Whatever earlier rotations left half done, and whatever became of citeck, one
\* of which no command fails succeeds ...
CleanSucceeds(r) == rot[r] = "refused" => r \in failed

\* ... and leaves one password everywhere.  What the launcher then remembers is
\* in both realms even if RabbitMQ, PgAdmin or the store failed.
OnePassword(r) ==
  rot[r] = "done" /\ last = r =>
    /\ kc.realm = r /\ kc.master = r
    /\ r \notin failed => launcher.store = r /\ launcher.memory = r /\ \A a \in DOMAIN others : others[a] = r

\* The recovery user of a rotation is gone when it ends, unless one of its
\* commands failed.
RecoveryIsOver(r) == rot[r] \in Ended /\ r \in kc.temp => r \in failed

RotationIsWhole == \A r \in Rotations : CleanSucceeds(r) /\ OnePassword(r) /\ RecoveryIsOver(r)
=============================================================================
