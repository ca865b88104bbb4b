------------------------------ MODULE Secrets ------------------------------
(***************************************************************************)
(* The vault of user secrets (storage.SecretService), the homes of the     *)
(* system secrets (package systemsecrets) and the handlers of the daemon   *)
(* that use them, over a store whose writes survive a crash one by one.    *)
(*                                                                         *)
(* A stored value is [v, keys]: the value and the keys it was encrypted    *)
(* under, the outermost last; <<>> is plaintext.  A key is the pair of the *)
(* random salt and the password it was derived from.                       *)
(***************************************************************************)
EXTENDS Naturals, Sequences, FiniteSets

CONSTANTS
  UserIds,     \* ids of user secrets
  SysIds,      \* ids of system secrets
  Vals,        \* values of user secrets
  Pwds,        \* master passwords, "citeck" (the default one) among them
  None,        \* the empty string, nil, no such row
  MaxSalts,    \* bound: master passwords ever set
  MaxCrashes,  \* bound: crashes of the launcher
  MaxSysVal,   \* bound: values of system secrets ever made
  Faults       \* the hazards let loose: see the three definitions below

\* A crash of SetMasterPassword while the table of secrets has rows.
CrashInSetup == "crash_in_setup" \in Faults
\* A Kotlin blob is imported into a vault that is, or becomes, encrypted.
ImportEncrypted == "import_encrypted" \in Faults
\* A secret changes between a read and the write that follows it, in
\* handleUpdateSecret or in SetMasterPassword.
EditRaces == "edit_races" \in Faults

VARIABLES
  mode,    \* "server" | "desktop"
  row,     \* the table of secrets: id -> None or [v, keys]
  meta,    \* launcher_state: enc, params (the salt), verify (a key), dflt
  blob,    \* the secret_blob of Kotlin: user id -> None or its value
  sys,     \* launcher_state _sys<id>
  file,    \* conf/<id>-secret
  phase,   \* "down" | "unlock" | "resolve" | "up"
  mem,     \* SecretService: enc, key
  left,    \* system secrets that resolveSystemSecrets has still to resolve
  clean,   \* the system secret whose older homes are still to be removed
  op,      \* the holder of SecretService.mu across several writes
  imp,     \* handleSubmitMasterPassword: pc, the secrets left to save
  edit,    \* handleUpdateSecret: the record it read
  want,    \* ghost: the value of a user secret as last acknowledged
  used,    \* ghost: the value of a system secret the daemon last ran with
  salts, crashes, made

disk == <<mode, row, meta, blob, sys, file>>
ghosts == <<want, used>>
counts == <<salts, crashes, made>>
vars == <<mode, row, meta, blob, sys, file, phase, mem, left, clean, op, imp,
          edit, want, used, salts, crashes, made>>

SecretIds == UserIds \cup SysIds
NoOp == [kind |-> "none", pc |-> "none", todo |-> {}, cur |-> None,
         key |-> None, dflt |-> FALSE]
NoImp == [pc |-> "none", todo |-> {}]
Idle == op = NoOp
Rows == {i \in SecretIds : row[i] # None}

\* encryptValue and decryptValue: GCM opens only what this key has sealed.
Seal(x, k) == [x EXCEPT !.keys = Append(@, k)]
Opens(x, k) == x.keys # <<>> /\ x.keys[Len(x.keys)] = k
Unsealed(x) == [x EXCEPT !.keys = SubSeq(@, 1, Len(@) - 1)]

\* SecretService.GetSecret: None for every error.
GetSecret(i) ==
  CASE row[i] = None -> None
    [] ~mem.enc -> row[i]
    [] mem.enc /\ mem.key = None -> None
    [] OTHER -> IF Opens(row[i], mem.key) THEN Unsealed(row[i]) ELSE None

Locked == mem.enc /\ mem.key = None

\* SecretService.Unlock derives a key from the stored salt and compares it
\* with the verify token.
Derived(p) == <<meta.params, p>>
Unlocks(p) == mem.enc /\ meta.params # None /\ meta.verify # None
              /\ Derived(p) = meta.verify

Init ==
  /\ mode \in {"server", "desktop"}
  /\ \E p \in Pwds \cup {None} :
       meta = IF p = None
              THEN [enc |-> FALSE, params |-> None, verify |-> None, dflt |-> FALSE]
              ELSE [enc |-> TRUE, params |-> 1, verify |-> <<1, p>>,
                    dflt |-> p = "citeck"]
  /\ \E old \in SUBSET SysIds :
       /\ row = [i \in SecretIds |-> IF i \notin old THEN None
                  ELSE [v |-> 1, keys |-> IF meta.enc THEN <<meta.verify>> ELSE <<>>]]
       /\ old # {} /\ mode = "desktop" => meta.dflt \/ ~meta.enc
  /\ blob \in {[i \in UserIds |-> None]}
              \cup {b \in [UserIds -> Vals \cup {None}] : ~meta.enc \/ ImportEncrypted}
  /\ sys = [s \in SysIds |-> None]
  /\ \E old \in SUBSET SysIds : file = [s \in SysIds |-> IF s \in old THEN 2 ELSE None]
  /\ phase = "down" /\ mem = [enc |-> FALSE, key |-> None]
  /\ left = {} /\ clean = None /\ op = NoOp /\ imp = NoImp /\ edit = None
  /\ want = [i \in UserIds |-> None] /\ used = [s \in SysIds |-> None]
  /\ salts = 1 /\ crashes = 0 /\ made = 2
-----------------------------------------------------------------------------
(* SetMasterPassword: encrypt row by row, then write the keystore.         *)

\* Takes the lock; `kind` is the caller.
BeginSetup(kind, p, dflt) ==
  /\ ~mem.enc /\ salts < MaxSalts /\ (EditRaces \/ clean = None)
  /\ salts' = salts + 1
  /\ op' = [kind |-> kind, pc |-> "rows", todo |-> Rows, cur |-> None,
            key |-> <<salts + 1, p>>, dflt |-> dflt]

\* Store.GetSecret, the raw row; a row deleted meanwhile fails the call.
SetupRead ==
  /\ op.pc = "rows" /\ op.cur = None
  /\ \E i \in op.todo :
       /\ op' = IF row[i] = None THEN [op EXCEPT !.pc = "failed"]
                ELSE [op EXCEPT !.cur = [id |-> i, x |-> row[i]], !.todo = @ \ {i}]
  /\ UNCHANGED <<disk, phase, mem, left, clean, imp, edit, ghosts, counts>>

SetupSave ==
  /\ op.pc = "rows" /\ op.cur # None
  /\ row' = [row EXCEPT ![op.cur.id] = Seal(op.cur.x, op.key)]
  /\ op' = [op EXCEPT !.cur = None]
  /\ UNCHANGED <<mode, meta, blob, sys, file, phase, mem, left, clean, imp,
                 edit, ghosts, counts>>

\* The four keys of launcher_state in their order, secrets_encrypted last.
EncryptedFirst == <<"enc", "params", "verify", "dflt">>
SetupOrder == <<"params", "verify", "dflt", "enc">>
KeystoreOf(o) ==
  [params |-> o.key[1], verify |-> o.key, dflt |-> o.dflt, enc |-> TRUE]
SetupMeta ==
  \E n \in 1 .. 4 :
    /\ IF n = 1 THEN op.pc = "rows" /\ op.todo = {} /\ op.cur = None ELSE op.pc = SetupOrder[n]
    /\ meta' = [meta EXCEPT ![SetupOrder[n]] = KeystoreOf(op)[SetupOrder[n]]]
    /\ op' = [op EXCEPT !.pc = IF n = 4 THEN "done" ELSE SetupOrder[n + 1]]
    /\ UNCHANGED <<mode, row, blob, sys, file, phase, mem, left, clean, imp, edit, ghosts, counts>>

\* Sets the fields of the service and gives the lock back.
SetupEnd ==
  /\ op.pc \in {"done", "failed"}
  /\ mem' = IF op.pc = "done" THEN [enc |-> TRUE, key |-> op.key] ELSE mem
  /\ op' = NoOp
  /\ phase' = CASE op.kind = "boot" -> "resolve" [] op.kind = "cli" -> "down"
                [] OTHER -> phase
  /\ left' = IF op.kind = "boot" THEN SysIds ELSE left
  /\ imp' = IF op.kind = "import" THEN NoImp ELSE imp
  /\ UNCHANGED <<disk, clean, edit, ghosts, counts>>
-----------------------------------------------------------------------------
(* ResetSecrets, from handleResetSecrets or the prompt of citeck start.    *)

ResetBegin(kind) ==
  /\ Idle /\ op' = [NoOp EXCEPT !.kind = kind, !.pc = "wipe", !.todo = Rows]
  /\ want' = [i \in UserIds |-> None]
  /\ UNCHANGED <<disk, mem, left, clean, imp, edit, used, counts>>

ApiReset == phase = "up" /\ imp = NoImp /\ ResetBegin("reset") /\ UNCHANGED phase
CliReset == phase = "down" /\ mode = "server" /\ meta.enc /\ ~meta.dflt
            /\ salts < MaxSalts /\ ResetBegin("clireset") /\ UNCHANGED phase

ResetRow ==
  /\ op.pc = "wipe"
  /\ \E i \in op.todo :
       row' = [row EXCEPT ![i] = None] /\ op' = [op EXCEPT !.todo = @ \ {i}]
  /\ UNCHANGED <<mode, meta, blob, sys, file, phase, mem, left, clean, imp,
                 edit, ghosts, counts>>

\* secrets_encrypted first, then what it made necessary.
ResetOrder == <<"enc", "params", "verify", "dflt">>
NoKeystore == [params |-> None, verify |-> None, dflt |-> FALSE, enc |-> FALSE]
ResetMeta ==
  \E n \in 1 .. 4 :
    /\ IF n = 1 THEN op.pc = "wipe" /\ op.todo = {} ELSE op.pc = "reset" /\ op.todo = {n}
    /\ meta' = [meta EXCEPT ![ResetOrder[n]] = NoKeystore[ResetOrder[n]]]
    /\ op' = [op EXCEPT !.pc = IF n = 4 THEN "wend" ELSE "reset",
                         !.todo = IF n = 4 THEN {} ELSE {n + 1}]
    /\ UNCHANGED <<mode, row, blob, sys, file, phase, mem, left, clean, imp, edit, ghosts, counts>>

\* The handler also drops the blob; the prompt goes on to a new password.
ResetEnd ==
  /\ op.pc = "wend"
  /\ mem' = [enc |-> FALSE, key |-> None]
  /\ \/ op.kind = "reset" /\ op' = NoOp /\ UNCHANGED salts
        /\ blob' = [i \in UserIds |-> None]
     \/ op.kind = "clireset" /\ UNCHANGED blob
        /\ \E p \in Pwds :
             /\ salts' = salts + 1
             /\ op' = [kind |-> "cli", pc |-> "rows", todo |-> Rows, cur |-> None,
                       key |-> <<salts + 1, p>>, dflt |-> p = "citeck"]
  /\ UNCHANGED <<mode, row, meta, sys, file, phase, left, clean, imp, edit,
                 ghosts, crashes, made>>
-----------------------------------------------------------------------------
(* The start of the daemon: initSecretService, then resolveSystemSecrets.  *)

Boot ==
  /\ phase = "down" /\ Idle
  /\ phase' = "unlock"
  /\ mem' = [enc |-> meta.enc, key |-> None]
  /\ UNCHANGED <<disk, left, clean, op, imp, edit, ghosts, counts>>

\* A server with a password of its own gets it from the command line.
BootUnlock ==
  /\ phase = "unlock" /\ Idle /\ mem.enc
  /\ \E p \in Pwds :
       /\ meta.dflt => p = "citeck"
       /\ \/ /\ Unlocks(p) /\ (mode = "server" \/ meta.dflt)
             /\ mem' = [mem EXCEPT !.key = Derived(p)]
             /\ phase' = "resolve" /\ left' = SysIds
          \/ /\ mode = "desktop" \/ meta.dflt
             /\ ~meta.dflt \/ ~Unlocks(p)
             /\ phase' = "resolve" /\ left' = SysIds /\ UNCHANGED mem
          \/ /\ mode = "server" /\ ~meta.dflt /\ ~Unlocks(p)
             /\ phase' = "down" /\ UNCHANGED <<mem, left>>
  /\ UNCHANGED <<disk, clean, op, imp, edit, ghosts, counts>>

\* The first start: a server sets the default password, a desktop waits.
BootFirst ==
  /\ phase = "unlock" /\ Idle /\ ~mem.enc
  /\ \/ /\ mode = "server" /\ BeginSetup("boot", "citeck", TRUE)
        /\ UNCHANGED <<phase, left>>
     \/ /\ mode = "desktop"
        /\ phase' = "resolve" /\ left' = SysIds /\ UNCHANGED <<op, salts>>
  /\ UNCHANGED <<disk, mem, clean, imp, edit, ghosts, crashes, made>>

\* systemsecrets.Get up to its SetStateValue: the homes by priority.
Resolve ==
  /\ phase = "resolve" /\ clean = None
  /\ \E s \in left :
       /\ left' = left \ {s}
       /\ \/ /\ sys[s] # None
             /\ UNCHANGED <<sys, clean, made>>
             /\ used' = [used EXCEPT ![s] = sys[s]]
          \/ /\ sys[s] = None /\ GetSecret(s) # None
             /\ sys' = [sys EXCEPT ![s] = IF GetSecret(s).keys = <<>>
                                          THEN GetSecret(s).v ELSE 0]
             /\ clean' = [id |-> s, home |-> "row"] /\ UNCHANGED made
             /\ used' = [used EXCEPT ![s] = sys'[s]]
          \/ /\ sys[s] = None /\ GetSecret(s) = None /\ file[s] # None
             /\ sys' = [sys EXCEPT ![s] = file[s]]
             /\ clean' = [id |-> s, home |-> "file"] /\ UNCHANGED made
             /\ used' = [used EXCEPT ![s] = sys'[s]]
          \/ /\ sys[s] = None /\ GetSecret(s) = None /\ file[s] = None
             /\ made < MaxSysVal /\ made' = made + 1
             /\ sys' = [sys EXCEPT ![s] = made']
             /\ used' = [used EXCEPT ![s] = made'] /\ UNCHANGED clean
  /\ UNCHANGED <<mode, row, meta, blob, file, phase, mem, op, imp, edit, want,
                 salts, crashes>>

\* The home that a resolved or rotated value came from is emptied.
Clean ==
  /\ clean # None
  /\ row' = IF clean.home = "row" THEN [row EXCEPT ![clean.id] = None] ELSE row
  /\ file' = IF clean.home = "file" THEN [file EXCEPT ![clean.id] = None] ELSE file
  /\ clean' = None
  /\ UNCHANGED <<mode, meta, blob, sys, phase, mem, left, op, imp, edit, ghosts,
                 counts>>

Up ==
  /\ phase = "resolve" /\ left = {} /\ clean = None
  /\ phase' = "up"
  /\ UNCHANGED <<disk, mem, left, clean, op, imp, edit, ghosts, counts>>

\* A rotation that the daemon keeps to itself.
RotateInMemory(s) ==
  /\ phase = "up" /\ clean = None /\ Idle /\ made < MaxSysVal
  /\ made' = made + 1
  /\ used' = [used EXCEPT ![s] = made']
  /\ UNCHANGED <<disk, phase, mem, left, clean, op, imp, edit, want, salts, crashes>>

\* systemsecrets.Set, from the rotation of the administrator's password.
Rotate(s) ==
  /\ phase = "up" /\ clean = None /\ Idle /\ made < MaxSysVal
  /\ made' = made + 1
  /\ sys' = [sys EXCEPT ![s] = made']
  /\ used' = [used EXCEPT ![s] = made']
  /\ clean' = IF GetSecret(s) # None THEN [id |-> s, home |-> "row"] ELSE None
  /\ UNCHANGED <<mode, row, meta, blob, file, phase, mem, left, op, imp, edit,
                 want, salts, crashes>>
-----------------------------------------------------------------------------
(* The handlers of /api/v1/secrets.                                        *)

\* SecretService.SaveSecret refuses a locked vault and one without a password.
CanSave == Idle /\ mem.enc /\ mem.key # None

HandleCreateSecret(i, v) ==
  /\ phase = "up" /\ CanSave /\ (EditRaces \/ edit = None)
  /\ row' = [row EXCEPT ![i] = Seal([v |-> v, keys |-> <<>>], mem.key)]
  /\ want' = [want EXCEPT ![i] = v]
  /\ UNCHANGED <<mode, meta, blob, sys, file, phase, mem, left, clean, op, imp,
                 edit, used, counts>>

\* The read of a partial edit; v = None keeps the stored value.
HandleUpdateSecretRead(i, v) ==
  /\ phase = "up" /\ Idle /\ edit = None /\ GetSecret(i) # None
  /\ edit' = [id |-> i, x |-> IF v = None THEN GetSecret(i)
                              ELSE [v |-> v, keys |-> <<>>]]
  /\ UNCHANGED <<disk, phase, mem, left, clean, op, imp, ghosts, counts>>

HandleUpdateSecretSave ==
  /\ edit # None /\ Idle
  /\ edit' = None
  /\ IF CanSave
     THEN /\ row' = [row EXCEPT ![edit.id] = Seal(edit.x, mem.key)]
          /\ want' = [want EXCEPT ![edit.id] = edit.x.v]
     ELSE UNCHANGED <<row, want>>
  /\ UNCHANGED <<mode, meta, blob, sys, file, phase, mem, left, clean, op, imp,
                 used, counts>>

\* Store.DeleteSecret: neither the lock of the service nor its state is asked.
HandleDeleteSecret(i) ==
  /\ phase = "up" /\ row[i] # None /\ (EditRaces \/ (edit = None /\ Idle))
  /\ row' = [row EXCEPT ![i] = None]
  /\ want' = [want EXCEPT ![i] = None]
  /\ UNCHANGED <<mode, meta, blob, sys, file, phase, mem, left, clean, op, imp,
                 edit, used, counts>>

HandleUnlockSecrets(p) ==
  /\ phase = "up" /\ Idle /\ Locked /\ Unlocks(p)
  /\ mem' = [mem EXCEPT !.key = Derived(p)]
  /\ UNCHANGED <<disk, phase, left, clean, op, imp, edit, ghosts, counts>>

HandleSetupPassword(p) ==
  /\ phase = "up" /\ Idle /\ (ImportEncrypted \/ imp = NoImp)
  /\ mode = "server" => p = "citeck"
  /\ BeginSetup("setup", p, mode = "server")
  /\ UNCHANGED <<disk, phase, mem, left, clean, imp, edit, ghosts, crashes, made>>

\* The blob opens with its own password, so that no other is modelled.
HandleSubmitMasterPassword ==
  /\ phase = "up" /\ imp = NoImp /\ (EditRaces \/ edit = None)
  /\ ImportEncrypted \/ (~mem.enc /\ Idle)
  /\ \E i \in UserIds : blob[i] # None
  /\ imp' = [pc |-> "rows",
             todo |-> {[id |-> i, v |-> blob[i]] : i \in {j \in UserIds : blob[j] # None}}]
  /\ UNCHANGED <<disk, phase, mem, left, clean, op, edit, ghosts, counts>>

\* ImportDecryptedSecrets saves through the store, in plaintext.
SubmitSave ==
  /\ imp.pc = "rows"
  /\ \E s \in imp.todo :
       /\ row' = [row EXCEPT ![s.id] = [v |-> s.v, keys |-> <<>>]]
       /\ want' = [want EXCEPT ![s.id] = s.v]
       /\ imp' = [imp EXCEPT !.todo = @ \ {s}]
  /\ UNCHANGED <<mode, meta, blob, sys, file, phase, mem, left, clean, op,
                 edit, used, counts>>

SubmitClear ==
  /\ imp.pc = "rows" /\ imp.todo = {}
  /\ blob' = [i \in UserIds |-> None]
  /\ imp' = [imp EXCEPT !.pc = "encrypt"]
  /\ UNCHANGED <<mode, row, meta, sys, file, phase, mem, left, clean, op, edit,
                 ghosts, counts>>

\* Encrypts what it imported unless the vault is encrypted already.
SubmitEncrypt ==
  /\ imp.pc = "encrypt" /\ Idle
  /\ \/ /\ mem.enc /\ imp' = NoImp /\ UNCHANGED <<op, salts>>
     \/ /\ \E p \in Pwds :
             /\ mode = "server" => p = "citeck"
             /\ BeginSetup("import", p, mode = "server")
        /\ imp' = [imp EXCEPT !.pc = "wait"]
  /\ UNCHANGED <<disk, phase, mem, left, clean, edit, ghosts, crashes, made>>

\* The process dies between two writes.
Crash ==
  /\ phase # "down" \/ ~Idle
  /\ crashes < MaxCrashes
  /\ CrashInSetup
     \/ /\ op.pc \notin {"rows", "verify", "dflt", "enc"} \/ Rows = {}
        /\ imp = NoImp
  /\ crashes' = crashes + 1
  /\ phase' = "down" /\ mem' = [enc |-> FALSE, key |-> None]
  /\ left' = {} /\ clean' = None /\ op' = NoOp /\ imp' = NoImp /\ edit' = None
  /\ UNCHANGED <<disk, ghosts, salts, made>>

Next ==
  \/ SetupRead \/ SetupSave \/ SetupMeta \/ SetupEnd
  \/ ApiReset \/ CliReset \/ ResetRow \/ ResetMeta \/ ResetEnd
  \/ Boot \/ BootUnlock \/ BootFirst \/ Resolve \/ Clean \/ Up
  \/ \E s \in SysIds : Rotate(s)
  \/ \E i \in UserIds, v \in Vals : HandleCreateSecret(i, v)
  \/ \E i \in UserIds, v \in Vals \cup {None} : HandleUpdateSecretRead(i, v)
  \/ HandleUpdateSecretSave
  \/ \E i \in UserIds : HandleDeleteSecret(i)
  \/ \E p \in Pwds : HandleUnlockSecrets(p)
  \/ \E p \in Pwds : HandleSetupPassword(p)
  \/ HandleSubmitMasterPassword \/ SubmitSave \/ SubmitClear \/ SubmitEncrypt
  \/ Crash

Spec == Init /\ [][Next]_vars
-----------------------------------------------------------------------------
(* Properties.                                                             *)

\* The keystore on disk is whole whenever it says that it is encrypted: some
\* password opens it after a crash at any write of SetMasterPassword or of
\* ResetSecrets.
KeystoreWhole ==
  meta.enc => /\ meta.params # None
              /\ \E p \in Pwds : meta.verify = <<meta.params, p>>
                                 /\ (meta.dflt => p = "citeck")

\* A user secret that was saved, edited or imported, and neither deleted nor
\* reset, can be read with its value whenever the vault is open.
SavedIsReadable ==
  phase = "up" /\ Idle /\ imp = NoImp /\ ~Locked =>
    \A i \in UserIds : want[i] # None =>
       GetSecret(i) = [v |-> want[i], keys |-> <<>>]

\* Nothing that is done to the vault, and no crash on the way, makes what was
\* saved unreadable to the user who knows the password.
SecretsKept == KeystoreWhole /\ SavedIsReadable

\* The value of a system secret changes only by a rotation: a restart, a crash
\* amid its migration or a stale copy in an older home never brings another.
SystemSecretsStable ==
  [][\A s \in SysIds : used[s] # None /\ used'[s] # used[s] => Rotate(s)]_vars
=============================================================================
