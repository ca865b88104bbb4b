------------------------------- MODULE Edits -------------------------------
(***************************************************************************)
(* What an operator changes of something the launcher generates: a mounted *)
(* JSON or YAML file, the definition of an application, the configuration  *)
(* of a workspace.  The change is kept as a delta over what was generated, *)
(* and the delta is laid over whatever is generated later.                 *)
(*                                                                         *)
(* A document is a tree: an object (a function of keys) or a value; Nil is *)
(* JSON's null and Go's nil, which the code does not tell apart.           *)
(***************************************************************************)
EXTENDS Integers, FiniteSets, Functions

CONSTANTS
  Kinds,         \* subset of {"json", "yaml", "def", "workspace"}
  Templates,     \* objects that may be generated
  Contents,      \* objects an operator may save
  MaxOps         \* bound: operations of the operator, and changes upstream

VARIABLES
  kind,          \* of the document
  upstream,      \* what a Generate would make of it now
  tmpl,          \* lastGenFiles, generatedDefs: what the last one made
  delta,         \* editedFileEdits, editedAppPatches, the stored workspace delta
  live,          \* the file on disk, the application's definition, workspaceConfig
  running,       \* the namespace is not STOPPED
  reload,        \* Idle, or what the reload under reloadMu goes by
  put,           \* Idle, or a PUT that has read the template
  written,       \* what the operator saved last, over what; Missing after a reset
  crossed,       \* a PUT got between the snapshot and the write of a reload
  ops

vars == <<kind, upstream, tmpl, delta, live, running, reload, put, written, crossed, ops>>

Obj(f) == [obj |-> f]
Val(x) == [val |-> x]
Nil == Val("null")
IsObj(t) == "obj" \in DOMAIN t

Missing == [none |-> TRUE]
Idle == [idle |-> TRUE]

-----------------------------------------------------------------------------
\* DiffTree and ApplyTree: JSON merge patch.
RECURSIVE DiffAdded(_, _)
DiffAdded(base, target) ==
  IF ~IsObj(base) \/ ~IsObj(target)
  THEN IF base = target THEN Nil ELSE target
  ELSE LET b == base.obj
           t == target.obj
           sub(k) == IF k \in DOMAIN b THEN DiffAdded(b[k], t[k]) ELSE t[k]
           set == {k \in DOMAIN t : k \notin DOMAIN b \/ sub(k) # Nil}
       IN IF set = {} THEN Nil ELSE Obj([k \in set |-> sub(k)])

RECURSIVE DiffTree(_, _)
DiffTree(base, target) ==
  IF ~IsObj(base) \/ ~IsObj(target)
  THEN IF base = target THEN Nil ELSE target
  ELSE LET b == base.obj
           t == target.obj
           sub(k) == IF k \in DOMAIN b THEN DiffTree(b[k], t[k]) ELSE t[k]
           set == {k \in DOMAIN t : k \notin DOMAIN b \/ sub(k) # Nil}
           gone == DOMAIN b \ DOMAIN t
       IN IF set \cup gone = {} THEN Nil
          ELSE Obj([k \in set \cup gone |-> IF k \in set THEN sub(k) ELSE Nil])

RECURSIVE ApplyTree(_, _)
ApplyTree(base, patch) ==
  IF ~IsObj(patch) THEN patch
  ELSE LET b == IF IsObj(base) THEN base.obj ELSE <<>>
           p == patch.obj
           dropped == {k \in DOMAIN p : p[k] = Nil}
           below(k) == IF k \in DOMAIN b THEN b[k] ELSE Nil
       IN Obj([k \in (DOMAIN b \cup DOMAIN p) \ dropped |->
                 IF k \in DOMAIN p THEN ApplyTree(below(k), p[k]) ELSE b[k]])

\* applyPatchToNode, the same over the nodes of a YAML document: a patch that
\* is no object changes nothing, and what replaces a node is taken as it is.
RECURSIVE ApplyPatchToNode(_, _)
ApplyPatchToNode(node, patch) ==
  IF ~IsObj(patch) \/ ~IsObj(node) THEN node
  ELSE LET n == node.obj
           p == patch.obj
           dropped == {k \in DOMAIN p : p[k] = Nil}
           both(k) == k \in DOMAIN n /\ IsObj(n[k]) /\ IsObj(p[k])
       IN Obj([k \in (DOMAIN n \cup DOMAIN p) \ dropped |->
                 IF k \notin DOMAIN p THEN n[k]
                 ELSE IF both(k) THEN ApplyPatchToNode(n[k], p[k]) ELSE p[k]])

\* DiffAppDef and ApplyAppDefPatch: field by field, each field whole.
DiffAppDef(base, edited) ==
  LET b == base.obj
      e == edited.obj
      changed == {k \in DOMAIN e : k \notin DOMAIN b \/ b[k] # e[k]}
      gone == DOMAIN b \ DOMAIN e
  IN IF changed \cup gone = {} THEN Missing
     ELSE Obj([k \in changed \cup gone |-> IF k \in changed THEN e[k] ELSE Nil])
ApplyAppDefPatch(base, patch) ==
  LET b == base.obj
      p == patch.obj
      dropped == {k \in DOMAIN p : p[k] = Nil}
  IN Obj([k \in (DOMAIN b \cup DOMAIN p) \ dropped |-> IF k \in DOMAIN p THEN p[k] ELSE b[k]])

\* MakeFileEdit stores an edit even when nothing differs; a definition without
\* a difference loses its patch, and so does a workspace whose bytes do not differ.
MakeEdit(base, content) ==
  CASE kind \in {"json", "yaml"} -> DiffTree(base, content)
    [] kind = "workspace" -> IF content = base THEN Missing ELSE DiffTree(base, content)
    [] kind = "def" -> DiffAppDef(base, content)

ApplyEdit(edit, template) ==
  CASE edit = Missing -> template
    [] edit # Missing /\ kind = "json" -> ApplyTree(template, edit)
    [] edit # Missing /\ kind \in {"yaml", "workspace"} -> ApplyPatchToNode(template, edit)
    [] edit # Missing /\ kind = "def" -> ApplyAppDefPatch(template, edit)

-----------------------------------------------------------------------------
Init ==
  /\ kind \in Kinds /\ upstream \in Templates /\ tmpl = upstream /\ live = upstream
  /\ delta = Missing /\ running \in BOOLEAN
  /\ reload = Idle /\ put = Idle /\ written = Missing /\ crossed = FALSE /\ ops = 0

Op == ops < MaxOps /\ ops' = ops + 1

\* Git, or the namespace's configuration, brings another template.
Upstream ==
  /\ Op /\ upstream' \in Templates \ {upstream}
  /\ UNCHANGED <<kind, tmpl, delta, live, running, reload, put, written, crossed>>

\* doReloadEx and loadNamespace under reloadMu: the edits as they are now, ...
Snapshot(d) == [edit |-> d, gen |-> upstream, step |-> "generate"]
Reload ==
  /\ reload = Idle
  /\ reload' = Snapshot(delta) /\ crossed' = FALSE
  /\ UNCHANGED <<kind, upstream, tmpl, delta, live, running, put, written, ops>>
\* ... Generate and writeRuntimeFiles, which take no lock of the runtime, ...
ReloadWrite ==
  /\ reload # Idle /\ reload.step = "generate"
  /\ live' = ApplyEdit(reload.edit, reload.gen)
  /\ reload' = [reload EXCEPT !.step = "commit"]
  /\ UNCHANGED <<kind, upstream, tmpl, delta, running, put, written, crossed, ops>>
\* ... and SetLastGenFiles and SetGeneratedDefs, then the runtime goes on.
ReloadCommit ==
  /\ reload # Idle /\ reload.step = "commit"
  /\ tmpl' = reload.gen /\ reload' = Idle /\ running' = TRUE
  /\ UNCHANGED <<kind, upstream, delta, live, put, written, crossed, ops>>
Stop ==
  /\ running /\ running' = FALSE
  /\ UNCHANGED <<kind, upstream, tmpl, delta, live, reload, put, written, crossed, ops>>

Save(base, content) ==
  /\ delta' = MakeEdit(base, content)
  /\ written' = [base |-> base, content |-> content]

\* handlePutAppFile reads the template, WriteEditedFile records the delta and
\* writes the file under the runtime's lock: neither takes reloadMu.
HandlePutAppFile(content) ==
  /\ kind \in {"json", "yaml"} /\ put = Idle /\ Op
  /\ put' = [base |-> tmpl, content |-> content]
  /\ UNCHANGED <<kind, upstream, tmpl, delta, live, running, reload, written, crossed>>
WriteEditedFile ==
  /\ put # Idle /\ put' = Idle
  /\ Save(put.base, put.content) /\ live' = put.content
  /\ crossed' = (reload # Idle)
  /\ UNCHANGED <<kind, upstream, tmpl, running, reload, ops>>

\* A running namespace is reloaded with the new patch, under reloadMu, which
\* is taken first; a stopped one gets the patch alone.
HandlePutAppConfig(content) ==
  /\ kind = "def" /\ Op
  /\ Save(tmpl, content) /\ live' = content
  /\ IF running THEN reload = Idle /\ reload' = Snapshot(delta') /\ crossed' = FALSE
     ELSE crossed' = (reload # Idle) /\ UNCHANGED reload
  /\ UNCHANGED <<kind, upstream, tmpl, running, put>>

\* refreshActiveWorkspaceConfigCache resolves the workspace anew, with its delta.
RefreshWorkspaceConfig ==
  /\ live' = ApplyEdit(delta', upstream) /\ tmpl' = upstream
  /\ crossed' = (reload # Idle)
  /\ UNCHANGED <<kind, upstream, running, reload, put>>

\* The workspace's delta is over the repository.
HandlePutWorkspaceConfig(content) ==
  /\ kind = "workspace" /\ Op
  /\ Save(upstream, content) /\ RefreshWorkspaceConfig

Discard == delta' = Missing /\ written' = Missing
HandleResetWorkspaceConfig ==
  /\ kind = "workspace" /\ Op
  /\ Discard /\ RefreshWorkspaceConfig

\* ResetEditedFile, under reloadMu, and the reload that writes the file again.
HandleResetAppFile ==
  /\ kind \in {"json", "yaml"} /\ Op
  /\ Discard
  /\ reload = Idle /\ reload' = Snapshot(Missing) /\ crossed' = FALSE
  /\ UNCHANGED <<kind, upstream, tmpl, live, running, put>>

\* ResetAppDef, and the reload of a namespace that runs, under reloadMu, which
\* is taken first.
HandleResetAppConfig ==
  /\ kind = "def" /\ Op
  /\ Discard
  /\ IF running THEN reload = Idle /\ reload' = Snapshot(Missing) /\ crossed' = FALSE
     ELSE crossed' = TRUE /\ UNCHANGED reload
  /\ UNCHANGED <<kind, upstream, tmpl, live, running, put>>

\* The launcher dies, and its next boot generates from what was persisted.
Restart ==
  /\ Op /\ put' = Idle /\ running' = FALSE
  /\ reload' = Snapshot(delta) /\ crossed' = FALSE
  /\ UNCHANGED <<kind, upstream, tmpl, delta, live, written>>

Next ==
  \/ Upstream \/ Reload \/ ReloadWrite \/ ReloadCommit \/ Stop
  \/ \E c \in Contents : HandlePutAppFile(c) \/ HandlePutAppConfig(c) \/ HandlePutWorkspaceConfig(c)
  \/ WriteEditedFile \/ HandleResetAppFile \/ HandleResetAppConfig \/ HandleResetWorkspaceConfig
  \/ Restart

Spec == Init /\ [][Next]_vars

-----------------------------------------------------------------------------
\* Nothing between a document and what a reload made of it.
Settled == reload = Idle /\ put = Idle /\ ~crossed

Changed(k) ==
  LET b == written.base.obj
      c == written.content.obj
  IN k \in DOMAIN b \cup DOMAIN c
     /\ ~(k \in DOMAIN b /\ k \in DOMAIN c /\ b[k] = c[k])

\* Three ways: what the operator changed stays as saved, in whatever comes from
\* upstream, and what he left alone follows upstream.  A key that holds an
\* object is merged further down; a JSON file saved as it was generated turns
\* into null at the next reload.
ThreeWay ==
  Settled /\ IsObj(live) /\ written # Missing =>
    LET c == written.content.obj
        l == live.obj
        t == tmpl.obj
    IN \A k \in DOMAIN c \cup DOMAIN written.base.obj \cup DOMAIN t :
         IF ~Changed(k)
         THEN live # written.content => (k \in DOMAIN l <=> k \in DOMAIN t) /\ (k \in DOMAIN t => l[k] = t[k])
         ELSE /\ k \in DOMAIN c /\ ~IsObj(c[k]) => k \in DOMAIN l /\ l[k] = c[k]
              /\ k \notin DOMAIN c => k \notin DOMAIN l

\* After a reset nothing of the operator's is left in what is served.
ResetRestores == written = Missing /\ Settled => live = tmpl

\* Edits stay until they are reset, and only until then.
EditsStick == ThreeWay /\ ResetRestores
=============================================================================
