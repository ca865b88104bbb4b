------------------------------- MODULE Setup -------------------------------
(***************************************************************************)
(* citeck setup and citeck setup history: the operator edits a document of *)
(* settings, each edit is recorded as a patch, and an entry of the history *)
(* is undone.  The document is edited by others too, by hand or over the   *)
(* web interface, and the next edit records that as an external change.    *)
(*                                                                         *)
(* A document gives every key a value, a section (a function of fields) or *)
(* None where the key is absent.  An entry is a set of changes, each the   *)
(* path, the old value and the new one: Forward and Reverse mirror each    *)
(* other in all that the code records.                                     *)
(***************************************************************************)
EXTENDS Naturals, Sequences

CONSTANTS
  Plain, Sections, Fields,  \* keys of values, keys of sections, fields of those
  Values, None,
  MaxEdits,                 \* bound: settings, undos and external edits together
  MaxSetupCrashes

VARIABLES
  file,      \* namespace.yml or daemon.yml
  snapshot,  \* <name>_history/snapshot.json, None before the first
  history,   \* the patches of that directory, by date
  menu,      \* the document a running citeck setup holds, None without one
  writing,   \* Quiet, or the writes a setting or an undo has still to make
  replayed,  \* ghost: the first snapshot with the patches of the history applied to it
  unseen,    \* ghost: an external edit came where no bridge will record it
  edits, kills

vars == <<file, snapshot, history, menu, writing, replayed, unseen, edits, kills>>

TopKeys == Plain \cup Sections
SectionDocs == [Fields -> Values \cup {None}]
Documents == {d \in [TopKeys -> Values \cup SectionDocs \cup {None}] :
                /\ \A k \in Plain : d[k] \in Values \cup {None}
                /\ \A k \in Sections : d[k] \in SectionDocs \cup {None}}
Paths == {<<k>> : k \in TopKeys} \cup (Sections \X Fields)

\* navigateTo, without createMissing: None also where the section is missing.
At(doc, p) == IF Len(p) = 1 THEN doc[p[1]]
              ELSE IF doc[p[1]] = None THEN None ELSE doc[p[1]][p[2]]

\* computePatch: two sections are compared field by field, all else whole.
Both(before, after, k) == k \in Sections /\ before[k] # None /\ after[k] # None
ComputePatch(before, after) ==
  {c \in {[path |-> p, old |-> At(before, p), new |-> At(after, p)] : p \in Paths} :
     c.old # c.new /\ (Len(c.path) = 2 <=> Both(before, after, c.path[1]))}

Mirrored(patch) == {[path |-> c.path, old |-> c.new, new |-> c.old] : c \in patch}

\* applyPatch: a field added to a section that is missing makes the section.
ApplyPatch(doc, patch) ==
  LET to(p) == {c \in patch : c.path = p}
      value(p) == (CHOOSE c \in to(p) : TRUE).new
      fields(k) == {f \in Fields : to(<<k, f>>) # {}}
  IN [k \in TopKeys |->
        IF to(<<k>>) # {} THEN value(<<k>>)
        ELSE IF k \notin Sections \/ fields(k) = {} THEN doc[k]
        ELSE [f \in Fields |-> IF f \in fields(k) THEN value(<<k, f>>) ELSE At(doc, <<k, f>>)]]

\* Mutation of CheckReverseApplies: a path that is there will do.
CheckReverseExists(doc, patch) == \A c \in patch : c.new = None \/ At(doc, c.path) # None

\* checkReverseApplies: every path still has what the entry left there, or,
\* where it removed the path, what it had before.
CheckReverseApplies(doc, patch) ==
  \A c \in patch : At(doc, c.path) = c.new \/ (c.new = None /\ At(doc, c.path) = c.old)
-----------------------------------------------------------------------------
Quiet == [todo |-> <<>>]
\* What is written last: the patch and the document it leads to.
Writing(steps, patch, doc) == [todo |-> steps, patch |-> patch, doc |-> doc]
Pending(step) == writing.todo # <<>> /\ Head(writing.todo) = step
Done == writing' = IF Len(writing.todo) = 1 THEN Quiet
                   ELSE Writing(Tail(writing.todo), writing.patch, writing.doc)

Init ==
  /\ file \in Documents /\ \A k \in Sections : file[k] = None
  /\ snapshot = None /\ history = <<>> /\ menu = None /\ writing = Quiet
  /\ replayed = None /\ unseen = FALSE /\ edits = 0 /\ kills = 0

Edit == edits < MaxEdits /\ edits' = edits + 1

\* Somebody else writes the document.
ExternalEdit ==
  /\ Edit /\ \E k \in TopKeys, d \in Documents :
       d # file /\ (\A j \in TopKeys \ {k} : d[j] = file[j]) /\ file' = d
  /\ unseen' = (unseen \/ (writing = Quiet /\ snapshot # None /\ replayed # snapshot))
  /\ UNCHANGED <<snapshot, history, menu, writing, replayed, kills>>

\* runSetup loads the document once, for all settings of the menu.
RunSetup ==
  /\ menu = None /\ writing = Quiet /\ menu' = file
  /\ UNCHANGED <<file, snapshot, history, writing, replayed, unseen, edits, kills>>
Exit ==
  /\ menu # None /\ writing = Quiet /\ menu' = None
  /\ UNCHANGED <<file, snapshot, history, writing, replayed, unseen, edits, kills>>

\* checkBridge: without a snapshot it writes one, with another one it records
\* the difference first.
CheckBridge(before) ==
  IF snapshot = None THEN <<"base">>
  ELSE IF snapshot = before THEN <<>> ELSE <<"bridge", "base">>

\* runSingleSetting: the setting changed one key, and the operator confirmed.
RunSingleSetting ==
  /\ menu # None /\ writing = Quiet /\ Edit
  /\ \E k \in TopKeys, d \in Documents :
       /\ d # menu /\ \A j \in TopKeys \ {k} : d[j] = menu[j]
       /\ writing' = Writing(CheckBridge(menu) \o <<"config", "patch", "snapshot">>,
                             ComputePatch(menu, d), d)
  /\ UNCHANGED <<file, snapshot, history, menu, replayed, unseen, kills>>

\* performUndo works on the file, whatever a menu holds, and has no bridge.
PerformUndo ==
  /\ writing = Quiet /\ Edit
  /\ \E i \in DOMAIN history :
       /\ CheckReverseApplies(file, history[i])
       /\ file' = ApplyPatch(file, Mirrored(history[i]))
       /\ writing' = Writing(<<"patch", "snapshot">>, Mirrored(history[i]), file')
  /\ unseen' = (unseen \/ file # replayed)
  /\ UNCHANGED <<snapshot, history, menu, replayed, kills>>

AppendToHistory(patch) ==
  history' = Append(history, patch) /\ replayed' = ApplyPatch(replayed, patch)
WriteBridge ==
  /\ Pending("bridge") /\ Done
  /\ AppendToHistory(ComputePatch(snapshot, menu))
  /\ UNCHANGED <<file, snapshot, menu, unseen, edits, kills>>
WriteBase ==
  /\ Pending("base") /\ Done
  /\ snapshot' = menu /\ replayed' = IF snapshot = None THEN menu ELSE replayed
  /\ UNCHANGED <<file, history, menu, unseen, edits, kills>>
WriteConfig ==
  /\ Pending("config") /\ Done
  /\ file' = writing.doc /\ menu' = writing.doc
  /\ UNCHANGED <<snapshot, history, replayed, unseen, edits, kills>>
WritePatch ==
  /\ Pending("patch") /\ Done
  /\ AppendToHistory(writing.patch)
  /\ UNCHANGED <<file, snapshot, menu, unseen, edits, kills>>
WriteSnapshot ==
  /\ Pending("snapshot") /\ Done
  /\ snapshot' = writing.doc
  /\ UNCHANGED <<file, history, menu, replayed, unseen, edits, kills>>

\* The command is killed; every write of a file is atomic.
Killed ==
  /\ writing # Quiet /\ kills < MaxSetupCrashes /\ kills' = kills + 1
  /\ writing' = Quiet /\ menu' = None
  /\ unseen' = (unseen \/ (snapshot # None /\ replayed \notin {snapshot, file}))
  /\ UNCHANGED <<file, snapshot, history, replayed, edits>>

Next ==
  \/ ExternalEdit \/ RunSetup \/ Exit \/ RunSingleSetting \/ PerformUndo
  \/ WriteBridge \/ WriteBase \/ WriteConfig \/ WritePatch \/ WriteSnapshot \/ Killed

Spec == Init /\ [][Next]_vars
-----------------------------------------------------------------------------
\* The history explains the document: the patches of the directory, applied one
\* after another to the first snapshot, give the last one, or the document where
\* a command was killed before its snapshot, whatever was edited by others in
\* between.  Two kinds of external edits are not seen: one that an undo takes
\* over, which puts it into the snapshot and not into the history, and one made
\* between the patch and the snapshot of a killed command.
HistoryReplays ==
  writing = Quiet /\ snapshot # None /\ ~unseen => replayed \in {snapshot, file}

\* An undo takes back what its entry had set and nothing else: each field that
\* it changes had the value that the entry gave it and gets the one from
\* before, so no later change by anybody is lost.
Leaf(v, p) == IF Len(p) = 1 \/ v = None THEN v ELSE v[p[2]]
Leaves == {<<k>> : k \in Plain} \cup (Sections \X Fields)
UndoKeepsTheRest ==
  [][file' # file /\ writing = Quiet /\ writing' # Quiet =>
       \A p \in Leaves : At(file', p) # At(file, p) =>
         \E c \in writing'.patch :
           /\ c.path[1] = p[1] /\ (Len(c.path) = 2 => c.path = p)
           /\ (IF Len(c.path) = Len(p) THEN c.old ELSE Leaf(c.old, p)) = At(file, p)
           /\ (IF Len(c.path) = Len(p) THEN c.new ELSE Leaf(c.new, p)) = At(file', p)]_vars

\* Both.
HistoryIsFaithful == []HistoryReplays /\ UndoKeepsTheRest
=============================================================================
