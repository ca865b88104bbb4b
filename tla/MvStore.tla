------------------------------ MODULE MvStore ------------------------------
(***************************************************************************)
(* The reader of storage.db, the file of the Kotlin launcher, beside what  *)
(* H2 does to the file up to the moment it is left.                        *)
(*                                                                         *)
(* H2 appends a chunk at each commit: the pages that changed, a footer, and *)
(* the layout, which says in which chunk every page is.  It then points    *)
(* the two blocks of the header at the chunk.  Chunks are moved to make    *)
(* room, and a copy that is left behind is overwritten later, or a part of *)
(* it.  The file may be left in the middle of any of it.                   *)
(*                                                                         *)
(* The id of a chunk is the version it was written at, and so is what its  *)
(* pages say.                                                              *)
(***************************************************************************)
EXTENDS Naturals, Sequences, FiniteSets

CONSTANTS
  Keys,         \* of the map that is read, each on a page of its own
  MaxSlots,     \* bound: places for chunks
  MaxVersion,   \* bound: commits
  None,
  StoreFaults   \* subset of {"lag", "uncommitted", "reused"}

VARIABLES
  disk,     \* the chunk in each slot
  header,   \* the two blocks of the header
  live,     \* what H2 has committed: the version, the chunk of each page, the slot
            \* where each chunk is
  left      \* whether the file has been left, and nobody writes it any more

vars == <<disk, header, live, left>>

Slots == 1 .. MaxSlots   \* in the order of the file
Bad == 0       \* a page that does not parse
Junk == 99     \* a page that parses, and is not the one it was

Chunk(v, where, block) ==
  [id |-> v, block |-> block, footer |-> TRUE, layout |-> where,
   pages |-> [k \in Keys |-> IF where[k] = v THEN v ELSE Bad]]
Block(v, slot, sum) == [version |-> v, slot |-> slot, sum |-> sum]

Init ==
  /\ live = [version |-> 1, where |-> [k \in Keys |-> 1], at |-> <<1>>]
  /\ disk = [s \in Slots |-> IF s = 1 THEN Chunk(1, live.where, 1) ELSE None]
  /\ header = [b \in 1 .. 2 |-> Block(1, 1, TRUE)]
  /\ left = FALSE

-----------------------------------------------------------------------------
(* H2.                                                                     *)

\* A chunk that the committed version needs, or the one the header knows, stays.
Needed == {live.version} \cup {live.where[k] : k \in Keys} \cup {header[b].version : b \in 1 .. 2}
Copies(id) == {s \in Slots : disk[s] # None /\ disk[s].id = id}
Free == Slots \ {live.at[v] : v \in Needed}

\* What is written into a slot may reach into a copy that was left behind
\* in front of it: its footer goes, and pages of it.
Torn(c) ==
  {[c EXCEPT !.footer = FALSE, !.layout = l, !.pages = p] :
     l \in {c.layout, None},
     p \in {c.pages, [k \in Keys |-> Bad], [k \in Keys |-> Junk]}}
TornAtEnd(c) ==
  {d \in Torn(c) : "reused" \in StoreFaults \/ \A k \in Keys : d.pages[k] # Junk}
Written(s, c) ==
  LET d == [disk EXCEPT ![s] = c]
  IN {d} \cup (IF s - 1 \in Free /\ disk[s - 1] # None
               THEN {[d EXCEPT ![s - 1] = t] : t \in Torn(disk[s - 1])} ELSE {})

\* A commit is whole, or the file is left before the chunk is, or before the
\* header is; or with the header written and the chunk not.
Commit(K, s) ==
  LET v == live.version + 1
      where == [k \in Keys |-> IF k \in K THEN v ELSE live.where[k]]
      c == Chunk(v, where, s)
      new == [b \in 1 .. 2 |-> Block(v, s, TRUE)]
      halves == {[new EXCEPT ![2] = header[2]], [new EXCEPT ![1].sum = FALSE]}
  IN /\ ~left /\ K # {} /\ s \in Free /\ v <= MaxVersion
     /\ live' = [version |-> v, where |-> where, at |-> Append(live.at, s)]
     /\ \/ disk' \in Written(s, c) /\ header' = new /\ UNCHANGED left
        \/ disk' \in Written(s, c) /\ header' \in halves /\ left' = TRUE
        \/ "lag" \in StoreFaults /\ disk' \in Written(s, c) /\ UNCHANGED <<header, left>>
        \/ /\ \E t \in TornAtEnd(c) : disk' \in Written(s, t)
           /\ header' \in {header, new} /\ left' = TRUE

\* compactMoveChunks: what is moved says its new place.
Move(s, t) ==
  /\ ~left /\ s \notin Free /\ t \in Free
  /\ disk' \in Written(t, [disk[s] EXCEPT !.block = t])
  /\ header' = [b \in 1 .. 2 |-> IF header[b].slot = s THEN [header[b] EXCEPT !.slot = t] ELSE header[b]]
  /\ live' = [live EXCEPT !.at = [v \in DOMAIN @ |-> IF v = disk[s].id THEN t ELSE @[v]]]
  /\ UNCHANGED left

\* A transaction is open when the file is left.
Leave ==
  /\ ~left /\ left' = TRUE
  /\ \/ UNCHANGED disk
     \/ /\ "uncommitted" \in StoreFaults
        /\ \E k \in Keys : disk' = [disk EXCEPT ![live.at[live.where[k]]].pages[k] = Junk]
  /\ UNCHANGED <<header, live>>

Next ==
  \/ \E K \in SUBSET Keys, s \in Slots : Commit(K, s)
  \/ \E s, t \in Slots : Move(s, t)
  \/ Leave

Spec == Init /\ [][Next]_vars
-----------------------------------------------------------------------------
(* The reader.                                                             *)

\* readHeader: the newest block whose sum is right, else the newest.
Newest(B) == CHOOSE b \in B : \A c \in B : header[c].version <= header[b].version
StoreHeader ==
  LET intact == {b \in 1 .. 2 : header[b].sum}
  IN header[Newest(IF intact # {} THEN intact ELSE 1 .. 2)]

\* finalizeChunk and chunkQuality: whether it says it is elsewhere, and whether
\* its footer agrees.
ChunkQuality(s) ==
  (IF disk[s].block = s THEN 2 ELSE 0) + (IF disk[s].footer THEN 4 ELSE 0)

\* Mutation of FindChunk: the first copy in the file.
FirstChunk(id) == {s \in Copies(id) : \A t \in Copies(id) : s <= t}

\* findChunk: the best copy, the first of those; a set, empty if there is none.
FindChunk(id) ==
  LET best == {s \in Copies(id) : \A t \in Copies(id) : ChunkQuality(t) <= ChunkQuality(s)}
  IN {s \in best : \A t \in best : s <= t}

\* tryLayoutFromChunk: strict, and by the id of the chunk as every page is.
LayoutFrom(s) == {disk[t].layout : t \in FindChunk(disk[s].id)} \ {None}

\* layoutCandidates and readLayoutMap: the chunk the header points at, then those
\* with a footer, then the others, the newest first; the first that has a layout.
Pointed == {StoreHeader.slot} \cap {s \in Slots : disk[s] # None}
Scanned == {s \in Slots : disk[s] # None} \ Pointed
Preferred(s, t) ==
  \/ disk[s].footer /\ ~disk[t].footer
  \/ disk[s].footer = disk[t].footer /\ disk[s].id >= disk[t].id
LayoutChunk ==
  LET readable(S) == {s \in S : LayoutFrom(s) # {}}
      rest == readable(Scanned)
  IN IF readable(Pointed) # {} THEN readable(Pointed)
     ELSE {s \in rest : \A t \in rest : Preferred(s, t)}

\* rejectLost and readLoss: what a lenient read drops is counted.
RejectLost == 1

\* parseLeafKeysValues: all the entries of a page, or as much as none of them.
Parses(page) == page # Bad

\* readPage: the page of a key, in whichever copy of its chunk is the best.
ReadPage(id, k) == {page \in {disk[s].pages[k] : s \in FindChunk(id)} : Parses(page)}

\* readInternalNode and walkChild: a page that cannot be read is passed over.
Lost(where) == {k \in Keys : ReadPage(where[k], k) = {}}

\* DumpForImport of the map: what was read of each key, and how much was lost;
\* empty if there is no layout, and then the directories are walked.
Dump ==
  {LET where == CHOOSE l \in LayoutFrom(s) : TRUE
   IN [version |-> disk[s].id, where |-> where,
       got |-> [k \in Keys |-> ReadPage(where[k], k)],
       lost |-> Cardinality(Lost(where)) * RejectLost]
   : s \in LayoutChunk}
-----------------------------------------------------------------------------
\* Whatever is read belongs to the version that is read, never to what a dead
\* copy of a chunk has there, and a key that is missing is accounted for.
ReadsWhatWasWritten ==
  \A d \in Dump : \A k \in Keys :
    \/ d.got[k] = {d.where[k]}
    \/ d.got[k] = {} /\ d.lost > 0

\* The version is the last that was committed, and all of it, where the file was
\* left in order; otherwise at most the commit that was cut off is missing.
ReadsTheNewest ==
  /\ Dump # {}
  /\ \A d \in Dump :
       /\ d.version >= live.version - 1
       /\ ~left => d.version = live.version /\ d.lost = 0 /\ d.where = live.where

ReadIsHonest == ReadsWhatWasWritten /\ ReadsTheNewest
=============================================================================
