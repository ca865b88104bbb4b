--------------------------- MODULE BundleVersions ---------------------------
(***************************************************************************)
(* The order of bundle versions: parseBundleKey, compareBundleVersions, the*)
(* choice of LATEST and the list of versions.                              *)
(*                                                                         *)
(* A key is [scope, version, suffix]: the directories, the numbers before  *)
(* the first other character, and the groups after it, each a sequence of  *)
(* numbers or a word.  A word is its rank in the order of strings.         *)
(***************************************************************************)
EXTENDS Integers, Sequences

CONSTANTS
  ScopePaths, VersionNums, SuffixLists,  \* the keys of the instance
  MaxFiles                               \* bound: files of bundles

VARIABLES walk, latest  \* the files in the order they are walked; the choice

BundleKeys == [scope : ScopePaths, version : VersionNums, suffix : SuffixLists]
Word(g) == g.kind = "word"

\* parseBundleKey trims trailing zeros of every group of numbers.
Trimmed(v) ==
  LET last == {i \in DOMAIN v : v[i] # 0}
  IN SubSeq(v, 1, IF last = {} THEN 0 ELSE CHOOSE i \in last : \A j \in last : j <= i)
ParsePart(g) == IF Word(g) THEN g ELSE [g EXCEPT !.nums = Trimmed(@)]
ParseBundleKey(k) ==
  [k EXCEPT !.version = Trimmed(@), !.suffix = [i \in DOMAIN @ |-> ParsePart(@[i])]]

SignOf(x, y) == IF x > y THEN 1 ELSE IF x < y THEN -1 ELSE 0

\* The first place where two slices differ decides, given the sign of each
\* place they share; else the lengths, the shorter being the greater when
\* preferEmpty.
CompareSlices(signs, a, b, preferEmpty) ==
  LET differ == {i \in DOMAIN signs : signs[i] # 0}
  IN IF differ # {} THEN signs[CHOOSE i \in differ : \A j \in differ : i <= j]
     ELSE IF preferEmpty THEN SignOf(Len(b), Len(a)) ELSE SignOf(Len(a), Len(b))

Shared(a, b) == 1 .. IF Len(a) < Len(b) THEN Len(a) ELSE Len(b)
CompareNums(a, b, preferEmpty) ==
  CompareSlices([i \in Shared(a, b) |-> SignOf(a[i], b[i])], a, b, preferEmpty)

\* compareSuffixPart: numbers are above words.
CompareSuffixPart(a, b) ==
  CASE ~Word(a) /\ ~Word(b) -> CompareNums(a.nums, b.nums, FALSE)
    [] Word(a) /\ Word(b) -> SignOf(a.rank, b.rank)
    [] OTHER -> IF Word(a) THEN -1 ELSE 1

\* compareSuffixParts: a release is above its candidates.
CompareSuffixParts(a, b) ==
  CompareSlices([i \in Shared(a, b) |-> CompareSuffixPart(a[i], b[i])], a, b, TRUE)

CompareBundleVersions(x, y) ==
  LET a == ParseBundleKey(x)
      b == ParseBundleKey(y)
      scope == CompareNums(a.scope, b.scope, TRUE)
      version == CompareNums(a.version, b.version, FALSE)
  IN IF scope # 0 THEN scope ELSE IF version # 0 THEN version
     ELSE CompareSuffixParts(a.suffix, b.suffix)

\* findLatestBundle keeps the file that it has until a greater one comes.
FindLatestNumbers(best, k) ==
  IF best = <<>> \/ CompareNums(k.version, best[1].version, FALSE) > 0 THEN <<k>> ELSE best
FindLatestBundle(best, k) ==
  IF best = <<>> \/ CompareBundleVersions(k, best[1]) > 0 THEN <<k>> ELSE best

\* ListBundleVersions sorts downwards: the orders in which the files may be
\* listed, for the sort is not stable.
Listed(files) ==
  {p \in [DOMAIN files -> DOMAIN files] : \A i, j \in DOMAIN files : i < j =>
     p[i] # p[j] /\ CompareBundleVersions(files[p[i]], files[p[j]]) >= 0}

Init == walk = <<>> /\ latest = <<>>

\* walkBundles yields one more file.
WalkBundles(k) ==
  /\ Len(walk) < MaxFiles
  /\ walk' = Append(walk, k) /\ latest' = FindLatestBundle(latest, k)

Next == \E k \in BundleKeys : WalkBundles(k)

Spec == Init /\ [][Next]_<<walk, latest>>
-----------------------------------------------------------------------------
\* The comparison is a total preorder, which both the sort and LATEST take
\* for granted: signs are opposite and no three versions form a cycle.
VersionsAreOrdered ==
  \A i, j \in DOMAIN walk :
    /\ CompareBundleVersions(walk[i], walk[j]) = -CompareBundleVersions(walk[j], walk[i])
    /\ \A k \in DOMAIN walk :
         CompareBundleVersions(walk[i], walk[j]) >= 0 /\ CompareBundleVersions(walk[j], walk[k]) >= 0
           => CompareBundleVersions(walk[i], walk[k]) >= 0

\* Hence LATEST stands for a version that heads the list, in whatever order the
\* files are walked and whatever the sort does with equal ones.
LatestHeadsTheList ==
  /\ VersionsAreOrdered
  /\ walk # <<>> => \A p \in Listed(walk) : CompareBundleVersions(walk[p[1]], latest[1]) = 0
=============================================================================
