------------------------------ MODULE GitState ------------------------------
(***************************************************************************)
(* Change evidence (gitstate.py).  A work tree is the set of its changes   *)
(* against HEAD: a path, and where it was renamed or copied from.          *)
(* "git status -z" prints one entry per change, and the source of a rename *)
(* as an entry of its own, which porcelain() has to skip.                  *)
(***************************************************************************)
EXTENDS SequencesExt, Integers

\* How many names change_metadata reports at most: 500 and 200.
CONSTANTS MaxChanged, MaxPreexisting

ASSUME CapAssumption == MaxChanged \in Nat /\ MaxPreexisting \in Nat

NoSource == "no source"
Change(path, source) == [path |-> path, source |-> source]

\* A source read as an entry loses its first three characters: a path of nowhere.
Cut == "cut"

Entries(change) ==
  IF change.source = NoSource
  THEN <<[code |-> "M", path |-> change.path]>>
  ELSE <<[code |-> "R", path |-> change.path], [code |-> "M", path |-> Cut]>>

Listing(changes) == FlattenSeq([i \in 1..Cardinality(changes) |-> Entries(SetToSeq(changes)[i])])

\* Mutant: every entry is a path.
ReadEntryUnskipped(read, entry) ==
  [paths |-> read.paths \cup {entry.path}, skip |-> FALSE]

ReadEntry(read, entry) ==
  IF read.skip THEN [read EXCEPT !.skip = FALSE]
  ELSE [paths |-> read.paths \cup {entry.path}, skip |-> entry.code = "R"]

NotARepository == {"not a repository"}

\* porcelain(workspace)
Porcelain(isRepo, changes) ==
  IF isRepo THEN FoldLeft(ReadEntry, [paths |-> {}, skip |-> FALSE], Listing(changes)).paths
  ELSE NotARepository

Known(paths) == IF paths = NotARepository THEN {} ELSE paths

\* sorted(paths)[:n], whatever the order: all the paths if they fit, else n of them.
Truncated(paths, n) ==
  {some \in SUBSET paths : IF Cardinality(paths) <= n THEN some = paths ELSE Cardinality(some) = n}

NoEvidence == [listed |-> FALSE, changed |-> {}, preexisting |-> {}]

\* change_metadata(before, after): what it may be, by the order of the names.
ChangeMetadata(before, after) ==
  IF after = NotARepository THEN {NoEvidence}
  ELSE [listed      : {TRUE},
        changed     : Truncated(after \ Known(before), MaxChanged),
        preexisting : Truncated(Known(before), MaxPreexisting)]
=============================================================================
