---------------------------- MODULE MCLifecycle ----------------------------
(* Two paths, in the root and below it, two contents of one size and, in   *)
(* some runs, the empty content.                                           *)
EXTENDS Lifecycle

MCPaths == {"a", "b"}
MCRank == [a |-> 1, b |-> 2]
MCLen == [a |-> 1, b |-> 2]
MCHashes == {"h1", "h2"}
MCEmptyToo == {"h1", "empty"}
HashSymmetry == Permutations(Hashes)
MCSize == [h \in Hashes |-> IF h = "empty" THEN 0 ELSE 1]
MCMetas == [size : 0..1, mtime_secs : 0..MaxTime, hash256 : Hashes]

(* Scans of everything, of everything without the sweep, of the directory  *)
(* of b alone, of the root with --no-recursive, and of the root given      *)
(* twice with --no-recursive.                                              *)
Everything == [scope |-> MCPaths, walked |-> MCPaths, times |-> 1, detect |-> TRUE]
NoSweep == [Everything EXCEPT !.detect = FALSE]
OnlyB == [Everything EXCEPT !.scope = {"b"}, !.walked = {"b"}]
NoRecursive == [Everything EXCEPT !.walked = {"a"}]
RootTwice == [NoRecursive EXCEPT !.times = 2]

MCOptions == {Everything, NoSweep, OnlyB, NoRecursive}
MCDeep == {Everything, NoRecursive}
MCSweeping == {Everything, RootTwice}
MCEverything == {Everything}

MCFilters == {MCPaths, {"b"}}
MCPreserves == {"Oldest"}

AllFaults == {"walk", "read", "scan crash", "remove", "delete crash"}
NoFaults == {}
=============================================================================
