-------------------------------- MODULE Walk --------------------------------
(***************************************************************************)
(* What a scan lists (walk_and_enqueue, filter_dir_entry and               *)
(* enqueue_if_candidate of scan.rs): roots, directories, links and names   *)
(* on a tree, with the database it leaves and what delete makes of it.     *)
(* Workers, writer and failures are the subject of Scan; here a run's jobs *)
(* are all committed when the walk is over.  The tree changes between      *)
(* commands only.                                                          *)
(*                                                                         *)
(* A location is a path without links; fs says what is there.  All files   *)
(* have one content and one mtime.  The walkdir crate is modelled as far   *)
(* as the program shows it: it yields a directory before its entries, in   *)
(* the order of readdir, with the type of a link's target if it follows    *)
(* links, and descends into a root even if that is a link.  The loops it   *)
(* refuses to follow are directories visited_dirs holds already.           *)
(***************************************************************************)
EXTENDS DupePlan, PathMatch

CONSTANTS
  Locations,    \* where something may be
  UserPuts,     \* what the user may put at some of them
  InitialTree,  \* what is there first
  RunOptions,   \* option records: roots, follow, recursive
  Policies,     \* the preserve policies delete is given
  PathFilters,  \* the sets of paths delete is given, {} for none
  MaxScans,     \* bound: how many scans are started
  MaxChanges    \* bound: how many changes the user makes

Nothing == [kind |-> "none", to |-> <<>>]
Dir == [kind |-> "dir", to |-> <<>>]
File == [kind |-> "file", to |-> <<>>]
LinkTo(loc) == [kind |-> "link", to |-> loc]

Nodes == {Nothing, Dir, File} \cup { LinkTo(l) : l \in Locations }

(* What is somewhere is in a directory, and links lead to no other link.   *)
IsTree(tree) ==
  /\ tree \in [Locations -> Nodes]
  /\ tree[<<>>] = Dir
  /\ \A l \in Locations \ {<<>>} : tree[l] # Nothing => tree[Front(l)] = Dir
  /\ \A l \in Locations : tree[l].kind = "link" => tree[tree[l].to].kind # "link"

Words == DOMAIN Spelling \cup {".", ".."}

ASSUME WalkAssumption ==
  /\ {".", ".."} \cap DOMAIN Spelling = {}
  /\ <<>> \in Locations
  /\ IsFiniteSet(Locations)
  /\ Locations \subseteq Seq(DOMAIN Spelling)
  /\ \A l \in Locations \ {<<>>} : Front(l) \in Locations
  /\ \A o \in RunOptions : o.roots \in Seq(Seq(Words)) /\ o.follow \in BOOLEAN
  /\ \A under \in PathFilters : under \subseteq Seq(Words)
  /\ \E m \in Metas : Metas = {m}
  /\ IsTree(InitialTree)
  /\ DOMAIN UserPuts \subseteq Locations
  /\ Policies \subseteq AllPolicies

TheMeta == CHOOSE m \in Metas : TRUE

VARIABLES
  db,
  fs,        \* the tree
  running,   \* a scan walks
  opts,      \* its options
  roots,     \* roots not yet walked
  frames,    \* open directories: the path each is walked by, entries left
  visited,   \* visited_dirs
  seen,      \* paths recorded as seen
  jobs,      \* paths to hash
  listings,  \* history: locations of the directories listed, in that order
  settled,   \* history: options of the last scan, while nothing changed since
  scans, changes

walkVars == <<running, opts, roots, frames, visited, seen, jobs, listings>>
vars == <<db, fs, walkVars, settled, scans, changes>>

NoOptions == [roots |-> <<>>, follow |-> FALSE, recursive |-> TRUE]

Init ==
  /\ db = EmptyDb
  /\ fs = InitialTree
  /\ running = FALSE
  /\ opts = NoOptions
  /\ roots = <<>>
  /\ frames = <<>>
  /\ visited = {}
  /\ seen = {}
  /\ jobs = {}
  /\ listings = <<>>
  /\ settled = NoOptions
  /\ scans = 0
  /\ changes = 0

-----------------------------------------------------------------------------
(* What the system calls tell of a path *)

Present(loc) == loc \in Locations /\ fs[loc].kind # "none"

(* The location of a path, all links followed, as an Option.               *)
Through(loc) ==
  IF ~Present(loc) THEN {}
  ELSE IF fs[loc].kind = "link" THEN { l \in {fs[loc].to} : Present(l) }
  ELSE {loc}

Step(loc, c) ==
  IF fs[loc].kind # "dir" THEN {}
  ELSE CASE c = "."  -> {loc}
         [] c = ".." -> {IF loc = <<>> THEN loc ELSE Front(loc)}
         [] OTHER    -> Through(Append(loc, c))

Resolve(path) ==
  FoldLeft(LAMBDA at, c : UNION { Step(loc, c) : loc \in at }, {<<>>}, path)

(* The same without following a link at the end.                           *)
Unfollowed(path) ==
  IF path = <<>> \/ Last(path) \in {".", ".."} THEN Resolve(path)
  ELSE { l \in { Append(at, Last(path)) : at \in Resolve(Front(path)) } : Present(l) }

KindsAt(locs) == { fs[l].kind : l \in locs }
StatKind(path) == KindsAt(Resolve(path))
LstatKind(path) == KindsAt(Unfollowed(path))

Entries(loc) ==
  { Last(l) : l \in { k \in Locations \ {<<>>} : Present(k) /\ Front(k) = loc } }

-----------------------------------------------------------------------------
ScanStart(o) ==
  /\ ~running
  /\ scans < MaxScans
  /\ scans' = scans + 1
  /\ running' = TRUE
  /\ opts' = o
  /\ roots' = o.roots
  /\ UNCHANGED <<db, fs, frames, visited, seen, jobs, listings, settled, changes>>

(* enqueue_if_candidate for each of the paths: seen under the normalized   *)
(* path; a job if the file the given path leads to is not unchanged.       *)
EveryFile(path) == StatKind(path) = {"file"}  \* mutant: no preflight

IsCandidate(path) ==
  /\ StatKind(path) = {"file"}
  /\ ~CurrentSizeMtimeIs(db, Normalize(path), TheMeta.size, TheMeta.mtime_secs)

Enqueue(paths) ==
  /\ seen' = seen \cup { Normalize(p) : p \in paths }
  /\ jobs' = jobs \cup { Normalize(p) : p \in { q \in paths : IsCandidate(q) } }

(* The type of an entry, in which walkdir is the one to follow links.      *)
EntryKind(path) == IF opts.follow THEN StatKind(path) ELSE LstatKind(path)

IsRootLinkToDir(path, depth) ==
  depth = 0 /\ EntryKind(path) = {"link"} /\ StatKind(path) = {"dir"}

(* filter_dir_entry *)
NeverVisited(path) == EntryKind(path) = {"dir"}  \* mutant: visited_dirs is not asked

InsertedBefore(path) == FALSE  \* mutant: the key is inserted before the test

NotVisitedDir(path) == EntryKind(path) = {"dir"} /\ Resolve(path) \cap visited = {}

(* One entry that walkdir yields, at a depth below its root.               *)
WalkEntry(path, depth, rest) ==
  LET descends == NotVisitedDir(path) \/ IsRootLinkToDir(path, depth)
      loc == CHOOSE l \in Resolve(path) : TRUE
  IN  /\ visited' = IF NotVisitedDir(path) THEN visited \cup {loc} ELSE visited
      /\ frames' = IF descends THEN Append(rest, [dir |-> path, left |-> Entries(loc)])
                   ELSE rest
      /\ listings' = IF descends THEN Append(listings, loc) ELSE listings
      /\ Enqueue(IF EntryKind(path) = {"file"} THEN {path} ELSE {})
      /\ UNCHANGED <<db, fs, running, opts, settled, scans, changes>>

WalkRoot ==
  /\ running
  /\ opts.recursive
  /\ frames = <<>>
  /\ roots # <<>>
  /\ roots' = Tail(roots)
  /\ WalkEntry(Head(roots), 0, <<>>)

WalkNext ==
  /\ frames # <<>>
  /\ \E name \in Last(frames).left :
       WalkEntry(Append(Last(frames).dir, name), Len(frames),
                 [frames EXCEPT ![Len(frames)].left = @ \ {name}])
  /\ UNCHANGED roots

LeaveDir ==
  /\ frames # <<>>
  /\ Last(frames).left = {}
  /\ frames' = Front(frames)
  /\ UNCHANGED <<db, fs, running, opts, roots, visited, seen, jobs, listings, settled,
                 scans, changes>>

(* --no-recursive: every entry of the root, whatever it is. *)
ReadRoot ==
  /\ running
  /\ ~opts.recursive
  /\ roots # <<>>
  /\ roots' = Tail(roots)
  /\ LET root == Head(roots)
     IN  Enqueue(IF StatKind(root) = {"dir"}
                 THEN { Append(root, name) : name \in UNION { Entries(l) : l \in Resolve(root) } }
                 ELSE {})
  /\ UNCHANGED <<db, fs, running, opts, frames, visited, listings, settled, scans, changes>>

WalkDone == running /\ roots = <<>> /\ frames = <<>>

(* The strings of the normalized roots, and the paths under them.          *)
RootStrings == { Str(Normalize(r)) : r \in Range(opts.roots) }

Scope == { p \in Paths : IsUnderAnyRoot(Str(p), RootStrings) }

Written(d, paths) ==
  FoldLeft(LAMBDA e, p : WriteVersion(e, p, TheMeta), d, SetToSeq(paths))

(* Workers hash the jobs whose path leads to a file, the writer commits,   *)
(* and the sweep follows.                                                  *)
ScanFinish ==
  /\ WalkDone
  /\ LET hashed == { p \in jobs : StatKind(p) = {"file"} }
     IN  db' = MarkMissingNotSeen(Written(db, hashed), Scope, seen)
  /\ running' = FALSE
  /\ opts' = NoOptions
  /\ visited' = {}
  /\ seen' = {}
  /\ jobs' = {}
  /\ listings' = <<>>
  /\ settled' = opts
  /\ UNCHANGED <<fs, roots, frames, scans, changes>>

-----------------------------------------------------------------------------
(* delete --apply for the files under some paths: those the plan of the    *)
(* group names are removed one after the other, up to the first that is a  *)
(* directory or not there, be it that an earlier one was the same file or  *)
(* a link on the way.  remove_file removes a link, not what it leads to.   *)
OnTheWay(path) == UNION { Unfollowed(SubSeq(path, 1, n)) : n \in 1..Len(path) }

RemoveFileFails(paths, i) ==
  \/ LstatKind(paths[i]) \in {{}, {"dir"}}
  \/ \E j \in 1..(i - 1) : Unfollowed(paths[j]) \cap OnTheWay(paths[i]) # {}

Removed(paths) ==
  [l \in Locations |->
     IF fs[l] # Dir /\ \E p \in paths : l \in Unfollowed(p) THEN Nothing ELSE fs[l]]

Selected(under) ==
  { p \in Paths : Matches({ FilterPrefix(r) : r \in under }, Str(p)) }

DeleteRun(policy, under) ==
  /\ ~running
  /\ \E group \in DupeGroups(db, Selected(under)) :
       LET plan == ByPath(db, ToDelete(db, policy, Selected(under), group))
           paths == [i \in DOMAIN plan |-> PathOf(db, plan[i])]
           failing == { i \in DOMAIN plan : RemoveFileFails(paths, i) }
           done == { plan[i] : i \in { j \in DOMAIN plan : \A k \in failing : j < k } }
       IN  /\ done # {}
           /\ fs' = Removed({ PathOf(db, f) : f \in done })
           /\ db' = IF failing = {} THEN MarkFilesMissing(db, done) ELSE db
  /\ settled' = NoOptions
  /\ UNCHANGED <<walkVars, scans, changes>>

UserChanges(loc) ==
  /\ ~running
  /\ changes < MaxChanges
  /\ changes' = changes + 1
  /\ fs' \in { [fs EXCEPT ![loc] = n] : n \in UserPuts[loc] \ {fs[loc]} }
  /\ IsTree(fs')
  /\ settled' = NoOptions
  /\ UNCHANGED <<db, walkVars, scans>>

Next ==
  \/ \E o \in RunOptions : ScanStart(o)
  \/ WalkRoot
  \/ WalkNext
  \/ LeaveDir
  \/ ReadRoot
  \/ ScanFinish
  \/ \E policy \in Policies, under \in PathFilters : DeleteRun(policy, under)
  \/ \E loc \in DOMAIN UserPuts : UserChanges(loc)

Spec == Init /\ [][Next]_vars

-----------------------------------------------------------------------------
(* Properties *)

(* A root whose string says where it is. *)
IsReal(root) == Resolve(root) = {Normalize(root)} /\ LstatKind(root) # {"link"}

(* The string normalize_path makes of a root leads where the root does: no *)
(* ".." of it is behind a link.                                            *)
IsHonest(root) == Resolve(Normalize(root)) = Resolve(root)

(* A run as the documents recommend it. *)
Plain(o) == o.recursive /\ ~o.follow /\ \A r \in Range(o.roots) : IsReal(r)

FilesBelow(locs) ==
  { l \in Locations : fs[l].kind = "file" /\ \E top \in locs : IsPrefix(top, l) }

(* The type invariant. *)
TypeOK ==
  /\ IsTree(fs)
  /\ Typed(db)
  /\ Consistent(db)
  /\ jobs \subseteq seen \cap Paths
  /\ visited \subseteq { l \in Locations : fs[l] = Dir }
  /\ visited \subseteq Range(listings)
  /\ running \/ (roots = <<>> /\ frames = <<>> /\ seen = {})
  /\ \A fr \in Range(frames) : StatKind(fr.dir) = {"dir"}

(* A recursive walk misses no file: whatever the order of readdir, however *)
(* roots overlap, whatever links it follows into directories it has walked *)
(* or will walk, every regular file in the tree of a root directory is     *)
(* seen by some path that leads to it, unless normalizing changes where a  *)
(* root leads; and a plain run sees exactly the regular files below its    *)
(* roots, by the paths they have.                                          *)
WalkIsComplete ==
  WalkDone /\ opts.recursive =>
    /\ (\A r \in Range(opts.roots) : IsHonest(r)) =>
         \A r \in Range(opts.roots) : \A l \in FilesBelow(Resolve(r)) :
           StatKind(r) = {"dir"} => \E p \in seen : Resolve(p) = {l}
    /\ Plain(opts) =>
         seen = FilesBelow(UNION { Resolve(r) : r \in Range(opts.roots) })

(* visited_dirs: no directory is listed twice in a run, by overlapping     *)
(* roots or links to it, unless a root itself is a link and links are not  *)
(* followed; so no file of it is hashed or recorded twice.                 *)
DirOnce ==
  (\A r \in Range(opts.roots) : opts.follow \/ LstatKind(r) # {"link"})
    => IsInjective(listings)

(* The sweep, which compares strings, marks after a plain run exactly the  *)
(* Live paths that lie below a root in the tree and are no regular file    *)
(* there: nothing of a sibling whose name begins like the root's, and what *)
(* an earlier run recorded through a link.  Only the root "/" counts for   *)
(* nothing: its string ends where the separator is expected.               *)
SweepFollowsTree ==
  [][ ScanFinish /\ Plain(opts) =>
        \A p \in LivePaths(db) :
          p \notin LivePaths(db') <=>
            /\ \E r \in Range(opts.roots) : Normalize(r) # <<>> /\ IsPrefix(Normalize(r), p)
            /\ p \notin FilesBelow({<<>>}) ]_vars

ThroughLink(path) ==
  \E n \in 1..(Len(path) - 1) : \E l \in Unfollowed(SubSeq(path, 1, n)) : fs[l].kind = "link"

(* "Only entries whose paths match the provided prefixes are eligible"     *)
(* (docs/specs.md): what a delete run given directories removes is where   *)
(* some Live path below one of them leads, by components and not by        *)
(* strings: nothing of a sibling whose name begins like the directory's.   *)
(* It lies outside of the directories only if that path goes through a     *)
(* link, which the filter does not look at.                                *)
DeleteStaysInside ==
  [][ \A l \in Locations : fs'[l] # fs[l] =>
        \A policy \in Policies, under \in PathFilters \ {{}} :
          DeleteRun(policy, under) =>
            \E r \in under, p \in LivePaths(db) :
              /\ IsPrefix(Normalize(r), p)
              /\ l \in Unfollowed(p)
              /\ l = p \/ ThroughLink(p) ]_vars

(* A scan that repeats the last one, with nothing changed since, leaves    *)
(* the database as it is, in whatever order readdir lists the second time; *)
(* --follow-symlinks is excepted, where the order decides by which of its  *)
(* names a file is known.                                                  *)
RescanIsIdle ==
  [][ ScanFinish /\ settled = opts /\ ~opts.follow => db' = db ]_vars

(* "Default: do not follow symlinks" and "never delete all copies"         *)
(* (docs/specs.md): where no scan follows links, a delete right after one  *)
(* leaves a file with the content it removes.  Some runs refute it.        *)
DeleteLeavesAFile ==
  [][ (\A l \in Locations : fs'[l].kind # "file") /\ settled # NoOptions =>
        \A policy \in Policies, under \in PathFilters : ~DeleteRun(policy, under) ]_vars
=============================================================================
