# A TLA+ verification of deldupes

deldupes keeps a database of the files below some directories, finds files with
equal content, and deletes duplicates on request. This directory holds TLA+
models of it, TLC configurations that check them, and proofs that TLAPS checks.
All line numbers are those of the files under `src/` at the repository's root
(`db.rs:116` is `src/db.rs`, line 116).

## 1. The system

One process runs one command. Every command first opens the database directory
and takes an exclusive lock, so commands exclude each other; only the user's own
file operations run beside them.

| part | code | state | operations | talks to |
|---|---|---|---|---|
| tables | `schema.rs`, `db.rs`, `file_meta.rs` | 8 redb tables: path ids both ways, counters, current version of a path, metadata, path and state of a version, hash index | `write_batch_versions`, `mark_missing_not_seen`, `mark_files_missing`, four queries | scan, delete, reports |
| opening | `dbpath.rs`, `db::open` | directory, `LOCK`, `meta.toml`, `index.redb` | look, lock, initialize, require, open, schema | every command |
| scan | `scan.rs` | sets `seen` and `visited_dirs`; job and result channel; the writer's batch | walk, stat, preflight, hash, commit, sweep | the disk, tables |
| duplicate groups | `dupe_groups.rs` | none (one snapshot) | `load_live_dupe_groups` | tables; used by dupes, stats, delete |
| delete | `delete.rs` | groups, plan, removed ids | plan a group, remove, record | the disk, tables |
| hashing | `hashing.rs` | none | BLAKE3 of a file, SHA-1 of its first 32 KiB | the disk |
| paths | `path_utils.rs`, `path_filter.rs` | none | normalize, prefix match | scan, delete, reports |
| encodings | `codec.rs`, `file_meta.rs` | none | packed id list, metadata blob | tables |
| reports | `dupes.rs`, `potential.rs`, `stats.rs`, `check.rs` | none | read-only queries | tables, groups |
| command line | `main.rs`, `util.rs`, `logging.rs` | none | arguments, sizes, tracing | everything |

What is hard about it:

* **Threads.** A scan has a walking main thread, N workers and one writer behind
  two bounded channels; shutdown is by closing channels and joining.
* **Stale knowledge.** A file is stat'ed, queued, hashed and committed at four
  moments, and deleted by what a scan recorded long before. Nothing stops the
  user in between.
* **Partial failure.** Scans commit in batches; a delete removes a group's files
  one by one and records them afterwards. Either can end anywhere.
* **Absence as information.** The sweep concludes from "not seen" to "Missing",
  so everything that keeps a scan from seeing a file matters.
* **Names.** One file has many paths: links, overlapping roots, `..`. What the
  walk lists, what the sweep compares as strings and what a delete removes must
  be about the same files.
* **Look before lock.** `open` decides whether to initialize from a look at the
  directory taken before it holds the lock.

What makes each part correct: the tables agree with each other and lose no
history; a group is exactly the Live latest versions of one content; the size
and mtime shortcut never hides a change for good; a complete scan leaves the
truth; the sweep touches only what was absent; a delete keeps a copy of
everything, by the documented rules, and reaches only what lies below the
directories it was given; the reports say what is so; the pipeline loses nothing and ends; one
process at a time has a ready database.

`PROJECT.json` lists every hazard with its line and the properties aimed at it.

## 2. Modules

```
VersionLog            what the database promises
   ^ refined by
Db ------ DbTables    the tables as a value, transactions as operators
 |  |        ^
 |  |     DupePlan    duplicate groups, and what a delete plans for them
 |  |        ^   ^ ------------------- Walk ----- PathMatch    WalkProofs
 |  |     Reports                      (a tree with links; scan, delete)
 |  |      ^    ^
 | DbReports    |     reports and stored bytes on every state of Db
 |   |          |
 |  Codec       |     World    the database, the disk, the user, faults
 |              |     ^   ^
DbProofs        |  Scan   Delete ------------- DeleteProofs
                |     ^   ^                         ^
               Lifecycle   commands and user   LifecycleProofs
                           over time, refines VersionLog

ScanPipeline --> ScanPromise   threads and channels, and the steps they implement
     ScanPipelineProofs
DbOpen -- DbOpenProofs         opening the directory, several processes

TableLemmas, SeqLemmas         facts the proofs share: the operators of DbTables;
                               queues, sums, prefixes, numbers
```

* **DbTables** has no variables. A database value is a record of tables;
  `WriteVersion`, `MarkMissingNotSeen` and `MarkFilesMissing` are the three
  transactions' bodies, `LiveEntries`, `GetCurrentByPath`, `CurrentSizeMtimeIs`
  the queries. Db, Scan, Delete and Walk all use these same operators, so what
  TableLemmas proves of them serves the proofs of all the commands.
* **Db** is `DbHandle` as a state machine: a committed value, and a working copy
  of the open write transaction that is committed or rolled back at any item.
* **VersionLog** is the abstract view: a log of versions that only grows at its
  end, and the set of Live paths.
* **DupePlan** is `load_live_dupe_groups`, `plan_group` and `choose_keeper` as
  operators on a database value.
* **Reports** is the read-only commands the same way: `dupes`, `potential`,
  `stats`, `check` and `check-hash`. Order of output and formatting are left out.
* **Codec** is `FileMeta::encode`/`decode` and the packed id lists on byte
  strings, with byte and field widths as constants.
* **DbReports** states what the reports and the stored bytes must satisfy on
  every committed state of Db.
* **World** is shared by Scan and Delete: `disk[p]` is the file at a path (size,
  mtime in seconds, content hash), or none. `Write` and `Erase` are the user.
  `Fault(kind)` guards every step in which something outside the program fails.
* **Scan** has one action per step of a run: listing a path, `StatFile` (the
  whole of `enqueue_if_candidate`), hashing or dropping a job, committing a full
  batch or the rest, and the end with the sweep. The threads are these actions
  in any order, which admits every order the queues allow. A path may be listed
  twice (a root given twice with `--no-recursive`), and a file written after its
  stat may be read with any hash, a torn read included.
* **Walk** is where the listings come from: `walk_and_enqueue`,
  `filter_dir_entry` and `enqueue_if_candidate` on a tree of directories, files
  and links, with roots in any order and every order of readdir. A run's jobs
  are committed when its walk ends; threads and failures are left to Scan. Its
  `DeleteRun` removes the files of one plan one after the other, up to the first
  that is not there: two recorded names may be one file.
* **PathMatch** is paths as strings: `normalize_path`, `is_under_any_root`,
  `PathFilter`. A string is a sequence of tokens, so that `/rd` begins like `/r`.
* **Delete** has one action per step: loading the groups, planning a group, each
  `remove_file`, its failure, and recording a group.
* **Lifecycle** puts Scan, Delete and the user together, and asks `check` of
  every state. `quiet`, `missed`, `fresh` (and `trusted`, `before` in Delete)
  are history variables: no guard of the program's steps reads them.
* **ScanPipeline** is one scan as threads: where each thread is, both channels,
  the batch. What a job is about is left out; a job is its number.
  **ScanPromise** is the same scan without threads: the steps Scan is made of.
* **DbOpen** is `dbpath::ensure_db_dir_is_valid_or_empty` and `db::open`, one
  action per file-system call whose order matters.

`MC*.tla` give the small instances; the modules named `...Proofs` and
`...Lemmas` hold the proofs. Operators marked `mutant` next to a definition
are wrong variants of it, used to see that each property can fail.

## 3. What the runs check

| run | instance | checks |
|---|---|---|
| `db` | 3 paths, 3 contents, 4 versions (`MaxFileId = 4`); bytes of 2 values, words of 3 bytes | `TypeOK`, `DbConsistent`, `GroupsAreOfLatest`, `StatsMatchLog`, `ReportsDisjoint`, `StoredIsRead`, `HistoryKept`, `ImplementsVersionLog` |
| `delete` | 4 paths, 2 contents, mtime 0 or 1, 4 filters, all 6 policies, one failure | `DeleteTypeOK`, `LastCopyKept`, `OutcomeByRules`, `RerunFindsNothing` |
| `lifecycle` | 2 paths, 2 contents of one size, writes up to second 3, full scans and `--no-recursive` of a root given twice, no failure | `TypeOK`, `UnchangedIsIdentical`, `CheckAgrees`, `DupesAreOthers` |
| `fresh` | 2 paths, one content and the empty one, writes up to second 3, four scan options, one failure of any kind | `FreshIsTrue`, `CheckIsTrue`, `UnchangedIsIdentical`, `LastCopyKept`, `SweepsOnlyUnseen`, `ScanIsComplete`, `CommandsImplementLog` |
| `pipeline` | 2 workers, 8 jobs, queues of 2 and 1, batches of 2, a writer that may fail | `TypeOK`, `EachJobOnce`, `SweepAfterCommits`, `KeepsPromise`, `EndsUnlessWriterFails` |
| `open` | 3 processes, 5 commands, 2 crashes | `TypeOK`, `OneReadyHandle`, `IndexIsAccepted`, `RaceHasWinner`, `NeverReset`, `AloneIsAccepted` |
| `walk` | directories `/r`, `/r/d`, `/rd`, a file in each, a link in `/r`; 7 option records, 2 scans, 2 changes, deletes with 2 policies and 3 filters | `TypeOK`, `WalkIsComplete`, `DirOnce`, `SweepFollowsTree`, `RescanIsIdle`, `DeleteStaysInside` |

In words, the ones that carry most:

* `UnchangedIsIdentical`: whenever the current record of a path has the size and
  mtime of the file there, it has its hash. It holds because a job carries the
  mtime of the stat that came *before* the hashing; with an mtime read at the
  commit it fails. It holds with torn reads and with two jobs for one path, whose
  results may be committed in either order: the older one then carries an older
  mtime, and the next scan hashes the file again.
* `CheckAgrees`: although `check` does not hash a file whose size and mtime are
  those of its record, it calls a file NOT_FOUND exactly if its content was never
  recorded, and answers what `check-hash` answers for the content. The second is
  left open where the record is Missing and the file is there unchanged, because
  documents and code disagree about that case (`missing_again` below).
* `DupesAreOthers`: the live duplicates `check` lists of a file are all Live
  versions of its content at other paths. A touched file is the exception: it is
  hashed, and then nothing keeps its own Live version from being counted
  (`check.rs:163`), though the comment at `check.rs:301` takes each for another
  file. The report is of DUPES that are none until the file is scanned again.
* `CheckIsTrue`: after a quiet scan of everything, and through deletes since, a
  recorded file that is gone is KNOWN_REMOVED, and a file said to have live
  duplicates has a copy elsewhere. If something that is no file has taken the
  place, `check` asks no database and says NOT_FOUND (`check.rs:93`); the model
  lets that be so at any path without a file (`isOther`).
* `ScanIsComplete`: an undisturbed scan leaves a right record for each non-empty
  file it walked, after any history of crashes and changes.
* `LastCopyKept`: from groups that were true and with nobody else writing, no
  step of a delete, however the run is broken off, leaves a content without a
  copy. `OutcomeByRules` adds the rules of `docs/specs.md` section 13.
* `WalkIsComplete`: `visited_dirs` prunes directories, but never so that a file
  of a walked root is seen by none of its paths, in any order of roots, links
  and readdir; `DirOnce` is the other half. The exception in `DirOnce` is a root
  that is itself a link, which walkdir opens though links are not followed, and
  which `filter_dir_entry` does not enter in `visited_dirs`.
* `SweepFollowsTree`: what a plain scan (recursive, links not followed, roots
  spelled as they are) marks is what lies below its roots in the *tree* and is no
  regular file there, although the code compares strings. The root `/` is the
  exception the property states: its string ends where `is_under_any_root`
  expects the separator, so a scan of `/` sweeps nothing.
* `DeleteStaysInside`: with directories as filter, what a delete removes is where
  a Live path leads that lies below one of them by components, though the code
  compares strings: a sibling whose name begins like the directory's is safe.
  What is removed lies outside of the directories only if that path goes through
  a link, as when a file of `/rd` was recorded as `/r/l/f`: filters are about
  recorded paths (`docs/specs.md` section 13), and the instance has this case.
* `StatsMatchLog`: the figures of `stats` are those of the history; unique size
  is the sum over distinct Live contents.
* `EachJobOnce`, `SweepAfterCommits`: no job is lost or doubled at a hand-over,
  a batch boundary or a closing channel, and the sweep follows the last commit.
  `KeepsPromise` says that the threads implement ScanPromise: results in the
  channel and the batch are one sequence, committed from its front.
* `NeverReset`, `RaceHasWinner`, `AloneIsAccepted`: although emptiness is judged
  without the lock, a late initializer leaves the first one's data alone, racing
  first commands cannot all turn each other away, and a lone command is turned
  away only where an earlier one died before it had made the index. (Such a
  directory, with `LOCK` and no index, stays refused until the user clears it.)

Five runs expect a violation; each shows a statement of the documents that the
code does not meet (details and quotes in `PROJECT.json`, "findings"):

* `delete_crash` (`NeverLastCopy`): killed between removing and recording, then
  run again with another policy or filter, delete takes the last copy, because
  it never checks that the file it keeps is there. The same gap shows when the
  user changes the kept file between scan and delete: `LastCopyKept` says
  `trusted` for that reason.
* `emptied_file` (`DeleteIsSafeAfterScan`): a truncated file stays Live with its
  old hash through a complete scan, so delete may keep it and remove the copy.
* `missing_again` (`PresentIsNotMissing`): `--no-recursive` marks all deeper
  files Missing, and once Missing a file is never Live again while unchanged.
  Two lines of code are at fault (`scan.rs:83`, `scan.rs:255`), and the trace
  needs both. In its last state `check` says KNOWN_REMOVED of the file too, where
  `docs/specs.md` section 14 asks for EXISTS whatever the state of an entry with
  the file's size and mtime (`check.rs:116`); the property therefore accepts a
  Missing record if `check` says EXISTS, and fails all the same.
* `writer_error` (`ShutsDown`): after a writer error the main thread can block
  for ever on the full job queue, because `run_scan` holds a receiver itself.
* `alias` (`DeleteLeavesAFile`): `--no-recursive` records a link as a second copy
  of its target; delete keeps the link and removes the file.

### Bounds

* `db`: three paths and contents are the least with two files of one prefix and
  different content next to an exact duplicate. Four versions let a path be
  superseded three times, go Missing in between, and share a hash with a version of
  its own. The proofs remove the bound.
* Codec: with two byte values and words of three bytes, ids and sizes up to 7
  need more than one byte; nothing in the code depends on the widths but the
  offsets, which are computed from them.
* Deletes: four paths and two contents give groups of 2, 3 and 4 entries, two
  groups at once, and ties in length and mtime; the filters take all, some or
  one of a group, or of both.
* Lifecycle: two paths are the least with a duplicate, `MaxTime = 3` lets the
  user write twice, during the first scan and between or during later commands.
  A third path only adds larger groups, which the `delete` run has. One failure
  is enough for each kind of broken run followed by a good one. The contents of
  the `lifecycle` run are interchangeable (symmetry) and its states those of two
  racing jobs for one path; all failures are in the `fresh` run.
* Walk: one link, put to a file, to the directory beside it, to the directory
  above it, to the sibling outside (`/rd`) or nowhere; roots that overlap, that are that link, that are a file,
  that contain `..`, and `/`. Two scans and two changes let a first scan record
  through a link what a second one meets without it. One content and mtime are
  enough: which file is which is told by its place.
* `BatchSize` 2 (10,000 in the code): full batches, an exact multiple, and a rest
  all occur. Channel capacities are small so that both are full at once; what
  fills them does not matter to who waits for whom. Eight jobs exceed what all
  queues, hands and the batch hold together (2 + 1 + 2 + 2).
* Opening: three processes are needed for one that looked early, one that
  initializes and one that finds the result.
* Deadlock is checked except in the runs of ScanPipeline, DbOpen and Walk, whose
  behaviours end by design (`swept`, `error`, all commands and changes used up).

### Fairness

Only ScanPipeline states any: weak fairness of the main thread, of each worker
and of the writer. The operating system runs every runnable thread, and
crossbeam wakes a blocked sender or receiver once it can proceed; a step that
stays possible is therefore taken. Nothing is assumed of the choice between a
commit's success and failure, or of whether a file can be hashed. The other
models check safety and action properties only: a command may stop at any point.

## 4. What is proved

TLAPS proves 40 theorems about six specifications. They hold for any number of
paths, contents, processes, workers and jobs and for any bounds; the runs of
section 3 check the same formulas on the small instances. The assumptions on
the constants are named where the constants are declared, and TLC evaluates
them in the runs.

### The tables: Db

Any `Paths`, `Hashes`, `Metas` (records with a hash in `Hashes` and natural size
and mtime, `MetasAssumption`) and `MaxFileId` (`MaxFileIdAssumption`).

| theorem of DbProofs | says |
|---|---|
| `TypeCorrect` | `Spec => []TypeOK` |
| `CommittedConsistent` | `Spec => []DbConsistent` |
| `OneLiveVersionPerPath` | `Spec => []LivePathsDistinct` |
| `HistoryIsKept` | `Spec => HistoryKept` |
| `GroupsAreThoseOfTheLog` | `Spec => []GroupsAreOfLatest` |
| `DbImplementsVersionLog` | `Spec => ImplementsVersionLog` |

The invariant that carries them is `IInv`: both the committed value and the
working copy are well formed and consistent, the working copy extends the
committed history, and the two are equal outside a transaction. None of it can
be dropped: a commit makes the working copy the committed value, so the copy
must be consistent after every item and keep the history of what it replaces;
`DbConsistent` and `HistoryKept` of the committed value say nothing about the
copy. The argument is in lemmas on the operators (TableLemmas): `WriteVersion`
keeps a value well formed, consistent and extending; marking Live versions
Missing does too (`LiveToMissing`, used for both transactions that do so).
`LivePathsDistinct` follows from consistency: a Live version is not Replaced, so
it is the current one of its path id, and path ids are a bijection; so it has no
run of its own besides that of `DbConsistent`.

`GroupsAreOfLatest` compares groups read from the hash index with the log, where
the latest version of a path is the one with the greatest id. Consistency does
not say that the *current* version is that one, so the invariant is `GInv`,
which adds `CurrentIsLatest` of both values.

`ReportsAreDisjoint` and `StatsAreRight` (`FilesAtRest => (Spec => []...)`) are
about what the read-only commands say of any database a scan may have left:

| theorem of DbProofs | says |
|---|---|
| `ReportsAreDisjoint` | `FilesAtRest => (Spec => []ReportsDisjoint)` |
| `StatsAreRight` | `FilesAtRest => (Spec => []StatsMatchLog)` |

`FilesAtRest` says that equal hashes come with equal sizes and prefixes. The code
gives that for files nobody writes while they are hashed, and does not otherwise
(section 5): then `dupes` and `potential` may name a file both, and the sum that
`stats` subtracts is over other sizes than the sum it subtracts from. Both follow
from `GInv` by what the reports are made of: a potential group is built of hashes
that no second Live file has, and a duplicate group of those that one has. The
figures of `stats` are sums folded over the Live versions; `SumExists`,
`SumAdds` and `GroupedSum` unfold the fold and add up by content: the sum over all
Live files is what the groups have too much, plus each content once.

The refinement needs `Grows(db, tx)`: the working copy is the committed value
with versions recorded behind it, and its Live paths are the committed ones and
those of the new versions. Then a commit is one `Record` of the log however many
items it has, a sweep or a recorded deletion is a `Lose`, and beginning, writing
and aborting stutter.

### Opening: DbOpen

Any number of processes, commands and deaths (`OpenAssumption`: the two bounds
are natural numbers).

| theorem of DbOpenProofs | says |
|---|---|
| `OpenTypeCorrect` | `Spec => []TypeOK` |
| `OneReadyHandleHolds` | `Spec => []OneReadyHandle` |
| `IndexIsAcceptedHolds` | `Spec => []IndexIsAccepted` |
| `IndexIsNeverReset` | `Spec => NeverReset` |
| `RaceHasAWinner` | `Spec => []RaceHasWinner` |
| `AloneIsNotTurnedAway` | `Spec => AloneIsAccepted` |

For the first four, `IInv` says who holds the lock at which step (`Exclusive`),
that `meta.toml` precedes the index and each process finds what its earlier
steps made (`FilesInOrder`). It says nothing of `sawEmpty`, and need not: what a
process saw before the lock may be stale, and every step after it is harmless
all the same, because each creates only what is absent. `Exclusive` is what
keeps a step from spoiling what another process has found.

The last two are about what a stale look may cost, and there `sawEmpty` counts.
`WInv` adds that who passed the look saw an empty directory or an index
(`SawOneOrTheOther`), and that from the first start on, as long as nobody has
died and there is no schema, some process holds the lock, is past its look, or
is about to look and will find nothing (`SomeoneOnItsWay`). A process leaves
that role only by being turned away at the lock, and then the holder has it.

### Threads: ScanPipeline

Any finite non-empty set of workers, any number of jobs, any capacities and
batch size above zero (`PipelineAssumption`).

| theorem of ScanPipelineProofs | says |
|---|---|
| `PipelineTypeCorrect` | `Spec => []TypeOK`: queues within their capacities included |
| `EachJobOnceHolds` | `Spec => []EachJobOnce` |
| `SweepAfterCommitsHolds` | `Spec => []SweepAfterCommits` |
| `PipelineKeepsPromise` | `Spec => KeepsPromise` |

Their `IInv` has the shape of the state, `OneInHand` (a worker holds at most one
job), `Room` (queues and batch within bounds), `OnePlace` (while the writer has
not failed, the jobs made so far are split without overlap over job queue,
hands, result queue, batch, database and those that could not be hashed) and `EndsInOrder` (a thread has ended
only if what feeds it has ended and is empty). `OnePlace` must not be claimed
after a failure: a failed writer loses its batch and what is still queued.
`SweepAfterCommits` is `OnePlace` and `EndsInOrder` together.

The refinement maps the jobs of ScanPromise to the job queue and the hands, and
its results to the batch followed by the result queue. So taking a job or a
result changes nothing there, a worker's send is a hash or a drop, and a commit
takes a front part of the results.

### Deletes: Delete

`DeletesAlone` is a delete run, or one after another, that starts from *any*
typed and consistent tables and *any* disk, unknown mtimes (0) included. So the
theorems do not depend on how the tables came about. The assumptions are that
filters are sets of paths and policies those of the program
(`DeleteAssumption`), that ranks tell paths apart (`DupePlanAssumption`), and
that each content has a size (`WorldAssumption`). The set of paths need not be finite.

| theorem of DeleteProofs | says |
|---|---|
| `DeleteTypeCorrect` | `DeletesAlone => []DeleteTypeOK` |
| `NoLastCopyDeleted` | `DeletesAlone => []LastCopyKept` |
| `RulesAreFollowed` | `DeletesAlone => OutcomeByRules` |
| `NothingLeftToDelete` | `DeletesAlone => RerunFindsNothing` |

The invariant `DeletesInv` has five parts:

* `WorldInv`: the tables are well formed and consistent, the disk holds files.
* `DeleteInv`: groups waiting, plan and removed versions are Live, in one place
  only, and of one content within a group.
* `CopyInv`: for each version planned or removed another Live one of its content
  is neither; and in a trusted run whatever is Live and not removed is on disk
  as recorded. `LastCopyKept` alone is not inductive, because it does not say
  that the file a plan keeps is there.
* `RerunInv`: each content has its group still waiting, or has been dealt with:
  one copy is left, or copies outside the filter.
* `RulesInv`: in a trusted run, the paths gone from the disk are those of the
  removed versions and those already recorded; a waiting group is still what it
  was when loaded; a content already dealt with has left exactly what the rules
  leave of its copies (`Stay`). `OutcomeByRules` is about the end of a run and
  compares disks; this is what it says at every step before.

`OutcomeByRules` states the rules by what stays: for instance, with `Oldest`, no
removed copy with a known mtime is older than the one kept. The code picks a
least key; `KeysTellPaths`, `TupleLessOrder` and `KeeperIsPreferred` show that the keys
order the paths totally and that the least is the one the rules ask for.

### Commands over time: Lifecycle

The same assumptions, and `ScanAssumption`: batches have at least one item, and
a scan walks only what it may sweep.

| theorem of LifecycleProofs | says |
|---|---|
| `TypeCorrect` | `Spec => []TypeOK` |
| `ShortcutIsSound` | `Spec => []UnchangedIsIdentical` |
| `CheckAgreesHolds` | `Spec => []CheckAgrees` |
| `DupesListedAreOthers` | `Spec => []DupesAreOthers` |
| `FreshDatabaseIsTrue` | `Spec => []FreshIsTrue` |
| `CheckCanBeTrusted` | `Spec => []CheckIsTrue`, whatever has the place of a file that is gone |
| `LastCopyStays` | `Spec => []LastCopyKept` |
| `SweepsAreJust` | `Spec => SweepsOnlyUnseen` |
| `QuietScansAreComplete` | `Spec => ScanIsComplete` |
| `DeletesFollowRules` | `Spec => OutcomeByRules` |
| `RerunsFindNothing` | `Spec => RerunFindsNothing` |
| `CommandsAreALog` | `Spec => CommandsImplementLog` |

The invariant `AllInv` consists of

* `WorldInv` and `DeleteInv` as above, and `ScanInv`: a listing is in one place
  only, jobs and results are about paths seen, nothing is held between scans;
* `SoundInv`, the reason the size and mtime shortcut is sound: whatever was
  recorded of a path, or is in a result for it, if the file there now has that
  mtime, is that file. It is preserved because a write gets a later second than
  any mtime observed so far. Jobs carry the same fact for the size alone, which
  becomes the full fact when the hash is read: a torn read happens only if the
  file was written after its stat, and then its mtime differs;
* `MissedInv`: a path absent during a scan is in `missed`, and a walked path is
  still to be listed, seen, or missed. This is what justifies a sweep;
* `QuietInv`: in a scan nobody disturbs, every path listed is absent, or on its
  way as a job or result that is right, or recorded as it is;
* `FreshInv`: after a quiet scan of everything, what is Live is on disk as
  recorded, empty files excepted, and stays so through deletes;
* `CopyInv`, `RerunInv`, `RulesInv` as above, which steps of scan and user keep
  because no run is trusted that they touch.

A batch is a fold over the results (`WriteBatch`). `FoldExists` and `BatchSteps`
unfold it, so that a commit is seen as a finite row of `WriteVersion` steps and
an invariant of one step is one of the batch. Where an argument goes along a row
of numbers, it takes the least number that fails (`LeastNumber`) or the set of
those that hold (`NumbersUpTo`). That a set of versions can be sorted at all
(`Sorted` in DupePlan chooses a sorted sequence) is `CanBeSorted`.

### The walk: Walk

Any finite tree of directories, files and links, any names, any roots made of
names, `.` and `..`, any order of readdir and any changes between commands
(`WalkAssumption`; `PathMatchAssumption`: names differ, none is empty or has a
separator).

| theorem of WalkProofs | says |
|---|---|
| `EachDirectoryOnce` | `Spec => []DirOnce` |
| `WalksMissNothing` | `Spec => []WalkIsComplete` |
| `WalkTypeCorrect` | `EveryPath => (Spec => []TypeOK)` |
| `StringsFollowTree` | `IsUnder` of two strings is `IsPrefix` of the two paths |
| `SweepsFollowTree` | `EveryPath => (Spec => SweepFollowsTree)` |
| `DeletesStayInside` | `EveryPath /\ NoBackslash => (Spec => DeleteStaysInside)` |

`EveryPath` says that the database can hold every path of names, as it can; the
instance has only those that occur.

The invariant `TInv` is `IsTree(fs)` (what is somewhere is in a directory, which
every change keeps) and, while a scan runs:

* `WInv`: where no root is a link that is not followed, every directory listed
  is in `visited_dirs` and none is listed twice. The step that needs an argument
  is the entry that lstat calls a directory: the program enters its canonical
  path, so it must lead somewhere.
* `Thorough`: each entry of a directory listed is still to come in a frame, or a
  file that has been seen, or a directory that has been listed (`Covered`), and
  each root that is done is listed if it leads to a directory (`RootsListed`).
  `visited_dirs` may prune because it holds listed directories only
  (`Listings`); with the key inserted before the test it would hold one that is
  not, and `Covered` would break. `Opened` ties a frame to the directory it is
  open in, which `Covered` needs to say whose entries are left.
* `FramesHonest`: where a root leads, its normalized string does, and so for
  each path below it. A file is recorded under the normalized path, so this is
  what makes the path seen lead to it. A root with `..` behind a link is not
  honest, and `WalkIsComplete` makes its exception.
* `PlainRun`: in a plain run a path is its own location, so that what is seen
  lies below the roots and nothing else is.

When the walk is done no frame is left, so `Covered` says that the directories
listed are closed below, and `ListedIsSeen` goes down from a root to any file
(by the length of the file's path). `LastStep` and `NormalizeName` unfold the
folds of `Resolve` and `Normalize` by one component; `SameTree` shows that paths
lead to the same places as long as the tree is the same.

`DInv` adds the database: its tables are consistent, its Live paths and the jobs
are non-empty paths of names. `WrittenGood` and `SweepTakes` say what a run's
commits and its sweep do to the Live paths, whatever their order.

`StringsFollowTree` is the argument that comparing strings is comparing paths:
a string is cut at its last separator in one way only (`JoinedOnce`), so that
paths have different strings (`BodyInjective`), and a string one is under ends
where a separator is, so it is that of a shorter path (`UnderJoined`,
`UnderBody`). With `WalksMissNothing` it gives `SweepsFollowTree`.

`FilterFollowsTree` is the same for the filter of a delete, where a backslash
counts as a separator too: `NoBackslash` says that no name has one. The removals
of a run are of Live paths it selects (`RunRemoves`), and a path with no link on
its way is its own location (`UnlinkedPath`), so only a link leads outside.

### What is only model-checked

* `EndsUnlessWriterFails`: liveness under fairness is out of the prover's reach.
* `RescanIsIdle`: it compares two runs of the walk, in two orders of readdir. A
  proof needs what a run sees as a function of the tree and the roots alone,
  in overlapping and linked roots too, which is a model of the walk of its own.
* `StoredIsRead`: encoding is repeated division by a power of the base, which
  the provers have no arithmetic for, and packed lists are of any length.
* The five statements that fail need no proof: a counterexample settles them.

## 5. What the models leave out

* **Changes of the tree during a walk.** Walk changes it between commands; Scan,
  which has files only, lets the user change them at any moment.
* **`..` after a link.** `normalize_path` takes it away lexically, while the walk
  uses the path as given; the two then name different files. Walk can express
  it (`Resolve` and `Normalize` differ, `IsHonest` is the exception in
  `WalkIsComplete`), the instance has no such root, since `docs/specs.md` section
  7 asks for lexical clean-up and names no outcome.
* **Chains of links, devices, hard links.** A link leads to a directory or file
  at once. Hard links are files of equal content to the program.
* **A backslash in a name**, which `starts_with_path_prefix` takes for a
  separator: PathMatch has it, the instance has no such name.
* **Time.** Each write by the user has a second of its own. Two edits within a
  second that keep the size, or an edit that restores the mtime, are invisible
  to the program by design (`docs/specs.md` section 8).
* **Errors of redb** other than a transaction that does not commit, and panics.
* **Dry runs** of delete, which plan the same groups and change nothing, and all
  printing.
* **Hashing** itself: equal hashes are equal contents. The SHA-1 prefix is a
  field of the metadata in the `db` run, given with the content. The code reads
  it in a pass of its own before the hash (`hashing.rs:22`), so a file rewritten
  between the two passes may be recorded with the prefix of one content and the
  hash of another until it is scanned again.
* **Argument parsing, `parse_size`** (floating point) **and logging**.
* **A file `check` cannot hash**, which ends the command with an error.
* **Errors of file operations while a database is made** (`db.rs:391`, `397`,
  `402`): DbOpen has a death at the same places, which leaves the same files.
* **A delete repeated after a failure** starts from a database that is not true,
  so `LastCopyKept` does not speak of it; `NeverLastCopy` does, and fails.

## 6. Plan

Done: tables and their promise (DbTables, Db, VersionLog), the commands that
change state (World, Scan, Delete, Lifecycle), paths and the walk (PathMatch,
Walk), the pipeline and its promise, the opening, the reports and the encodings;
and the theorems of section 4, which cover every invariant and action property
of the passing runs but the three that section 4 lists with their reasons.

Left, in this order:

1. Of `StoredIsRead` the layout: that no field of the metadata blob overlaps
   another, with the conversion of a number to bytes taken as given.
2. `RescanIsIdle` for a single root, where the directories visited are those of
   one tree and the order of readdir decides nothing.
