------------------------------- MODULE Delete -------------------------------
(***************************************************************************)
(* The delete command with --apply (delete.rs).  Without --apply it plans  *)
(* the same groups (DupePlan) and changes nothing.                         *)
(*                                                                         *)
(* The groups are read from one snapshot when the run starts.  Then, group *)
(* by group, the files to delete are removed one at a time and afterwards  *)
(* recorded as Missing in one transaction.  The first failure ends the     *)
(* run, with the current group's removals unrecorded.                      *)
(***************************************************************************)
EXTENDS World, DupePlan

CONSTANTS
  Filters,   \* the filters runs are started with
  Preserves  \* the preserve policies runs are started with

ASSUME DeleteAssumption ==
  /\ Filters \subseteq SUBSET Paths
  /\ Preserves \subseteq AllPolicies

VARIABLES
  deleting,  \* a delete runs
  filter,    \* its path filter
  preserve,  \* its policy
  groups,    \* groups not yet begun: sets of file ids
  plan,      \* versions of the current group still to remove, in path order
  removed,   \* deleted_file_ids of the current group
  trusted,   \* history: the groups were true when read, nobody else wrote
  before     \* history: the disk when the run started

deleteHistory == <<trusted, before>>
deleteVars == <<deleting, filter, preserve, groups, plan, removed, trusted, before>>

DeleteInit ==
  /\ deleting = FALSE
  /\ filter = {}
  /\ preserve = "Oldest"
  /\ groups = <<>>
  /\ plan = <<>>
  /\ removed = {}
  /\ trusted = FALSE
  /\ before = [p \in Paths |-> {}]

(* A run ends, however it does, and its variables are gone. *)
DeleteEnds ==
  /\ deleting' = FALSE
  /\ filter' = {}
  /\ preserve' = "Oldest"
  /\ groups' = <<>>
  /\ plan' = <<>>
  /\ removed' = {}
  /\ trusted' = FALSE
  /\ before' = [p \in Paths |-> {}]

-----------------------------------------------------------------------------
DeleteStart(flt, policy) ==
  /\ ~deleting
  /\ deleting' = TRUE
  /\ filter' = flt
  /\ preserve' = policy
  /\ groups' = LoadLiveDupeGroups(db, flt)
  /\ trusted' = LiveIsTrue
  /\ before' = disk
  /\ UNCHANGED <<plan, removed, worldVars>>

GroupDone == plan = <<>> /\ removed = {}

GroupsUnchanged == groups  \* mutant: the loop does not advance

GroupsLeft == Tail(groups)

PlanGroup ==
  /\ GroupDone
  /\ groups # <<>>
  /\ groups' = GroupsLeft
  /\ plan' = ByPath(db, ToDelete(db, preserve, filter, Head(groups)))
  /\ UNCHANGED <<deleting, filter, preserve, removed, worldVars, deleteHistory>>

(* remove_file succeeds. *)
RemoveFile ==
  /\ plan # <<>>
  /\ LET path == PathOf(db, Head(plan))
     IN  IsOnDisk(path) /\ disk' = [disk EXCEPT ![path] = {}]
  /\ plan' = Tail(plan)
  /\ removed' = removed \cup {Head(plan)}
  /\ UNCHANGED <<deleting, filter, preserve, groups, db, now, faults, deleteHistory>>

(* remove_file fails, on a file that is gone or by a fault, and ends the   *)
(* run: what this group removed before stays unrecorded.                   *)
RemoveFails ==
  /\ plan # <<>>
  /\ IF IsOnDisk(PathOf(db, Head(plan))) THEN Fault("remove") ELSE UNCHANGED faults
  /\ DeleteEnds
  /\ UNCHANGED <<db, disk, now>>

(* The group's removals are recorded. *)
RecordedLessLast ==  \* mutant: the last id is pushed after the call
  { f \in removed : \E g \in removed : g > f }

Recorded == removed

RecordGroup ==
  /\ plan = <<>>
  /\ removed # {}
  /\ db' = MarkFilesMissing(db, Recorded)
  /\ removed' = {}
  /\ UNCHANGED <<deleting, filter, preserve, groups, plan, disk, now, faults, deleteHistory>>

DeleteFinish ==
  /\ deleting
  /\ GroupDone
  /\ groups = <<>>
  /\ DeleteEnds
  /\ UNCHANGED worldVars

DeleteCrash ==
  /\ deleting
  /\ Fault("delete crash")
  /\ DeleteEnds
  /\ UNCHANGED <<db, disk, now>>

(* The steps of a run that goes well. *)
DeleteStep == PlanGroup \/ RemoveFile \/ RecordGroup \/ DeleteFinish

DeleteNext ==
  \/ \E flt \in Filters, policy \in Preserves : DeleteStart(flt, policy)
  \/ DeleteStep
  \/ RemoveFails
  \/ DeleteCrash

-----------------------------------------------------------------------------
(* Properties *)

(* The type invariant.  A run in progress holds nothing but versions of    *)
(* the database, each in one place only.                                   *)
DeleteTypeOK ==
  LET waiting == UNION Range(groups)
  IN  /\ deleting \in BOOLEAN
      /\ filter \in SUBSET Paths
      /\ preserve \in AllPolicies
      /\ waiting \cup Range(plan) \cup removed \subseteq DOMAIN db.file_state
      /\ IsInjective(plan)
      /\ waiting \cap Range(plan) = {}
      /\ waiting \cap removed = {}
      /\ Range(plan) \cap removed = {}
      /\ trusted \in BOOLEAN
      /\ \A p \in Paths : Cardinality(before[p]) <= 1

(* "Never delete the last copy of a file" (README.md), where the database  *)
(* was true when the groups were read and nobody else changes files: at    *)
(* every moment of the run, before or after any failure, each content that *)
(* was on disk at its start still is.                                      *)
LastCopyKept ==
  deleting /\ trusted => \A h \in Hashes : Holds(before, h) => Holds(disk, h)

(* What docs/specs.md asks of the one version k kept of a group.           *)
Preferred(policy, k, group) ==
  LET mtime(f) == db.file_meta[f].mtime_secs
      known == { f \in group : mtime(f) # 0 }
      path(f) == PathOf(db, f)
  IN  /\ policy \in {"Oldest", "Newest"} /\ known # {} => k \in known
      /\ policy = "Oldest" => \A f \in known : mtime(k) <= mtime(f)
      /\ policy = "Newest" => \A f \in known : mtime(k) >= mtime(f)
      /\ policy = "ShortestPath" => \A f \in group : PathLen[path(k)] <= PathLen[path(f)]
      /\ policy = "LongestPath" => \A f \in group : PathLen[path(k)] >= PathLen[path(f)]
      /\ policy = "AlphaFirst" => \A f \in group : PathRank[path(k)] <= PathRank[path(f)]
      /\ policy = "AlphaLast" => \A f \in group : PathRank[path(k)] >= PathRank[path(f)]

(* The rules of docs/specs.md section 13 for the duplicates of one content *)
(* at the end of a run: copies outside the filter all stay and then none   *)
(* inside does; with none outside, the preferred one stays.  The database  *)
(* has exactly the ones that stay as Live.                                 *)
RulesKept(h) ==
  LET taken == { p \in Paths : before[p] # disk[p] }
      copies == { f \in LookupFilesByHash256(db, h) :
                    \/ db.file_state[f] = Live
                    \/ f \in GetCurrentByPath(db, PathOf(db, f)) /\ PathOf(db, f) \in taken }
      kept == { f \in copies : PathOf(db, f) \notin taken }
      outside == { f \in copies : PathOf(db, f) \notin filter }
  IN  /\ kept = { f \in copies : db.file_state[f] = Live }
      /\ IF Cardinality(copies) < 2 \/ outside = copies THEN kept = copies
         ELSE IF outside # {} THEN kept = outside
         ELSE \E k \in copies : kept = {k} /\ Preferred(preserve, k, copies)

(* A run that finishes, on a true database and a disk nobody else touches, *)
(* has followed the rules for every content.                               *)
OutcomeByRules ==
  [][DeleteFinish /\ trusted => \A h \in Hashes : RulesKept(h)]_<<worldVars, deleteVars>>

(* A run that finishes leaves the same command nothing to do: the same     *)
(* delete run again finds no group, however stale the database was.        *)
RerunFindsNothing ==
  [][DeleteFinish => DupeGroups(db', filter) = {}]_<<worldVars, deleteVars>>

(* "The tool will never delete the last copy of a file" (README.md), as it *)
(* stands: no removal by a delete run takes the last copy of a non-empty   *)
(* content.  Some runs refute it.                                          *)
NeverLastCopy ==
  [][ RemoveFile => \A h \in Hashes :
        SizeOf[h] > 0 /\ Holds(disk, h) => Holds(disk', h) ]_<<worldVars, deleteVars>>
=============================================================================
