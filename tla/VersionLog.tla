----------------------------- MODULE VersionLog -----------------------------
(***************************************************************************)
(* What the database of deldupes promises: a log of the file versions ever *)
(* recorded, that only grows at its end, and the set of paths whose latest *)
(* version is Live.  Tables, ids and transactions are details below it.    *)
(***************************************************************************)
EXTENDS Naturals

VARIABLES
  log,   \* the versions, a sequence of records with path and meta
  live   \* the paths that are Live

logVars == <<log, live>>

LogInit ==
  /\ log = [i \in 1..0 |-> i]
  /\ live = {}

(* Versions are recorded behind all others, and make their paths Live.     *)
Record ==
  /\ DOMAIN log \subseteq DOMAIN log'
  /\ \A i \in DOMAIN log : log'[i] = log[i]
  /\ live' = live \cup { log'[i].path : i \in DOMAIN log' \ DOMAIN log }

(* Paths are found or made to be absent. *)
Lose ==
  /\ live' \subseteq live
  /\ log' = log

LogSpec == LogInit /\ [][Record \/ Lose]_logVars

(* The paths that are duplicates of each other by the latest versions.     *)
IsLatest(i) == \A j \in DOMAIN log : j > i => log[j].path # log[i].path

Copies(hash) ==
  { log[i].path : i \in { j \in DOMAIN log : /\ IsLatest(j)
                                             /\ log[j].path \in live
                                             /\ log[j].meta.hash256 = hash } }
=============================================================================
