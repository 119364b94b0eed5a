----------------------------- MODULE PathMatch ------------------------------
(***************************************************************************)
(* Paths, as the program compares them (path_utils.rs, path_filter.rs,     *)
(* is_under_any_root of db.rs).                                            *)
(*                                                                         *)
(* A path is the sequence of its components; paths here are absolute, as   *)
(* normalize_path makes them first.  Str is its string, a sequence of      *)
(* tokens in which "/" is the separator and Spelling gives the others, so  *)
(* that one name can be the beginning of another.                          *)
(***************************************************************************)
EXTENDS Naturals, Sequences, SequencesExt

CONSTANT
  Spelling  \* the tokens of each name

Tokens == {"/"} \cup UNION { Range(Spelling[n]) : n \in DOMAIN Spelling }

(* Names differ, none is empty, and none contains the separator.           *)
ASSUME PathMatchAssumption ==
  /\ IsInjective(Spelling)
  /\ \A n \in DOMAIN Spelling :
       /\ Spelling[n] \in Seq(Tokens)
       /\ Spelling[n] # <<>>
       /\ "/" \notin Range(Spelling[n])

(* lexical_normalize: ".." takes the last component away, and nothing from *)
(* the root; what the components are on disk is not asked.                 *)
Normalize(raw) ==
  FoldLeft(LAMBDA out, c :
             CASE c = "."  -> out
               [] c = ".." -> IF out = <<>> THEN out ELSE Front(out)
               [] OTHER    -> Append(out, c),
           <<>>, raw)

Str(path) ==
  IF path = <<>> THEN <<"/">>
  ELSE FoldLeft(LAMBDA s, c : s \o <<"/">> \o Spelling[c], <<>>, path)

(* The byte after a prefix of a string, as an Option. *)
After(s, prefix) ==
  IF Len(s) > Len(prefix) THEN {s[Len(prefix) + 1]} ELSE {}

(* is_under_any_root, on strings. *)
IsBehind(s, root) == IsPrefix(root, s)  \* mutant: no test for the separator

IsUnder(s, root) ==
  \/ s = root
  \/ IsPrefix(root, s) /\ After(s, root) = {"/"}

IsUnderAnyRoot(s, roots) == \E root \in roots : IsUnder(s, root)

(* A PathFilter: its prefixes, and the strings it matches.                 *)
FilterPrefix(raw) ==
  LET s == Str(Normalize(raw))
  IN  IF Last(s) = "/" THEN Front(s) ELSE s

StartsWithAnyPrefix(s, prefix) == IsPrefix(prefix, s)  \* mutant: no boundary check

StartsWithPathPrefix(s, prefix) ==
  \/ s = prefix
  \/ IsPrefix(prefix, s) /\ After(s, prefix) \subseteq {"/", "\\"} /\ After(s, prefix) # {}

Matches(prefixes, s) ==
  prefixes = {} \/ \E p \in prefixes : StartsWithPathPrefix(s, p)
=============================================================================
