------------------------------- MODULE MCWalk -------------------------------
(* /r with a file g, a directory d with a file f, and a link l; beside it  *)
(* /rd with a file f.  The user may take files away, and put a link to the *)
(* file, to the directory d, to /r itself or to /rd in place of l.         *)
EXTENDS Walk

MCSpelling == [r |-> <<"r">>, rd |-> <<"r", "d">>, d |-> <<"d">>, f |-> <<"f">>,
               g |-> <<"g">>, l |-> <<"l">>]
R == <<"r">>
RD == <<"rd">>
D == <<"r", "d">>
F == <<"r", "d", "f">>
G == <<"r", "g">>
L == <<"r", "l">>
LF == <<"r", "l", "f">>
LG == <<"r", "l", "g">>
LDF == <<"r", "l", "d", "f">>
RDF == <<"rd", "f">>

MCOrder == <<F, G, L, LDF, LF, LG, RDF>>
MCPaths == Range(MCOrder)
MCRank == [p \in MCPaths |-> CHOOSE i \in DOMAIN MCOrder : MCOrder[i] = p]
MCLen == [p \in MCPaths |-> Len(Str(p))]

MCLocations == {<<>>, R, RD, D, F, G, L, RDF}
MCTree == [l \in MCLocations |-> IF l \in {<<>>, R, RD, D} THEN Dir
                                 ELSE IF l = L THEN Nothing ELSE File]
OnlyG == [MCTree EXCEPT ![F] = Nothing, ![RDF] = Nothing]
MCUserPuts == [l \in {F, G, L, RDF} |->
                IF l = L THEN {Nothing, File, LinkTo(D), LinkTo(G), LinkTo(R), LinkTo(RD)}
                ELSE {Nothing, File}]

MCMetas == { [size |-> 1, mtime_secs |-> 1, hash256 |-> "h"] }

Run(rs) == [roots |-> rs, follow |-> FALSE, recursive |-> TRUE]
Plainly == { Run(<<R>>), Run(<< <<>> >>), Run(<<D, R>>), Run(<<D \o <<"..">>, G>>) }
Linked == { Run(<<L, R>>), [Run(<<R, L>>) EXCEPT !.follow = TRUE] }
Shallow == { [Run(<<R>>) EXCEPT !.recursive = FALSE] }

MCOptions == Plainly \cup Linked \cup Shallow
MCFilters == {{}, {R}, {D}}
Unfollowing == Plainly \cup Shallow
=============================================================================
