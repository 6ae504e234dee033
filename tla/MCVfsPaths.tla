------------------------------- MODULE MCVfsPaths -------------------------------
(* The paths of the run of VfsPaths: below the root and below the second mount *)
(* point /sd two names and one more under each, and /sdx, which only begins    *)
(* like it.  Next does not look at the last call, so that states are told      *)
(* apart without it; the properties see it in every step.                      *)
EXTENDS VfsPaths

MCJoined == [n \in Names |-> IF n = "sdx" THEN "x" ELSE n]
Inner == {<<"x">>, <<"y">>, <<"x", "y">>, <<"y", "y">>}
MCPaths == {<<>>, <<"sd">>, <<"sdx">>} \cup Inner \cup {<<"sd">> \o p : p \in Inner}

Files == <<fs, tree, twins>>
=============================================================================
