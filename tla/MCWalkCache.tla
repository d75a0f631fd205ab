----------------------------- MODULE MCWalkCache -----------------------------
(***************************************************************************)
(* Model-checking values for WalkCache: a root and a folder, a file in    *)
(* each; the file of the root may be ignored.                              *)
(***************************************************************************)
EXTENDS WalkCacheInv

CONSTANTS Root0, Outer, Note, Deep

MCFolders == {Root0, Outer}
MCFiles   == {Note, Deep}
MCParent  == [n \in {Outer, Note, Deep} |-> IF n = Deep THEN Outer ELSE Root0]
MCAbove[n \in MCFolders \cup MCFiles] ==
    IF n = Root0 THEN {} ELSE {MCParent[n]} \cup MCAbove[MCParent[n]]
MCFilters == {{}, {Note}}
=============================================================================
