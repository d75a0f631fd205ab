----------------------------- MODULE MCTreeSync -----------------------------
(***************************************************************************)
(* Model-checking values for TreeSync: a folder with a file and a folder   *)
(* with a file, a case twin of the first file, which only iCloud starts    *)
(* to hold when a user makes it, and a residue file the ignore set hides.  *)
(***************************************************************************)
EXTENDS TreeSyncInv

CONSTANTS Outer, Inner, Note, Twin, Deep, Junk

MCPaths   == {Outer, Inner, Note, Twin, Deep, Junk}
MCAbove   == [p \in MCPaths |-> IF p = Outer THEN {}
                                ELSE IF p = Deep THEN {Outer, Inner} ELSE {Outer}]
MCFolders == {Outer, Inner}
MCFiles   == {Note, Twin, Deep, Junk}
MCFold    == [p \in MCPaths |-> IF p = Twin THEN Note ELSE p]
MCIgnored == {Junk}
MCStart   == {Outer, Inner, Note, Deep, Junk}
=============================================================================
