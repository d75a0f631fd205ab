----------------------------- MODULE MCFileSync -----------------------------
(***************************************************************************)
(* Model-checking values for FileSync: two sizes (empty and not), writes   *)
(* far enough apart for the remote mtime tolerance, every way a remote     *)
(* write can reach iCloud.                                                 *)
(***************************************************************************)
EXTENDS FileSyncInv

MCSizes     == {0, 1}
MCApart     == {MTimeTol + 1}
MCAllStages == {"full", "unready", "husk"}
=============================================================================
