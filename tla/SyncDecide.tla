----------------------------- MODULE SyncDecide -----------------------------
(***************************************************************************)
(* The decision layer of the sync engine (ifolder_sync/syncer.py): the     *)
(* signatures the engine compares, what "changed" means on each side, and  *)
(* the operation it chooses for one file path from the three-way diff      *)
(* (local entry, remote entry, baseline row).  Constant-level operators    *)
(* only; FileSync gives them a state.                                      *)
(*                                                                         *)
(* A local entry is [size, mtime], a remote entry [size, mtime, etag], a   *)
(* baseline row [lsize, lmtime, rsize, rmtime, etag]; None stands for "no  *)
(* such entry".  Times are abstract integer ticks.  Etag 0 is the empty    *)
(* string: an upload records it, and a row so recorded never compares.     *)
(***************************************************************************)
EXTENDS Integers

CONSTANTS
    None,         \* the absent entry or row
    MTimeTol,     \* MTIME_TOL, in ticks, for the remote side
    VerifyEtag    \* config.verify_remote_etag

LocalEntry  == [size: Nat, mtime: Nat]
RemoteEntry == [size: Nat, mtime: Nat, etag: Nat]
BaseRow     == [lsize: Nat, lmtime: Nat, rsize: Nat, rmtime: Nat, etag: Nat]

ASSUME DecideAssumption ==
    /\ None \notin LocalEntry \cup RemoteEntry \cup BaseRow
    /\ MTimeTol \in Nat
    /\ VerifyEtag \in BOOLEAN

MTimeTolLocal == 0

FileOps == { "upload", "download", "conflict", "rescue_upload",
             "rescue_download", "delete_local", "delete_remote",
             "settle_wait", "record", "verify_adopt", "drop_baseline" }

FileDestructive == { "delete_local", "delete_remote" }

-----------------------------------------------------------------------------
Distance(a, b) == IF a >= b THEN a - b ELSE b - a

Changed(size, mtime, baseSize, baseMTime, tol) ==
    \/ size # baseSize
    \/ Distance(mtime, baseMTime) > tol

LocalMoved(le, base) ==
    Changed(le.size, le.mtime, base.lsize, base.lmtime, MTimeTolLocal)

\* Mutant of RemoteMoved: the remote mtime is not compared.
RemoteMovedBySize(re, base) == re.size # base.rsize

RemoteMoved(re, base) ==
    Changed(re.size, re.mtime, base.rsize, base.rmtime, MTimeTol)

LocalChanged(le, base) == le # None /\ (base = None \/ LocalMoved(le, base))

RemoteChanged(re, base) == re # None /\ (base = None \/ RemoteMoved(re, base))

\* Same size and mtime, but iCloud's etag moved: a silent remote rewrite.
EtagMoved(re, base) ==
    /\ VerifyEtag
    /\ base # None
    /\ base.etag # 0 /\ re.etag # 0 /\ base.etag # re.etag

-----------------------------------------------------------------------------
\* A path the baseline never saw, present on both sides.
DecideFirstSight(le, re, converges) ==
    IF converges THEN "conflict"
    ELSE IF le.size = re.size /\ Distance(le.mtime, re.mtime) <= MTimeTol
         THEN "verify_adopt"
    ELSE IF re.size = 0 /\ le.size > 0 THEN "settle_wait"
    ELSE "conflict"

\* Only the remote side moved: wait for a husk, otherwise fetch it.
DecideRemoteOnlyMoved(le, re, base, converges) ==
    IF re.size = 0 /\ le.size > 0 /\ base.rsize > 0 THEN "settle_wait"
    ELSE IF converges THEN "conflict"
    ELSE "download"

DecideBothPresent(le, re, base, converges) ==
    IF LocalChanged(le, base) /\ RemoteChanged(re, base)
    THEN IF base = None THEN DecideFirstSight(le, re, converges) ELSE "conflict"
    ELSE IF LocalChanged(le, base) THEN "upload"
    ELSE IF RemoteChanged(re, base)
         THEN DecideRemoteOnlyMoved(le, re, base, converges)
    ELSE IF EtagMoved(re, base)
         THEN IF converges THEN "conflict" ELSE "download"
    ELSE "record"

DecideLocalOnly(le, base) ==
    IF base = None THEN "upload"
    ELSE IF LocalMoved(le, base) THEN "rescue_upload" ELSE "delete_local"

DecideRemoteOnly(re, base) ==
    IF base = None THEN "download"
    ELSE IF RemoteMoved(re, base) THEN "rescue_download" ELSE "delete_remote"

(* converges is _unreadable_converges: an unreadable remote outlasted its  *)
(* escalation window and a good local side could win.                      *)
DecideFile(le, re, base, converges) ==
    IF le # None /\ re # None THEN DecideBothPresent(le, re, base, converges)
    ELSE IF le # None THEN DecideLocalOnly(le, base)
    ELSE IF re # None THEN DecideRemoteOnly(re, base)
    ELSE "drop_baseline"
=============================================================================
