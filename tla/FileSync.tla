------------------------------ MODULE FileSync ------------------------------
(***************************************************************************)
(* One file path under the sync engine (ifolder_sync/syncer.py), with the  *)
(* iCloud client operations it calls (icloud_client.py), the local trash   *)
(* (trash.py) and the baseline rows and meta counters it persists          *)
(* (state.py).  A pass scans the local side, lists the remote side,        *)
(* decides (SyncDecide) and applies the decision one I/O step at a time;   *)
(* between any two of those steps a user may edit or delete the file on    *)
(* either side, a transfer may fail, or the process may die and restart.   *)
(*                                                                         *)
(* The bytes a user wrote are a body [size, mtime]: the clock gives every  *)
(* write its own mtime, so a body is its birth signature.  The vault copy  *)
(* carries the mtime the file system reports, the remote copy the one the  *)
(* client stamped.  A remote copy has a stage: "full", "unready" (the      *)
(* record lists its size, the blob is not there yet) or "husk" (the record *)
(* lists 0 bytes until the content arrives).                               *)
(***************************************************************************)
EXTENDS SyncDecide, FiniteSets

CONSTANTS
    Policy,              \* config.conflict_policy
    RemoteTrash,         \* config.remote_trash
    SettleMaxPasses,     \* config.settle_max_passes
    UnreadableMaxPasses, \* config.unreadable_max_passes
    DownloadMaxFails,    \* DOWNLOAD_MAX_FAILS
    Sizes,               \* sizes a user may write
    Gaps,                \* ticks between two user writes
    Stages,              \* how another device's write reaches iCloud
    MaxEdits,            \* bound on the users' writes and deletions
    MaxMishaps           \* bound on network faults and kills

ASSUME FileSyncAssumption ==
    /\ Policy \in {"newer", "local", "remote", "both"}
    /\ RemoteTrash \in BOOLEAN
    /\ SettleMaxPasses \in Nat \ {0}
    /\ UnreadableMaxPasses \in Nat \ {0}
    /\ DownloadMaxFails \in Nat \ {0}
    /\ Sizes \subseteq Nat
    /\ Gaps \subseteq Nat \ {0}
    /\ Stages \subseteq {"full", "unready", "husk"}
    /\ MaxEdits \in Nat /\ MaxMishaps \in Nat

VARIABLES
    \* the vault's disk
    local,      \* the file at the path, or None
    ltrash,     \* bodies under state/<profile>/trash
    copies,     \* bodies in .conflict-<stamp> files or duplicate names
    \* iCloud
    remote,     \* the file at the path, or None
    rtrash,     \* bodies in Recently Deleted
    rev,        \* the last etag iCloud handed out
    \* the state store
    base,       \* the baseline row, or None
    settle,     \* meta settle_counts of the path
    unread,     \* meta unreadable_counts of the path
    \* the process
    pc, op,     \* the step of the pass, the operation decided
    le, re,     \* the pass's snapshots of the two sides
    buf,        \* the .part file, upload snapshot or probe temporary
    boot,       \* the next pass is a daemon's bootstrap pass
    dlfail,     \* _download_fail of the path
    \* the environment and history
    now, edits, mishaps,
    owed,       \* non-empty bodies no user has replaced or deleted
    slipped,    \* vault writes a download replaced or recorded as its own
    lgone,      \* who made the vault path absent: "user" or "engine"
    rgone       \* who made the remote path absent: "user", "engine", "valve"

disk   == <<local, ltrash, copies>>
cloud  == <<remote, rtrash, rev>>
meta   == <<settle, unread>>
world  == <<now, edits, owed, slipped>>
gone   == <<lgone, rgone>>
vars   == <<disk, cloud, base, meta, pc, op, le, re, buf, boot, dlfail,
            world, mishaps, gone>>

-----------------------------------------------------------------------------
Body       == [size: Nat, mtime: Nat]
LocalFile  == [body: Body, mtime: Nat]
RemoteFile == [body: Body, mtime: Nat, etag: Nat,
               stage: {"full", "unready", "husk"}]
UnreadRow  == [size: Nat, mtime: Nat, etag: Nat, count: Nat]
FailRow    == [size: Nat, mtime: Nat, count: Nat]

ASSUME NoneAssumption ==
    None \notin LocalFile \cup RemoteFile \cup UnreadRow \cup FailRow

PassSteps == { "scanned", "record", "drop", "del_local", "del_remote",
               "del_commit", "up_snap", "up_remove", "up_send", "up_commit",
               "dn_fetch", "dn_install", "dn_stamp", "vf_fetch",
               "vf_compare", "cf_probe", "cf_backup", "cf_aside" }

Stat(f)  == IF f = None THEN None ELSE [size |-> f.body.size, mtime |-> f.mtime]

ListedSize(f) == IF f.stage = "husk" THEN 0 ELSE f.body.size

Listing(f) == IF f = None THEN None
              ELSE [size |-> ListedSize(f), mtime |-> f.mtime, etag |-> f.etag]

Row(l, r, etag) == [lsize |-> l.size, lmtime |-> l.mtime,
                    rsize |-> r.size, rmtime |-> r.mtime, etag |-> etag]

\* Bodies recoverable at a place other than the vault path.
RemoteBodies  == IF remote # None /\ remote.stage = "full" THEN {remote.body} ELSE {}
StoredBodies  == RemoteBodies \cup rtrash \cup ltrash \cup copies
LocalBodies   == IF local = None THEN {} ELSE {local.body}

NonEmpty(b) == IF b.size > 0 THEN {b} ELSE {}

BodyOf(f) == IF f = None THEN {} ELSE {f.body}

-----------------------------------------------------------------------------
\* The start: a path in sync, on one side, or on both sides but unknown.
InitPlace(b1, b2) ==
    LET lf(b) == [body |-> b, mtime |-> b.mtime]
        rf(b) == [body |-> b, mtime |-> b.mtime, etag |-> 1, stage |-> "full"]
    IN  \/ /\ local = lf(b1) /\ remote = rf(b1)
           /\ base = Row(Stat(lf(b1)), Listing(rf(b1)), 1)
        \/ local = lf(b1) /\ remote = rf(b2) /\ base = None
        \/ local = lf(b1) /\ remote = None /\ base = None
        \/ local = None /\ remote = rf(b1) /\ base = None

Init ==
    /\ \E s1, s2 \in Sizes, t2 \in {1, 1 + MTimeTol} :
          /\ t2 = 1 => s1 = s2
          /\ InitPlace([size |-> s1, mtime |-> 1], [size |-> s2, mtime |-> t2])
          /\ now = t2
    /\ ltrash = {} /\ copies = {} /\ rtrash = {} /\ rev = 1
    /\ settle = 0 /\ unread = None
    /\ pc = "idle" /\ op = None /\ le = None /\ re = None /\ buf = None
    /\ boot = TRUE /\ dlfail = None
    /\ edits = 0 /\ mishaps = 0
    /\ owed = UNION { NonEmpty(b) : b \in BodyOf(local) \cup BodyOf(remote) }
    /\ slipped = {} /\ lgone = "user" /\ rgone = "user"

-----------------------------------------------------------------------------
\* The users.  A user who replaces or deletes a body no longer needs it.
LocalEdit(size, gap) ==
    /\ edits < MaxEdits
    /\ edits' = edits + 1
    /\ now' = now + gap
    /\ LET b == [size |-> size, mtime |-> now + gap]
       IN  /\ local' = [body |-> b, mtime |-> now + gap]
           /\ owed' = (owed \ LocalBodies) \cup NonEmpty(b)
    /\ UNCHANGED <<ltrash, copies, cloud, base, meta, pc, op, le, re, buf,
                   boot, dlfail, slipped, mishaps, gone>>

LocalDelete ==
    /\ edits < MaxEdits
    /\ local # None
    /\ edits' = edits + 1
    /\ local' = None
    /\ owed' = owed \ LocalBodies
    /\ lgone' = "user"
    /\ UNCHANGED <<ltrash, copies, cloud, base, meta, pc, op, le, re, buf,
                   boot, dlfail, now, slipped, mishaps, rgone>>

\* Another device writes the path.  Until its content is in iCloud that
\* device still holds it, so the body is owed from "full" on.
RemoteEdit(size, gap, stage) ==
    /\ edits < MaxEdits
    /\ stage # "full" => size > 0
    /\ edits' = edits + 1
    /\ now' = now + gap
    /\ rev' = rev + 1
    /\ LET b == [size |-> size, mtime |-> now + gap]
       IN  /\ remote' = [body |-> b, mtime |-> now + gap, etag |-> rev + 1,
                         stage |-> stage]
           /\ owed' = (owed \ BodyOf(remote)) \cup
                      (IF stage = "full" THEN NonEmpty(b) ELSE {})
    /\ UNCHANGED <<disk, rtrash, base, meta, pc, op, le, re, buf, boot, dlfail,
                   slipped, mishaps, gone>>

RemoteDelete ==
    /\ edits < MaxEdits
    /\ remote # None
    /\ edits' = edits + 1
    /\ remote' = None
    /\ owed' = owed \ BodyOf(remote)
    /\ rgone' = "user"
    /\ UNCHANGED <<disk, rtrash, rev, base, meta, pc, op, le, re, buf, boot,
                   dlfail, now, slipped, mishaps, lgone>>

\* The content of a published record arrives; a husk's record is rewritten.
Materialize ==
    /\ remote # None
    /\ remote.stage # "full"
    /\ rev' = IF remote.stage = "husk" THEN rev + 1 ELSE rev
    /\ remote' = [remote EXCEPT !.stage = "full", !.etag = rev']
    /\ owed' = owed \cup NonEmpty(remote.body)
    /\ UNCHANGED <<disk, rtrash, base, meta, pc, op, le, re, buf, boot, dlfail,
                   now, edits, slipped, mishaps, gone>>

-----------------------------------------------------------------------------
\* The end of the path's turn: the pass's registers are gone, and only the
\* first pass of a daemon defers deletions.
EndPass ==
    /\ pc' = "idle" /\ op' = None
    /\ le' = None /\ re' = None /\ buf' = None
    /\ boot' = FALSE

Goto(step) == pc' = step /\ UNCHANGED <<le, re, boot>>

Fault == mishaps < MaxMishaps /\ mishaps' = mishaps + 1

CountTo(max, n) == IF n < max THEN n + 1 ELSE max

-----------------------------------------------------------------------------
\* Unreadable-remote escalation: one counter per remote signature.
UnreadMatches(r) ==
    /\ unread # None
    /\ unread.size = r.size
    /\ Distance(unread.mtime, r.mtime) <= MTimeTol
    /\ unread.etag = r.etag

Escalated(r) == UnreadMatches(r) /\ unread.count >= UnreadableMaxPasses

Converges(l, r) == l # None /\ r # None /\ l.size > 0 /\ Escalated(r)

\* _defer_unreadable: count the deferral, leave the baseline alone.
DeferUnreadable ==
    /\ unread' = [size |-> re.size, mtime |-> re.mtime, etag |-> re.etag,
                  count |-> IF UnreadMatches(re)
                            THEN CountTo(UnreadableMaxPasses, unread.count) ELSE 1]
    /\ EndPass

\* Download backoff, in memory only.
FailMatches(r) ==
    /\ dlfail # None
    /\ dlfail.size = r.size
    /\ Distance(dlfail.mtime, r.mtime) <= MTimeTol

BackedOff(r) == FailMatches(r) /\ dlfail.count >= DownloadMaxFails

NoteDownloadFailure ==
    dlfail' = [size |-> re.size, mtime |-> re.mtime,
               count |-> IF FailMatches(re)
                         THEN CountTo(DownloadMaxFails, dlfail.count) ELSE 1]

-----------------------------------------------------------------------------
\* Scan and decide.
ScanLocal ==
    /\ pc = "idle"
    /\ pc' = "scanned"
    /\ le' = Stat(local)
    /\ UNCHANGED <<disk, cloud, base, meta, op, re, buf, boot, dlfail, world,
                   mishaps, gone>>

\* The first I/O step of an operation; None when the pass leaves the path be.
FirstStep(o) ==
    IF o \in {"upload", "rescue_upload"} THEN "up_snap"
    ELSE IF o \in {"download", "rescue_download"} THEN "dn_fetch"
    ELSE IF o = "conflict" THEN "cf_probe"
    ELSE IF o = "verify_adopt" THEN "vf_fetch"
    ELSE IF o = "delete_local" /\ ~boot THEN "del_local"
    ELSE IF o = "delete_remote" /\ ~boot THEN "del_remote"
    ELSE IF o = "record" THEN "record"
    ELSE IF o = "drop_baseline" THEN "drop"
    ELSE None

\* Mutant of EscalateSettle: the engine waits for a husk for ever.
NeverEscalateSettle(o) == o

\* _escalate_settle: a wait that reaches its limit becomes a conflict.
EscalateSettle(o) ==
    IF o = "settle_wait" /\ settle + 1 >= SettleMaxPasses THEN "conflict" ELSE o

ScanRemote ==
    /\ pc = "scanned"
    /\ le # None \/ remote # None \/ base # None
    /\ LET r == Listing(remote)
           d == DecideFile(le, r, base, Converges(le, r))
           o == EscalateSettle(d)
       IN  /\ settle' = IF d = "settle_wait"
                        THEN CountTo(SettleMaxPasses, settle) ELSE 0
           /\ IF FirstStep(o) = None
              THEN EndPass
              ELSE /\ op' = o /\ re' = r /\ pc' = FirstStep(o)
                   /\ UNCHANGED <<le, buf, boot>>
    /\ UNCHANGED <<disk, cloud, base, unread, dlfail, world, mishaps, gone>>

\* A path no side knows is not in the pass.
ScanNothing ==
    /\ pc = "scanned"
    /\ le = None /\ remote = None /\ base = None
    /\ settle' = 0
    /\ EndPass
    /\ UNCHANGED <<disk, cloud, base, unread, dlfail, world, mishaps, gone>>

\* The walk guards: a failed scan aborts the pass with no action.
AbortScan ==
    /\ pc = "scanned"
    /\ Fault
    /\ EndPass
    /\ UNCHANGED <<disk, cloud, base, meta, dlfail, world, gone>>

-----------------------------------------------------------------------------
\* Baseline-only operations.
ApplyRecord ==
    /\ pc = "record"
    /\ base' = Row(le, re, re.etag)
    /\ EndPass
    /\ UNCHANGED <<disk, cloud, meta, dlfail, world, mishaps, gone>>

ApplyDropBaseline ==
    /\ pc = "drop"
    /\ base' = None
    /\ EndPass
    /\ UNCHANGED <<disk, cloud, meta, dlfail, world, mishaps, gone>>

\* Deletions: the file goes to its side's trash, then the row is dropped.
DeleteLocalFile ==
    /\ pc = "del_local"
    /\ ltrash' = ltrash \cup LocalBodies
    /\ local' = None
    /\ lgone' = IF local # None THEN "engine" ELSE lgone
    /\ Goto("del_commit")
    /\ UNCHANGED <<copies, cloud, base, meta, op, buf, dlfail, world, mishaps,
                   rgone>>

DeleteRemoteFile ==
    /\ pc = "del_remote"
    /\ rtrash' = IF RemoteTrash THEN rtrash \cup BodyOf(remote) ELSE rtrash
    /\ remote' = None
    /\ rgone' = IF remote # None THEN "engine" ELSE rgone
    /\ Goto("del_commit")
    /\ UNCHANGED <<disk, rev, base, meta, op, buf, dlfail, world, mishaps, lgone>>

DeleteFails ==
    /\ pc \in {"del_local", "del_remote"}
    /\ Fault
    /\ EndPass
    /\ UNCHANGED <<disk, cloud, base, meta, dlfail, world, gone>>

CommitDelete ==
    /\ pc = "del_commit"
    /\ base' = None
    /\ EndPass
    /\ UNCHANGED <<disk, cloud, meta, dlfail, world, mishaps, gone>>

-----------------------------------------------------------------------------
(* Fetching a body (client.download).  The client knows the size from the  *)
(* listing of this pass or from a fresher one, checks the bytes received   *)
(* against it unless it is 0, and calls an empty answer unreadable.        *)
Served   == IF remote.stage = "full" THEN remote.body
            ELSE [remote.body EXCEPT !.size = 0]
Expected == {re.size, ListedSize(remote)}

FetchGood ==
    /\ remote # None
    /\ \E n \in Expected : n = 0 \/ Served.size = n

FetchUnreadable ==
    /\ remote # None
    /\ Served.size = 0
    /\ \E n \in Expected : n # 0

\* A dropped stream, a size mismatch or a vanished node.
FetchFails ==
    \/ Fault
    \/ /\ \/ remote = None
          \/ /\ remote # None
             /\ Served.size # 0
             /\ \E n \in Expected : n # 0 /\ Served.size # n
       /\ UNCHANGED mishaps

Fetching == <<disk, cloud, base, settle, world, gone>>

-----------------------------------------------------------------------------
\* _do_upload: freeze a snapshot, move the old remote aside, send, record.

\* Mutant of SnapshotForUpload: a source that vanished is not noticed.
SnapshotUnchecked ==
    /\ pc = "up_snap"
    /\ buf' = local /\ UNCHANGED op /\ Goto("up_remove")
    /\ UNCHANGED <<disk, cloud, base, meta, dlfail, world, mishaps, gone>>

SnapshotForUpload ==
    /\ pc = "up_snap"
    /\ IF local = None
       THEN EndPass
       ELSE buf' = local /\ UNCHANGED op /\ Goto("up_remove")
    /\ UNCHANGED <<disk, cloud, base, meta, dlfail, world, mishaps, gone>>

\* The local side has not moved since the baseline, yet it is uploaded: only
\* the husk and unreadable-remote valves do that.
LocalUnmoved == base # None /\ le # None /\ ~LocalMoved(le, base)

\* Mutant of UploadRemove: the row is recorded before the bytes are sent.
UploadRemoveRecorded ==
    /\ pc = "up_remove"
    /\ rtrash' = IF RemoteTrash THEN rtrash \cup BodyOf(remote) ELSE rtrash
    /\ remote' = None
    /\ rgone' = IF remote = None THEN rgone
                ELSE IF LocalUnmoved THEN "valve" ELSE "engine"
    /\ base' = Row(Stat(buf), Stat(buf), 0)
    /\ Goto("up_send")
    /\ UNCHANGED <<disk, rev, meta, op, buf, dlfail, world, mishaps, lgone>>

\* _remove_existing, when the node is found.
UploadRemove ==
    /\ pc = "up_remove"
    /\ rtrash' = IF RemoteTrash THEN rtrash \cup BodyOf(remote) ELSE rtrash
    /\ remote' = None
    /\ rgone' = IF remote = None THEN rgone
                ELSE IF LocalUnmoved THEN "valve" ELSE "engine"
    /\ Goto("up_send")
    /\ UNCHANGED <<disk, rev, base, meta, op, buf, dlfail, world, mishaps, lgone>>

\* A path created since the listing is not in the cached children: it stays,
\* and the upload makes a second entry beside it.
UploadMissesExisting ==
    /\ pc = "up_remove"
    /\ re = None /\ remote # None
    /\ Goto("up_send")
    /\ UNCHANGED <<disk, cloud, base, meta, op, buf, dlfail, world, mishaps, gone>>

UploadSend ==
    /\ pc = "up_send"
    /\ copies' = copies \cup BodyOf(remote)
    /\ rev' = rev + 1
    /\ remote' = [body |-> buf.body, mtime |-> buf.mtime, etag |-> rev + 1,
                  stage |-> "full"]
    /\ Goto("up_commit")
    /\ UNCHANGED <<local, ltrash, rtrash, base, meta, op, buf, dlfail, world,
                   mishaps, gone>>

UploadFails ==
    /\ pc \in {"up_remove", "up_send"}
    /\ Fault
    /\ EndPass
    /\ UNCHANGED <<disk, cloud, base, meta, dlfail, world, gone>>

\* The row takes the snapshot's signature on both sides and no etag.
UploadCommit ==
    /\ pc = "up_commit"
    /\ base' = Row(Stat(buf), Stat(buf), 0)
    /\ unread' = IF op = "conflict" THEN None ELSE unread
    /\ EndPass
    /\ UNCHANGED <<disk, cloud, settle, dlfail, world, mishaps, gone>>

-----------------------------------------------------------------------------
\* _do_download: fetch into .part, replace the file, stamp its mtime, record.
DownloadSkip ==
    /\ pc = "dn_fetch"
    /\ BackedOff(re)
    /\ EndPass
    /\ UNCHANGED <<disk, cloud, base, meta, dlfail, world, mishaps, gone>>

DownloadFetch ==
    /\ pc = "dn_fetch"
    /\ ~BackedOff(re)
    /\ FetchGood
    /\ buf' = [body |-> Served, mtime |-> re.mtime]
    /\ Goto("dn_install")
    /\ UNCHANGED <<Fetching, unread, op, dlfail, mishaps>>

DownloadUnreadable ==
    /\ pc = "dn_fetch"
    /\ ~BackedOff(re)
    /\ FetchUnreadable
    /\ DeferUnreadable
    /\ UNCHANGED <<Fetching, dlfail, mishaps>>

DownloadFails ==
    /\ pc = "dn_fetch"
    /\ ~BackedOff(re)
    /\ FetchFails
    /\ NoteDownloadFailure
    /\ EndPass
    /\ UNCHANGED <<Fetching, unread>>

\* os.replace: whatever is at the path now is gone, a write that landed since
\* the scan included.
DownloadInstall ==
    /\ pc = "dn_install"
    /\ now' = now + 1
    /\ local' = [body |-> buf.body, mtime |-> now + 1]
    /\ slipped' = IF Stat(local) = le THEN slipped ELSE slipped \cup LocalBodies
    /\ Goto("dn_stamp")
    /\ UNCHANGED <<ltrash, copies, cloud, base, meta, op, buf, dlfail, edits,
                   owed, mishaps, gone>>

\* os.utime to the listed mtime, re-stat, record what is on disk: a write that
\* landed since the replace is recorded as the download.
DownloadStamp ==
    /\ pc = "dn_stamp"
    /\ IF local = None
       THEN UNCHANGED <<local, base>>
       ELSE /\ local' = [local EXCEPT !.mtime = re.mtime]
            /\ base' = Row(Stat(local'), re, re.etag)
    /\ slipped' = slipped \cup (LocalBodies \ {buf.body})
    /\ unread' = None
    /\ dlfail' = None
    /\ EndPass
    /\ UNCHANGED <<ltrash, copies, cloud, settle, now, edits, owed, mishaps, gone>>

-----------------------------------------------------------------------------
\* _verify_adopt: fetch the remote and compare the bytes with the file.
VerifyFetch ==
    /\ pc = "vf_fetch"
    /\ FetchGood
    /\ buf' = [body |-> Served, mtime |-> re.mtime]
    /\ Goto("vf_compare")
    /\ UNCHANGED <<Fetching, unread, op, dlfail, mishaps>>

VerifyUnreadable ==
    /\ pc = "vf_fetch"
    /\ FetchUnreadable
    /\ DeferUnreadable
    /\ UNCHANGED <<Fetching, dlfail, mishaps>>

VerifyFails ==
    /\ pc = "vf_fetch"
    /\ FetchFails
    /\ op' = "conflict"
    /\ Goto("cf_probe")
    /\ UNCHANGED <<Fetching, unread, buf, dlfail>>

\* Mutant of Identical: equal sizes are taken for equal bytes.
IdenticalBySize == local # None /\ local.body.size = buf.body.size

Identical == local # None /\ local.body = buf.body

VerifyCompare ==
    /\ pc = "vf_compare"
    /\ IF Identical
       THEN base' = Row(le, re, re.etag) /\ EndPass
       ELSE op' = "conflict" /\ Goto("cf_probe") /\ UNCHANGED <<base, buf>>
    /\ UNCHANGED <<disk, cloud, meta, dlfail, world, mishaps, gone>>

-----------------------------------------------------------------------------
\* _resolve_conflict once the remote proved readable: the step of the side
\* that wins.  An unmoved local side was a routed download.
ResolveStep ==
    IF re.size > 0 /\ LocalUnmoved THEN "dn_fetch"
    ELSE IF re.size = 0 /\ le.size > 0 THEN "up_snap"
    ELSE IF le.size = 0 /\ re.size > 0 THEN "dn_fetch"
    ELSE IF Policy = "local" THEN "up_snap"
    ELSE IF Policy = "remote" THEN "dn_fetch"
    ELSE IF Policy = "newer" /\ le.mtime < re.mtime THEN "cf_aside"
    ELSE "cf_backup"

\* _probe_remote_unreadable: an empty listing needs no fetch; the bytes of
\* the probe are thrown away.
ConflictReadable ==
    /\ pc = "cf_probe"
    /\ re.size = 0 \/ FetchGood
    /\ unread' = None
    /\ Goto(ResolveStep)
    /\ UNCHANGED <<Fetching, op, buf, dlfail, mishaps>>

\* Mutant of ConflictUnreadable: the first unreadable probe gives up.
ConflictUnreadableAtOnce ==
    /\ pc = "cf_probe"
    /\ re.size # 0
    /\ FetchUnreadable
    /\ Goto("up_snap") /\ UNCHANGED <<unread, op, buf>>
    /\ UNCHANGED <<Fetching, dlfail, mishaps>>

ConflictUnreadable ==
    /\ pc = "cf_probe"
    /\ re.size # 0
    /\ FetchUnreadable
    /\ IF Escalated(re)
       THEN Goto("up_snap") /\ UNCHANGED <<unread, op, buf>>
       ELSE DeferUnreadable
    /\ UNCHANGED <<Fetching, dlfail, mishaps>>

ConflictProbeFails ==
    /\ pc = "cf_probe"
    /\ re.size # 0
    /\ FetchFails
    /\ EndPass
    /\ UNCHANGED <<Fetching, unread, dlfail>>

\* The remote side loses (newer) or is kept beside (both): save it first.
ConflictBackupRemote ==
    /\ pc = "cf_backup"
    /\ FetchGood
    /\ copies' = copies \cup {Served}
    /\ dlfail' = IF Policy = "newer" THEN None ELSE dlfail
    /\ Goto("up_snap")
    /\ UNCHANGED <<local, ltrash, cloud, base, meta, op, buf, world, mishaps,
                   gone>>

ConflictBackupUnreadable ==
    /\ pc = "cf_backup"
    /\ FetchUnreadable
    /\ DeferUnreadable
    /\ UNCHANGED <<Fetching, dlfail, mishaps>>

ConflictBackupFails ==
    /\ pc = "cf_backup"
    /\ FetchFails
    /\ IF Policy = "newer" THEN NoteDownloadFailure ELSE UNCHANGED dlfail
    /\ EndPass
    /\ UNCHANGED <<Fetching, unread>>

\* Mutant of ConflictMoveAside: the losing local file is unlinked.
ConflictUnlink ==
    /\ pc = "cf_aside"
    /\ local' = None
    /\ lgone' = IF local # None THEN "engine" ELSE lgone
    /\ Goto("dn_fetch")
    /\ UNCHANGED <<ltrash, copies, cloud, base, meta, op, buf, dlfail, world,
                   mishaps, rgone>>

\* The local side loses: the file is renamed to its conflict name.
ConflictMoveAside ==
    /\ pc = "cf_aside"
    /\ copies' = copies \cup LocalBodies
    /\ local' = None
    /\ lgone' = IF local # None THEN "engine" ELSE lgone
    /\ Goto("dn_fetch")
    /\ UNCHANGED <<ltrash, cloud, base, meta, op, buf, dlfail, world, mishaps,
                   rgone>>

-----------------------------------------------------------------------------
\* The process is killed or stopped at any step; the next pass is a new
\* daemon's bootstrap pass or a manual sync.
Crash(daemon) ==
    /\ Fault
    /\ pc' = "idle" /\ op' = None /\ le' = None /\ re' = None /\ buf' = None
    /\ boot' = daemon
    /\ dlfail' = None
    /\ UNCHANGED <<disk, cloud, base, meta, world, gone>>

User ==
    \/ \E s \in Sizes, g \in Gaps : LocalEdit(s, g)
    \/ LocalDelete
    \/ \E s \in Sizes, g \in Gaps, t \in Stages : RemoteEdit(s, g, t)
    \/ RemoteDelete

Scan == ScanLocal \/ ScanRemote \/ ScanNothing \/ AbortScan

ApplyBaseline == ApplyRecord \/ ApplyDropBaseline

ApplyDelete == DeleteLocalFile \/ DeleteRemoteFile \/ DeleteFails \/ CommitDelete

ApplyUpload ==
    \/ SnapshotForUpload \/ UploadRemove \/ UploadMissesExisting
    \/ UploadSend \/ UploadFails \/ UploadCommit

ApplyDownload ==
    \/ DownloadSkip \/ DownloadFetch \/ DownloadUnreadable \/ DownloadFails
    \/ DownloadInstall \/ DownloadStamp

ApplyVerify == VerifyFetch \/ VerifyUnreadable \/ VerifyFails \/ VerifyCompare

ApplyConflict ==
    \/ ConflictReadable \/ ConflictUnreadable \/ ConflictProbeFails
    \/ ConflictBackupRemote \/ ConflictBackupUnreadable \/ ConflictBackupFails
    \/ ConflictMoveAside

Engine == Scan \/ ApplyBaseline \/ ApplyDelete \/ ApplyUpload \/ ApplyDownload
          \/ ApplyVerify \/ ApplyConflict

Next == User \/ Materialize \/ Engine \/ \E d \in BOOLEAN : Crash(d)

Spec == Init /\ [][Next]_vars

\* The poll timer starts a pass whenever none runs, and every call of a pass
\* returns or fails.  Nothing obliges content to arrive.
Fairness == WF_vars(Engine)

FairSpec == Spec /\ Fairness

-----------------------------------------------------------------------------
\* What a step of a pass needs in hand: the asserts of _apply_file, and a
\* snapshot or fetched body for the steps that install or send one.
Registers ==
    /\ pc \in {"record", "vf_fetch", "vf_compare", "cf_probe", "cf_backup",
              "cf_aside"} => le # None /\ re # None
    /\ pc \in {"dn_fetch", "dn_install", "dn_stamp"} => re # None
    /\ pc \in {"up_remove", "up_send", "up_commit", "dn_install", "dn_stamp",
              "vf_compare"} => buf # None

\* Every variable holds a value of its kind, and every step has what it needs.
TypeOK ==
    /\ Registers
    /\ local \in LocalFile \cup {None}
    /\ remote \in RemoteFile \cup {None}
    /\ ltrash \subseteq Body /\ copies \subseteq Body /\ rtrash \subseteq Body
    /\ rev \in Nat
    /\ base \in BaseRow \cup {None}
    /\ settle \in Nat
    /\ unread \in UnreadRow \cup {None}
    /\ pc \in PassSteps \cup {"idle"}
    /\ op \in FileOps \cup {None}
    /\ le \in LocalEntry \cup {None}
    /\ re \in RemoteEntry \cup {None}
    /\ buf \in LocalFile \cup {None}
    /\ boot \in BOOLEAN
    /\ dlfail \in FailRow \cup {None}
    /\ now \in Nat
    /\ edits \in 0..MaxEdits /\ mishaps \in 0..MaxMishaps
    /\ owed \subseteq Body /\ slipped \subseteq Body
    /\ lgone \in {"user", "engine"} /\ rgone \in {"user", "engine", "valve"}

\* No content is silently lost: a non-empty body that no user replaced or
\* deleted is in the vault, in iCloud, in a trash or in a conflict copy,
\* unless it slipped into the window of a download (a write that lands between
\* the scan and os.replace of _do_download, or between the replace and the
\* stat that records it).  "remote" lets the vault's side of a conflict be
\* overwritten, and without remote_trash replaced remote files are gone for
\* good.
NoSilentLoss ==
    RemoteTrash /\ Policy # "remote" =>
        owed \subseteq LocalBodies \cup StoredBodies \cup slipped

\* What the engine believes in sync is in sync: when the next pass would only
\* re-record the path, both sides hold the same bytes.  The exception is a
\* vault write that was re-stat'ed as the download.
SeenInSync ==
    /\ pc = "idle" /\ local # None /\ remote # None
    /\ DecideFile(Stat(local), Listing(remote), base, FALSE) = "record"

AgreementIsReal ==
    SeenInSync => local.body = Served \/ local.body \in slipped

\* A pass deletes one side's file only because a user deleted the other
\* side's: an absence the engine made itself is never read as a deletion.
\* The exception is the remote absence left by a valve upload that failed
\* between _remove_existing and the send.
DeletionsAreUsers ==
    [][ /\ pc' = "del_local" => pc = "del_local" \/ rgone \in {"user", "valve"}
        /\ pc' = "del_remote" => pc = "del_remote" \/ lgone = "user" ]_vars

\* A remote whose blob is not there yet is moved away by an upload only after
\* it stayed unreadable for the whole window under one signature.
UnreadableIsNotJudged ==
    [][ pc = "up_remove" /\ pc' = "up_send" /\ remote # None /\ remote' = None
        /\ remote.stage = "unready" /\ re = Listing(remote)
        => Escalated(re) ]_vars

\* A plain upload only replaces a remote body the vault's own user has
\* replaced: a remote edit the listing showed is never overwritten unseen.
NoBlindUpload ==
    [][ pc = "up_remove" /\ pc' = "up_send" /\ op = "upload"
        /\ remote # None /\ remote' = None /\ re = Listing(remote) /\ slipped = {}
        => remote.body \notin owed ]_vars

\* Once users and faults stop, the path settles: both sides hold the same
\* bytes and the baseline says so, or it is on neither side and the row is
\* gone.  What may stay open: a remote whose content never arrives and no
\* good vault copy to put in its place, a download that is backed off until
\* the remote changes, and a vault write recorded as a download.
SettledPath ==
    \/ local = None /\ remote = None /\ base = None
    \/ /\ local # None /\ remote # None /\ base # None
       /\ DecideFile(Stat(local), Listing(remote), base, FALSE) = "record"
       /\ local.body = remote.body

StuckPath ==
    \/ /\ remote # None /\ remote.stage # "full"
       /\ local = None \/ local.body.size = 0
    \/ remote # None /\ BackedOff(Listing(remote))
    \/ local # None /\ local.body \in slipped

EventuallySettled == <>[](SettledPath \/ StuckPath)

-----------------------------------------------------------------------------
(* What the source says and the code does not do.                          *)

\* "keeping local content (an empty side never wins)" (syncer.py:1581): what
\* the valve keeps is still in the vault at the next decision; a remote
\* absence the valve left behind does not delete it.
ValveKeepsLocal ==
    [][ pc' = "del_local" => pc = "del_local" \/ rgone # "valve" ]_vars
=============================================================================
