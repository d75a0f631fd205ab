------------------------------ MODULE TreeSync ------------------------------
(***************************************************************************)
(* A whole pass over a tree of paths (ifolder_sync/syncer.py, sync_once    *)
(* and _decide_pass): both sides are listed, unreconcilable paths are set  *)
(* aside, every other path gets an operation, deletions may be withheld,   *)
(* remote deletions are coalesced into folder deletions, and the           *)
(* operations run phase by phase: folders, remote trees, files, cleanup.   *)
(* Users act on both sides between any two steps; an operation may fail,   *)
(* and a kill or a stop signal may cut the pass anywhere.                  *)
(*                                                                         *)
(* A tree maps each path to Absent, to Folder or to the version of a file; *)
(* a later version is a newer one.  The decision for a file is SyncDecide, *)
(* with content that is never empty or unreadable and the "newer" policy;  *)
(* one transfer is one step here and FileSync gives its inside.  What goes *)
(* to a trash or a conflict copy is not followed further.                  *)
(***************************************************************************)
EXTENDS SyncDecide, FiniteSets

CONSTANTS
    Paths,                  \* the paths below the vault root
    Above,                  \* the folders above each path
    FilePaths, FolderPaths, \* what each path may be
    Fold,                   \* casefold: paths with one image are case twins
    Ignored,                \* paths the ignore set hides
    Start0,                 \* the paths of the tree that is in sync at the start
    ThresholdCount, ThresholdPct,   \* config.delete_threshold_count, _pct
    MaxEdits,               \* bound on the users' actions
    MaxFaults               \* bound on failed operations, kills and stops

ASSUME TreeSyncAssumption ==
    /\ IsFiniteSet(Paths)
    /\ Above \in [Paths -> SUBSET FolderPaths]
    /\ \A p \in Paths : p \notin Above[p]
    /\ \A p \in Paths : \A q \in Above[p] : Above[q] \subseteq Above[p]
    /\ \A p \in Paths : \A q, r \in Above[p] : q = r \/ q \in Above[r] \/ r \in Above[q]
    /\ \A p \in Paths : \A q \in Above[p] :
          \E r \in Above[p] \cup {p} : Above[r] = Above[q] \cup {q}
    /\ FilePaths \cup FolderPaths = Paths
    /\ DOMAIN Fold = Paths
    /\ Ignored \subseteq FilePaths \ FolderPaths
    /\ Start0 \subseteq Paths
    /\ \A p \in Start0 : Above[p] \subseteq Start0
    /\ ThresholdCount \in Nat /\ ThresholdPct \in 0..100
    /\ None \notin {"rmdir_local", "rmdir_remote", "drop_baseline_dir"}
    /\ None \notin [files: SUBSET Paths, folders: SUBSET Paths, withheld: BOOLEAN,
                    kept: SUBSET Paths, roots: SUBSET Paths, covered: SUBSET Paths]
    /\ MaxEdits \in Nat /\ MaxFaults \in Nat

VARIABLES
    local, remote,  \* the two trees
    base,           \* the baseline rows: Absent, Folder or the version agreed on
    sl, sr, sb,     \* the pass: its listings and the rows it read
    plan,           \* what it decided about all paths together, or None
    pc, todo,       \* the phase and what is left of it
    doing,          \* <<path, row>> done and not yet committed, or None
    mode,           \* "boot" defers deletions, "force" skips the threshold
    edits, faults,
    calm,           \* passes ended since the last action of a user or fault, but
                    \* for those that were held up
    taken,          \* listed files this pass has deleted, alone or with a folder
    dead            \* per side: paths a user deleted there while in sync

trees   == <<local, remote>>
listing == <<sl, sr, sb, plan>>
bounds  == <<edits, faults, calm>>
history == <<taken, dead>>
vars    == <<trees, base, listing, pc, todo, doing, mode, bounds, history>>

Absent == 0
Folder == 1
Versions == 2..(2 + MaxEdits)
IsFile(v) == v \in Versions

\* Passes it takes two trees to agree once nothing disturbs them: the one cut into,
\* one for the files, then one per level of folders, because the vault loses the
\* folders of a deleted tree one level a pass.
Depth == CHOOSE n \in {Cardinality(Above[p]) : p \in Paths} :
            \A p \in Paths : Cardinality(Above[p]) <= n

EnoughPasses == 2 + Depth

Trees   == [Paths -> {Absent, Folder} \cup Versions]
Nowhere == [p \in Paths |-> Absent]

-----------------------------------------------------------------------------
Under(p) == {q \in Paths : p \in Above[q]}

\* Mutant of Put: the folders a path needs are not made.
PutBare(tree, p, v) == [tree EXCEPT ![p] = v]

\* The path set, with the folders it needs; the path and all below it removed.
Put(tree, p, v) == [q \in Paths |-> IF q = p THEN v
                                    ELSE IF q \in Above[p] THEN Folder ELSE tree[q]]

Cut(tree, p) == [q \in Paths |-> IF q \in Under(p) \cup {p} THEN Absent ELSE tree[q]]

Reachable(tree, p) == \A q \in Above[p] : tree[q] = Folder

CanHold(tree, p) == \A q \in Above[p] : tree[q] \in {Absent, Folder}

\* The entries of a folder.
Kids(tree, p) == {q \in Under(p) : Above[q] \subseteq Above[p] \cup {p} /\ tree[q] # Absent}

Listed(tree) == [p \in Paths |-> IF p \in Ignored THEN Absent ELSE tree[p]]

Init ==
    /\ \E rows \in BOOLEAN, ds \in BOOLEAN :
          LET tree == [p \in Paths |-> IF p \notin Start0 THEN Absent
                                       ELSE IF p \in FolderPaths THEN Folder ELSE 2]
          IN  /\ remote = Listed(tree)
              /\ local = IF ds THEN tree ELSE Listed(tree)
              /\ base = IF rows THEN Listed(tree) ELSE Nowhere
    /\ sl = Nowhere /\ sr = Nowhere /\ sb = Nowhere /\ plan = None
    /\ pc = "idle" /\ todo = {} /\ doing = None /\ mode = "boot"
    /\ edits = 0 /\ faults = 0 /\ calm = 0 /\ taken = {}
    /\ dead = [local |-> {}, remote |-> {}]

-----------------------------------------------------------------------------
\* What a user may do to a tree at a path that is not ignored.
Written(tree, p) ==
    (IF p \in FilePaths /\ tree[p] # Folder THEN {Put(tree, p, 3 + edits)} ELSE {})
    \cup (IF p \in FolderPaths /\ tree[p] = Absent THEN {Put(tree, p, Folder)} ELSE {})

\* A folder that came or went since the running pass listed it: the pass may still
\* make it again, or drop the row of one that is back.
FolderMoved(q) ==
    \/ pc # "idle" /\ (sl[q] = Folder) # (local[q] = Folder)
    \/ pc \notin {"idle", "scanned"} /\ (sr[q] = Folder) # (remote[q] = Folder)

InSync(p) == \A q \in (Under(p) \cup {p}) \ Ignored :
                local[q] = remote[q] /\ base[q] = local[q] /\ ~FolderMoved(q)

Revived(p) == [s \in {"local", "remote"} |-> dead[s] \ ({p} \cup Above[p])]

Died(side, p) ==
    IF InSync(p)
    THEN [dead EXCEPT ![side] = @ \cup {q \in Under(p) \cup {p} : base[q] # Absent}]
    ELSE dead

Acts == /\ edits < MaxEdits /\ edits' = edits + 1
        /\ calm' = 0
        /\ UNCHANGED <<base, listing, pc, todo, doing, mode, faults, taken>>

LocalWrite(p) ==
    /\ Acts
    /\ Reachable(local, p)
    /\ local' \in Written(local, p)
    /\ dead' = Revived(p)
    /\ UNCHANGED remote

LocalDelete(p) ==
    /\ Acts
    /\ local[p] # Absent
    /\ local' = Cut(local, p)
    /\ dead' = Died("local", p)
    /\ UNCHANGED remote

RemoteWrite(p) ==
    /\ Acts
    /\ Reachable(remote, p)
    /\ remote' \in Written(remote, p)
    /\ dead' = Revived(p)
    /\ UNCHANGED local

RemoteDelete(p) ==
    /\ Acts
    /\ remote[p] # Absent
    /\ remote' = Cut(remote, p)
    /\ dead' = Died("remote", p)
    /\ UNCHANGED local

-----------------------------------------------------------------------------
\* The paths a pass may act on: a path that is a file on one side and a folder on
\* the other is set aside with its subtree, case twins one by one.
Known == {p \in Paths : sl[p] # Absent \/ sr[p] # Absent \/ sb[p] # Absent}

KindConflicts == {p \in Known : /\ sl[p] # Absent /\ sr[p] # Absent
                                /\ IsFile(sl[p]) # IsFile(sr[p])}

Live == {p \in Known : sl[p] # Absent \/ sr[p] # Absent}

Reconcilable ==
    LET conflicts == KindConflicts
    IN  {p \in Known : ({p} \cup Above[p]) \cap conflicts = {}}

Collided(paths) ==
    LET live == paths \cap Live
    IN  {p \in paths : Cardinality({q \in live : Fold[q] = Fold[p]}) > 1}

Planned == LET paths == Reconcilable IN paths \ Collided(paths)

\* The kind of a path: the vault's, else iCloud's, else the row's.
KindOf(p) == IF sl[p] # Absent THEN sl[p] ELSE IF sr[p] # Absent THEN sr[p] ELSE sb[p]

Folders == {p \in Planned : KindOf(p) = Folder}
Files   == Planned \ Folders

\* Mutant of FolderOp: two-way logic, a folder of one side only is new.
FolderOpTwoWay(p) ==
    IF sl[p] # Absent /\ sr[p] # Absent THEN "record_dir"
    ELSE IF sl[p] # Absent THEN "mkdir_remote" ELSE "mkdir_local"

FolderOp(p) ==
    IF sl[p] # Absent /\ sr[p] # Absent THEN "record_dir"
    ELSE IF sb[p] # Absent THEN "leave_dir"
    ELSE IF sl[p] # Absent THEN "mkdir_remote" ELSE "mkdir_local"

\* Mutant of CleanupOp: the row of a folder gone from both sides is kept.
CleanupOpKeepsRow(p) ==
    IF sb[p] = Absent \/ (sl[p] # Absent /\ sr[p] # Absent) THEN None
    ELSE IF sl[p] # Absent THEN "rmdir_local"
    ELSE IF sr[p] # Absent THEN "rmdir_remote" ELSE None

CleanupOp(p) ==
    IF sb[p] = Absent \/ (sl[p] # Absent /\ sr[p] # Absent) THEN None
    ELSE IF sl[p] # Absent THEN "rmdir_local"
    ELSE IF sr[p] # Absent THEN "rmdir_remote" ELSE "drop_baseline_dir"

\* SyncDecide, with a version for a size and a time.
Stamp(v) == v * (MTimeTol + 1)

FileOp(p) ==
    DecideFile(
        IF sl[p] = Absent THEN None ELSE [size |-> 1, mtime |-> Stamp(sl[p])],
        IF sr[p] = Absent THEN None ELSE [size |-> 1, mtime |-> Stamp(sr[p]), etag |-> 0],
        IF sb[p] = Absent THEN None
        ELSE [lsize |-> 1, lmtime |-> Stamp(sb[p]),
              rsize |-> 1, rmtime |-> Stamp(sb[p]), etag |-> 0],
        FALSE)

-----------------------------------------------------------------------------
\* Withholding deletions: the bootstrap pass, and the threshold.  The share is
\* of all the rows, folders included.
OverThreshold(n) ==
    LET rows == Cardinality({p \in Paths : sb[p] # Absent})
    IN  n > ThresholdCount \/ (rows > 0 /\ n * 100 > ThresholdPct * rows)

Deletions == {p \in Files : FileOp(p) \in FileDestructive}

\* Mutant of Suppressed: the count alone, not where the pass stands.
SuppressedByThreshold == mode # "force" /\ OverThreshold(Cardinality(Deletions))

Suppressed ==
    LET deletions == Deletions
    IN  /\ deletions # {} /\ mode # "force"
        /\ mode = "boot" \/ OverThreshold(Cardinality(deletions))

\* _coalesce_remote_deletes: the folders that go with everything below them.
Effective(p) == IF KindOf(p) # Folder THEN FileOp(p)
                ELSE IF CleanupOp(p) # None THEN CleanupOp(p) ELSE FolderOp(p)

\* Mutant of Kept: what a rescue would bring back counts as doomed.
KeptNoRescue == {p \in Planned : Effective(p) \notin
                    { "delete_remote", "rmdir_remote", "drop_baseline",
                      "drop_baseline_dir", "leave_dir", "rescue_download" }}

Kept == {p \in Planned : Effective(p) \notin
            { "delete_remote", "rmdir_remote", "drop_baseline",
              "drop_baseline_dir", "leave_dir" }}

Prunable(kept) ==
    {p \in Folders : CleanupOp(p) = "rmdir_remote" /\ Under(p) \cap kept = {}}

Roots(prunable) == {p \in prunable : Above[p] \cap prunable = {}}

WithheldPlan ==
    [files |-> Files, folders |-> Folders, withheld |-> TRUE,
     kept |-> {}, roots |-> {}, covered |-> {}]

CoalescedPlan ==
    LET kept  == Kept
        roots == Roots(Prunable(kept))
    IN  [files |-> Files, folders |-> Folders, withheld |-> FALSE,
         kept |-> kept, roots |-> roots,
         covered |-> {p \in Planned : ({p} \cup Above[p]) \cap roots # {}}]

InPlan == plan.files \cup plan.folders

\* The work of each phase.  A record that finds its row as it would write it is
\* no step.
FolderTodo == {p \in Folders : /\ FolderOp(p) # "leave_dir"
                               /\ FolderOp(p) # "record_dir" \/ sb[p] # Folder}

FileTodo == {p \in plan.files \ plan.covered :
                /\ FileOp(p) # "record"
                /\ plan.withheld => FileOp(p) \notin FileDestructive}

\* "rmdir_remote" is left to no folder here: one with nothing kept below it is
\* covered, and the others are passed over.
CleanupTodo ==
    {p \in plan.folders \ plan.covered :
        /\ CleanupOp(p) # None
        /\ CleanupOp(p) = "rmdir_local" => ~plan.withheld /\ Under(p) \cap plan.kept = {}
        /\ CleanupOp(p) # "rmdir_remote"}

-----------------------------------------------------------------------------
ScanLocal ==
    /\ pc = "idle"
    /\ pc' = "scanned"
    /\ sl' = Listed(local)
    /\ UNCHANGED <<trees, base, sr, sb, plan, todo, doing, mode, bounds, history>>

ScanRemote ==
    /\ pc = "scanned"
    /\ pc' = "listed"
    /\ sr' = Listed(remote) /\ sb' = base
    /\ UNCHANGED <<trees, base, sl, plan, todo, doing, mode, bounds, history>>

Decide ==
    /\ pc = "listed"
    /\ pc' = "folders"
    /\ plan' = IF Suppressed THEN WithheldPlan ELSE CoalescedPlan
    /\ todo' = FolderTodo
    /\ UNCHANGED <<trees, base, sl, sr, sb, doing, mode, bounds, history>>

\* The pass is over; the next pass of this process is an ordinary one.
Over(nextMode) ==
    /\ pc' = "idle" /\ todo' = {} /\ doing' = None /\ taken' = {}
    /\ sl' = Nowhere /\ sr' = Nowhere /\ sb' = Nowhere /\ plan' = None
    /\ mode' = nextMode
    /\ UNCHANGED <<trees, base, edits, dead>>

Fault == faults < MaxFaults /\ faults' = faults + 1 /\ calm' = 0

\* A failed scan aborts the pass with no action.
AbortScan == pc = "scanned" /\ Fault /\ Over("normal")

\* A kill, or a stop signal between two operations; what runs next is a daemon
\* or a manual sync.
Interrupt(nextMode) == pc # "idle" /\ Fault /\ Over(nextMode)

Enter(phase, work) ==
    /\ pc' = phase /\ todo' = work
    /\ UNCHANGED <<trees, base, listing, doing, mode, bounds, history>>

\* Paths are set aside, or deletions withheld: by the threshold, or because it is a
\* bootstrap pass.
HeldUp == InPlan # Known \/ plan.withheld

NextPhase ==
    /\ todo = {} /\ doing = None
    /\ \/ pc = "folders" /\ Enter("trees", plan.roots)
       \/ pc = "trees" /\ Enter("files", FileTodo)
       \/ pc = "files" /\ Enter("cleanup", CleanupTodo)
       \/ /\ pc = "cleanup" /\ Over("normal")
          /\ calm' = IF HeldUp \/ calm = EnoughPasses THEN calm ELSE calm + 1
          /\ UNCHANGED faults

-----------------------------------------------------------------------------
\* Folders go parents first, the cleanup children first, the rest by name,
\* which here is any order.
Turn(p) ==
    /\ doing = None
    /\ p \in todo
    /\ pc = "folders" => Above[p] \cap todo = {}
    /\ pc = "cleanup" => Under(p) \cap todo = {}

\* The operation's effect is done; its row is still to be written.
Done(p, row) ==
    /\ doing' = <<p, row>>
    /\ UNCHANGED <<base, listing, pc, todo, mode, bounds, dead>>

\* Listed files an operation removes from a tree, set aside or not.
Removed(tree, seen, p) ==
    {q \in Under(p) \cup {p} : IsFile(tree[q]) /\ tree[q] = seen[q]}

CutLocal(p) == /\ local' = Cut(local, p)
               /\ taken' = taken \cup Removed(local, sl, p)
               /\ UNCHANGED remote

CutRemote(p) == /\ remote' = Cut(remote, p)
                /\ taken' = taken \cup Removed(remote, sr, p)
                /\ UNCHANGED local

\* client.mkdir and client.upload make missing parents.
MakeRemote(p) ==
    /\ pc = "folders" /\ Turn(p)
    /\ FolderOp(p) = "mkdir_remote"
    /\ CanHold(remote, p)
    /\ remote' = IF remote[p] = Absent THEN Put(remote, p, Folder) ELSE remote
    /\ Done(p, Folder)
    /\ UNCHANGED <<local, taken>>

MakeLocal(p) ==
    /\ pc = "folders" /\ Turn(p)
    /\ FolderOp(p) = "mkdir_local"
    /\ CanHold(local, p) /\ ~IsFile(local[p])
    /\ local' = Put(local, p, Folder)
    /\ Done(p, Folder)
    /\ UNCHANGED <<remote, taken>>

RecordFolder(p) ==
    /\ pc = "folders" /\ Turn(p)
    /\ FolderOp(p) = "record_dir"
    /\ Done(p, Folder)
    /\ UNCHANGED <<trees, taken>>

\* One call moves the folder and everything below it, listed or not.
DeleteRemoteTree(p) ==
    /\ pc = "trees" /\ Turn(p)
    /\ CutRemote(p)
    /\ Done(p, Absent)

\* The side whose content wins a conflict: the newer one.
Sends(p) == \/ FileOp(p) \in {"upload", "rescue_upload"}
            \/ FileOp(p) = "conflict" /\ sl[p] >= sr[p]
            \/ FileOp(p) = "verify_adopt" /\ local[p] # remote[p]

Fetches(p) == \/ FileOp(p) \in {"download", "rescue_download"}
              \/ FileOp(p) = "conflict" /\ sl[p] < sr[p]

\* _do_upload sends what the vault holds now.
Upload(p) ==
    /\ pc = "files" /\ Turn(p)
    /\ Sends(p)
    /\ IsFile(local[p]) /\ CanHold(remote, p)
    /\ remote' = Put(Cut(remote, p), p, local[p])
    /\ Done(p, local[p])
    /\ UNCHANGED <<local, taken>>

\* _do_download installs what was listed: other content fails the size check.
Download(p) ==
    /\ pc = "files" /\ Turn(p)
    /\ Fetches(p)
    /\ remote[p] = sr[p] /\ CanHold(local, p) /\ local[p] # Folder
    /\ local' = Put(local, p, sr[p])
    /\ Done(p, sr[p])
    /\ UNCHANGED <<remote, taken>>

\* The bytes agree: nothing moves.
Adopt(p) ==
    /\ pc = "files" /\ Turn(p)
    /\ FileOp(p) = "verify_adopt" /\ local[p] = remote[p]
    /\ Done(p, sl[p])
    /\ UNCHANGED <<trees, taken>>

\* What is at the path now goes to the trash, whatever it has become.
DeleteLocal(p) ==
    /\ pc = "files" /\ Turn(p)
    /\ FileOp(p) = "delete_local"
    /\ CutLocal(p)
    /\ Done(p, Absent)

DeleteRemote(p) ==
    /\ pc = "files" /\ Turn(p)
    /\ FileOp(p) = "delete_remote"
    /\ CutRemote(p)
    /\ Done(p, Absent)

DropRow(p) ==
    /\ Turn(p)
    /\ \/ pc = "files" /\ FileOp(p) = "drop_baseline"
       \/ pc = "cleanup" /\ CleanupOp(p) = "drop_baseline_dir"
    /\ Done(p, Absent)
    /\ UNCHANGED <<trees, taken>>

\* _rmdir_local: a folder goes only when it is empty or holds ignored files.
Lingers(p) == ~(Kids(local, p) \subseteq Ignored)

RemoveLocalFolder(p) ==
    /\ pc = "cleanup" /\ Turn(p)
    /\ CleanupOp(p) = "rmdir_local"
    /\ ~IsFile(local[p]) /\ ~Lingers(p)
    /\ CutLocal(p)
    /\ Done(p, Absent)

\* The operation raises, or finds it has nothing left to do: next pass.
Cannot(p) ==
    \/ /\ pc = "folders" /\ FolderOp(p) = "mkdir_remote" /\ ~CanHold(remote, p)
    \/ /\ pc = "folders" /\ FolderOp(p) = "mkdir_local"
       /\ ~CanHold(local, p) \/ IsFile(local[p])
    \/ /\ pc = "files" /\ Sends(p)
       /\ ~IsFile(local[p]) \/ ~CanHold(remote, p)
    \/ /\ pc = "files" /\ Fetches(p)
       /\ remote[p] # sr[p] \/ ~CanHold(local, p) \/ local[p] = Folder
    \/ /\ pc = "cleanup" /\ CleanupOp(p) = "rmdir_local"
       /\ IsFile(local[p]) \/ Lingers(p)

Skip(p) ==
    /\ Turn(p)
    /\ (Cannot(p) /\ UNCHANGED <<faults, calm>>) \/ Fault
    /\ todo' = todo \ {p}
    /\ UNCHANGED <<trees, base, listing, pc, doing, mode, edits, taken, dead>>

\* Every operation commits its rows at once: a deleted tree all of its own.
Rows(p) == IF pc = "trees" THEN {p} \cup (Under(p) \cap plan.covered) ELSE {p}

Commit ==
    /\ doing # None
    /\ base' = [q \in Paths |-> IF q \in Rows(doing[1]) THEN doing[2] ELSE base[q]]
    /\ todo' = todo \ {doing[1]}
    /\ doing' = None
    /\ UNCHANGED <<trees, listing, pc, mode, bounds, history>>

-----------------------------------------------------------------------------
User == \E p \in Paths \ Ignored :
           LocalWrite(p) \/ LocalDelete(p) \/ RemoteWrite(p) \/ RemoteDelete(p)

Apply(p) == \/ MakeRemote(p) \/ MakeLocal(p) \/ RecordFolder(p)
            \/ DeleteRemoteTree(p)
            \/ Upload(p) \/ Download(p) \/ Adopt(p) \/ DeleteLocal(p) \/ DeleteRemote(p)
            \/ DropRow(p) \/ RemoveLocalFolder(p)
            \/ Skip(p)

Engine == ScanLocal \/ ScanRemote \/ AbortScan \/ Decide \/ NextPhase \/ Commit
          \/ \E p \in Paths : Apply(p)

Next == User \/ Engine \/ \E m \in {"boot", "normal", "force"} : Interrupt(m)

Spec == Init /\ [][Next]_vars

-----------------------------------------------------------------------------
\* Every variable holds a value of its kind, and on both sides a path that is
\* there has its folders above it.
TypeOK ==
    /\ local \in Trees /\ remote \in Trees /\ base \in Trees
    /\ \A p \in Paths : local[p] # Absent => Reachable(local, p)
    /\ \A p \in Paths : remote[p] # Absent => Reachable(remote, p)
    /\ sl \in Trees /\ sr \in Trees /\ sb \in Trees
    /\ plan = None <=> pc \in {"idle", "scanned", "listed"}
    /\ pc \in {"idle", "scanned", "listed", "folders", "trees", "files", "cleanup"}
    /\ todo \subseteq Paths /\ taken \subseteq Paths
    /\ doing # None => doing[1] \in todo /\ doing[2] \in {Absent, Folder} \cup Versions
    /\ mode \in {"boot", "normal", "force"}
    /\ edits \in 0..MaxEdits /\ faults \in 0..MaxFaults
    /\ dead \in [{"local", "remote"} -> SUBSET Paths]

\* Case twins the pass has set aside, below a folder it deletes in one call: the call
\* takes them along.
TakenAlong == {p \in Collided(Reconcilable) : Above[p] \cap plan.roots # {}}

\* Whatever folders go, a pass deletes at most as many of the files it listed
\* as the threshold admits, and a bootstrap pass deletes none.  The twins taken along
\* are on top of that: neither guard counts them (syncer.py:868), although "the
\* threshold still counts per file" (syncer.py:894).
ThresholdHolds ==
    plan # None =>
        LET counted == taken \ TakenAlong
        IN  counted # {} => \/ mode = "force"
                            \/ mode = "normal" /\ ~OverThreshold(Cardinality(counted))

EngineStep == edits' = edits

\* A file goes, alone or with a folder, only if the pass decided to delete that
\* very file on that side: a new file, a rescue, a conflict or a path set aside below
\* a deleted folder stays, but for the twins taken along, which the pass has said to
\* skip (syncer.py:1024).  What changed since its listing is not covered.
Goes(tree, next, seen, p) == IsFile(tree[p]) /\ tree[p] = seen[p] /\ next[p] = Absent

OnlyDoomedFilesGo ==
    [][ EngineStep /\ plan # None => \A p \in Paths :
           /\ Goes(local, local', sl, p) => p \in plan.files /\ FileOp(p) = "delete_local"
           /\ Goes(remote, remote', sr, p) =>
                 \/ p \in plan.files /\ FileOp(p) = "delete_remote"
                 \/ p \in TakenAlong ]_vars

\* What a user deletes on one side while both sides agree stays deleted there,
\* through failures, kills and restarts, until a user writes it or something
\* below it again.  A pass makes the folders it listed without looking again, so
\* that nothing is said of a deletion where a folder moved since its listing.
DeletedStaysDeleted ==
    [][ EngineStep => /\ \A p \in dead.local : local'[p] = Absent
                      /\ \A p \in dead.remote : remote'[p] = Absent ]_vars

\* Once users and faults stop, passes soon find nothing to do.  The pass in which the
\* last of them acted may leave work to the next, and a pass held up for the operator
\* does not count; but once one was not held up, none is again.
NothingToDo ==
    /\ InPlan = Known
    /\ \A p \in plan.files : FileOp(p) = "record"
    /\ \A p \in plan.folders : FolderOp(p) = "record_dir" /\ sb[p] = Folder

SoonAgrees == plan # None /\ calm = EnoughPasses => NothingToDo
=============================================================================
