---------------------------- MODULE TreeSyncInv ----------------------------
(***************************************************************************)
(* Why a pass over the tree deletes no more than it decided, and why what  *)
(* a user deleted stays deleted: the two inductive invariants behind the   *)
(* properties of TreeSync.  PassInv ties the work of a pass to its         *)
(* listings.  KeepsInv says what the other side, the rows and the running  *)
(* pass may still hold of a path that a user deleted while all agreed.     *)
(***************************************************************************)
EXTENDS TreeSync

Reading == {"scanned", "listed"}
Working == {"folders", "trees", "files", "cleanup"}

\* A listing is a tree of its side at one moment, without what the ignore set hides.
Closed(tree) == \A p \in Paths : tree[p] # Absent => Reachable(tree, p)

Bare(tree) == \A p \in Ignored : tree[p] = Absent

Listings == /\ Closed(sl) /\ Bare(sl)
            /\ Closed(sr) /\ Bare(sr)
            /\ Bare(base) /\ Bare(sb)

\* The plan is the one the listings call for.
PlanFits == plan # None => plan = IF Suppressed THEN WithheldPlan ELSE CoalescedPlan

\* What is left to do is of the phase.
WorkFits ==
    /\ pc \in ({"idle"} \cup Reading) => todo = {} /\ doing = None
    /\ pc = "folders" => todo \subseteq FolderTodo
    /\ pc = "trees"   => todo \subseteq plan.roots
    /\ pc = "files"   => todo \subseteq FileTodo
    /\ pc = "cleanup" => todo \subseteq CleanupTodo

\* The files that are gone are among those the threshold was asked about, or twins that
\* went with a folder.
TakenFits ==
    /\ plan = None => taken = {}
    /\ plan # None => taken \subseteq Deletions \cup TakenAlong
    /\ plan # None => (plan.withheld => taken = {})

PassInv == TypeOK /\ Listings /\ PlanFits /\ WorkFits /\ TakenFits

-----------------------------------------------------------------------------
\* The version of a user's next write is nowhere yet.
Old(v) == v <= 2 + edits

VersionsOld ==
    /\ \A p \in Paths : Old(local[p]) /\ Old(remote[p]) /\ Old(base[p])
    /\ \A p \in Paths : Old(sl[p]) /\ Old(sr[p]) /\ Old(sb[p])
    /\ doing # None => Old(doing[2])

\* The running pass has committed no row for the path.
Uncovered(q) == q \in plan.covered =>
                    \A r \in plan.roots : r \in Above[q] \cup {q} => r \in todo

Untouched(q) ==
    \/ pc \in Reading
    \/ pc = "folders" /\ (q \in FolderTodo => q \in todo)
    \/ pc = "trees"   /\ q \notin FolderTodo /\ Uncovered(q)
    \/ pc = "files"   /\ q \notin FolderTodo \cup plan.covered
                      /\ (q \in FileTodo => q \in todo)
    \/ pc = "cleanup" /\ q \notin FolderTodo \cup plan.covered \cup FileTodo
                      /\ (q \in CleanupTodo => q \in todo)

\* Until then the row is the one the pass read, and a side that holds the row's
\* version was listed with it: a version that is gone does not come back.
RowFits(q) ==
    Untouched(q) =>
        /\ pc # "scanned" => base[q] = sb[q]
        /\ IsFile(local[q]) /\ local[q] = base[q] => local[q] = sl[q]
        /\ pc # "scanned" /\ IsFile(remote[q]) /\ remote[q] = base[q] => remote[q] = sr[q]

RowsFit == \A q \in Paths : RowFits(q)

-----------------------------------------------------------------------------
\* What a tree still holds at a path, the baseline knows.
Agreed(tree, q) == tree[q] # Absent => base[q] = tree[q]

\* A row about to be committed says of the path what the tree says.
Commits(tree, q) ==
    doing # None => (q \in Rows(doing[1]) /\ tree[q] # Absent => doing[2] = tree[q])

\* The pass has no new folder to make at the path.
NoNewFolder(q) ==
    /\ pc = "scanned" => (sl[q] = Folder => base[q] # Absent)
    /\ pc = "listed" \/ (pc = "folders" /\ q \in todo)
           => (sl[q] = Folder \/ sr[q] = Folder => sb[q] # Absent)

\* What a listing says of the path is still so, or the path is gone since.
StillLeft(tree, seen, q) ==
    /\ seen[q] = Folder => tree[q] \in {Folder, Absent}
    /\ Untouched(q) /\ seen[q] = Absent => tree[q] = Absent

Below(p) == (Under(p) \cup {p}) \ Ignored

\* A path deleted on one side: the other side holds nothing below it that is news to
\* the baseline or to the pass.
DeadLocal(p) ==
    /\ local[p] = Absent
    /\ \A q \in Below(p) :
          /\ Agreed(remote, q) /\ Commits(remote, q) /\ NoNewFolder(q)
          /\ pc \notin {"idle", "scanned"} => StillLeft(remote, sr, q)

DeadRemote(p) ==
    /\ remote[p] = Absent
    /\ \A q \in Below(p) :
          /\ Agreed(local, q) /\ Commits(local, q) /\ NoNewFolder(q)
          /\ pc # "idle" => StillLeft(local, sl, q)

DeadFits == /\ \A p \in dead.local : DeadLocal(p)
            /\ \A p \in dead.remote : DeadRemote(p)
            /\ (dead.local \cup dead.remote) \cap Ignored = {}

KeepsInv == PassInv /\ VersionsOld /\ RowsFit /\ DeadFits
-----------------------------------------------------------------------------
(* Why passes that nothing disturbs come to rest: the inductive invariant  *)
(* behind SoonAgrees.  A pass that is not held up brings each path to a    *)
(* goal that its listings fix, and leaves only folders whose content it    *)
(* was still to remove.                                                    *)

\* A folder gone from one side with something below it that the pass keeps: it stays
\* for now, with its row.
Lasting(q) ==
    /\ q \in Folders \ plan.covered
    /\ CleanupOp(q) \in {"rmdir_local", "rmdir_remote"}
    /\ Under(q) \cap plan.kept # {}

\* What the pass makes of a path, on both sides.
FileGoal(q) ==
    IF FileOp(q) \in FileDestructive THEN Absent
    ELSE IF FileOp(q) \in {"upload", "rescue_upload"} \/ (FileOp(q) = "conflict" /\ sl[q] >= sr[q])
    THEN sl[q] ELSE sr[q]

Goal(q) ==
    IF q \in Files THEN FileGoal(q)
    ELSE IF q \in Folders /\ (FolderOp(q) # "leave_dir" \/ Lasting(q)) THEN Folder ELSE Absent

\* The work on the path is still to do.
Ahead(q) ==
    \/ pc = "folders" /\ q \in todo \cup plan.covered \cup FileTodo \cup CleanupTodo
    \/ pc = "trees"   /\ \/ q \in FileTodo \cup CleanupTodo
                         \/ q \in plan.covered /\ (Above[q] \cup {q}) \cap todo # {}
    \/ pc = "files"   /\ q \in todo \cup CleanupTodo
    \/ pc = "cleanup" /\ q \in todo

\* On its way there a path is as listed or as it is to be.
Underway(q) ==
    /\ local[q] \in {sl[q], Goal(q)} /\ remote[q] \in {sr[q], Goal(q)}
    /\ base[q] \in {sb[q], Goal(q)}
    /\ Lasting(q) => base[q] = sb[q]
    /\ Ahead(q) \/ Lasting(q) \/ (local[q] = Goal(q) /\ remote[q] = Goal(q) /\ base[q] = Goal(q))

\* A row about to be committed says what both sides hold.
CommitFits ==
    doing # None => \A q \in Rows(doing[1]) :
        q \notin Ignored => doing[2] = Goal(q) /\ local[q] = Goal(q) /\ remote[q] = Goal(q)

PassMoves == CommitFits /\ \A q \in Paths \ Ignored : Underway(q)

\* A folder that takes more passes: the deeper ones are through.
Behind(l, r, b, passes, q) ==
    /\ l[q] = Folder /\ r[q] \in {Absent, Folder} /\ b[q] # Absent
    /\ Cardinality(Above[q]) + passes <= Depth + 1

\* The trees after so many passes.
Rested(l, r, b, passes) ==
    /\ \A q \in Paths \ Ignored :
          \/ l[q] = r[q] /\ l[q] = b[q]
          \/ Behind(l, r, b, passes, q)
    /\ \A p, q \in Paths \ Ignored :
          p # q /\ Fold[p] = Fold[q] => (l[p] = Absent /\ r[p] = Absent)
                                       \/ (l[q] = Absent /\ r[q] = Absent)

\* Where no user acted and nothing failed since the last pass.
Calm ==
    /\ pc \in Reading => sl = Listed(local)
    /\ pc = "listed" => sr = Listed(remote) /\ sb = base
    /\ pc \in Working /\ ~HeldUp => PassMoves
    /\ calm >= 2 => IF pc \in Working THEN ~HeldUp /\ Rested(sl, sr, sb, calm)
                    ELSE Rested(local, remote, base, calm)

SettleInv == PassInv /\ calm \in Nat /\ (calm >= 1 => Calm)
=============================================================================
