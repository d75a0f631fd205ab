--------------------------- MODULE TreeSyncProofs ---------------------------
(***************************************************************************)
(* For any tree of paths, any threshold and any number of users' actions   *)
(* and faults: a pass removes only the files it decided to delete, never   *)
(* more of them than the threshold admits; what a user deleted while both  *)
(* sides agreed stays deleted; and passes that nothing disturbs come to    *)
(* rest.                                                                   *)
(*                                                                         *)
(* PassInv, KeepsInv and SettleInv (TreeSyncInv) are inductive.  The plan  *)
(* is fixed when the pass decides, so that every operation can be traced   *)
(* back to the listings; a version that a user writes is new (VersionsOld) *)
(* so that a row or a file with the version listed is the one listed; and  *)
(* the goals of a pass form a tree, so that no operation undoes another    *)
(* and every folder that has to wait lies above one that waited before.    *)
(***************************************************************************)
EXTENDS TreeSyncInv, FiniteSetTheorems, WellFoundedInduction, TLAPS

-----------------------------------------------------------------------------
(* Trees.                                                                  *)

Values == {Absent, Folder} \cup Versions

LEMMA ValuesAre == Values = 0..(2 + MaxEdits)
  BY TreeSyncAssumption DEF Values, Versions, Absent, Folder

LEMMA FileIs == \A v \in Values : IsFile(v) <=> v # Absent /\ v # Folder
  BY DEF Values, IsFile, Versions, Absent, Folder

LEMMA Kinds == /\ Absent # Folder
               /\ ~IsFile(Absent) /\ ~IsFile(Folder)
               /\ Absent \in Values /\ Folder \in Values
  BY DEF Values, IsFile, Versions, Absent, Folder

\* Folders above, said of one path.
LEMMA AboveFacts ==
    ASSUME NEW p \in Paths, NEW q \in Above[p]
    PROVE  /\ q \in Paths /\ q \in FolderPaths /\ q \notin Ignored /\ q # p
           /\ Above[q] \subseteq Above[p]
           /\ p \notin Above[q]
  BY TreeSyncAssumption

LEMMA UnderIs == \A p, q \in Paths : q \in Under(p) <=> p \in Above[q]
  BY DEF Under

\* A path is set with its folders: nothing else changes, and it is no file
\* that gives way to a folder unless it is one of them.
LEMMA PutTree ==
    ASSUME NEW tree \in Trees, NEW p \in Paths, NEW v \in Values
    PROVE  /\ Put(tree, p, v) \in Trees
           /\ Put(tree, p, v)[p] = v
           /\ \A q \in Above[p] : Put(tree, p, v)[q] = Folder
           /\ \A q \in Paths : q # p /\ q \notin Above[p] => Put(tree, p, v)[q] = tree[q]
  BY AboveFacts, Kinds DEF Put, Trees, Values

\* What is missing once a path is set was missing before.
LEMMA PutAdds ==
    ASSUME NEW tree \in Trees, NEW p \in Paths, NEW v \in Values, v # Absent,
           NEW q \in Paths, Put(tree, p, v)[q] = Absent
    PROVE  tree[q] = Absent /\ q # p /\ q \notin Above[p]
  <1>1. /\ Put(tree, p, v)[p] = v
        /\ \A x \in Above[p] : Put(tree, p, v)[x] = Folder
        /\ q # p /\ q \notin Above[p] => Put(tree, p, v)[q] = tree[q]
    BY PutTree
  <1> QED BY <1>1, Kinds

LEMMA PutClosed ==
    ASSUME NEW tree \in Trees, NEW p \in Paths, NEW v \in Values,
           Closed(tree), tree[p] = Folder => v = Folder
    PROVE  Closed(Put(tree, p, v))
  <1> SUFFICES ASSUME NEW q \in Paths, Put(tree, p, v)[q] # Absent, NEW r \in Above[q]
               PROVE  Put(tree, p, v)[r] = Folder
    BY DEF Closed, Reachable
  <1>1. CASE q = p
    BY <1>1, PutTree
  <1>2. CASE q \in Above[p]
    BY <1>2, AboveFacts, PutTree
  <1>3. CASE q # p /\ q \notin Above[p]
    <2>1. tree[q] # Absent
      BY <1>3, PutTree
    <2>2. tree[r] = Folder
      BY <2>1 DEF Closed, Reachable
    <2> QED BY <2>2, AboveFacts, PutTree
  <1> QED BY <1>1, <1>2, <1>3

LEMMA CutTree ==
    ASSUME NEW tree \in Trees, NEW p \in Paths
    PROVE  /\ Cut(tree, p) \in Trees
           /\ \A q \in Under(p) \cup {p} : Cut(tree, p)[q] = Absent
           /\ \A q \in Paths : q \notin Under(p) \cup {p} => Cut(tree, p)[q] = tree[q]
           /\ Closed(tree) => Closed(Cut(tree, p))
  <1>1. /\ Cut(tree, p) \in Trees
        /\ \A q \in Under(p) \cup {p} : Cut(tree, p)[q] = Absent
        /\ \A q \in Paths : q \notin Under(p) \cup {p} => Cut(tree, p)[q] = tree[q]
    BY Kinds DEF Cut, Trees, Values, Under
  <1>2. ASSUME Closed(tree), NEW q \in Paths, Cut(tree, p)[q] # Absent, NEW r \in Above[q]
        PROVE  Cut(tree, p)[r] = Folder
    <2>1. q \notin Under(p) \cup {p} /\ tree[q] # Absent
      BY <1>1, <1>2
    <2>2. r \in Paths /\ r \notin Under(p) \cup {p}
      BY <1>2, <2>1, AboveFacts, UnderIs
    <2> QED BY <1>1, <1>2, <2>1, <2>2 DEF Closed, Reachable
  <1> QED BY <1>1, <1>2 DEF Closed, Reachable

\* A cut takes a path away and gives none back.
LEMMA CutKeeps ==
    ASSUME NEW tree \in Trees, NEW p \in Paths, NEW x \in Paths
    PROVE  Cut(tree, p)[p] = Absent /\ Cut(tree, p)[x] \in {tree[x], Absent}
  BY CutTree

\* A path set anew elsewhere leaves what is missing alone.
LEMMA PutCutKeeps ==
    ASSUME NEW tree \in Trees, NEW p \in Paths, NEW v \in Values,
           NEW x \in Paths, x # p, x \notin Above[p], tree[x] = Absent
    PROVE  Put(Cut(tree, p), p, v)[x] = Absent
  <1>1. Cut(tree, p) \in Trees
    BY CutTree
  <1>2. Cut(tree, p)[x] = Absent
    BY CutKeeps
  <1>3. Put(Cut(tree, p), p, v)[x] = Cut(tree, p)[x]
    BY <1>1, PutTree
  <1> QED BY <1>2, <1>3

LEMMA ListedTree ==
    ASSUME NEW tree \in Trees
    PROVE  /\ Listed(tree) \in Trees /\ Bare(Listed(tree))
           /\ \A q \in Paths : q \notin Ignored => Listed(tree)[q] = tree[q]
           /\ Closed(tree) => Closed(Listed(tree))
  <1>1. /\ Listed(tree) \in Trees /\ Bare(Listed(tree))
        /\ \A q \in Paths : q \notin Ignored => Listed(tree)[q] = tree[q]
    BY Kinds, TreeSyncAssumption DEF Listed, Trees, Bare, Values
  <1>2. ASSUME Closed(tree), NEW q \in Paths, Listed(tree)[q] # Absent, NEW r \in Above[q]
        PROVE  Listed(tree)[r] = Folder
    <2>1. q \notin Ignored /\ tree[q] # Absent
      BY <1>1, <1>2 DEF Bare
    <2>2. r \in Paths /\ r \notin Ignored /\ tree[r] = Folder
      BY <1>2, <2>1, AboveFacts DEF Closed, Reachable
    <2> QED BY <1>1, <2>2
  <1> QED BY <1>1, <1>2 DEF Closed, Reachable

LEMMA NowhereTree == Nowhere \in Trees /\ Closed(Nowhere) /\ Bare(Nowhere)
  BY Kinds, TreeSyncAssumption DEF Nowhere, Trees, Values, Closed, Bare

\* What a path that is gone leaves below it: nothing.
LEMMA NothingBelow ==
    ASSUME NEW tree, Closed(tree), NEW p \in Paths, tree[p] # Folder, NEW q \in Under(p)
    PROVE  tree[q] = Absent
  BY DEF Under, Closed, Reachable

-----------------------------------------------------------------------------
(* Decisions.                                                              *)

\* The stamps of two versions are further apart than the tolerance.
LEMMA StampsApart ==
    ASSUME NEW a \in Nat, NEW b \in Nat
    PROVE  /\ Stamp(a) \in Nat /\ Distance(Stamp(a), Stamp(b)) \in Nat
           /\ a = b => Distance(Stamp(a), Stamp(b)) = 0
           /\ a # b => Distance(Stamp(a), Stamp(b)) > MTimeTol
  <1> DEFINE unit == MTimeTol + 1
  <1>1. unit \in Nat /\ unit > MTimeTol /\ MTimeTol \in Nat
    BY DecideAssumption
  <1>2. \A m, n \in Nat : m * unit \in Nat /\ (m > n => (m - n) * unit >= unit)
                            /\ (m - n) * unit = m * unit - n * unit
    BY <1>1
  <1>3. \A m, n \in Nat : m > n => m * unit - n * unit > MTimeTol
    BY <1>1, <1>2
  <1> QED BY <1>1, <1>2, <1>3 DEF Stamp, Distance

\* The operation of a file, in versions.
Chosen(l, r, b) ==
    IF l # Absent /\ r # Absent
    THEN IF b = Absent THEN IF l = r THEN "verify_adopt" ELSE "conflict"
         ELSE IF l # b THEN IF r # b THEN "conflict" ELSE "upload"
         ELSE IF r # b THEN "download" ELSE "record"
    ELSE IF l # Absent
    THEN IF b = Absent THEN "upload" ELSE IF l # b THEN "rescue_upload" ELSE "delete_local"
    ELSE IF r # Absent
    THEN IF b = Absent THEN "download"
         ELSE IF r # b THEN "rescue_download" ELSE "delete_remote"
    ELSE "drop_baseline"

LEMMA FileOpIs ==
    ASSUME NEW p \in Paths, sl \in Trees, sr \in Trees, sb \in Trees
    PROVE  FileOp(p) = Chosen(sl[p], sr[p], sb[p])
  <1> DEFINE l == IF sl[p] = Absent THEN None ELSE [size |-> 1, mtime |-> Stamp(sl[p])]
             r == IF sr[p] = Absent THEN None
                  ELSE [size |-> 1, mtime |-> Stamp(sr[p]), etag |-> 0]
             b == IF sb[p] = Absent THEN None
                  ELSE [lsize |-> 1, lmtime |-> Stamp(sb[p]),
                        rsize |-> 1, rmtime |-> Stamp(sb[p]), etag |-> 0]
  <1>1. sl[p] \in Nat /\ sr[p] \in Nat /\ sb[p] \in Nat
    BY ValuesAre, TreeSyncAssumption DEF Trees, Values
  <1>0. /\ Stamp(sl[p]) \in Nat /\ Stamp(sr[p]) \in Nat /\ Stamp(sb[p]) \in Nat
        /\ Distance(Stamp(sl[p]), Stamp(sb[p])) > 0 <=> sl[p] # sb[p]
        /\ Distance(Stamp(sr[p]), Stamp(sb[p])) > MTimeTol <=> sr[p] # sb[p]
        /\ Distance(Stamp(sl[p]), Stamp(sr[p])) <= MTimeTol <=> sl[p] = sr[p]
    <2>1. MTimeTol \in Nat
      BY DecideAssumption
    <2>2. /\ Distance(Stamp(sl[p]), Stamp(sb[p])) \in Nat
          /\ Distance(Stamp(sr[p]), Stamp(sb[p])) \in Nat
          /\ Distance(Stamp(sl[p]), Stamp(sr[p])) \in Nat
      BY <1>1, StampsApart
    <2>3. /\ Stamp(sl[p]) \in Nat /\ Stamp(sr[p]) \in Nat /\ Stamp(sb[p]) \in Nat
          /\ sl[p] # sb[p] => Distance(Stamp(sl[p]), Stamp(sb[p])) > MTimeTol
          /\ sl[p] = sb[p] => Distance(Stamp(sl[p]), Stamp(sb[p])) = 0
      BY <1>1, StampsApart
    <2>4. /\ sr[p] # sb[p] => Distance(Stamp(sr[p]), Stamp(sb[p])) > MTimeTol
          /\ sr[p] = sb[p] => Distance(Stamp(sr[p]), Stamp(sb[p])) = 0
      BY <1>1, StampsApart
    <2>5. /\ sl[p] # sr[p] => Distance(Stamp(sl[p]), Stamp(sr[p])) > MTimeTol
          /\ sl[p] = sr[p] => Distance(Stamp(sl[p]), Stamp(sr[p])) = 0
      BY <1>1, StampsApart
    <2> QED BY <2>1, <2>2, <2>3, <2>4, <2>5
  <1>2. FileOp(p) = DecideFile(l, r, b, FALSE)
    BY DEF FileOp
  <1>3. /\ sl[p] # Absent => l # None /\ l.size = 1 /\ l.mtime = Stamp(sl[p])
        /\ sl[p] = Absent => l = None
    BY <1>0, DecideAssumption DEF LocalEntry
  <1>4. /\ sr[p] # Absent => r # None /\ r.size = 1 /\ r.mtime = Stamp(sr[p]) /\ r.etag = 0
        /\ sr[p] = Absent => r = None
    BY <1>0, DecideAssumption DEF RemoteEntry
  <1>5. /\ sb[p] # Absent => /\ b # None /\ b.lsize = 1 /\ b.lmtime = Stamp(sb[p])
                             /\ b.rsize = 1 /\ b.rmtime = Stamp(sb[p]) /\ b.etag = 0
        /\ sb[p] = Absent => b = None
    BY <1>0, DecideAssumption DEF BaseRow
  <1> HIDE DEF l, r, b
  <1>6. l # None /\ b # None => (LocalMoved(l, b) <=> sl[p] # sb[p])
    BY <1>0, <1>3, <1>5
       DEF LocalMoved, Changed, MTimeTolLocal
  <1>7. r # None /\ b # None => (RemoteMoved(r, b) <=> sr[p] # sb[p])
    BY <1>0, <1>4, <1>5 DEF RemoteMoved, Changed
  <1>8. l # None /\ r # None =>
           (Distance(l.mtime, r.mtime) <= MTimeTol <=> sl[p] = sr[p])
    BY <1>0, <1>3, <1>4
  <1>9. l # None /\ r # None => /\ l.size = 1 /\ r.size = 1
                                /\ ~EtagMoved(r, b)
    BY <1>3, <1>4, <1>5 DEF EtagMoved
  <1>10. CASE l # None /\ r # None
    <2>1. FileOp(p) = DecideBothPresent(l, r, b, FALSE)
      BY <1>2, <1>10 DEF DecideFile
    <2>2. b = None => FileOp(p) = IF sl[p] = sr[p] THEN "verify_adopt" ELSE "conflict"
      BY <1>8, <1>9, <1>10, <2>1
         DEF DecideBothPresent, LocalChanged, RemoteChanged, DecideFirstSight
    <2>3. b # None => FileOp(p) = Chosen(sl[p], sr[p], sb[p])
      BY <1>3, <1>4, <1>5, <1>6, <1>7, <1>9, <1>10, <2>1
         DEF DecideBothPresent, LocalChanged, RemoteChanged, DecideRemoteOnlyMoved, Chosen
    <2> QED BY <1>3, <1>4, <1>5, <1>10, <2>2, <2>3 DEF Chosen
  <1>11. CASE ~(l # None /\ r # None)
    BY <1>2, <1>3, <1>4, <1>5, <1>6, <1>7, <1>11
       DEF DecideFile, DecideLocalOnly, DecideRemoteOnly, Chosen
  <1> QED BY <1>10, <1>11

\* What each operation of a file says of the listings.
LEMMA FileOpFacts ==
    ASSUME NEW p \in Paths, sl \in Trees, sr \in Trees, sb \in Trees
    PROVE  /\ FileOp(p) = "delete_local" =>
                  sl[p] # Absent /\ sr[p] = Absent /\ sb[p] = sl[p]
           /\ FileOp(p) = "delete_remote" =>
                  sl[p] = Absent /\ sr[p] # Absent /\ sb[p] = sr[p]
           /\ FileOp(p) = "drop_baseline" => sl[p] = Absent /\ sr[p] = Absent
           /\ FileOp(p) = "verify_adopt" =>
                  sl[p] # Absent /\ sr[p] # Absent /\ sb[p] = Absent
           /\ FileOp(p) \in {"upload", "rescue_upload", "conflict"} =>
                  sl[p] # Absent /\ sl[p] # sb[p]
           /\ FileOp(p) \in {"download", "rescue_download", "conflict"} =>
                  sr[p] # Absent /\ sr[p] # sb[p]
           /\ sl[p] # Absent /\ sl[p] = sr[p] /\ sl[p] = sb[p] => FileOp(p) = "record"
           /\ sl[p] # Absent /\ sr[p] # Absent =>
                  FileOp(p) \in {"verify_adopt", "conflict", "upload", "download", "record"}
           /\ sl[p] = Absent /\ sr[p] # Absent =>
                  FileOp(p) \in {"download", "rescue_download", "delete_remote"}
  BY FileOpIs DEF Chosen

-----------------------------------------------------------------------------
(* Planning.                                                               *)

\* A path the pass may act on.
LEMMA PlannedFacts ==
    ASSUME Listings, NEW p \in Planned
    PROVE  /\ p \in Paths /\ p \notin Ignored
           /\ sl[p] # Absent /\ sr[p] # Absent => (IsFile(sl[p]) <=> IsFile(sr[p]))
           /\ sl[p] # Absent \/ sr[p] # Absent \/ sb[p] # Absent
  <1>1. p \in Reconcilable
    BY DEF Planned
  <1>2. p \in Known /\ p \notin KindConflicts
    BY <1>1 DEF Reconcilable
  <1> QED BY <1>2 DEF KindConflicts, Known, Listings, Bare

LEMMA PlannedKinds ==
    /\ Files \subseteq Planned /\ Folders \subseteq Planned /\ Planned \subseteq Paths
    /\ Files \cap Folders = {} /\ Files \cup Folders = Planned
    /\ \A p \in Folders : KindOf(p) = Folder
    /\ \A p \in Files : KindOf(p) # Folder
    /\ Kept \subseteq Planned
    /\ Deletions \subseteq Files
    /\ FolderTodo \subseteq Folders
  <1>1. Planned \subseteq Paths
    BY DEF Planned, Reconcilable, Known
  <1> QED BY <1>1 DEF Files, Folders, Kept, Deletions, FolderTodo

\* A folder is listed as one wherever it is listed, and a file as a file.
LEMMA ListedKinds ==
    ASSUME Listings, sl \in Trees, sr \in Trees, NEW p \in Planned
    PROVE  /\ p \in Folders => sl[p] \in {Absent, Folder} /\ sr[p] \in {Absent, Folder}
           /\ p \in Files => sl[p] # Folder /\ sr[p] # Folder
  <1>1. /\ p \in Paths
        /\ sl[p] # Absent /\ sr[p] # Absent => (IsFile(sl[p]) <=> IsFile(sr[p]))
    BY PlannedFacts
  <1>2. sl[p] \in Values /\ sr[p] \in Values
    BY <1>1 DEF Trees, Values
  <1>3. /\ p \in Folders => KindOf(p) = Folder
        /\ p \in Files => KindOf(p) # Folder
    BY PlannedKinds
  <1> QED BY <1>1, <1>2, <1>3, FileIs, Kinds DEF KindOf

\* What the cleanup and the folder phase do says of the listings.
LEMMA CleanupFacts ==
    ASSUME NEW p
    PROVE  /\ CleanupOp(p) # None =>
                 /\ sb[p] # Absent /\ (sl[p] = Absent \/ sr[p] = Absent)
                 /\ FolderOp(p) = "leave_dir"
           /\ CleanupOp(p) \in {"rmdir_local", "rmdir_remote", "drop_baseline_dir"} =>
                 CleanupOp(p) # None
           /\ CleanupOp(p) # None /\ CleanupOp(p) = "rmdir_local" =>
                 sl[p] # Absent /\ sr[p] = Absent
           /\ CleanupOp(p) # None /\ CleanupOp(p) = "rmdir_remote" =>
                 sl[p] = Absent /\ sr[p] # Absent
           /\ CleanupOp(p) # None /\ CleanupOp(p) = "drop_baseline_dir" =>
                 sl[p] = Absent /\ sr[p] = Absent
  BY TreeSyncAssumption DEF CleanupOp, FolderOp

LEMMA FolderOpFacts ==
    ASSUME NEW p
    PROVE  /\ FolderOp(p) = "record_dir" => sl[p] # Absent /\ sr[p] # Absent
           /\ FolderOp(p) = "mkdir_remote" =>
                  sl[p] # Absent /\ sr[p] = Absent /\ sb[p] = Absent
           /\ FolderOp(p) = "mkdir_local" => sl[p] = Absent /\ sb[p] = Absent
           /\ FolderOp(p) \in {"record_dir", "mkdir_remote", "mkdir_local", "leave_dir"}
  BY DEF FolderOp

\* What a pass decides depends on its listings only.
LEMMA Frozen ==
    ASSUME UNCHANGED <<sl, sr, sb>>
    PROVE  /\ Planned' = Planned /\ Files' = Files /\ Folders' = Folders
           /\ \A p : FileOp(p)' = FileOp(p)
           /\ \A p : FolderOp(p)' = FolderOp(p)
           /\ \A p : CleanupOp(p)' = CleanupOp(p)
           /\ Deletions' = Deletions
           /\ FolderTodo' = FolderTodo
           /\ WithheldPlan' = WithheldPlan /\ CoalescedPlan' = CoalescedPlan
  <1>1. Known' = Known /\ Live' = Live /\ KindConflicts' = KindConflicts
    BY DEF Known, Live, KindConflicts
  <1>2. Reconcilable' = Reconcilable
    BY <1>1 DEF Reconcilable
  <1>3. \A s : Collided(s)' = Collided(s)
    BY <1>1 DEF Collided
  <1>4. Planned' = Planned
    BY <1>2, <1>3 DEF Planned
  <1>5. \A p : KindOf(p)' = KindOf(p)
    BY DEF KindOf
  <1>6. Folders' = Folders
    BY <1>4, <1>5 DEF Folders
  <1>7. Files' = Files
    BY <1>4, <1>6 DEF Files
  <1>8. \A p : FileOp(p)' = FileOp(p)
    BY DEF FileOp
  <1>9. \A p : FolderOp(p)' = FolderOp(p) /\ CleanupOp(p)' = CleanupOp(p)
    BY DEF FolderOp, CleanupOp
  <1>10. \A p : Effective(p)' = Effective(p)
    BY <1>5, <1>8, <1>9 DEF Effective
  <1>11. Kept' = Kept
    BY <1>4, <1>10 DEF Kept
  <1>12. Prunable(Kept)' = Prunable(Kept)
    BY <1>6, <1>9, <1>11 DEF Prunable
  <1>13. Roots(Prunable(Kept))' = Roots(Prunable(Kept))
    BY <1>12 DEF Roots
  <1>14. WithheldPlan' = WithheldPlan /\ CoalescedPlan' = CoalescedPlan
    BY <1>4, <1>6, <1>7, <1>11, <1>13 DEF WithheldPlan, CoalescedPlan
  <1>15. Deletions' = Deletions
    BY <1>7, <1>8 DEF Deletions
  <1>16. FolderTodo' = FolderTodo
    BY <1>6, <1>9 DEF FolderTodo
  <1> QED BY <1>4, <1>6, <1>7, <1>8, <1>9, <1>14, <1>15, <1>16

LEMMA TwinsAre == TakenAlong \subseteq Paths
  BY DEF TakenAlong, Collided, Reconcilable, Known

LEMMA FrozenTwins ==
    ASSUME UNCHANGED <<sl, sr, sb, plan>>
    PROVE  TakenAlong' = TakenAlong
  <1>1. Known' = Known /\ Live' = Live /\ KindConflicts' = KindConflicts
    BY DEF Known, Live, KindConflicts
  <1>2. Reconcilable' = Reconcilable
    BY <1>1 DEF Reconcilable
  <1>3. \A s : Collided(s)' = Collided(s)
    BY <1>1 DEF Collided
  <1> QED BY <1>2, <1>3 DEF TakenAlong

LEMMA FrozenThreshold ==
    ASSUME UNCHANGED <<sl, sr, sb, mode>>
    PROVE  /\ Suppressed' = Suppressed
           /\ \A n : OverThreshold(n)' = OverThreshold(n)
  <1>1. \A n : OverThreshold(n)' = OverThreshold(n)
    BY DEF OverThreshold
  <1>2. Deletions' = Deletions
    BY Frozen
  <1> QED BY <1>1, <1>2 DEF Suppressed

LEMMA FrozenWork ==
    ASSUME UNCHANGED <<sl, sr, sb, plan>>
    PROVE  FileTodo' = FileTodo /\ CleanupTodo' = CleanupTodo
  <1>1. \A p : FileOp(p)' = FileOp(p) /\ CleanupOp(p)' = CleanupOp(p)
    BY Frozen
  <1> QED BY <1>1 DEF FileTodo, CleanupTodo

\* The parts of a plan.
PlanRecord == [files: SUBSET Paths, folders: SUBSET Paths, withheld: BOOLEAN,
               kept: SUBSET Paths, roots: SUBSET Paths, covered: SUBSET Paths]

LEMMA PlansAre ==
    /\ WithheldPlan \in PlanRecord /\ CoalescedPlan \in PlanRecord
    /\ WithheldPlan # None /\ CoalescedPlan # None
  <1>1. Files \subseteq Paths /\ Folders \subseteq Paths /\ Kept \subseteq Paths
    BY PlannedKinds
  <1>2. Roots(Prunable(Kept)) \subseteq Folders
    BY DEF Roots, Prunable
  <1>3. {p \in Planned : ({p} \cup Above[p]) \cap Roots(Prunable(Kept)) # {}} \subseteq Paths
    BY PlannedKinds
  <1>4. WithheldPlan \in PlanRecord
    BY <1>1 DEF WithheldPlan, PlanRecord
  <1>5. CoalescedPlan \in PlanRecord
    BY <1>1, <1>2, <1>3 DEF CoalescedPlan, PlanRecord
  <1>6. None \notin PlanRecord
    BY TreeSyncAssumption DEF PlanRecord
  <1> QED BY <1>4, <1>5, <1>6

LEMMA PlanParts ==
    ASSUME PlanFits, plan # None
    PROVE  /\ plan \in PlanRecord
           /\ plan.files = Files /\ plan.folders = Folders /\ InPlan = Planned
           /\ plan.withheld <=> Suppressed
           /\ plan.withheld => plan.roots = {} /\ plan.covered = {}
           /\ ~plan.withheld =>
                /\ plan.kept = Kept /\ plan.roots = Roots(Prunable(Kept))
                /\ plan.covered = {p \in Planned :
                                     ({p} \cup Above[p]) \cap Roots(Prunable(Kept)) # {}}
  <1>1. plan = IF Suppressed THEN WithheldPlan ELSE CoalescedPlan
    BY DEF PlanFits
  <1>2. plan \in PlanRecord
    BY <1>1, PlansAre
  <1>3. CASE Suppressed
    BY <1>1, <1>2, <1>3, PlannedKinds DEF WithheldPlan, InPlan
  <1>4. CASE ~Suppressed
    BY <1>1, <1>2, <1>4, PlannedKinds DEF CoalescedPlan, InPlan
  <1> QED BY <1>2, <1>3, <1>4

\* A root goes with all that is covered by it: none of it is listed in the vault.
LEMMA RootFacts ==
    ASSUME TypeOK, Listings, PlanFits, plan # None, NEW p \in plan.roots
    PROVE  /\ p \in Folders /\ p \in Planned /\ p \in plan.covered
           /\ sl[p] = Absent /\ sr[p] = Folder /\ sb[p] # Absent
           /\ Under(p) \cap Kept = {}
           /\ \A q \in plan.roots : q = p \/ (q \notin Above[p] /\ p \notin Above[q])
  <1>1. /\ ~plan.withheld /\ p \in Roots(Prunable(Kept))
        /\ plan.roots = Roots(Prunable(Kept))
        /\ plan.covered = {q \in Planned :
                             ({q} \cup Above[q]) \cap Roots(Prunable(Kept)) # {}}
    BY PlanParts DEF PlanRecord
  <1>2. p \in Prunable(Kept)
    BY <1>1 DEF Roots
  <1>3. /\ p \in Folders /\ CleanupOp(p) = "rmdir_remote" /\ Under(p) \cap Kept = {}
    BY <1>2 DEF Prunable
  <1>4. p \in Planned
    BY <1>3, PlannedKinds
  <1>5. sl[p] = Absent /\ sr[p] # Absent /\ sb[p] # Absent
    BY <1>3, CleanupFacts
  <1>6. sr[p] = Folder
    BY <1>3, <1>4, <1>5, ListedKinds DEF TypeOK
  <1>7. \A q \in plan.roots : q \in Prunable(Kept) /\ Above[q] \cap Prunable(Kept) = {}
    BY <1>1 DEF Roots
  <1> QED BY <1>1, <1>2, <1>3, <1>4, <1>5, <1>6, <1>7

LEMMA CoveredFacts ==
    ASSUME TypeOK, Listings, PlanFits, plan # None, NEW q \in plan.covered
    PROVE  /\ q \in Planned /\ q \in Paths /\ sl[q] = Absent /\ q \notin FolderTodo
           /\ \E p \in plan.roots : p \in Above[q] \cup {q}
  <1>1. /\ q \in Planned /\ \E p \in plan.roots : p \in Above[q] \cup {q}
        /\ plan.roots = Roots(Prunable(Kept))
    BY PlanParts DEF PlanRecord
  <1>2. PICK p \in plan.roots : p \in Above[q] \cup {q}
    BY <1>1
  <1>3. p \in Paths /\ q \in Paths /\ sl[p] = Absent
    BY <1>1, <1>2, RootFacts, PlannedKinds
  <1>4. sl[q] = Absent
    BY <1>2, <1>3, Kinds DEF Listings, Closed, Reachable
  <1>5. CASE q = p
    BY <1>1, <1>2, <1>3, <1>4, <1>5, RootFacts DEF FolderTodo, FolderOp
  <1>6. CASE p \in Above[q]
    <2>1. q \notin Kept
      BY <1>2, <1>3, <1>6, RootFacts, UnderIs
    <2>2. SUFFICES ASSUME q \in Folders, FolderOp(q) # "leave_dir" PROVE FALSE
      BY <1>1, <1>2, <1>3, <1>4 DEF FolderTodo
    <2>3. FolderOp(q) = "mkdir_local" /\ sb[q] = Absent
      BY <1>4, <2>2 DEF FolderOp
    <2>4. CleanupOp(q) = None
      BY <2>3 DEF CleanupOp
    <2>5. Effective(q) = "mkdir_local"
      BY <2>2, <2>3, <2>4, PlannedKinds DEF Effective
    <2> QED BY <1>1, <2>1, <2>5 DEF Kept
  <1> QED BY <1>1, <1>2, <1>3, <1>4, <1>5, <1>6

-----------------------------------------------------------------------------
(* The steps of a pass, by what they change.                               *)

\* The operations, without a failure.
Op(p) == \/ MakeRemote(p) \/ MakeLocal(p) \/ RecordFolder(p)
         \/ DeleteRemoteTree(p)
         \/ Upload(p) \/ Download(p) \/ Adopt(p) \/ DeleteLocal(p) \/ DeleteRemote(p)
         \/ DropRow(p) \/ RemoveLocalFolder(p)

LEMMA ApplyIs == \A p : Apply(p) <=> Op(p) \/ Skip(p)
  BY DEF Apply, Op

\* A path at work is one of its phase.
LEMMA WorkOf ==
    ASSUME TypeOK, Listings, PlanFits, WorkFits, NEW p \in todo
    PROVE  /\ plan # None /\ pc \in Working
           /\ p \in Planned /\ p \in Paths /\ p \notin Ignored
           /\ pc = "folders" => p \in FolderTodo /\ p \in Folders
           /\ pc = "trees" => p \in plan.roots
           /\ pc = "files" => p \in FileTodo /\ p \in Files /\ p \notin plan.covered
           /\ pc = "cleanup" => /\ p \in CleanupTodo /\ p \in Folders
                                /\ p \notin plan.covered /\ p \notin FolderTodo
  <1>1. pc \in Working
    BY DEF TypeOK, WorkFits, Working, Reading
  <1>2. plan # None
    BY <1>1 DEF TypeOK, Working
  <1>3. plan.files = Files /\ plan.folders = Folders
    BY <1>2, PlanParts
  <1>4. pc = "folders" => p \in FolderTodo /\ p \in Folders
    BY PlannedKinds DEF WorkFits
  <1>5. pc = "trees" => p \in plan.roots /\ p \in Planned
    BY <1>2, RootFacts DEF WorkFits
  <1>6. pc = "files" => p \in FileTodo /\ p \in Files /\ p \notin plan.covered
    BY <1>3 DEF WorkFits, FileTodo
  <1>7. pc = "cleanup" => /\ p \in CleanupTodo /\ p \in Folders
                          /\ p \notin plan.covered /\ CleanupOp(p) # None
    BY <1>3 DEF WorkFits, CleanupTodo
  <1>8. pc = "cleanup" => p \notin FolderTodo
    BY <1>7, CleanupFacts DEF FolderTodo
  <1>9. p \in Planned
    BY <1>1, <1>4, <1>5, <1>6, <1>7, PlannedKinds DEF Working
  <1> QED BY <1>1, <1>2, <1>4, <1>5, <1>6, <1>7, <1>8, <1>9, PlannedFacts

LEMMA OpFrame ==
    ASSUME NEW p, Op(p)
    PROVE  /\ p \in todo /\ doing = None /\ pc \in Working
           /\ UNCHANGED <<base, sl, sr, sb, plan, pc, todo, mode, edits, faults, calm, dead>>
           /\ doing' = <<p, doing'[2]>>
           /\ taken' = taken \/ pc \in {"trees", "files", "cleanup"}
  BY DEF Op, MakeRemote, MakeLocal, RecordFolder, DeleteRemoteTree, Upload, Download,
         Adopt, DeleteLocal, DeleteRemote, DropRow, RemoveLocalFolder, Turn, Done,
         CutLocal, CutRemote, listing, bounds, Working

\* Both trees after an operation: still trees of listed values.
LEMMA OpTrees ==
    ASSUME TypeOK, Listings, PlanFits, WorkFits, NEW p, Op(p)
    PROVE  /\ local' \in Trees /\ remote' \in Trees
           /\ Closed(local') /\ Closed(remote')
           /\ doing'[2] \in Values
  <1>1. /\ local \in Trees /\ remote \in Trees /\ sl \in Trees /\ sr \in Trees
        /\ Closed(local) /\ Closed(remote)
    BY DEF TypeOK, Closed
  <1>2. p \in Paths /\ p \in todo
    BY OpFrame, WorkOf
  <1>3. local[p] \in Values /\ sl[p] \in Values /\ sr[p] \in Values
    BY <1>1, <1>2 DEF Trees, Values
  <1>4. CASE MakeRemote(p)
    <2>1. remote[p] = Absent => Put(remote, p, Folder) \in Trees
                                /\ Closed(Put(remote, p, Folder))
      BY <1>1, <1>2, Kinds, PutTree, PutClosed
    <2> QED BY <1>1, <1>4, <2>1, Kinds DEF MakeRemote, Done
  <1>5. CASE MakeLocal(p)
    <2>1. Put(local, p, Folder) \in Trees /\ Closed(Put(local, p, Folder))
      BY <1>1, <1>2, Kinds, PutTree, PutClosed
    <2> QED BY <1>1, <1>5, <2>1, Kinds DEF MakeLocal, Done
  <1>6. CASE RecordFolder(p)
    BY <1>1, <1>6, Kinds DEF RecordFolder, Done, trees
  <1>7. CASE DeleteRemoteTree(p) \/ DeleteRemote(p)
    BY <1>1, <1>2, <1>7, CutTree, Kinds DEF DeleteRemoteTree, DeleteRemote, CutRemote, Done
  <1>8. CASE DeleteLocal(p) \/ RemoveLocalFolder(p)
    BY <1>1, <1>2, <1>8, CutTree, Kinds DEF DeleteLocal, RemoveLocalFolder, CutLocal, Done
  <1>9. CASE Upload(p)
    <2>1. /\ Cut(remote, p) \in Trees /\ Closed(Cut(remote, p))
          /\ Cut(remote, p)[p] = Absent
      BY <1>1, <1>2, CutTree
    <2>2. /\ Put(Cut(remote, p), p, local[p]) \in Trees
          /\ Closed(Put(Cut(remote, p), p, local[p]))
      BY <1>2, <1>3, <2>1, Kinds, PutTree, PutClosed
    <2> QED BY <1>1, <1>3, <1>9, <2>2 DEF Upload, Done
  <1>10. CASE Download(p)
    <2>1. local[p] # Folder
      BY <1>10 DEF Download
    <2>2. Put(local, p, sr[p]) \in Trees /\ Closed(Put(local, p, sr[p]))
      BY <1>1, <1>2, <1>3, <2>1, PutTree, PutClosed
    <2> QED BY <1>1, <1>3, <1>10, <2>2 DEF Download, Done
  <1>11. CASE Adopt(p) \/ DropRow(p)
    BY <1>1, <1>3, <1>11, Kinds DEF Adopt, DropRow, Done, trees
  <1> QED BY <1>4, <1>5, <1>6, <1>7, <1>8, <1>9, <1>10, <1>11 DEF Op

\* A local folder that goes holds nothing that was listed.
LEMMA EmptyFolder ==
    ASSUME TypeOK, NEW p \in Paths, ~Lingers(p), NEW q \in Under(p), q \notin Ignored
    PROVE  local[q] = Absent
  <1> SUFFICES ASSUME local[q] # Absent PROVE FALSE
    OBVIOUS
  <1>1. q \in Paths /\ p \in Above[q]
    BY DEF Under
  <1>2. PICK r \in Above[q] \cup {q} : Above[r] = Above[p] \cup {p}
    BY <1>1, TreeSyncAssumption
  <1>3. r \in Under(p) /\ r \notin Ignored
    BY <1>1, <1>2, AboveFacts DEF Under
  <1>4. local[r] # Absent
    BY <1>1, <1>2, Kinds DEF TypeOK, Reachable
  <1>5. r \in Kids(local, p)
    BY <1>2, <1>3, <1>4 DEF Kids
  <1> QED BY <1>3, <1>5 DEF Lingers

\* The files a pass may take away.
DoomedLocally(q)  == q \in plan.files /\ FileOp(q) = "delete_local"
DoomedRemotely(q) == (q \in plan.files /\ FileOp(q) = "delete_remote") \/ q \in TakenAlong

\* Below a folder deleted in one call nothing is in a kind conflict: the vault's listing
\* has nothing there.  So what iCloud lists there is planned or a case twin.
LEMMA BelowRoot ==
    ASSUME TypeOK, Listings, PlanFits, plan # None, NEW p \in plan.roots,
           NEW q \in Under(p), sr[q] # Absent
    PROVE  q \in Planned \/ q \in TakenAlong
  <1>1. p \in Planned /\ p \in Paths /\ sl[p] = Absent
    BY RootFacts, PlannedKinds
  <1>2. q \in Paths /\ p \in Above[q] /\ q \in Known
    BY DEF Under, Known
  <1>3. ({p} \cup Above[p]) \cap KindConflicts = {}
    BY <1>1 DEF Planned, Reconcilable
  <1>4. ASSUME NEW r \in {q} \cup Above[q], r \in KindConflicts
        PROVE  FALSE
    <2>1. r \in Paths /\ (r \in Above[q] => r \in FolderPaths)
      BY <1>2, AboveFacts
    <2>2. r \in {p} \cup Above[p] \/ p \in Above[r]
      BY <1>2, <2>1, TreeSyncAssumption
    <2>3. p \in Above[r] => sl[r] = Absent
      BY <1>1, <2>1, NothingBelow, Kinds DEF Listings, Under
    <2> QED BY <1>3, <1>4, <2>2, <2>3 DEF KindConflicts
  <1>5. q \in Reconcilable
    BY <1>2, <1>4 DEF Reconcilable
  <1>6. q \in Planned \/ q \in Collided(Reconcilable)
    BY <1>5 DEF Planned
  <1> QED BY <1>2, <1>6 DEF TakenAlong, Collided

\* What an operation takes away of the listed files is what the pass decided to
\* delete on that side, or a twin that goes with a folder.
LEMMA OnlyDoomedGo ==
    ASSUME TypeOK, Listings, PlanFits, WorkFits, NEW p, Op(p), NEW q \in Paths
    PROVE  /\ Goes(local, local', sl, q) => DoomedLocally(q)
           /\ Goes(remote, remote', sr, q) => DoomedRemotely(q)
  <1>1. /\ local \in Trees /\ remote \in Trees /\ sl \in Trees /\ sr \in Trees
        /\ sb \in Trees /\ Closed(sl) /\ Closed(sr)
    BY DEF TypeOK, Listings
  <1>2. /\ p \in Paths /\ p \in todo /\ plan # None /\ p \in Planned
        /\ plan.files = Files
    BY OpFrame, WorkOf, PlanParts
  <1>3. /\ local[p] \in Values /\ sl[p] \in Values /\ sr[p] \in Values
        /\ sl[q] \in Values /\ sr[q] \in Values
    BY <1>1, <1>2 DEF Trees, Values
  <1>4. CASE UNCHANGED local /\ UNCHANGED remote
    BY <1>4, Kinds DEF Goes
  <1>5. CASE MakeRemote(p) \/ MakeLocal(p)
    <2>1. MakeRemote(p) => /\ UNCHANGED local
                           /\ remote' = remote \/ remote' = Put(remote, p, Folder)
      BY DEF MakeRemote
    <2>2. MakeLocal(p) => UNCHANGED remote /\ local' = Put(local, p, Folder)
      BY DEF MakeLocal
    <2>3. ASSUME NEW tree \in Trees, Put(tree, p, Folder)[q] = Absent
          PROVE  ~IsFile(tree[q])
      BY <1>2, <2>3, PutAdds, Kinds
    <2> QED BY <1>1, <1>5, <2>1, <2>2, <2>3, Kinds DEF Goes
  <1>6. CASE DeleteRemoteTree(p)
    <2>1. UNCHANGED local /\ remote' = Cut(remote, p) /\ pc = "trees"
      BY <1>6 DEF DeleteRemoteTree, CutRemote
    <2>2. p \in plan.roots
      BY <1>2, <2>1, WorkOf
    <2>3. SUFFICES ASSUME Goes(remote, remote', sr, q), q \notin TakenAlong
                   PROVE  q \in Files /\ FileOp(q) = "delete_remote"
      BY <1>2, <2>1, Kinds DEF Goes, DoomedRemotely
    <2>4. /\ IsFile(sr[q]) /\ sr[q] # Absent /\ sr[q] # Folder
          /\ remote[q] # Absent /\ remote'[q] = Absent
      BY <1>2, <1>3, <2>3, FileIs DEF Goes
    <2>5. q \in Under(p)
      BY <1>1, <1>2, <2>1, <2>2, <2>4, CutTree, RootFacts
    <2>10. q \in Planned
      BY <1>2, <2>2, <2>3, <2>4, <2>5, BelowRoot
    <2>6. q \notin Kept /\ sl[q] = Absent
      BY <1>1, <1>2, <2>2, <2>5, RootFacts, NothingBelow, Kinds
    <2>7. KindOf(q) = sr[q]
      BY <2>4, <2>6 DEF KindOf
    <2>8. Effective(q) = FileOp(q) /\ q \in Files
      BY <2>4, <2>7, <2>10 DEF Effective, Files, Folders
    <2>9. FileOp(q) \in {"download", "rescue_download", "delete_remote"}
      BY <1>1, <2>4, <2>6, FileOpFacts
    <2> QED BY <2>6, <2>8, <2>9, <2>10 DEF Kept
  <1>7. CASE Upload(p)
    <2>1. pc = "files" /\ Sends(p) /\ UNCHANGED local
          /\ remote' = Put(Cut(remote, p), p, local[p]) /\ IsFile(local[p])
      BY <1>7 DEF Upload
    <2>2. p \in Files
      BY <1>2, <2>1, WorkOf
    <2>3. SUFFICES ASSUME Goes(remote, remote', sr, q) PROVE FALSE
      BY <2>1, Kinds DEF Goes
    <2>4. IsFile(sr[q]) /\ remote[q] # Absent /\ remote'[q] = Absent
      BY <1>3, <2>3, FileIs DEF Goes
    <2>5. Cut(remote, p) \in Trees
      BY <1>1, <1>2, CutTree
    <2>6. local[p] # Absent
      BY <2>1, Kinds
    <2>7. q # p /\ Cut(remote, p)[q] = Absent
      BY <1>2, <1>3, <2>1, <2>4, <2>5, <2>6, PutAdds
    <2>8. q \in Under(p)
      BY <1>1, <1>2, <2>4, <2>7, CutTree
    <2>9. sr[p] # Folder
      BY <1>1, <1>2, <2>2, ListedKinds
    <2> QED BY <1>1, <1>2, <2>4, <2>8, <2>9, NothingBelow, Kinds
  <1>8. CASE Download(p)
    <2>1. /\ pc = "files" /\ Fetches(p) /\ UNCHANGED remote
          /\ local' = Put(local, p, sr[p])
      BY <1>8 DEF Download
    <2>2. sr[p] # Absent
      BY <1>1, <1>2, <2>1, FileOpFacts DEF Fetches
    <2>3. local'[q] = Absent => local[q] = Absent
      BY <1>1, <1>2, <1>3, <2>1, <2>2, PutAdds
    <2> QED BY <2>1, <2>3, Kinds DEF Goes
  <1>9. CASE DeleteLocal(p)
    <2>1. /\ pc = "files" /\ FileOp(p) = "delete_local" /\ UNCHANGED remote
          /\ local' = Cut(local, p)
      BY <1>9 DEF DeleteLocal, CutLocal
    <2>6. p \in Files
      BY <1>2, <2>1, WorkOf
    <2>2. sl[p] # Folder
      BY <1>1, <1>2, <2>6, ListedKinds
    <2>3. SUFFICES ASSUME Goes(local, local', sl, q), q # p PROVE FALSE
      BY <1>2, <2>1, <2>6, Kinds DEF Goes, DoomedLocally
    <2>4. IsFile(sl[q]) /\ local[q] # Absent /\ local'[q] = Absent
      BY <1>3, <2>3, FileIs DEF Goes
    <2>5. q \in Under(p)
      BY <1>1, <1>2, <2>1, <2>3, <2>4, CutTree
    <2> QED BY <1>1, <1>2, <2>2, <2>4, <2>5, NothingBelow, Kinds
  <1>10. CASE DeleteRemote(p)
    <2>1. /\ pc = "files" /\ FileOp(p) = "delete_remote" /\ UNCHANGED local
          /\ remote' = Cut(remote, p)
      BY <1>10 DEF DeleteRemote, CutRemote
    <2>6. p \in Files
      BY <1>2, <2>1, WorkOf
    <2>2. sr[p] # Folder
      BY <1>1, <1>2, <2>6, ListedKinds
    <2>3. SUFFICES ASSUME Goes(remote, remote', sr, q), q # p PROVE FALSE
      BY <1>2, <2>1, <2>6, Kinds DEF Goes, DoomedRemotely
    <2>4. IsFile(sr[q]) /\ remote[q] # Absent /\ remote'[q] = Absent
      BY <1>3, <2>3, FileIs DEF Goes
    <2>5. q \in Under(p)
      BY <1>1, <1>2, <2>1, <2>3, <2>4, CutTree
    <2> QED BY <1>1, <1>2, <2>2, <2>4, <2>5, NothingBelow, Kinds
  <1>11. CASE RemoveLocalFolder(p)
    <2>1. /\ ~IsFile(local[p]) /\ ~Lingers(p) /\ UNCHANGED remote
          /\ local' = Cut(local, p)
      BY <1>11 DEF RemoveLocalFolder, CutLocal
    <2>2. SUFFICES ASSUME Goes(local, local', sl, q) PROVE FALSE
      BY <2>1, Kinds DEF Goes
    <2>3. /\ sl[q] # Absent /\ IsFile(local[q]) /\ local[q] # Absent /\ local'[q] = Absent
      BY <1>2, <1>3, <2>2, FileIs DEF Goes
    <2>4. q \in Under(p) /\ q \notin Ignored
      BY <1>1, <1>2, <2>1, <2>3, CutTree DEF Listings, Bare
    <2> QED BY <1>2, <2>1, <2>3, <2>4, EmptyFolder
  <1>12. CASE RecordFolder(p) \/ Adopt(p) \/ DropRow(p)
    BY <1>4, <1>12 DEF RecordFolder, Adopt, DropRow, trees
  <1> QED BY <1>5, <1>6, <1>7, <1>8, <1>9, <1>10, <1>11, <1>12 DEF Op

-----------------------------------------------------------------------------
(* PassInv is inductive.                                                   *)

LEMMA InitPass == Init => PassInv
  <1> SUFFICES ASSUME Init PROVE PassInv
    OBVIOUS
  <1>1. PICK rows \in BOOLEAN, ds \in BOOLEAN :
          LET tree == [p \in Paths |-> IF p \notin Start0 THEN Absent
                                       ELSE IF p \in FolderPaths THEN Folder ELSE 2]
          IN  /\ remote = Listed(tree)
              /\ local = IF ds THEN tree ELSE Listed(tree)
              /\ base = IF rows THEN Listed(tree) ELSE Nowhere
    BY DEF Init
  <1> DEFINE tree == [p \in Paths |-> IF p \notin Start0 THEN Absent
                                      ELSE IF p \in FolderPaths THEN Folder ELSE 2]
  <1>2. 2 \in Values
    BY TreeSyncAssumption DEF Values, Versions
  <1>3. tree \in Trees
    BY <1>2, Kinds DEF Trees, Values
  <1>4. Closed(tree)
    BY AboveFacts, TreeSyncAssumption DEF Closed, Reachable
  <1> HIDE DEF tree
  <1>5. /\ local \in Trees /\ remote \in Trees /\ base \in Trees
        /\ Closed(local) /\ Closed(remote) /\ Bare(base)
    BY <1>1, <1>3, <1>4, ListedTree, NowhereTree DEF tree
  <1>6. Listings
    BY <1>5, NowhereTree DEF Init, Listings
  <1>7. TypeOK
    BY <1>5, NowhereTree, TreeSyncAssumption DEF Init, TypeOK, Closed
  <1>8. PlanFits /\ WorkFits /\ TakenFits
    BY DEF Init, PlanFits, WorkFits, TakenFits, Reading
  <1> QED BY <1>6, <1>7, <1>8 DEF PassInv

\* The trees a user makes.
LEMMA WrittenTree ==
    ASSUME NEW tree \in Trees, Closed(tree), NEW p \in Paths, edits \in Nat,
           edits < MaxEdits, NEW t \in Written(tree, p)
    PROVE  /\ t \in Trees /\ Closed(t)
           /\ \E v \in {3 + edits, Folder} :
                 /\ t = Put(tree, p, v) /\ v \in Values
                 /\ IsFile(v) => v = 3 + edits
                 /\ v = Folder => tree[p] = Absent
  <1>1. 3 + edits \in Values /\ Folder \in Values /\ 3 + edits # Folder
    BY TreeSyncAssumption DEF Values, Versions, Folder
  <1>2. PICK v \in {3 + edits, Folder} :
           /\ t = Put(tree, p, v)
           /\ v = 3 + edits => tree[p] # Folder
           /\ v = Folder => tree[p] = Absent
    BY <1>1 DEF Written
  <1> QED BY <1>1, <1>2, PutTree, PutClosed, Kinds

LEMMA UserTrees ==
    ASSUME TypeOK, User
    PROVE  /\ local' \in Trees /\ remote' \in Trees
           /\ Closed(local') /\ Closed(remote')
           /\ dead' \in [{"local", "remote"} -> SUBSET Paths]
           /\ edits < MaxEdits /\ edits' = edits + 1 /\ calm' = 0
           /\ UNCHANGED <<base, sl, sr, sb, plan, pc, todo, doing, mode, faults, taken>>
  <1>1. /\ local \in Trees /\ remote \in Trees /\ Closed(local) /\ Closed(remote)
        /\ edits \in Nat /\ dead \in [{"local", "remote"} -> SUBSET Paths]
    BY DEF TypeOK, Closed
  <1>2. PICK p \in Paths : LocalWrite(p) \/ LocalDelete(p) \/ RemoteWrite(p) \/ RemoteDelete(p)
    BY DEF User
  <1>3. Acts
    BY <1>2 DEF LocalWrite, LocalDelete, RemoteWrite, RemoteDelete
  <1>4. Revived(p) \in [{"local", "remote"} -> SUBSET Paths]
    BY <1>1 DEF Revived
  <1>5. \A side \in {"local", "remote"} :
           Died(side, p) \in [{"local", "remote"} -> SUBSET Paths]
    BY <1>1, <1>2 DEF Died, Under
  <1>6. CASE LocalWrite(p)
    BY <1>1, <1>3, <1>4, <1>6, WrittenTree DEF LocalWrite, Acts, listing
  <1>7. CASE RemoteWrite(p)
    BY <1>1, <1>3, <1>4, <1>7, WrittenTree DEF RemoteWrite, Acts, listing
  <1>8. CASE LocalDelete(p)
    BY <1>1, <1>3, <1>5, <1>8, CutTree DEF LocalDelete, Acts, listing
  <1>9. CASE RemoteDelete(p)
    BY <1>1, <1>3, <1>5, <1>9, CutTree DEF RemoteDelete, Acts, listing
  <1> QED BY <1>2, <1>6, <1>7, <1>8, <1>9

\* A step that leaves the pass as it is leaves what was said of it.
LEMMA PassAsItWas ==
    ASSUME PassInv, UNCHANGED <<sl, sr, sb, plan, pc, mode>>, Bare(base'),
           todo' \subseteq todo,
           pc \in ({"idle"} \cup Reading) => UNCHANGED doing
    PROVE  (Listings /\ PlanFits /\ WorkFits)'
  <1>1. Listings'
    BY DEF PassInv, Listings
  <1>2. PlanFits'
    BY Frozen, FrozenThreshold DEF PassInv, PlanFits
  <1>3. WorkFits'
    BY Frozen, FrozenWork DEF PassInv, WorkFits
  <1> QED BY <1>1, <1>2, <1>3

LEMMA TakenAsItWas ==
    ASSUME PassInv, UNCHANGED <<sl, sr, sb, plan, taken>>
    PROVE  TakenFits'
  BY Frozen, FrozenTwins DEF PassInv, TakenFits

LEMMA UserPass == ASSUME PassInv, User PROVE PassInv'
  <1>1. TypeOK'
    BY UserTrees, TreeSyncAssumption DEF PassInv, TypeOK, Closed
  <1>2. (Listings /\ PlanFits /\ WorkFits)'
    BY UserTrees, PassAsItWas DEF PassInv, Listings
  <1>3. TakenFits'
    BY UserTrees, TakenAsItWas DEF PassInv
  <1> QED BY <1>1, <1>2, <1>3 DEF PassInv

LEMMA ScanPass == ASSUME PassInv, ScanLocal \/ ScanRemote PROVE PassInv'
  <1>1. /\ local \in Trees /\ remote \in Trees /\ Closed(local) /\ Closed(remote)
        /\ plan = None /\ plan' = None /\ todo = {} /\ doing = None /\ taken = {}
        /\ UNCHANGED <<local, remote, base, todo, doing, mode, edits, faults, taken, dead>>
        /\ pc' \in Reading
    BY DEF PassInv, TypeOK, Closed, WorkFits, TakenFits, Reading, ScanLocal, ScanRemote,
           trees, bounds, history
  <1>2. /\ Listed(local) \in Trees /\ Bare(Listed(local)) /\ Closed(Listed(local))
        /\ Listed(remote) \in Trees /\ Bare(Listed(remote)) /\ Closed(Listed(remote))
    BY <1>1, ListedTree
  <1>3. Listings' /\ sl' \in Trees /\ sr' \in Trees /\ sb' \in Trees
    BY <1>2 DEF PassInv, TypeOK, Listings, ScanLocal, ScanRemote
  <1>4. TypeOK'
    BY <1>1, <1>3 DEF PassInv, TypeOK, Reading
  <1>5. PlanFits' /\ WorkFits' /\ TakenFits'
    BY <1>1 DEF PlanFits, WorkFits, TakenFits, Reading
  <1> QED BY <1>3, <1>4, <1>5 DEF PassInv

LEMMA DecidePass == ASSUME PassInv, Decide PROVE PassInv'
  <1>1. /\ pc = "listed" /\ pc' = "folders"
        /\ plan' = IF Suppressed THEN WithheldPlan ELSE CoalescedPlan
        /\ todo' = FolderTodo /\ taken = {} /\ doing = None
        /\ UNCHANGED <<local, remote, base, sl, sr, sb, doing, mode, edits, faults, taken, dead>>
    BY DEF PassInv, TypeOK, WorkFits, TakenFits, Reading, Decide, trees, bounds, history
  <1>2. plan' # None
    BY <1>1, PlansAre
  <1>3. PlanFits' /\ Listings'
    BY <1>1, Frozen, FrozenThreshold DEF PassInv, PlanFits, Listings
  <1>4. todo' \subseteq Paths
    BY <1>1, PlannedKinds
  <1>5. TypeOK'
    BY <1>1, <1>2, <1>4 DEF PassInv, TypeOK
  <1>6. WorkFits' /\ TakenFits'
    BY <1>1, <1>2, Frozen DEF WorkFits, TakenFits, Reading
  <1> QED BY <1>3, <1>5, <1>6 DEF PassInv

LEMMA OverPass ==
    ASSUME PassInv, NEW m \in {"boot", "normal", "force"}, Over(m),
           faults' \in 0..MaxFaults
    PROVE  PassInv'
  <1>1. /\ UNCHANGED <<local, remote, base, edits, dead>>
        /\ pc' = "idle" /\ todo' = {} /\ doing' = None /\ taken' = {} /\ plan' = None
        /\ sl' = Nowhere /\ sr' = Nowhere /\ sb' = Nowhere /\ mode' = m
    BY DEF Over, trees
  <1>2. Listings'
    BY <1>1, NowhereTree DEF PassInv, Listings
  <1>3. TypeOK'
    BY <1>1, NowhereTree DEF PassInv, TypeOK
  <1>4. PlanFits' /\ WorkFits' /\ TakenFits'
    BY <1>1 DEF PlanFits, WorkFits, TakenFits, Reading
  <1> QED BY <1>2, <1>3, <1>4 DEF PassInv

LEMMA FaultCounts == TypeOK /\ Fault => faults' \in 0..MaxFaults
  BY TreeSyncAssumption DEF TypeOK, Fault

LEMMA PhasePass == ASSUME PassInv, NextPhase PROVE PassInv'
  <1>1. CASE pc = "cleanup" /\ Over("normal") /\ UNCHANGED faults
    BY <1>1, OverPass DEF PassInv, TypeOK
  <1>2. ASSUME NEW phase \in {"trees", "files", "cleanup"}, NEW work,
               pc \in Working, doing = None, Enter(phase, work),
               phase = "trees" => work = plan.roots,
               phase = "files" => work = FileTodo,
               phase = "cleanup" => work = CleanupTodo
        PROVE  PassInv'
    <2>1. /\ UNCHANGED <<local, remote, base, sl, sr, sb, plan, doing, mode, edits,
                         faults, taken, dead>>
          /\ pc' = phase /\ todo' = work
      BY <1>2 DEF Enter, trees, listing, bounds, history
    <2>2. plan # None
      BY <1>2 DEF PassInv, TypeOK, Working
    <2>3. work \subseteq Paths
      BY <1>2, <2>2, PlanParts DEF PassInv, PlanRecord, FileTodo, CleanupTodo
    <2>4. TypeOK'
      BY <1>2, <2>1, <2>2, <2>3 DEF PassInv, TypeOK
    <2>5. Listings' /\ PlanFits' /\ TakenFits'
      BY <2>1, Frozen, FrozenTwins, FrozenThreshold DEF PassInv, Listings, PlanFits, TakenFits
    <2>6. WorkFits'
      BY <1>2, <2>1, FrozenWork DEF WorkFits, Reading
    <2> QED BY <2>4, <2>5, <2>6 DEF PassInv
  <1> QED BY <1>1, <1>2 DEF NextPhase, Working

LEMMA OpPass == ASSUME PassInv, NEW p, Op(p) PROVE PassInv'
  <1>1. /\ TypeOK /\ Listings /\ PlanFits /\ WorkFits /\ TakenFits
    BY DEF PassInv
  <1>2. /\ p \in todo /\ pc \in Working
        /\ UNCHANGED <<base, sl, sr, sb, plan, pc, todo, mode, edits, faults, dead>>
        /\ doing' = <<p, doing'[2]>>
    BY OpFrame
  <1>3. /\ local' \in Trees /\ remote' \in Trees /\ Closed(local') /\ Closed(remote')
        /\ doing'[2] \in Values
    BY <1>1, OpTrees
  <1>4. plan # None /\ plan.files = Files
    BY <1>1, <1>2, WorkOf, PlanParts
  <1>5. taken' \subseteq Deletions \cup TakenAlong
    <2>1. \A q \in Paths : Goes(local, local', sl, q) \/ Goes(remote, remote', sr, q)
                              => q \in Deletions \cup TakenAlong
      <3> SUFFICES ASSUME NEW q \in Paths, q \notin TakenAlong,
                          Goes(local, local', sl, q) \/ Goes(remote, remote', sr, q)
                   PROVE  q \in Deletions
        OBVIOUS
      <3>1. q \in plan.files /\ FileOp(q) \in FileDestructive
        BY <1>1, OnlyDoomedGo DEF FileDestructive, DoomedLocally, DoomedRemotely
      <3> QED BY <1>4, <3>1 DEF Deletions
    <2>2. \/ taken' = taken
          \/ taken' = taken \cup {q \in Paths : Goes(local, local', sl, q)}
          \/ taken' = taken \cup {q \in Paths : Goes(remote, remote', sr, q)}
      <3>1. ASSUME NEW tree \in Trees, NEW seen
            PROVE  Removed(tree, seen, p) =
                     {q \in Paths : Goes(tree, Cut(tree, p), seen, q)}
        <4>1. p \in Paths
          BY <1>1, <1>2 DEF TypeOK
        <4>2. ASSUME NEW q \in Paths
              PROVE  q \in Under(p) \cup {p} \/ Cut(tree, p)[q] = tree[q]
          BY <4>1, CutTree
        <4>3. \A q \in Under(p) \cup {p} : q \in Paths /\ Cut(tree, p)[q] = Absent
          BY <4>1, CutTree DEF Under
        <4> QED BY <4>2, <4>3, Kinds DEF Removed, Goes
      <3>2. local \in Trees /\ remote \in Trees
        BY <1>1 DEF TypeOK
      <3>3. CutLocal(p) => taken' = taken \cup {q \in Paths : Goes(local, local', sl, q)}
        BY <3>1, <3>2 DEF CutLocal
      <3>4. CutRemote(p) => taken' = taken \cup {q \in Paths : Goes(remote, remote', sr, q)}
        BY <3>1, <3>2 DEF CutRemote
      <3> QED BY <3>3, <3>4
            DEF Op, MakeRemote, MakeLocal, RecordFolder, DeleteRemoteTree, Upload, Download,
                Adopt, DeleteLocal, DeleteRemote, DropRow, RemoveLocalFolder
    <2> QED BY <1>1, <1>4, <2>1, <2>2 DEF TakenFits
  <1>6. plan.withheld => taken' = taken
    <2> SUFFICES ASSUME plan.withheld PROVE taken' = taken
      OBVIOUS
    <2>1. plan.roots = {}
      BY <1>1, <1>4, PlanParts
    <2>2. ~DeleteRemoteTree(p)
      BY <1>1, <1>2, <2>1, WorkOf DEF DeleteRemoteTree
    <2>3. pc = "files" => FileOp(p) \notin FileDestructive
      BY <1>1, <1>2, WorkOf DEF FileTodo
    <2>4. pc = "cleanup" => CleanupOp(p) # "rmdir_local"
      BY <1>1, <1>2, WorkOf DEF CleanupTodo
    <2>5. ~DeleteLocal(p) /\ ~DeleteRemote(p) /\ ~RemoveLocalFolder(p)
      BY <2>3, <2>4 DEF DeleteLocal, DeleteRemote, RemoveLocalFolder, FileDestructive
    <2> QED BY <2>2, <2>5 DEF Op, MakeRemote, MakeLocal, RecordFolder, Upload, Download,
                              Adopt, DropRow
  <1>7. TakenFits'
    BY <1>1, <1>2, <1>4, <1>5, <1>6, Frozen, FrozenTwins DEF TakenFits
  <1>8. taken' \subseteq Paths
    BY <1>5, PlannedKinds, TwinsAre DEF Deletions
  <1>9. TypeOK'
    BY <1>1, <1>2, <1>3, <1>8 DEF TypeOK, Closed, Values
  <1>10. (Listings /\ PlanFits /\ WorkFits)'
    BY <1>1, <1>2, PassAsItWas DEF Listings, Working, Reading
  <1> QED BY <1>7, <1>9, <1>10 DEF PassInv

LEMMA SkipPass == ASSUME PassInv, NEW p, Skip(p) PROVE PassInv'
  <1>1. /\ p \in todo /\ doing = None /\ todo' = todo \ {p}
        /\ UNCHANGED <<local, remote, base, sl, sr, sb, plan, pc, doing, mode, edits, taken,
                       dead>>
        /\ faults' \in 0..MaxFaults
    BY FaultCounts DEF Skip, Turn, trees, listing, PassInv, TypeOK
  <1>2. TypeOK'
    BY <1>1 DEF PassInv, TypeOK
  <1>3. (Listings /\ PlanFits /\ WorkFits)'
    BY <1>1, PassAsItWas DEF PassInv, Listings
  <1> QED BY <1>1, <1>2, <1>3, TakenAsItWas DEF PassInv

\* The rows an operation commits are of paths of the plan.
LEMMA RowsPlanned ==
    ASSUME PassInv, NEW p \in todo, NEW q \in Rows(p)
    PROVE  q \in Planned /\ q \in Paths /\ q \notin Ignored
  <1>1. /\ p \in Planned /\ plan # None
    BY WorkOf DEF PassInv
  <1>2. q = p \/ q \in plan.covered
    BY DEF Rows
  <1> QED BY <1>1, <1>2, CoveredFacts, PlannedFacts DEF PassInv

LEMMA CommitPass == ASSUME PassInv, Commit PROVE PassInv'
  <1>1. /\ doing # None /\ doing[1] \in todo /\ doing[2] \in Values
        /\ base' = [q \in Paths |-> IF q \in Rows(doing[1]) THEN doing[2] ELSE base[q]]
        /\ todo' = todo \ {doing[1]} /\ doing' = None
        /\ UNCHANGED <<local, remote, sl, sr, sb, plan, pc, mode, edits, faults, taken, dead>>
        /\ pc \notin ({"idle"} \cup Reading)
    BY DEF Commit, PassInv, TypeOK, WorkFits, Values, trees, listing, bounds, history
  <1>2. base' \in Trees
    BY <1>1 DEF PassInv, TypeOK, Trees, Values
  <1>3. Bare(base')
    BY <1>1, RowsPlanned, TreeSyncAssumption DEF PassInv, Listings, Bare
  <1>4. TypeOK'
    BY <1>1, <1>2 DEF PassInv, TypeOK
  <1>5. (Listings /\ PlanFits /\ WorkFits)'
    BY <1>1, <1>3, PassAsItWas
  <1> QED BY <1>1, <1>4, <1>5, TakenAsItWas DEF PassInv

LEMMA PassStep == ASSUME PassInv, [Next]_vars PROVE PassInv'
  <1>1. CASE User
    BY <1>1, UserPass
  <1>2. CASE AbortScan \/ \E m \in {"boot", "normal", "force"} : Interrupt(m)
    <2>1. PICK m \in {"boot", "normal", "force"} : Over(m) /\ Fault
      BY <1>2 DEF AbortScan, Interrupt
    <2> QED BY <2>1, OverPass, FaultCounts DEF PassInv
  <1>3. ASSUME NEW p \in Paths, Apply(p) PROVE PassInv'
    BY <1>3, ApplyIs, OpPass, SkipPass
  <1>4. CASE UNCHANGED vars
    <2>1. UNCHANGED <<local, remote, base, sl, sr, sb, plan, pc, todo, doing, mode,
                      edits, faults, taken, dead>>
      BY <1>4 DEF vars, trees, listing, bounds, history
    <2>2. TypeOK'
      BY <2>1 DEF PassInv, TypeOK
    <2>3. (Listings /\ PlanFits /\ WorkFits)'
      BY <2>1, PassAsItWas DEF PassInv, Listings
    <2> QED BY <2>1, <2>2, <2>3, TakenAsItWas DEF PassInv
  <1> QED BY <1>1, <1>2, <1>3, <1>4, ScanPass, DecidePass, PhasePass, CommitPass
      DEF Next, Engine

\* For any tree and any bounds, every variable of TreeSync holds a value of its kind,
\* a path that is there has its folders above it, and a plan is there just while a pass
\* acts on it.
THEOREM TreeTypes == Spec => []TypeOK
  <1>1. Init => PassInv
    BY InitPass
  <1>2. PassInv /\ [Next]_vars => PassInv'
    BY PassStep
  <1>3. PassInv => TypeOK
    BY DEF PassInv
  <1> QED BY <1>1, <1>2, <1>3, PTL DEF Spec

LEMMA PassAlways == Spec => []PassInv
  <1>1. Init => PassInv
    BY InitPass
  <1>2. PassInv /\ [Next]_vars => PassInv'
    BY PassStep
  <1> QED BY <1>1, <1>2, PTL DEF Spec

-----------------------------------------------------------------------------
(* The threshold, and what a pass deletes.                                 *)

\* More deletions are over a threshold that fewer are over.
LEMMA OverMonotone ==
    ASSUME NEW m \in Nat, NEW n \in Nat, m <= n, OverThreshold(m)
    PROVE  OverThreshold(n)
  <1> DEFINE rows == Cardinality({p \in Paths : sb[p] # Absent})
  <1>1. m > ThresholdCount \/ (rows > 0 /\ m * 100 > ThresholdPct * rows)
    BY DEF OverThreshold
  <1>2. rows \in Nat
    <2>1. IsFiniteSet({p \in Paths : sb[p] # Absent})
      BY TreeSyncAssumption, FS_Subset
    <2> QED BY <2>1, FS_CardinalityType
  <1> HIDE DEF rows
  <1>3. ThresholdPct * rows \in Nat /\ ThresholdCount \in Nat
    BY <1>2, TreeSyncAssumption
  <1>4. n > ThresholdCount \/ (rows > 0 /\ n * 100 > ThresholdPct * rows)
    BY <1>1, <1>3
  <1> QED BY <1>4 DEF OverThreshold, rows

LEMMA PassWithinThreshold == PassInv => ThresholdHolds
  <1> DEFINE counted == taken \ TakenAlong
  <1> SUFFICES ASSUME PassInv, plan # None, counted # {}
               PROVE  \/ mode = "force"
                      \/ mode = "normal" /\ ~OverThreshold(Cardinality(counted))
    BY DEF ThresholdHolds
  <1>1. counted \subseteq Deletions /\ ~plan.withheld
    BY DEF PassInv, TakenFits
  <1> HIDE DEF counted
  <1>2. ~Suppressed
    BY <1>1, PlanParts DEF PassInv
  <1>3. mode = "force" \/ (mode # "boot" /\ ~OverThreshold(Cardinality(Deletions)))
    BY <1>1, <1>2 DEF Suppressed
  <1>4. IsFiniteSet(Deletions)
    BY PlannedKinds, TreeSyncAssumption, FS_Subset
  <1>5. /\ IsFiniteSet(counted) /\ Cardinality(counted) <= Cardinality(Deletions)
        /\ Cardinality(counted) \in Nat /\ Cardinality(Deletions) \in Nat
    BY <1>1, <1>4, FS_Subset, FS_CardinalityType
  <1>6. OverThreshold(Cardinality(counted)) => OverThreshold(Cardinality(Deletions))
    BY <1>5, OverMonotone
  <1> QED BY <1>3, <1>6 DEF PassInv, TypeOK

\* For any tree, threshold and percentage: the listed files that a pass takes away, one
\* by one or with a folder, set aside or not, are no more than the threshold admits, and
\* an initial pass takes none, but for case twins below a folder deleted in one call.
THEOREM ThresholdKept == Spec => []ThresholdHolds
  BY PassAlways, PassWithinThreshold, PTL

\* A step that counts no edit is none of a user's.
LEMMA EngineStepIs ==
    ASSUME TypeOK, [Next]_vars, EngineStep
    PROVE  ~User
  BY UserTrees, TreeSyncAssumption DEF TypeOK, EngineStep

LEMMA OnlyDoomedStep ==
    ASSUME PassInv, [Next]_vars, EngineStep, plan # None, NEW q \in Paths
    PROVE  /\ Goes(local, local', sl, q) => DoomedLocally(q)
           /\ Goes(remote, remote', sr, q) => DoomedRemotely(q)
  <1>1. (\E p \in Paths : Op(p)) \/ UNCHANGED trees
    BY EngineStepIs, ApplyIs DEF PassInv, Next, Engine, vars, ScanLocal, ScanRemote,
       AbortScan, Interrupt, Over, Decide, NextPhase, Enter, Commit, Skip
  <1>2. CASE UNCHANGED trees
    BY <1>2, Kinds DEF trees, Goes
  <1> QED BY <1>1, <1>2, OnlyDoomedGo DEF PassInv

\* For any tree: a pass takes away a file that is as it was listed, tracked or not, set
\* aside or not, only if it decided to delete that very file on that side, whatever goes
\* with a folder; but a folder deleted in one call takes the case twins below it along.
THEOREM DoomedAlone == Spec => OnlyDoomedFilesGo
  <1>1. PassInv /\ [Next]_vars =>
          [EngineStep /\ plan # None => \A p \in Paths :
             /\ Goes(local, local', sl, p) => p \in plan.files /\ FileOp(p) = "delete_local"
             /\ Goes(remote, remote', sr, p) =>
                   \/ p \in plan.files /\ FileOp(p) = "delete_remote"
                   \/ p \in TakenAlong]_vars
    BY OnlyDoomedStep DEF DoomedLocally, DoomedRemotely
  <1> QED BY <1>1, PassAlways, PTL DEF Spec, OnlyDoomedFilesGo

-----------------------------------------------------------------------------
(* What is known of a path the pass has not touched.                       *)

\* Less work left, fewer paths untouched.
LEMMA UntouchedShrinks ==
    ASSUME UNCHANGED <<sl, sr, sb, plan, pc>>, todo' \subseteq todo, NEW q, Untouched(q)'
    PROVE  Untouched(q)
  BY Frozen, FrozenWork DEF Untouched, Uncovered

\* A phase begins with all its work.
LEMMA UntouchedPhase ==
    ASSUME PassInv, ScanRemote \/ Decide \/ NextPhase, NEW q, Untouched(q)'
    PROVE  Untouched(q)
  <1>1. CASE ScanRemote \/ Decide
    BY <1>1 DEF ScanRemote, Decide, Untouched, Reading
  <1>2. CASE NextPhase
    <2>1. pc' # "idle"
      BY DEF Untouched, Reading
    <2>2. /\ todo = {} /\ UNCHANGED <<sl, sr, sb, plan>>
          /\ \/ pc = "folders" /\ pc' = "trees"
             \/ pc = "trees" /\ pc' = "files"
             \/ pc = "files" /\ pc' = "cleanup"
      BY <1>2, <2>1 DEF NextPhase, Enter, Over, listing
    <2> QED BY <2>2, Frozen, FrozenWork DEF Untouched, Uncovered, Reading
  <1> QED BY <1>1, <1>2

\* The rows of an operation at work are untouched, and no more so once committed.
LEMMA RowsUntouched ==
    ASSUME PassInv, NEW p \in todo, NEW q \in Rows(p)
    PROVE  /\ Untouched(q)
           /\ /\ UNCHANGED <<sl, sr, sb, plan, pc>>
              /\ todo' = todo \ {p}
              => ~Untouched(q)'
  <1> USE DEF PassInv
  <1>1. plan # None /\ pc \in Working /\ p \in Planned
    BY WorkOf
  <1>2. CASE pc = "trees"
    <2>1. p \in plan.roots /\ p \in plan.covered
      BY <1>2, WorkOf, RootFacts, <1>1
    <2>2. q \in plan.covered /\ p \in Above[q] \cup {q} /\ q \in Paths
      BY <1>1, <1>2, <2>1, UnderIs, CoveredFacts, WorkOf DEF Rows, Under
    <2>3. q \notin FolderTodo
      BY <1>1, <2>2, CoveredFacts
    <2>4. ASSUME NEW r \in plan.roots, r \in Above[q] \cup {q} PROVE r = p
      <3>1. r = p \/ r \in Above[p] \/ p \in Above[r]
        BY <2>2, <2>4, TreeSyncAssumption
      <3> QED BY <1>1, <2>1, <3>1, RootFacts
    <2>5. Untouched(q)
      BY <1>2, <2>3, <2>4 DEF Untouched, Uncovered
    <2> QED BY <1>2, <2>1, <2>2, <2>5 DEF Untouched, Uncovered, Reading
  <1>3. CASE pc # "trees"
    <2>1. q = p
      BY <1>3 DEF Rows
    <2>2. pc = "folders" => p \in FolderTodo
      BY WorkOf
    <2>3. pc = "files" => p \in FileTodo /\ p \notin FolderTodo /\ p \notin plan.covered
      BY WorkOf, PlannedKinds
    <2>4. pc = "cleanup" => /\ p \in CleanupTodo /\ p \notin FolderTodo
                            /\ p \notin plan.covered /\ p \notin FileTodo
      BY <1>1, WorkOf, PlanParts, PlannedKinds DEF FileTodo
    <2> QED BY <1>1, <1>3, <2>1, <2>2, <2>3, <2>4, Frozen, FrozenWork
            DEF Untouched, Working, Reading
  <1> QED BY <1>2, <1>3

\* Where what an operation writes comes from.
LEMMA OpMoves ==
    ASSUME TypeOK, Listings, PlanFits, WorkFits, NEW p, Op(p), NEW q \in Paths
    PROVE  /\ \/ local'[q] \in {local[q], Absent, Folder}
              \/ /\ q = p /\ pc = "files" /\ Fetches(p)
                 /\ local'[p] = sr[p] /\ remote[p] = sr[p]
           /\ \/ remote'[q] \in {remote[q], Absent, Folder}
              \/ /\ q = p /\ pc = "files" /\ Sends(p)
                 /\ remote'[p] = local[p] /\ IsFile(local[p])
           /\ doing'[2] \in {Absent, Folder, local[p], sr[p], sl[p]}
  <1>1. local \in Trees /\ remote \in Trees /\ sr \in Trees
    BY DEF TypeOK
  <1>2. p \in Paths
    BY OpFrame, WorkOf
  <1>3. Folder \in Values /\ local[p] \in Values /\ sr[p] \in Values
    BY <1>1, <1>2, Kinds DEF Trees, Values
  <1>4. ASSUME NEW tree \in Trees, NEW v \in Values
        PROVE  Put(tree, p, v)[q] \in {tree[q], Folder} \/ (q = p /\ Put(tree, p, v)[q] = v)
    BY <1>2, PutTree
  <1>5. ASSUME NEW tree \in Trees
        PROVE  Cut(tree, p) \in Trees /\ Cut(tree, p)[q] \in {tree[q], Absent}
    BY <1>2, CutTree
  <1>6. CASE MakeRemote(p)
    BY <1>1, <1>3, <1>4, <1>6 DEF MakeRemote, Done
  <1>7. CASE MakeLocal(p)
    BY <1>1, <1>3, <1>4, <1>7 DEF MakeLocal, Done
  <1>8. CASE RecordFolder(p) \/ Adopt(p) \/ DropRow(p)
    BY <1>8 DEF RecordFolder, Adopt, DropRow, Done, trees
  <1>9. CASE DeleteRemoteTree(p) \/ DeleteRemote(p)
    BY <1>1, <1>5, <1>9 DEF DeleteRemoteTree, DeleteRemote, CutRemote, Done
  <1>10. CASE DeleteLocal(p) \/ RemoveLocalFolder(p)
    BY <1>1, <1>5, <1>10 DEF DeleteLocal, RemoveLocalFolder, CutLocal, Done
  <1>11. CASE Upload(p)
    BY <1>1, <1>3, <1>4, <1>5, <1>11 DEF Upload, Done
  <1>12. CASE Download(p)
    BY <1>1, <1>3, <1>4, <1>12 DEF Download, Done
  <1> QED BY <1>6, <1>7, <1>8, <1>9, <1>10, <1>11, <1>12 DEF Op

\* A transfer is of a side that moved since the row.
LEMMA TransfersMoved ==
    ASSUME TypeOK, NEW p \in Paths
    PROVE  /\ Sends(p) => sl[p] # Absent /\ sl[p] # sb[p]
           /\ Fetches(p) => sr[p] # Absent /\ sr[p] # sb[p]
  BY FileOpFacts DEF TypeOK, Sends, Fetches

LEMMA OldValues == ASSUME TypeOK PROVE Old(Absent) /\ Old(Folder)
  BY TreeSyncAssumption DEF TypeOK, Old, Absent, Folder

LEMMA VersionsInit == Init => VersionsOld
  <1> SUFFICES ASSUME Init PROVE VersionsOld
    OBVIOUS
  <1>1. PICK rows \in BOOLEAN, ds \in BOOLEAN :
          LET tree == [p \in Paths |-> IF p \notin Start0 THEN Absent
                                       ELSE IF p \in FolderPaths THEN Folder ELSE 2]
          IN  /\ remote = Listed(tree)
              /\ local = IF ds THEN tree ELSE Listed(tree)
              /\ base = IF rows THEN Listed(tree) ELSE Nowhere
    BY DEF Init
  <1>2. edits = 0 /\ doing = None /\ sl = Nowhere /\ sr = Nowhere /\ sb = Nowhere
    BY DEF Init
  <1>3. \A p \in Paths : /\ local[p] \in {0, 1, 2} /\ remote[p] \in {0, 1, 2}
                         /\ base[p] \in {0, 1, 2}
                         /\ sl[p] = 0 /\ sr[p] = 0 /\ sb[p] = 0
    BY <1>1, <1>2 DEF Listed, Nowhere, Absent, Folder
  <1> QED BY <1>2, <1>3 DEF VersionsOld, Old

LEMMA UserValues ==
    ASSUME TypeOK, User, NEW q \in Paths
    PROVE  /\ local'[q] \in {local[q], Absent, Folder, 3 + edits}
           /\ remote'[q] \in {remote[q], Absent, Folder, 3 + edits}
  <1>1. /\ local \in Trees /\ remote \in Trees /\ Closed(local) /\ Closed(remote)
        /\ edits \in Nat /\ edits < MaxEdits
    BY UserTrees DEF TypeOK, Closed
  <1>2. PICK p \in Paths : LocalWrite(p) \/ LocalDelete(p) \/ RemoteWrite(p) \/ RemoteDelete(p)
    BY DEF User
  <1>3. ASSUME NEW tree \in Trees, Closed(tree), NEW t \in Written(tree, p)
        PROVE  t[q] \in {tree[q], Folder, 3 + edits}
    <2>1. PICK v \in {3 + edits, Folder} : t = Put(tree, p, v) /\ v \in Values
      BY <1>1, <1>3, WrittenTree
    <2> QED BY <2>1, <1>3, PutTree
  <1>4. ASSUME NEW tree \in Trees PROVE Cut(tree, p)[q] \in {tree[q], Absent}
    BY CutTree
  <1> QED BY <1>1, <1>2, <1>3, <1>4 DEF LocalWrite, LocalDelete, RemoteWrite, RemoteDelete

LEMMA VersionsStep == ASSUME PassInv, VersionsOld, [Next]_vars PROVE VersionsOld'
  <1> USE DEF VersionsOld, PassInv
  <1>0. /\ edits \in Nat /\ local \in Trees /\ remote \in Trees /\ base \in Trees
        /\ sl \in Trees /\ sr \in Trees /\ sb \in Trees
    BY DEF TypeOK
  <1>1. CASE User
    <2>1. /\ edits' = edits + 1 /\ UNCHANGED <<base, sl, sr, sb, doing>>
      BY <1>1, UserTrees
    <2>2. \A v \in Int : Old(v) => Old(v)'
      BY <1>0, <2>1 DEF Old
    <2>3. \A p \in Paths : /\ local[p] \in Int /\ remote[p] \in Int /\ base[p] \in Int
                           /\ sl[p] \in Int /\ sr[p] \in Int /\ sb[p] \in Int
      BY <1>0, ValuesAre, TreeSyncAssumption DEF Trees, Values
    <2>4. ASSUME NEW p \in Paths PROVE Old(local[p])' /\ Old(remote[p])'
      <3>1. /\ local'[p] \in {local[p], Absent, Folder, 3 + edits}
            /\ remote'[p] \in {remote[p], Absent, Folder, 3 + edits}
        BY <1>1, UserValues
      <3>2. Old(local[p]) /\ Old(remote[p]) /\ local[p] \in Int /\ remote[p] \in Int
        BY <2>3
      <3> QED BY <1>0, <2>1, <3>1, <3>2 DEF Old, Absent, Folder
    <2>5. doing # None => doing[2] \in Int
      BY ValuesAre, TreeSyncAssumption DEF TypeOK, Values
    <2> QED BY <2>1, <2>2, <2>3, <2>4, <2>5
  <1>2. CASE edits' = edits
    <2>1. Old(Absent)' /\ Old(Folder)' /\ \A v : Old(v)' = Old(v)
      BY <1>2, OldValues DEF Old
    <2>2. CASE UNCHANGED vars
      BY <2>2 DEF vars, trees, listing, Old, bounds
    <2>3. CASE ScanLocal \/ ScanRemote
      <3>1. ASSUME NEW tree, NEW p \in Paths PROVE Listed(tree)[p] \in {tree[p], Absent}
        BY DEF Listed
      <3>2. UNCHANGED <<local, remote, base, doing>>
        BY <2>3 DEF ScanLocal, ScanRemote, trees
      <3>3. /\ sl' \in {sl, Listed(local)} /\ sr' \in {sr, Listed(remote)} /\ sb' \in {sb, base}
        BY <2>3 DEF ScanLocal, ScanRemote
      <3>4. \A p \in Paths : Old(sl'[p]) /\ Old(sr'[p]) /\ Old(sb'[p])
        BY <3>1, <3>3, OldValues
      <3> QED BY <2>1, <3>2, <3>4
    <2>4. CASE Decide
      BY <2>1, <2>4 DEF Decide, trees
    <2>5. ASSUME NEW m, Over(m) PROVE VersionsOld'
      <3>1. /\ UNCHANGED <<local, remote, base>> /\ doing' = None
            /\ \A p \in Paths : sl'[p] = Absent /\ sr'[p] = Absent /\ sb'[p] = Absent
        BY <2>5 DEF Over, trees, Nowhere
      <3> QED BY <2>1, <3>1
    <2>6. CASE NextPhase
      <3>1. Over("normal") \/ UNCHANGED <<local, remote, base, sl, sr, sb, doing>>
        BY <2>6 DEF NextPhase, Enter, trees, listing
      <3> QED BY <2>1, <2>5, <3>1
    <2>7. ASSUME NEW p \in Paths, Op(p) PROVE VersionsOld'
      <3>1. UNCHANGED <<base, sl, sr, sb>>
        BY <2>7, OpFrame
      <3>2. ASSUME NEW q \in Paths PROVE Old(local'[q]) /\ Old(remote'[q])
        <4>1. local'[q] \in {local[q], Absent, Folder, sr[q]}
          BY <2>7, OpMoves
        <4>2. remote'[q] \in {remote[q], Absent, Folder, local[q]}
          BY <2>7, OpMoves
        <4> QED BY <4>1, <4>2, OldValues
      <3>3. Old(doing'[2])
        BY <2>7, OpMoves, OldValues
      <3> QED BY <2>1, <3>1, <3>2, <3>3
    <2>8. ASSUME NEW p, Skip(p) PROVE VersionsOld'
      BY <2>1, <2>8 DEF Skip, trees, listing
    <2>9. CASE Commit
      <3>1. /\ doing # None /\ doing' = None
            /\ UNCHANGED <<local, remote, sl, sr, sb>>
            /\ \A p \in Paths : base'[p] \in {base[p], doing[2]}
        BY <2>9 DEF Commit, trees, listing
      <3> QED BY <2>1, <3>1
    <2> QED BY <1>2, <2>2, <2>3, <2>4, <2>5, <2>6, <2>7, <2>8, <2>9, ApplyIs, UserTrees
            DEF Next, Engine, AbortScan, Interrupt, TypeOK
  <1>3. User \/ edits' = edits
    <2>1. \A m : Over(m) => edits' = edits
      BY DEF Over
    <2>2. \A p : Op(p) => edits' = edits
      BY OpFrame
    <2> QED BY <2>1, <2>2, ApplyIs DEF Next, Engine, ScanLocal, ScanRemote, AbortScan, Interrupt, Decide,
               NextPhase, Enter, Skip, Commit, bounds, vars
  <1> QED BY <1>1, <1>2, <1>3

-----------------------------------------------------------------------------
(* RowsFit is inductive.                                                   *)

LEMMA RowsStep == ASSUME PassInv, VersionsOld, RowsFit, [Next]_vars PROVE RowsFit'
  <1> SUFFICES ASSUME NEW q \in Paths, Untouched(q)'
               PROVE  /\ pc' # "scanned" => base'[q] = sb'[q]
                      /\ IsFile(local'[q]) /\ local'[q] = base'[q] => local'[q] = sl'[q]
                      /\ pc' # "scanned" /\ IsFile(remote'[q]) /\ remote'[q] = base'[q]
                            => remote'[q] = sr'[q]
    BY DEF RowsFit, RowFits
  <1>0. /\ TypeOK /\ Listings /\ PlanFits /\ WorkFits
        /\ local \in Trees /\ remote \in Trees /\ base \in Trees
    BY DEF PassInv, TypeOK
  <1>10. Untouched(q) =>
            /\ pc # "scanned" => base[q] = sb[q]
            /\ IsFile(local[q]) /\ local[q] = base[q] => local[q] = sl[q]
            /\ pc # "scanned" /\ IsFile(remote[q]) /\ remote[q] = base[q]
                  => remote[q] = sr[q]
    BY DEF RowsFit, RowFits
  <1>1. CASE User
    <2>1. UNCHANGED <<base, sl, sr, sb, plan, pc, todo>>
      BY <1>0, <1>1, UserTrees
    <2>2. Untouched(q)
      BY <2>1, UntouchedShrinks
    <2>3. base[q] # 3 + edits
      <3>1. base[q] <= 2 + edits /\ edits \in Nat
        BY <1>0 DEF VersionsOld, Old, TypeOK
      <3> QED BY <3>1, <1>0, ValuesAre, TreeSyncAssumption DEF Trees, Values
    <2>4. /\ local'[q] \in {local[q], Absent, Folder, 3 + edits}
          /\ remote'[q] \in {remote[q], Absent, Folder, 3 + edits}
      BY <1>0, <1>1, UserValues
    <2> QED BY <1>10, <2>1, <2>2, <2>3, <2>4, Kinds
  <1>2. CASE ScanLocal
    <2>1. pc' = "scanned" /\ sl' = Listed(local) /\ UNCHANGED <<local, base>>
      BY <1>2 DEF ScanLocal, trees
    <2>2. CASE q \in Ignored
      BY <2>1, <2>2, Kinds DEF PassInv, Listings, Bare
    <2>3. CASE q \notin Ignored
      BY <1>0, <2>1, <2>3, ListedTree
    <2> QED BY <2>2, <2>3
  <1>3. CASE ScanRemote
    <2>1. /\ pc = "scanned" /\ sr' = Listed(remote) /\ sb' = base
          /\ UNCHANGED <<local, remote, base, sl>>
      BY <1>3 DEF ScanRemote, trees
    <2>2. Untouched(q)
      BY <2>1 DEF Untouched, Reading
    <2>3. CASE q \in Ignored
      BY <1>10, <2>1, <2>2, <2>3, Kinds DEF PassInv, Listings, Bare
    <2>4. CASE q \notin Ignored
      BY <1>0, <1>10, <2>1, <2>2, <2>4, ListedTree
    <2> QED BY <2>3, <2>4
  <1>4. CASE Decide \/ NextPhase
    <2>1. Untouched(q)
      BY <1>4, UntouchedPhase
    <2>2. pc' # "idle"
      BY DEF Untouched, Reading
    <2>3. UNCHANGED <<local, remote, base, sl, sr, sb>> /\ pc # "scanned"
      BY <1>4, <2>2 DEF Decide, NextPhase, Over, Enter, trees, listing
    <2> QED BY <1>10, <2>1, <2>3
  <1>5. ASSUME NEW m, Over(m) PROVE FALSE
    BY <1>5 DEF Over, Untouched, Reading
  <1>6. ASSUME NEW p \in Paths, Op(p)
        PROVE  /\ base'[q] = sb'[q]
               /\ IsFile(local'[q]) /\ local'[q] = base'[q] => local'[q] = sl'[q]
               /\ IsFile(remote'[q]) /\ remote'[q] = base'[q] => remote'[q] = sr'[q]
    <2>1. UNCHANGED <<base, sl, sr, sb, plan, pc, todo>> /\ pc \in Working /\ p \in todo
      BY <1>6, OpFrame
    <2>2. Untouched(q) /\ pc # "scanned"
      BY <2>1, UntouchedShrinks DEF Working
    <2>3. base[q] = sb[q]
      BY <1>10, <2>2
    <2>4. ASSUME IsFile(local'[q]), local'[q] = base'[q] PROVE local'[q] = sl'[q]
      <3>1. local'[q] = local[q] \/ (q = p /\ Fetches(p) /\ local'[p] = sr[p])
        BY <1>0, <1>6, <2>4, OpMoves, Kinds
      <3>2. ~(q = p /\ Fetches(p) /\ local'[p] = sr[p])
        BY <1>0, <2>1, <2>3, <2>4, TransfersMoved
      <3> QED BY <1>10, <2>1, <2>2, <2>4, <3>1, <3>2
    <2>5. ASSUME IsFile(remote'[q]), remote'[q] = base'[q] PROVE remote'[q] = sr'[q]
      <3>1. remote'[q] = remote[q] \/ (q = p /\ Sends(p) /\ remote'[p] = local[p])
        BY <1>0, <1>6, <2>5, OpMoves, Kinds
      <3>2. ASSUME q = p, Sends(p), remote'[p] = local[p] PROVE FALSE
        <4>1. local[p] = sl[p]
          BY <1>10, <2>1, <2>2, <2>5, <3>2
        <4> QED BY <1>0, <2>1, <2>3, <2>5, <3>2, <4>1, TransfersMoved
      <3> QED BY <1>10, <2>1, <2>2, <2>5, <3>1, <3>2
    <2> QED BY <2>1, <2>3, <2>4, <2>5
  <1>7. ASSUME NEW p, Skip(p)
        PROVE  Untouched(q) /\ UNCHANGED <<local, remote, base, sl, sr, sb, pc>>
    BY <1>7, UntouchedShrinks DEF Skip, trees, listing
  <1>8. CASE Commit
    <2>1. /\ doing # None /\ doing[1] \in todo /\ todo' = todo \ {doing[1]}
          /\ base' = [x \in Paths |-> IF x \in Rows(doing[1]) THEN doing[2] ELSE base[x]]
          /\ UNCHANGED <<local, remote, sl, sr, sb, plan, pc>>
      BY <1>0, <1>8 DEF Commit, TypeOK, trees, listing
    <2>2. Untouched(q)
      BY <2>1, UntouchedShrinks
    <2>3. q \notin Rows(doing[1])
      BY <2>1, RowsUntouched
    <2>4. base'[q] = base[q]
      BY <2>1, <2>3
    <2> QED BY <1>10, <2>1, <2>2, <2>4
  <1>9. CASE UNCHANGED vars
    <2>1. Untouched(q) /\ UNCHANGED <<local, remote, base, sl, sr, sb, pc>>
      BY <1>9, UntouchedShrinks DEF vars, trees, listing
    <2> QED BY <1>10, <2>1
  <1> QED BY <1>10, <1>1, <1>2, <1>3, <1>4, <1>5, <1>6, <1>7, <1>8, <1>9, ApplyIs
      DEF Next, Engine, AbortScan, Interrupt

-----------------------------------------------------------------------------
(* DeadFits is inductive.                                                  *)

LEMMA BelowFacts ==
    ASSUME NEW p \in Paths, NEW q \in Below(p)
    PROVE  /\ q \in Paths /\ q \notin Ignored /\ (p = q \/ p \in Above[q])
           /\ \A x \in Paths \ Ignored : q \in Above[x] => x \in Below(p)
           /\ \A tree : Closed(tree) /\ tree[p] = Absent => tree[q] = Absent
           /\ Below(q) \subseteq Below(p)
  <1>1. q \in Paths /\ q \notin Ignored /\ (p = q \/ p \in Above[q])
    BY DEF Below, Under
  <1>2. \A x \in Paths \ Ignored : q \in Above[x] => x \in Below(p)
    BY <1>1, AboveFacts DEF Below, Under
  <1>3. \A tree : Closed(tree) /\ tree[p] = Absent => tree[q] = Absent
    BY <1>1, Kinds DEF Closed, Reachable
  <1>4. Below(q) \subseteq Below(p)
    BY <1>1, AboveFacts DEF Below, Under
  <1> QED BY <1>1, <1>2, <1>3, <1>4

\* What is known of a path at work.
LEMMA AtWork ==
    ASSUME PassInv, RowsFit, NEW p \in todo
    PROVE  /\ p \in Planned /\ p \in Paths /\ p \notin Ignored /\ p \in Rows(p)
           /\ Untouched(p) /\ base[p] = sb[p]
           /\ IsFile(local[p]) /\ local[p] = base[p] => local[p] = sl[p]
           /\ pc = "files" => p \in Files /\ sl[p] # Folder /\ sr[p] # Folder
           /\ pc = "folders" => /\ p \in Folders /\ sl[p] \in {Absent, Folder}
                                /\ sr[p] \in {Absent, Folder}
           /\ pc # "trees" => Rows(p) = {p}
  <1>1. /\ p \in Planned /\ p \in Paths /\ p \notin Ignored /\ pc \in Working
        /\ pc = "files" => p \in Files
        /\ pc = "folders" => p \in Folders
    BY WorkOf DEF PassInv
  <1>2. p \in Rows(p) /\ (pc # "trees" => Rows(p) = {p})
    BY DEF Rows
  <1>3. Untouched(p)
    BY <1>2, RowsUntouched
  <1>4. /\ p \in Files => sl[p] # Folder /\ sr[p] # Folder
        /\ p \in Folders => sl[p] \in {Absent, Folder} /\ sr[p] \in {Absent, Folder}
    BY <1>1, ListedKinds DEF PassInv, TypeOK
  <1> QED BY <1>1, <1>2, <1>3, <1>4 DEF RowsFit, RowFits, Working

\* A folder made by the pass is nowhere near a deleted path.
LEMMA MadeElsewhere ==
    ASSUME PassInv, RowsFit, NEW p, MakeRemote(p) \/ MakeLocal(p),
           NEW d \in Paths, \A q \in Below(d) : NoNewFolder(q), NEW q \in Below(d)
    PROVE  /\ q # p /\ q \notin Above[p] /\ q \notin Rows(p)
           /\ local'[q] = local[q] /\ remote'[q] = remote[q]
  <1>1. p \in todo /\ pc = "folders"
    BY DEF MakeRemote, MakeLocal, Turn
  <1>2. /\ p \in Planned /\ p \in Paths /\ p \notin Ignored /\ Rows(p) = {p}
        /\ sl[p] \in {Absent, Folder} /\ sr[p] \in {Absent, Folder}
        /\ sl[p] # Absent \/ sr[p] # Absent \/ sb[p] # Absent
    BY <1>1, AtWork, PlannedFacts DEF PassInv
  <1>3. sb[p] = Absent
    BY FolderOpFacts DEF MakeRemote, MakeLocal
  <1>4. p \notin Below(d)
    BY <1>1, <1>2, <1>3, Kinds DEF NoNewFolder
  <1>5. q \in Paths /\ q # p /\ q \notin Above[p]
    BY <1>2, <1>4, BelowFacts
  <1>6. local \in Trees /\ remote \in Trees
    BY DEF PassInv, TypeOK
  <1>7. ASSUME NEW tree \in Trees PROVE Put(tree, p, Folder)[q] = tree[q]
    BY <1>5 DEF Put
  <1>8. local'[q] = local[q] /\ remote'[q] = remote[q]
    BY <1>6, <1>7 DEF MakeRemote, MakeLocal
  <1> QED BY <1>2, <1>5, <1>8

\* What an operation does below a path deleted in the vault.
LEMMA OpBelowLocal ==
    ASSUME PassInv, RowsFit, NEW p, Op(p), NEW d \in Paths, d \notin Ignored, DeadLocal(d),
           NEW q \in Below(d)
    PROVE  /\ local'[d] = Absent
           /\ remote'[q] \in {remote[q], Absent}
           /\ q \in Rows(p) /\ remote'[q] # Absent => doing'[2] = remote'[q]
  <1>1. /\ TypeOK /\ Listings /\ PlanFits /\ WorkFits /\ Closed(local)
        /\ local \in Trees /\ remote \in Trees /\ sl \in Trees /\ sr \in Trees /\ sb \in Trees
    BY DEF PassInv, TypeOK, Closed
  <1>2. p \in todo /\ pc \in Working
    BY OpFrame
  <1>3. /\ p \in Planned /\ p \in Paths /\ p \notin Ignored /\ Untouched(p) /\ base[p] = sb[p]
        /\ pc # "trees" => Rows(p) = {p}
        /\ pc = "files" => sl[p] # Folder /\ sr[p] # Folder
        /\ pc = "folders" => sl[p] \in {Absent, Folder} /\ sr[p] \in {Absent, Folder}
    BY <1>2, AtWork
  <1>4. q \in Paths /\ local[q] = Absent /\ local[d] = Absent /\ d \in Below(d)
    BY <1>1, BelowFacts DEF DeadLocal, Below
  <1>5. \A x \in Below(d) : /\ NoNewFolder(x) /\ Agreed(remote, x)
                            /\ StillLeft(remote, sr, x)
    BY <1>2 DEF DeadLocal, Working
  <1>6. sr[p] = Absent /\ p \in Below(d) => remote[p] = Absent
    BY <1>3, <1>5 DEF StillLeft
  <1>16. local \in Trees /\ remote \in Trees /\ p \in Paths /\ q \in Paths /\ d \in Paths
    BY <1>1, <1>3, <1>4
  <1>7. CASE MakeRemote(p) \/ MakeLocal(p)
    <2>1. \A x \in Below(d) : /\ x \notin Rows(p)
                              /\ local'[x] = local[x] /\ remote'[x] = remote[x]
      BY <1>5, <1>7, MadeElsewhere
    <2> QED BY <1>4, <2>1
  <1>8. CASE RecordFolder(p)
    <2>1. /\ pc = "folders" /\ UNCHANGED <<local, remote>> /\ doing'[2] = Folder
          /\ FolderOp(p) = "record_dir"
      BY <1>8 DEF RecordFolder, Done, trees
    <2>2. sr[p] = Folder
      BY <1>3, <2>1, FolderOpFacts
    <2>3. q = p => remote[q] \in {Folder, Absent}
      BY <1>5, <2>2 DEF StillLeft
    <2> QED BY <1>3, <1>4, <2>1, <2>3
  <1>9. CASE DeleteRemoteTree(p)
    <2>1. pc = "trees" /\ UNCHANGED local /\ remote' = Cut(remote, p)
      BY <1>9 DEF DeleteRemoteTree, CutRemote
    <2>2. q \in Rows(p) => q \in Under(p) \cup {p}
      BY DEF Rows
    <2>3. remote'[q] \in {remote[q], Absent}
      BY <1>16, <2>1, CutKeeps
    <2>4. q \in Rows(p) => remote'[q] = Absent
      BY <1>16, <2>1, <2>2, CutTree
    <2> QED BY <1>4, <2>1, <2>3, <2>4
  <1>10. CASE DeleteRemote(p)
    <2>1. pc = "files" /\ UNCHANGED local /\ remote' = Cut(remote, p)
      BY <1>10 DEF DeleteRemote, CutRemote
    <2>2. remote'[q] \in {remote[q], Absent} /\ remote'[p] = Absent
      BY <1>16, <2>1, CutKeeps
    <2>3. Rows(p) = {p}
      BY <1>3, <2>1
    <2> QED BY <1>4, <2>1, <2>2, <2>3
  <1>11. CASE Upload(p)
    <2>1. /\ pc = "files" /\ UNCHANGED local /\ IsFile(local[p])
          /\ remote' = Put(Cut(remote, p), p, local[p])
      BY <1>11 DEF Upload
    <2>2. p \notin Below(d)
      BY <1>1, <1>4, <2>1, BelowFacts, Kinds
    <2>3. q # p /\ q \notin Above[p]
      BY <1>3, <2>2, BelowFacts
    <2>4. Cut(remote, p) \in Trees /\ Cut(remote, p)[q] \in {remote[q], Absent}
      BY <1>1, <1>3, <1>4, CutTree
    <2>5. local[p] \in Values /\ q \in Paths
      BY <1>1, <1>3, <1>4 DEF Trees, Values
    <2>6. Put(Cut(remote, p), p, local[p])[q] = Cut(remote, p)[q]
      BY <1>1, <1>3, <2>3, <2>4, <2>5, PutTree
    <2> QED BY <1>3, <1>4, <2>1, <2>3, <2>4, <2>6
  <1>12. CASE Download(p)
    <2>1. /\ pc = "files" /\ UNCHANGED remote /\ Fetches(p) /\ remote[p] = sr[p]
          /\ local' = Put(local, p, sr[p])
      BY <1>12 DEF Download
    <2>2. sr[p] # Absent /\ sr[p] # sb[p]
      BY <1>1, <1>3, <2>1, TransfersMoved
    <2>3. p \notin Below(d)
      BY <1>3, <1>5, <2>1, <2>2 DEF Agreed
    <2>4. q # p /\ d # p /\ d \notin Above[p]
      BY <1>3, <1>4, <2>3, BelowFacts
    <2>5. local'[d] = local[d]
      BY <1>1, <1>3, <2>1, <2>4, PutTree DEF Trees, Values
    <2> QED BY <1>3, <1>4, <2>1, <2>4, <2>5
  <1>13. CASE Adopt(p)
    <2>1. pc = "files" /\ local[p] = remote[p] /\ UNCHANGED <<local, remote>>
      BY <1>13 DEF Adopt, trees
    <2> QED BY <1>3, <1>4, <2>1
  <1>14. CASE DeleteLocal(p) \/ RemoveLocalFolder(p)
    <2>1. /\ pc \in {"files", "cleanup"} /\ UNCHANGED remote /\ local' = Cut(local, p)
          /\ FileOp(p) = "delete_local" \/ (pc = "cleanup" /\ CleanupOp(p) = "rmdir_local")
      BY <1>14 DEF DeleteLocal, RemoveLocalFolder, CutLocal
    <2>2. sr[p] = Absent
      BY <1>1, <1>3, <2>1, FileOpFacts, CleanupFacts
    <2>3. local'[d] = Absent
      BY <1>4, <1>16, <2>1, CutKeeps
    <2> QED BY <1>3, <1>6, <2>1, <2>2, <2>3
  <1>15. CASE DropRow(p)
    <2>1. /\ pc \in {"files", "cleanup"} /\ UNCHANGED <<local, remote>>
          /\ FileOp(p) = "drop_baseline" \/ CleanupOp(p) = "drop_baseline_dir"
      BY <1>15 DEF DropRow, trees
    <2>2. sr[p] = Absent
      BY <1>1, <1>3, <2>1, FileOpFacts, CleanupFacts
    <2> QED BY <1>3, <1>4, <1>6, <2>1, <2>2
  <1> QED BY <1>7, <1>8, <1>9, <1>10, <1>11, <1>12, <1>13, <1>14, <1>15 DEF Op

\* What an operation does below a path deleted in iCloud.
LEMMA OpBelowRemote ==
    ASSUME PassInv, RowsFit, NEW p, Op(p), NEW d \in Paths, d \notin Ignored, DeadRemote(d),
           NEW q \in Below(d)
    PROVE  /\ remote'[d] = Absent
           /\ local'[q] \in {local[q], Absent}
           /\ q \in Rows(p) /\ local'[q] # Absent => doing'[2] = local'[q]
  <1>1. /\ TypeOK /\ Listings /\ PlanFits /\ WorkFits /\ Closed(remote)
        /\ local \in Trees /\ remote \in Trees /\ sl \in Trees /\ sr \in Trees /\ sb \in Trees
    BY DEF PassInv, TypeOK, Closed
  <1>2. p \in todo /\ pc \in Working
    BY OpFrame
  <1>3. /\ p \in Planned /\ p \in Paths /\ p \notin Ignored /\ Untouched(p) /\ base[p] = sb[p]
        /\ IsFile(local[p]) /\ local[p] = base[p] => local[p] = sl[p]
        /\ pc # "trees" => Rows(p) = {p}
        /\ pc = "files" => sl[p] # Folder /\ sr[p] # Folder
        /\ pc = "folders" => sl[p] \in {Absent, Folder} /\ sr[p] \in {Absent, Folder}
    BY <1>2, AtWork
  <1>4. q \in Paths /\ remote[q] = Absent /\ remote[d] = Absent /\ d \in Below(d)
    BY <1>1, BelowFacts DEF DeadRemote, Below
  <1>5. \A x \in Below(d) : /\ NoNewFolder(x) /\ Agreed(local, x)
                            /\ StillLeft(local, sl, x)
    BY <1>2 DEF DeadRemote, Working
  <1>6. sl[p] = Absent /\ p \in Below(d) => local[p] = Absent
    BY <1>3, <1>5 DEF StillLeft
  <1>16. local \in Trees /\ remote \in Trees /\ p \in Paths /\ q \in Paths /\ d \in Paths
    BY <1>1, <1>3, <1>4
  <1>7. CASE MakeRemote(p) \/ MakeLocal(p)
    <2>1. \A x \in Below(d) : /\ x \notin Rows(p)
                              /\ local'[x] = local[x] /\ remote'[x] = remote[x]
      BY <1>5, <1>7, MadeElsewhere
    <2> QED BY <1>4, <2>1
  <1>8. CASE RecordFolder(p)
    <2>1. /\ pc = "folders" /\ UNCHANGED <<local, remote>> /\ doing'[2] = Folder
          /\ FolderOp(p) = "record_dir"
      BY <1>8 DEF RecordFolder, Done, trees
    <2>2. sl[p] = Folder
      BY <1>3, <2>1, FolderOpFacts
    <2>3. q = p => local[q] \in {Folder, Absent}
      BY <1>5, <2>2 DEF StillLeft
    <2> QED BY <1>3, <1>4, <2>1, <2>3
  <1>9. CASE DeleteRemoteTree(p)
    <2>1. pc = "trees" /\ UNCHANGED local /\ remote' = Cut(remote, p)
      BY <1>9 DEF DeleteRemoteTree, CutRemote
    <2>2. ASSUME q \in Rows(p) PROVE local[q] = Absent
      <3>1. plan # None /\ p \in plan.roots
        BY <1>1, <1>2, <2>1, WorkOf
      <3>2. q \in plan.covered
        BY <1>1, <2>2, <3>1, RootFacts DEF Rows
      <3>3. sl[q] = Absent
        BY <1>1, <3>1, <3>2, CoveredFacts
      <3>4. Untouched(q)
        BY <1>2, <2>2, RowsUntouched
      <3> QED BY <1>5, <3>3, <3>4 DEF StillLeft
    <2>3. remote'[d] = Absent
      BY <1>4, <1>16, <2>1, CutKeeps
    <2> QED BY <2>1, <2>2, <2>3
  <1>10. CASE DeleteRemote(p) \/ DropRow(p)
    <2>1. /\ pc \in {"files", "cleanup"} /\ UNCHANGED local
          /\ remote' \in {remote, Cut(remote, p)}
          /\ \/ FileOp(p) \in {"delete_remote", "drop_baseline"}
             \/ CleanupOp(p) = "drop_baseline_dir"
      BY <1>10 DEF DeleteRemote, CutRemote, DropRow, trees
    <2>2. sl[p] = Absent
      BY <1>1, <1>3, <2>1, FileOpFacts, CleanupFacts
    <2>3. remote'[d] = Absent
      BY <1>4, <1>16, <2>1, CutKeeps
    <2>4. Rows(p) = {p}
      BY <1>3, <2>1
    <2>5. p \in Below(d) => local[p] = Absent
      BY <1>6, <2>2
    <2> QED BY <2>1, <2>3, <2>4, <2>5
  <1>11. CASE Upload(p)
    <2>1. /\ pc = "files" /\ UNCHANGED local /\ IsFile(local[p]) /\ Sends(p)
          /\ remote' = Put(Cut(remote, p), p, local[p])
      BY <1>11 DEF Upload
    <2>2. sl[p] # Absent /\ sl[p] # sb[p]
      BY <1>1, <1>3, <2>1, TransfersMoved
    <2>3. p \notin Below(d)
      BY <1>3, <1>5, <2>1, <2>2, Kinds DEF Agreed
    <2>4. q # p /\ d # p /\ d \notin Above[p]
      BY <1>3, <1>4, <2>3, BelowFacts
    <2>5. local[p] \in Values
      BY <1>16 DEF Trees, Values
    <2>6. remote'[d] = Absent
      BY <1>4, <1>16, <2>1, <2>4, <2>5, PutCutKeeps
    <2> QED BY <1>3, <1>4, <2>1, <2>4, <2>6
  <1>12. CASE Download(p)
    <2>1. /\ pc = "files" /\ UNCHANGED remote /\ Fetches(p) /\ remote[p] = sr[p]
          /\ local' = Put(local, p, sr[p])
      BY <1>12 DEF Download
    <2>2. sr[p] # Absent
      BY <1>1, <1>3, <2>1, TransfersMoved
    <2>3. p \notin Below(d)
      BY <1>1, <1>4, <2>1, <2>2, BelowFacts
    <2>4. q # p /\ q \notin Above[p]
      BY <1>3, <2>3, BelowFacts
    <2>5. local'[q] = local[q]
      BY <1>1, <1>3, <1>4, <2>1, <2>4, PutTree DEF Trees, Values
    <2> QED BY <1>3, <1>4, <2>1, <2>4, <2>5
  <1>13. CASE Adopt(p)
    <2>1. pc = "files" /\ local[p] = remote[p] /\ UNCHANGED <<local, remote>>
      BY <1>13 DEF Adopt, trees
    <2> QED BY <1>3, <1>4, <2>1
  <1>14. CASE DeleteLocal(p) \/ RemoveLocalFolder(p)
    <2>1. /\ pc \in {"files", "cleanup"} /\ UNCHANGED remote /\ local' = Cut(local, p)
      BY <1>14 DEF DeleteLocal, RemoveLocalFolder, CutLocal
    <2>2. local'[p] = Absent /\ local'[q] \in {local[q], Absent}
      BY <1>16, <2>1, CutKeeps
    <2> QED BY <1>3, <1>4, <2>1, <2>2
  <1> QED BY <1>7, <1>8, <1>9, <1>10, <1>11, <1>12, <1>13, <1>14 DEF Op

\* While a pass only loses work, and the other side only loses paths, what was said of a
\* deleted path stays said.
LEMMA DeadLocalKept ==
    ASSUME NEW d, DeadLocal(d), local'[d] = Absent,
           UNCHANGED <<sl, sr, sb, plan, pc>>, todo' \subseteq todo,
           \A q \in Below(d) : /\ remote'[q] \in {remote[q], Absent}
                               /\ Agreed(remote, q)' /\ Commits(remote, q)',
           pc = "scanned" => UNCHANGED base
    PROVE  DeadLocal(d)'
  <1> SUFFICES ASSUME NEW q \in Below(d)
               PROVE  /\ NoNewFolder(q)'
                      /\ pc \notin {"idle", "scanned"} => StillLeft(remote, sr, q)'
    BY DEF DeadLocal, Below, Under
  <1>1. Untouched(q)' => Untouched(q)
    BY UntouchedShrinks
  <1>2. NoNewFolder(q)'
    BY DEF DeadLocal, NoNewFolder
  <1>3. StillLeft(remote, sr, q) => StillLeft(remote, sr, q)'
    BY <1>1 DEF StillLeft
  <1> QED BY <1>2, <1>3 DEF DeadLocal

LEMMA DeadRemoteKept ==
    ASSUME NEW d, DeadRemote(d), remote'[d] = Absent,
           UNCHANGED <<sl, sr, sb, plan, pc>>, todo' \subseteq todo,
           \A q \in Below(d) : /\ local'[q] \in {local[q], Absent}
                               /\ Agreed(local, q)' /\ Commits(local, q)',
           pc = "scanned" => UNCHANGED base
    PROVE  DeadRemote(d)'
  <1> SUFFICES ASSUME NEW q \in Below(d)
               PROVE  /\ NoNewFolder(q)'
                      /\ pc # "idle" => StillLeft(local, sl, q)'
    BY DEF DeadRemote, Below, Under
  <1>1. Untouched(q)' => Untouched(q)
    BY UntouchedShrinks
  <1>2. NoNewFolder(q)'
    BY DEF DeadRemote, NoNewFolder
  <1>3. StillLeft(local, sl, q) => StillLeft(local, sl, q)'
    BY <1>1 DEF StillLeft
  <1> QED BY <1>2, <1>3 DEF DeadRemote

LEMMA RowsFrozen ==
    ASSUME UNCHANGED <<plan, pc>> PROVE \A p : Rows(p)' = Rows(p)
  BY DEF Rows

LEMMA OpDead ==
    ASSUME PassInv, RowsFit, NEW p, Op(p), NEW d \in Paths, d \notin Ignored
    PROVE  /\ DeadLocal(d) => DeadLocal(d)'
           /\ DeadRemote(d) => DeadRemote(d)'
  <1>1. /\ UNCHANGED <<base, sl, sr, sb, plan, pc, todo>>
        /\ doing' = <<p, doing'[2]>> /\ p \in todo
    BY OpFrame
  <1>2. \A x : Rows(x)' = Rows(x)
    BY <1>1, RowsFrozen
  <1>3. d \in Below(d)
    BY DEF Below
  <1>4. doing'[1] = p
    BY <1>1
  <1>5. ASSUME DeadLocal(d) PROVE DeadLocal(d)'
    <2>1. ASSUME NEW q \in Below(d)
          PROVE  /\ local'[d] = Absent /\ remote'[q] \in {remote[q], Absent}
                 /\ Agreed(remote, q)' /\ Commits(remote, q)'
      <3>1. /\ local'[d] = Absent /\ remote'[q] \in {remote[q], Absent}
            /\ q \in Rows(p) /\ remote'[q] # Absent => doing'[2] = remote'[q]
        BY <1>5, OpBelowLocal
      <3>2. Agreed(remote, q)'
        BY <1>1, <1>5, <3>1 DEF DeadLocal, Agreed
      <3>3. Commits(remote, q)'
        BY <1>2, <1>4, <3>1 DEF Commits
      <3> QED BY <3>1, <3>2, <3>3
    <2> QED BY <1>1, <1>3, <1>5, <2>1, DeadLocalKept
  <1>6. ASSUME DeadRemote(d) PROVE DeadRemote(d)'
    <2>1. ASSUME NEW q \in Below(d)
          PROVE  /\ remote'[d] = Absent /\ local'[q] \in {local[q], Absent}
                 /\ Agreed(local, q)' /\ Commits(local, q)'
      <3>1. /\ remote'[d] = Absent /\ local'[q] \in {local[q], Absent}
            /\ q \in Rows(p) /\ local'[q] # Absent => doing'[2] = local'[q]
        BY <1>6, OpBelowRemote
      <3>2. Agreed(local, q)'
        BY <1>1, <1>6, <3>1 DEF DeadRemote, Agreed
      <3>3. Commits(local, q)'
        BY <1>2, <1>4, <3>1 DEF Commits
      <3> QED BY <3>1, <3>2, <3>3
    <2> QED BY <1>1, <1>3, <1>6, <2>1, DeadRemoteKept
  <1> QED BY <1>5, <1>6

\* A step that changes neither trees nor listings.
LEMMA QuietDead ==
    ASSUME UNCHANGED <<local, remote, base, sl, sr, sb, plan, pc, doing>>,
           todo' \subseteq todo, NEW d \in Paths, d \notin Ignored
    PROVE  /\ DeadLocal(d) => DeadLocal(d)'
           /\ DeadRemote(d) => DeadRemote(d)'
  <1>1. \A x : Rows(x)' = Rows(x)
    BY RowsFrozen
  <1>2. \A q : /\ (Agreed(remote, q) <=> Agreed(remote, q)')
               /\ (Agreed(local, q) <=> Agreed(local, q)')
               /\ (Commits(remote, q) <=> Commits(remote, q)')
               /\ (Commits(local, q) <=> Commits(local, q)')
    BY <1>1 DEF Agreed, Commits
  <1>3. DeadLocal(d) => DeadLocal(d)'
    BY <1>2, DeadLocalKept DEF DeadLocal
  <1>4. DeadRemote(d) => DeadRemote(d)'
    BY <1>2, DeadRemoteKept DEF DeadRemote
  <1> QED BY <1>3, <1>4

LEMMA CommitDead ==
    ASSUME PassInv, Commit, NEW d \in Paths, d \notin Ignored
    PROVE  /\ DeadLocal(d) => DeadLocal(d)'
           /\ DeadRemote(d) => DeadRemote(d)'
  <1>1. /\ doing # None /\ doing' = None /\ todo' \subseteq todo
        /\ base' = [q \in Paths |-> IF q \in Rows(doing[1]) THEN doing[2] ELSE base[q]]
        /\ UNCHANGED <<local, remote, sl, sr, sb, plan, pc>>
        /\ pc # "scanned"
    BY DEF Commit, PassInv, WorkFits, Reading, trees, listing
  <1>2. ASSUME NEW tree, NEW q \in Paths, Agreed(tree, q), Commits(tree, q)
        PROVE  tree[q] # Absent => base'[q] = tree[q]
    BY <1>1, <1>2 DEF Agreed, Commits
  <1>3. \A q \in Below(d) : q \in Paths
    BY DEF Below, Under
  <1>4. ASSUME DeadLocal(d) PROVE DeadLocal(d)'
    <2>1. \A q \in Below(d) : Agreed(remote, q)' /\ Commits(remote, q)'
      BY <1>1, <1>2, <1>3, <1>4 DEF DeadLocal, Agreed, Commits
    <2> QED BY <1>1, <1>4, <2>1, DeadLocalKept DEF DeadLocal
  <1>5. ASSUME DeadRemote(d) PROVE DeadRemote(d)'
    <2>1. \A q \in Below(d) : Agreed(local, q)' /\ Commits(local, q)'
      BY <1>1, <1>2, <1>3, <1>5 DEF DeadRemote, Agreed, Commits
    <2> QED BY <1>1, <1>5, <2>1, DeadRemoteKept DEF DeadRemote
  <1> QED BY <1>4, <1>5

\* The steps of a pass from one phase to the next.
LEMMA PhaseDead ==
    ASSUME PassInv, Decide \/ NextPhase, NEW d \in Paths, d \notin Ignored
    PROVE  /\ DeadLocal(d) => DeadLocal(d)'
           /\ DeadRemote(d) => DeadRemote(d)'
  <1>1. /\ UNCHANGED <<local, remote, base>> /\ doing' = None
        /\ pc' \in {"idle"} \cup Working
        /\ pc \in {"listed"} \cup Working
    BY DEF Decide, NextPhase, Over, Enter, PassInv, WorkFits, Working, Reading, trees
  <1>2. pc' # "idle" => UNCHANGED <<sl, sr, sb>>
    BY DEF Decide, NextPhase, Over, Enter, listing
  <1>3. \A q : Untouched(q)' => Untouched(q)
    BY UntouchedPhase
  <1>4. ASSUME NEW q, NoNewFolder(q) PROVE NoNewFolder(q)'
    BY <1>4 DEF NoNewFolder, Decide, NextPhase, Enter, Over, Working
  <1>5. ASSUME NEW q, pc' # "idle" 
        PROVE  /\ StillLeft(remote, sr, q) => StillLeft(remote, sr, q)'
               /\ StillLeft(local, sl, q) => StillLeft(local, sl, q)'
    BY <1>1, <1>2, <1>3, <1>5 DEF StillLeft
  <1>6. \A q : /\ (Agreed(remote, q) => Agreed(remote, q)')
               /\ (Agreed(local, q) => Agreed(local, q)')
               /\ Commits(remote, q)' /\ Commits(local, q)'
    BY <1>1 DEF Agreed, Commits
  <1>7. Below(d)' = Below(d)
    BY DEF Below, Under
  <1> QED BY <1>1, <1>4, <1>5, <1>6, <1>7 DEF DeadLocal, DeadRemote, Working

LEMMA OverDead ==
    ASSUME NEW m, Over(m), NEW d
    PROVE  /\ DeadLocal(d) => DeadLocal(d)'
           /\ DeadRemote(d) => DeadRemote(d)'
  <1>1. /\ UNCHANGED <<local, remote, base>> /\ doing' = None /\ pc' = "idle"
    BY DEF Over, trees
  <1>2. \A q : /\ (Agreed(remote, q) => Agreed(remote, q)')
               /\ (Agreed(local, q) => Agreed(local, q)')
               /\ Commits(remote, q)' /\ Commits(local, q)'
               /\ NoNewFolder(q)'
    BY <1>1 DEF Agreed, Commits, NoNewFolder
  <1>3. Below(d)' = Below(d)
    BY DEF Below, Under
  <1> QED BY <1>1, <1>2, <1>3 DEF DeadLocal, DeadRemote

LEMMA ScanDead ==
    ASSUME PassInv, ScanLocal \/ ScanRemote, NEW d \in Paths, d \notin Ignored
    PROVE  /\ DeadLocal(d) => DeadLocal(d)'
           /\ DeadRemote(d) => DeadRemote(d)'
  <1>1. /\ UNCHANGED <<local, remote, base, doing>> /\ doing = None /\ todo = {}
        /\ \/ pc = "idle" /\ pc' = "scanned" /\ sl' = Listed(local)
           \/ pc = "scanned" /\ pc' = "listed" /\ sr' = Listed(remote) /\ sb' = base
              /\ UNCHANGED sl
    BY DEF ScanLocal, ScanRemote, PassInv, WorkFits, Reading, trees
  <1>2. local \in Trees /\ remote \in Trees /\ Closed(local) /\ Closed(remote)
    BY DEF PassInv, TypeOK, Closed
  <1>3. ASSUME NEW q \in Below(d)
        PROVE  /\ Listed(local)[q] = local[q] /\ Listed(remote)[q] = remote[q]
               /\ DeadLocal(d) => local[q] = Absent
               /\ DeadRemote(d) => remote[q] = Absent
    BY <1>2, <1>3, ListedTree, BelowFacts DEF DeadLocal, DeadRemote
  <1>4. \A q : Agreed(remote, q) <=> Agreed(remote, q)'
    BY <1>1 DEF Agreed
  <1>5. \A q : Agreed(local, q) <=> Agreed(local, q)'
    BY <1>1 DEF Agreed
  <1>6. \A q : Commits(remote, q)' /\ Commits(local, q)'
    BY <1>1 DEF Commits
  <1>7. Below(d)' = Below(d)
    BY DEF Below, Under
  <1>8. ASSUME DeadLocal(d), NEW q \in Below(d)
        PROVE  /\ NoNewFolder(q)'
               /\ pc' = "listed" => StillLeft(remote, sr, q)'
    <2>1. NoNewFolder(q) /\ Agreed(remote, q) /\ local[q] = Absent
      BY <1>3, <1>8 DEF DeadLocal
    <2>2. NoNewFolder(q)'
      BY <1>1, <1>3, <2>1, Kinds DEF NoNewFolder, Agreed
    <2>3. pc' = "listed" => StillLeft(remote, sr, q)'
      BY <1>1, <1>3, Kinds DEF StillLeft
    <2> QED BY <2>2, <2>3
  <1>9. ASSUME DeadRemote(d), NEW q \in Below(d)
        PROVE  NoNewFolder(q)' /\ StillLeft(local, sl, q)'
    <2>1. NoNewFolder(q) /\ Agreed(local, q) /\ remote[q] = Absent
      BY <1>3, <1>9 DEF DeadRemote
    <2>2. NoNewFolder(q)'
      BY <1>1, <1>3, <2>1, Kinds DEF NoNewFolder, Agreed
    <2>3. CASE pc = "idle"
      BY <1>1, <1>3, <2>2, <2>3, Kinds DEF StillLeft
    <2>4. CASE pc = "scanned"
      <3>1. StillLeft(local, sl, q) /\ Untouched(q)
        BY <1>9, <2>4 DEF DeadRemote, Untouched, Reading
      <3> QED BY <1>1, <2>2, <2>4, <3>1 DEF StillLeft
    <2> QED BY <1>1, <2>2, <2>3, <2>4
  <1>10. DeadLocal(d) => DeadLocal(d)'
    BY <1>1, <1>4, <1>6, <1>7, <1>8 DEF DeadLocal
  <1>11. DeadRemote(d) => DeadRemote(d)'
    BY <1>1, <1>5, <1>6, <1>7, <1>9 DEF DeadRemote
  <1> QED BY <1>10, <1>11

\* A user's step, below a path that stays deleted.
LEMMA UserKeeps ==
    ASSUME UNCHANGED <<base, sl, sr, sb, plan, pc, todo, doing>>, NEW d
    PROVE  /\ /\ DeadLocal(d) /\ local'[d] = Absent
              /\ \A q \in Below(d) : remote'[q] \in {remote[q], Absent}
              => DeadLocal(d)'
           /\ /\ DeadRemote(d) /\ remote'[d] = Absent
              /\ \A q \in Below(d) : local'[q] \in {local[q], Absent}
              => DeadRemote(d)'
  <1>1. \A x : Rows(x)' = Rows(x)
    BY RowsFrozen
  <1>2. ASSUME NEW q, remote'[q] \in {remote[q], Absent}
        PROVE  /\ Agreed(remote, q) => Agreed(remote, q)'
               /\ Commits(remote, q) => Commits(remote, q)'
    BY <1>1, <1>2 DEF Agreed, Commits
  <1>3. ASSUME NEW q, local'[q] \in {local[q], Absent}
        PROVE  /\ Agreed(local, q) => Agreed(local, q)'
               /\ Commits(local, q) => Commits(local, q)'
    BY <1>1, <1>3 DEF Agreed, Commits
  <1>4. ASSUME DeadLocal(d), local'[d] = Absent,
               \A q \in Below(d) : remote'[q] \in {remote[q], Absent}
        PROVE  DeadLocal(d)'
    <2>1. \A q \in Below(d) : Agreed(remote, q)' /\ Commits(remote, q)'
      BY <1>2, <1>4 DEF DeadLocal
    <2> QED BY <1>4, <2>1, DeadLocalKept
  <1>5. ASSUME DeadRemote(d), remote'[d] = Absent,
               \A q \in Below(d) : local'[q] \in {local[q], Absent}
        PROVE  DeadRemote(d)'
    <2>1. \A q \in Below(d) : Agreed(local, q)' /\ Commits(local, q)'
      BY <1>3, <1>5 DEF DeadRemote
    <2> QED BY <1>5, <2>1, DeadRemoteKept
  <1> QED BY <1>4, <1>5

\* Where all agree and no folder moved since the listings, the pass has nothing at hand
\* that would bring a path back.
LEMMA SyncIsQuiet ==
    ASSUME PassInv, RowsFit, NEW p \in Paths, InSync(p), NEW q \in Below(p)
    PROVE  /\ Agreed(local, q) /\ Agreed(remote, q)
           /\ Commits(local, q) /\ Commits(remote, q)
           /\ NoNewFolder(q)
           /\ pc # "idle" => StillLeft(local, sl, q)
           /\ pc \notin {"idle", "scanned"} => StillLeft(remote, sr, q)
  <1>1. /\ TypeOK /\ Listings /\ PlanFits /\ WorkFits
        /\ local \in Trees /\ remote \in Trees /\ sl \in Trees /\ sr \in Trees /\ sb \in Trees
    BY DEF PassInv, TypeOK
  <1>2. /\ q \in Paths /\ local[q] = remote[q] /\ base[q] = local[q]
        /\ pc # "idle" => (sl[q] = Folder <=> local[q] = Folder)
        /\ pc \notin {"idle", "scanned"} => (sr[q] = Folder <=> remote[q] = Folder)
    BY BelowFacts DEF InSync, FolderMoved, Below
  <1>3. local[q] \in Values /\ (local[q] # Absent /\ local[q] # Folder => IsFile(local[q]))
    BY <1>1, <1>2, FileIs DEF Trees, Values
  <1>4. Untouched(q) =>
            /\ pc # "scanned" => base[q] = sb[q]
            /\ IsFile(local[q]) /\ local[q] = base[q] => local[q] = sl[q]
            /\ pc # "scanned" /\ IsFile(remote[q]) /\ remote[q] = base[q]
                  => remote[q] = sr[q]
    BY <1>2 DEF RowsFit, RowFits
  <1>5. /\ pc # "idle" => StillLeft(local, sl, q)
        /\ pc \notin {"idle", "scanned"} => StillLeft(remote, sr, q)
    <2>1. pc # "idle" /\ Untouched(q) /\ sl[q] = Absent => local[q] = Absent
      BY <1>2, <1>3, <1>4, Kinds
    <2>2. pc \notin {"idle", "scanned"} /\ Untouched(q) /\ sr[q] = Absent => remote[q] = Absent
      BY <1>2, <1>3, <1>4, Kinds
    <2> QED BY <1>2, <2>1, <2>2 DEF StillLeft
  <1>6. NoNewFolder(q)
    <2>1. pc = "scanned" => (sl[q] = Folder => base[q] # Absent)
      BY <1>2, Kinds
    <2>2. ASSUME pc = "listed" \/ (pc = "folders" /\ q \in todo)
          PROVE  sl[q] = Folder \/ sr[q] = Folder => sb[q] # Absent
      <3>1. Untouched(q)
        BY <2>2 DEF Untouched, Reading
      <3> QED BY <1>2, <1>4, <2>2, <3>1, Kinds
    <2> QED BY <2>1, <2>2 DEF NoNewFolder
  <1>7. ASSUME doing # None, q \in Rows(doing[1]) PROVE local[q] = Absent
    <2> SUFFICES ASSUME local[q] # Absent PROVE FALSE
      OBVIOUS
    <2>1. doing[1] \in todo
      BY <1>1, <1>7 DEF TypeOK
    <2>2. Untouched(q) /\ pc \in Working /\ plan # None /\ q \in Planned
      BY <1>1, <1>7, <2>1, RowsUntouched, WorkOf, RowsPlanned
    <2>3. sl[q] = local[q] /\ sr[q] = local[q] /\ sb[q] = local[q]
      BY <1>2, <1>3, <1>4, <2>2 DEF Working
    <2>4. pc # "trees"
      BY <1>1, <1>7, <2>1, <2>2, <2>3, WorkOf, RootFacts, CoveredFacts DEF Rows
    <2>5. q = doing[1] /\ q \in todo
      BY <1>7, <2>1, <2>4 DEF Rows
    <2>6. pc # "folders"
      <3> SUFFICES ASSUME pc = "folders" PROVE FALSE
        OBVIOUS
      <3>1. q \in FolderTodo /\ sl[q] \in {Absent, Folder}
        BY <2>5, AtWork, WorkOf, <1>1
      <3>2. FolderOp(q) = "record_dir"
        BY <2>3 DEF FolderOp
      <3> QED BY <2>3, <3>1, <3>2 DEF FolderTodo
    <2>7. pc # "files"
      BY <1>1, <1>2, <2>3, <2>5, WorkOf, FileOpFacts DEF FileTodo
    <2>8. pc # "cleanup"
      BY <1>1, <2>3, <2>5, WorkOf, CleanupFacts DEF CleanupTodo
    <2> QED BY <2>2, <2>4, <2>6, <2>7, <2>8 DEF Working
  <1>8. Commits(local, q) /\ Commits(remote, q)
    BY <1>2, <1>7 DEF Commits
  <1>9. Agreed(local, q) /\ Agreed(remote, q)
    BY <1>2 DEF Agreed
  <1> QED BY <1>5, <1>6, <1>8, <1>9

LEMMA UserDead == ASSUME PassInv, RowsFit, DeadFits, User PROVE DeadFits'
  <1>1. /\ local \in Trees /\ remote \in Trees /\ Closed(local) /\ Closed(remote)
        /\ dead \in [{"local", "remote"} -> SUBSET Paths] /\ edits \in Nat
        /\ Bare(base)
    BY DEF PassInv, TypeOK, Closed, Listings
  <1>2. /\ UNCHANGED <<base, sl, sr, sb, plan, pc, todo, doing>>
        /\ edits < MaxEdits
    BY UserTrees DEF PassInv
  <1>3. \A d \in Paths : d \notin Ignored => d \in Below(d)
    BY DEF Below
  <1>4. ASSUME NEW tree \in Trees, Closed(tree), NEW p \in Paths \ Ignored,
               NEW t \in Written(tree, p), NEW q \in Paths, q # p, q \notin Above[p]
        PROVE  t[q] = tree[q]
    <2>1. PICK v \in {3 + edits, Folder} : t = Put(tree, p, v) /\ v \in Values
      BY <1>1, <1>2, <1>4, WrittenTree
    <2> QED BY <2>1, <1>4, PutTree
  <1>5. ASSUME NEW p \in Paths \ Ignored, LocalWrite(p) \/ RemoteWrite(p) PROVE DeadFits'
    <2>1. dead' = Revived(p)
      BY <1>5 DEF LocalWrite, RemoteWrite
    <2>2. /\ dead'.local = dead.local \ ({p} \cup Above[p])
          /\ dead'.remote = dead.remote \ ({p} \cup Above[p])
      BY <2>1 DEF Revived
    <2>3. ASSUME NEW d \in Paths, d \notin Ignored, d # p, d \notin Above[p], NEW q \in Below(d)
          PROVE  /\ local'[q] = local[q] /\ remote'[q] = remote[q]
      <3>1. q \in Paths /\ q # p /\ q \notin Above[p]
        BY <1>5, <2>3, BelowFacts, AboveFacts
      <3>2. local'[q] = local[q] 
        BY <1>1, <1>4, <1>5, <3>1 DEF LocalWrite, RemoteWrite
      <3>3. remote'[q] = remote[q]
        BY <1>1, <1>4, <1>5, <3>1 DEF LocalWrite, RemoteWrite
      <3> QED BY <3>2, <3>3
    <2>4. ASSUME NEW d \in dead'.local PROVE DeadLocal(d)' /\ d \notin Ignored
      <3>1. d \in Paths /\ d \notin Ignored /\ DeadLocal(d) /\ d # p /\ d \notin Above[p]
        BY <1>1, <2>2, <2>4 DEF DeadFits
      <3>2. local'[d] = Absent
        BY <1>3, <2>3, <3>1 DEF DeadLocal
      <3> QED BY <1>2, <2>3, <3>1, <3>2, UserKeeps
    <2>5. ASSUME NEW d \in dead'.remote PROVE DeadRemote(d)' /\ d \notin Ignored
      <3>1. d \in Paths /\ d \notin Ignored /\ DeadRemote(d) /\ d # p /\ d \notin Above[p]
        BY <1>1, <2>2, <2>5 DEF DeadFits
      <3>2. remote'[d] = Absent
        BY <1>3, <2>3, <3>1 DEF DeadRemote
      <3> QED BY <1>2, <2>3, <3>1, <3>2, UserKeeps
    <2> QED BY <2>4, <2>5 DEF DeadFits
  <1>6. ASSUME NEW p \in Paths, LocalDelete(p) \/ RemoteDelete(p),
               NEW d \in Paths, d \notin Ignored
        PROVE  /\ DeadLocal(d) => DeadLocal(d)'
               /\ DeadRemote(d) => DeadRemote(d)'
    <2>1. ASSUME NEW q \in Paths
          PROVE  local'[q] \in {local[q], Absent} /\ remote'[q] \in {remote[q], Absent}
      BY <1>1, <1>6, CutTree DEF LocalDelete, RemoteDelete
    <2>2. \A q \in Below(d) : local'[q] \in {local[q], Absent}
                              /\ remote'[q] \in {remote[q], Absent}
      BY <1>6, <2>1, BelowFacts
    <2>3. DeadLocal(d) => local'[d] = Absent
      BY <1>6, <2>1 DEF DeadLocal
    <2>4. DeadRemote(d) => remote'[d] = Absent
      BY <1>6, <2>1 DEF DeadRemote
    <2> QED BY <1>2, <2>2, <2>3, <2>4, UserKeeps
  <1>7. ASSUME NEW p \in Paths \ Ignored, LocalDelete(p), InSync(p),
               NEW d \in Under(p) \cup {p}, base[d] # Absent
        PROVE  d \in Paths /\ d \notin Ignored /\ DeadLocal(d)'
    <2>1. d \in Paths /\ d \notin Ignored /\ d \in Below(p)
      BY <1>1, <1>7 DEF Under, Below, Bare
    <2>2. Below(d) \subseteq Below(p)
      BY <1>7, <2>1, BelowFacts
    <2>3. UNCHANGED remote /\ local' = Cut(local, p)
      BY <1>7 DEF LocalDelete
    <2>4. local'[d] = Absent
      BY <1>1, <1>7, <2>3, CutTree
    <2>5. ASSUME NEW q \in Below(d)
          PROVE  /\ Agreed(remote, q)' /\ Commits(remote, q)' /\ NoNewFolder(q)'
                 /\ pc \notin {"idle", "scanned"} => StillLeft(remote, sr, q)'
      <3>1. /\ Agreed(remote, q) /\ Commits(remote, q) /\ NoNewFolder(q)
            /\ pc \notin {"idle", "scanned"} => StillLeft(remote, sr, q)
        BY <1>7, <2>2, SyncIsQuiet
      <3>2. Untouched(q)' => Untouched(q)
        BY <1>2, UntouchedShrinks
      <3>3. \A x : Rows(x)' = Rows(x)
        BY <1>2, RowsFrozen
      <3>4. Agreed(remote, q)' /\ Commits(remote, q)' /\ NoNewFolder(q)'
        BY <1>2, <2>3, <3>1, <3>3 DEF Agreed, Commits, NoNewFolder
      <3> QED BY <1>2, <2>3, <3>1, <3>2, <3>4 DEF StillLeft
    <2>6. Below(d)' = Below(d)
      BY DEF Below, Under
    <2> QED BY <1>2, <2>1, <2>4, <2>5, <2>6 DEF DeadLocal
  <1>8. ASSUME NEW p \in Paths \ Ignored, RemoteDelete(p), InSync(p),
               NEW d \in Under(p) \cup {p}, base[d] # Absent
        PROVE  d \in Paths /\ d \notin Ignored /\ DeadRemote(d)'
    <2>1. d \in Paths /\ d \notin Ignored /\ d \in Below(p)
      BY <1>1, <1>8 DEF Under, Below, Bare
    <2>2. Below(d) \subseteq Below(p)
      BY <1>8, <2>1, BelowFacts
    <2>3. UNCHANGED local /\ remote' = Cut(remote, p)
      BY <1>8 DEF RemoteDelete
    <2>4. remote'[d] = Absent
      BY <1>1, <1>8, <2>3, CutTree
    <2>5. ASSUME NEW q \in Below(d)
          PROVE  /\ Agreed(local, q)' /\ Commits(local, q)' /\ NoNewFolder(q)'
                 /\ pc # "idle" => StillLeft(local, sl, q)'
      <3>1. /\ Agreed(local, q) /\ Commits(local, q) /\ NoNewFolder(q)
            /\ pc # "idle" => StillLeft(local, sl, q)
        BY <1>8, <2>2, SyncIsQuiet
      <3>2. Untouched(q)' => Untouched(q)
        BY <1>2, UntouchedShrinks
      <3>3. \A x : Rows(x)' = Rows(x)
        BY <1>2, RowsFrozen
      <3>4. Agreed(local, q)' /\ Commits(local, q)' /\ NoNewFolder(q)'
        BY <1>2, <2>3, <3>1, <3>3 DEF Agreed, Commits, NoNewFolder
      <3> QED BY <1>2, <2>3, <3>1, <3>2, <3>4 DEF StillLeft
    <2>6. Below(d)' = Below(d)
      BY DEF Below, Under
    <2> QED BY <1>2, <2>1, <2>4, <2>5, <2>6 DEF DeadRemote
  <1>9. ASSUME NEW p \in Paths \ Ignored, LocalDelete(p) PROVE DeadFits'
    <2>1. /\ dead'.local = IF InSync(p)
                         THEN dead.local \cup {q \in Under(p) \cup {p} : base[q] # Absent}
                         ELSE dead.local
          /\ dead'.remote = dead.remote
      BY <1>1, <1>9 DEF LocalDelete, Died
    <2> QED BY <1>1, <1>6, <1>7, <1>9, <2>1 DEF DeadFits
  <1>10. ASSUME NEW p \in Paths \ Ignored, RemoteDelete(p) PROVE DeadFits'
    <2>1. /\ dead'.remote = IF InSync(p)
                         THEN dead.remote \cup {q \in Under(p) \cup {p} : base[q] # Absent}
                         ELSE dead.remote
          /\ dead'.local = dead.local
      BY <1>1, <1>10 DEF RemoteDelete, Died
    <2> QED BY <1>1, <1>6, <1>8, <1>10, <2>1 DEF DeadFits
  <1> QED BY <1>5, <1>9, <1>10 DEF User

LEMMA DeadStep == ASSUME PassInv, RowsFit, DeadFits, [Next]_vars PROVE DeadFits'
  <1>1. CASE User
    BY <1>1, UserDead
  <1>2. ASSUME UNCHANGED dead,
               \A d \in Paths :
                  d \notin Ignored => /\ DeadLocal(d) => DeadLocal(d)'
                                      /\ DeadRemote(d) => DeadRemote(d)'
        PROVE  DeadFits'
    <2>1. dead.local \subseteq Paths /\ dead.remote \subseteq Paths
      BY DEF PassInv, TypeOK
    <2> QED BY <1>2, <2>1 DEF DeadFits
  <1>3. CASE ScanLocal \/ ScanRemote
    BY <1>2, <1>3, ScanDead DEF ScanLocal, ScanRemote, history
  <1>4. CASE Decide \/ NextPhase
    <2>1. UNCHANGED dead
      BY <1>4 DEF Decide, NextPhase, Enter, Over, history
    <2> QED BY <1>2, <1>4, <2>1, PhaseDead
  <1>5. ASSUME NEW m, Over(m) PROVE DeadFits'
    <2>1. UNCHANGED dead
      BY <1>5 DEF Over
    <2> QED BY <1>2, <1>5, <2>1, OverDead
  <1>6. ASSUME NEW p, Op(p) PROVE DeadFits'
    <2>1. UNCHANGED dead
      BY <1>6, OpFrame
    <2> QED BY <1>2, <1>6, <2>1, OpDead
  <1>7. ASSUME NEW p, Skip(p) PROVE DeadFits'
    <2>1. /\ UNCHANGED <<local, remote, base, sl, sr, sb, plan, pc, doing, dead>>
          /\ todo' \subseteq todo
      BY <1>7 DEF Skip, trees, listing
    <2> QED BY <1>2, <2>1, QuietDead
  <1>8. CASE Commit
    BY <1>2, <1>8, CommitDead DEF Commit, history
  <1>9. CASE UNCHANGED vars
    <2>1. UNCHANGED <<local, remote, base, sl, sr, sb, plan, pc, doing, dead, todo>>
      BY <1>9 DEF vars, trees, listing, history
    <2> QED BY <1>2, <2>1, QuietDead
  <1> QED BY <1>1, <1>3, <1>4, <1>5, <1>6, <1>7, <1>8, <1>9, ApplyIs
      DEF Next, Engine, AbortScan, Interrupt

LEMMA KeepsAlways == Spec => []KeepsInv
  <1>1. Init => KeepsInv
    <2>1. Init => RowsFit
      BY DEF Init, RowsFit, RowFits, Untouched, Reading
    <2>2. Init => DeadFits
      BY DEF Init, DeadFits
    <2> QED BY <2>1, <2>2, InitPass, VersionsInit DEF KeepsInv
  <1>2. KeepsInv /\ [Next]_vars => KeepsInv'
    BY PassStep, VersionsStep, RowsStep, DeadStep DEF KeepsInv
  <1> QED BY <1>1, <1>2, PTL DEF Spec

\* For any tree and any number of users' actions, failures, kills and restarts: what a
\* user deletes on one side while both sides agree, and no folder of it moved since the
\* running pass listed it, no pass ever brings back on that side.
THEOREM DeletionsStay == Spec => DeletedStaysDeleted
  <1>1. KeepsInv /\ KeepsInv' /\ [Next]_vars =>
          [EngineStep => /\ \A p \in dead.local : local'[p] = Absent
                         /\ \A p \in dead.remote : remote'[p] = Absent]_vars
    <2> SUFFICES ASSUME KeepsInv, KeepsInv', [Next]_vars, EngineStep
                 PROVE  /\ \A p \in dead.local : local'[p] = Absent
                        /\ \A p \in dead.remote : remote'[p] = Absent
      OBVIOUS
    <2>1. ~User
      BY EngineStepIs DEF KeepsInv, PassInv
    <2>2. \A p : Op(p) => UNCHANGED dead
      BY OpFrame
    <2>3. UNCHANGED dead
      BY <2>1, <2>2, ApplyIs DEF Next, Engine, ScanLocal, ScanRemote, AbortScan, Interrupt,
         Over, Decide, NextPhase, Enter, Skip, Commit, history, vars
    <2> QED BY <2>3 DEF KeepsInv, DeadFits, DeadLocal, DeadRemote
  <1> QED BY <1>1, KeepsAlways, PTL DEF Spec, DeletedStaysDeleted

-----------------------------------------------------------------------------
(* Heights in the tree.                                                    *)

\* A set of naturals that is not empty has a least one.
LEMMA LeastNat ==
    ASSUME NEW T, T \subseteq Nat, T # {}
    PROVE  \E n \in T : \A m \in T : n <= m
  <1> DEFINE R == OpToRel(<, Nat)
  <1>1. R = {ss \in Nat \X Nat : ss[1] < ss[2]}
    BY Zenon DEF OpToRel
  <1>2. IsWellFoundedOn(R, Nat)
    BY NatLessThanWellFounded, Zenon
  <1> HIDE DEF R
  <1>3. \A m, n \in Nat : m < n => <<m, n>> \in R
    BY <1>1
  <1>4. PICK n \in T : \A m \in T : ~(<<m, n>> \in R)
    BY <1>2, WFMin, Zenon
  <1>5. ASSUME NEW m \in T PROVE n <= m
    <2>1. ~(m < n)
      BY <1>3, <1>4
    <2> QED BY <2>1
  <1> QED BY <1>5

Height(p) == Cardinality(Above[p])

LEMMA Heights ==
    ASSUME NEW p \in Paths
    PROVE  /\ Height(p) \in Nat
           /\ \A q \in Above[p] : Height(q) + 1 <= Height(p)
  <1>1. IsFiniteSet(Above[p])
    BY TreeSyncAssumption, FS_Subset
  <1>2. Height(p) \in Nat
    BY <1>1, FS_CardinalityType DEF Height
  <1>3. ASSUME NEW q \in Above[p] PROVE Height(q) + 1 <= Height(p)
    <2>1. Above[q] \subseteq Above[p] /\ q \notin Above[q] /\ q \in Paths
      BY AboveFacts, TreeSyncAssumption
    <2>2. IsFiniteSet(Above[q]) /\ Height(q) \in Nat
      BY <1>1, <2>1, FS_Subset, FS_CardinalityType DEF Height
    <2>3. Cardinality(Above[q] \cup {q}) = Height(q) + 1
      BY <2>1, <2>2, FS_AddElement DEF Height
    <2>4. Above[q] \cup {q} \subseteq Above[p]
      BY <2>1
    <2>5. Cardinality(Above[q] \cup {q}) <= Cardinality(Above[p])
      BY <1>1, <2>4, FS_Subset
    <2> QED BY <2>3, <2>5 DEF Height
  <1> QED BY <1>2, <1>3

\* Of the members of a set on the way down to one of them, one is topmost.
LEMMA Topmost ==
    ASSUME NEW S \in SUBSET Paths, NEW q \in S
    PROVE  \E t \in S : t \in Above[q] \cup {q} /\ Above[t] \cap S = {}
  <1> DEFINE C == S \cap (Above[q] \cup {q})
             T == {Height(t) : t \in C}
  <1>1. T \subseteq Nat /\ T # {}
    BY Heights
  <1>2. PICK n \in T : \A m \in T : n <= m
    BY <1>1, LeastNat, Zenon
  <1>3. PICK t \in C : \A u \in C : Height(t) <= Height(u)
    BY <1>2
  <1>4. ASSUME NEW u \in Above[t] \cap S PROVE FALSE
    <2>1. u \in C
      BY <1>3, AboveFacts
    <2>2. Height(u) + 1 <= Height(t) /\ Height(u) \in Nat /\ Height(t) \in Nat
      BY <1>3, <2>1, Heights
    <2> QED BY <1>3, <2>1, <2>2
  <1> QED BY <1>3, <1>4

LEMMA DepthIs ==
    ASSUME Paths # {}
    PROVE  Depth \in Nat /\ \A p \in Paths : Height(p) <= Depth
  <1> DEFINE H == {Height(p) : p \in Paths}
             T == {n \in Nat : \A h \in H : h <= n}
  <1>1. H \subseteq Nat /\ H # {}
    BY Heights
  <1>2. T # {}
    <2>1. IsFiniteSet(Paths)
      BY TreeSyncAssumption
    <2>2. Cardinality(Paths) \in Nat
      BY <2>1, FS_CardinalityType
    <2>3. \A p \in Paths : Height(p) <= Cardinality(Paths)
      BY <2>1, TreeSyncAssumption, FS_Subset DEF Height
    <2> QED BY <2>2, <2>3
  <1>3. PICK n \in T : \A m \in T : n <= m
    BY <1>2, LeastNat, Zenon
  <1>4. n \in H
    <2> SUFFICES ASSUME n \notin H PROVE FALSE
      OBVIOUS
    <2>1. n \in Nat /\ \A h \in H : h \in Nat /\ h < n
      BY <1>1, <1>3
    <2>2. PICK h \in H : TRUE
      BY <1>1
    <2>3. n - 1 \in T
      BY <2>1, <2>2
    <2> QED BY <1>3, <2>1, <2>3
  <1>5. PICK q \in Paths : Height(q) = n
    BY <1>4
  <1>6. \E m \in {Cardinality(Above[p]) : p \in Paths} :
           \A p \in Paths : Cardinality(Above[p]) <= m
    BY <1>3, <1>5 DEF Height
  <1>7. Depth \in H /\ \A p \in Paths : Height(p) <= Depth
    BY <1>6 DEF Depth, Height
  <1> QED BY <1>1, <1>7

-----------------------------------------------------------------------------
(* A pass that nothing holds up.                                           *)

Through == PassInv /\ pc \in Working /\ ~HeldUp

\* It acts on every path there is.
LEMMA ThroughPlan ==
    ASSUME Through
    PROVE  /\ plan # None /\ ~plan.withheld /\ Planned = Known
           /\ plan.files = Files /\ plan.folders = Folders /\ plan.kept = Kept
           /\ plan.roots = Roots(Prunable(Kept))
           /\ plan.covered = {p \in Planned : ({p} \cup Above[p]) \cap plan.roots # {}}
           /\ TypeOK /\ Listings /\ PlanFits /\ WorkFits
           /\ local \in Trees /\ remote \in Trees /\ base \in Trees
           /\ sl \in Trees /\ sr \in Trees /\ sb \in Trees
           /\ Closed(sl) /\ Closed(sr)
  <1>1. plan # None /\ PlanFits
    BY DEF Through, PassInv, TypeOK, Working
  <1>2. InPlan = Known /\ ~plan.withheld
    BY DEF Through, HeldUp
  <1> QED BY <1>1, <1>2, PlanParts DEF Through, PassInv, TypeOK, Listings

\* A path that is not known is nowhere; a known one is a file or a folder of the plan.
LEMMA ThroughKinds ==
    ASSUME Through, NEW q \in Paths
    PROVE  /\ q \in Planned \/ (sl[q] = Absent /\ sr[q] = Absent /\ sb[q] = Absent)
           /\ q \in Files => /\ sl[q] # Folder /\ sr[q] # Folder
                             /\ q \notin Folders /\ q \in Planned
           /\ q \in Folders => /\ sl[q] \in {Absent, Folder} /\ sr[q] \in {Absent, Folder}
                               /\ q \notin Files /\ q \in Planned
           /\ q \in Planned => q \in Files \/ q \in Folders
           /\ q \in Planned => sl[q] # Absent \/ sr[q] # Absent \/ sb[q] # Absent
  <1>1. q \in Planned => sl[q] # Absent \/ sr[q] # Absent \/ sb[q] # Absent
    BY ThroughPlan, PlannedFacts
  <1>2. q \in Planned \/ (sl[q] = Absent /\ sr[q] = Absent /\ sb[q] = Absent)
    BY ThroughPlan DEF Known
  <1> QED BY <1>1, <1>2, ThroughPlan, PlannedKinds, ListedKinds

\* A folder listed on a side.
LEMMA ListedFolder ==
    ASSUME Through, NEW q \in Paths, sl[q] = Folder \/ sr[q] = Folder
    PROVE  q \in Folders
  <1>1. q \in Planned
    BY ThroughKinds, Kinds
  <1>2. q \notin Files
    BY ThroughKinds
  <1> QED BY <1>1, <1>2, ThroughKinds

\* The cleanup of a folder that is left to it.
LEMMA CleanupIs ==
    ASSUME NEW q, FolderOp(q) = "leave_dir"
    PROVE  /\ sb[q] # Absent /\ (sl[q] = Absent \/ sr[q] = Absent)
           /\ CleanupOp(q) \in {"rmdir_local", "rmdir_remote", "drop_baseline_dir"}
           /\ CleanupOp(q) = "rmdir_local" <=> sl[q] # Absent
           /\ CleanupOp(q) = "rmdir_remote" <=> sl[q] = Absent /\ sr[q] # Absent
           /\ CleanupOp(q) # None
  <1>1. sb[q] # Absent /\ (sl[q] = Absent \/ sr[q] = Absent)
    BY DEF FolderOp
  <1> QED BY <1>1, TreeSyncAssumption DEF CleanupOp

\* What the plan keeps is not gone from both sides, nor gone from the vault for good.
LEMMA KeptFacts ==
    ASSUME Through, NEW x \in Kept
    PROVE  /\ x \in Paths /\ x \in Planned /\ x \notin Ignored
           /\ sl[x] # Absent \/ sr[x] # Absent
           /\ sl[x] = Absent => Goal(x) # Absent /\ ~Lasting(x)
  <1>1. x \in Planned /\ x \in Paths /\ x \notin Ignored
    BY ThroughPlan, PlannedFacts, PlannedKinds
  <1>2. CASE x \in Files
    <2>1. FileOp(x) \notin {"delete_remote", "drop_baseline"}
      BY <1>2, PlannedKinds DEF Kept, Effective
    <2>2. FileOp(x) = Chosen(sl[x], sr[x], sb[x])
      BY <1>1, ThroughPlan, FileOpIs
    <2>3. /\ sl[x] # Absent \/ sr[x] # Absent
          /\ sl[x] = Absent => /\ sr[x] # Absent
                               /\ FileOp(x) \in {"download", "rescue_download"}
      BY <2>1, <2>2 DEF Chosen
    <2>4. sl[x] = Absent => FileGoal(x) = sr[x]
      BY <2>3 DEF FileGoal, FileDestructive
    <2> QED BY <1>1, <1>2, <2>3, <2>4, ThroughKinds DEF Goal, Lasting
  <1>3. CASE x \in Folders
    <2>1. IF CleanupOp(x) # None
          THEN CleanupOp(x) \notin {"rmdir_remote", "drop_baseline_dir"}
          ELSE FolderOp(x) # "leave_dir"
      BY <1>3, PlannedKinds DEF Kept, Effective
    <2>2. CASE FolderOp(x) = "leave_dir"
      BY <1>1, <2>1, <2>2, CleanupIs
    <2>3. CASE FolderOp(x) # "leave_dir"
      <3>1. sl[x] # Absent \/ sr[x] # Absent
        BY <1>1, <2>3, ThroughKinds DEF FolderOp
      <3>2. ~Lasting(x)
        BY <2>3, CleanupFacts DEF Lasting
      <3> QED BY <1>1, <1>3, <2>3, <3>1, <3>2, Kinds, ThroughKinds DEF Goal
    <2> QED BY <2>2, <2>3
  <1> QED BY <1>1, <1>2, <1>3, ThroughKinds

\* A folder that goes with nothing kept below it is covered.
LEMMA PrunedIsCovered ==
    ASSUME Through, NEW q \in Folders, CleanupOp(q) = "rmdir_remote",
           Under(q) \cap Kept = {}
    PROVE  q \in plan.covered
  <1>1. q \in Prunable(Kept) /\ Prunable(Kept) \in SUBSET Paths
    BY PlannedKinds DEF Prunable
  <1>2. PICK t \in Prunable(Kept) : t \in Above[q] \cup {q} /\ Above[t] \cap Prunable(Kept) = {}
    BY <1>1, Topmost
  <1>3. t \in plan.roots
    BY <1>2, ThroughPlan DEF Roots
  <1> QED BY <1>2, <1>3, ThroughPlan, PlannedKinds

-----------------------------------------------------------------------------
(* Goals.                                                                  *)

\* The goal of a file, by its operation.
LEMMA FileGoals ==
    ASSUME Through, NEW q \in Files
    PROVE  /\ Goal(q) \in {Absent, sl[q], sr[q]} /\ Goal(q) # Folder
           /\ FileOp(q) \in {"delete_local", "delete_remote", "drop_baseline"} =>
                 Goal(q) = Absent
           /\ FileOp(q) \notin {"delete_local", "delete_remote", "drop_baseline"} =>
                 Goal(q) # Absent
           /\ FileOp(q) \in {"upload", "rescue_upload"} => Goal(q) = sl[q]
           /\ FileOp(q) = "conflict" /\ sl[q] >= sr[q] => Goal(q) = sl[q]
           /\ FileOp(q) = "conflict" /\ sl[q] < sr[q] => Goal(q) = sr[q]
           /\ FileOp(q) \in {"download", "rescue_download"} => Goal(q) = sr[q]
           /\ FileOp(q) = "verify_adopt" => Goal(q) = sl[q] /\ Goal(q) = sr[q]
           /\ FileOp(q) = "record" => sl[q] = Goal(q) /\ sr[q] = Goal(q) /\ sb[q] = Goal(q)
  <1>1. q \in Paths /\ sl[q] # Folder /\ sr[q] # Folder
    BY PlannedKinds, ThroughKinds
  <1>2. FileOp(q) = Chosen(sl[q], sr[q], sb[q])
    BY <1>1, ThroughPlan, FileOpIs
  <1>3. Goal(q) = FileGoal(q)
    BY DEF Goal
  <1>4. sl[q] \in Nat /\ sr[q] \in Nat
    BY <1>1, ThroughPlan, ValuesAre DEF Trees, Values
  <1>5. sl[q] < sr[q] <=> ~(sl[q] >= sr[q])
    BY <1>4
  <1> QED BY <1>1, <1>2, <1>3, <1>5, Kinds DEF FileGoal, FileDestructive, Chosen

\* The goal of a folder.
LEMMA FolderGoals ==
    ASSUME Through, NEW q \in Folders
    PROVE  /\ Goal(q) \in {Absent, Folder}
           /\ FolderOp(q) # "leave_dir" => Goal(q) = Folder /\ ~Lasting(q)
           /\ Lasting(q) => Goal(q) = Folder
           /\ q \in plan.covered => Goal(q) = Absent
           /\ FolderOp(q) = "leave_dir" /\ ~Lasting(q) =>
                 Goal(q) = Absent /\ (q \in plan.covered \/ q \in CleanupTodo)
  <1>1. q \in Paths /\ q \notin Files
    BY PlannedKinds
  <1>2. FolderOp(q) # "leave_dir" => Goal(q) = Folder /\ ~Lasting(q)
    BY <1>1, CleanupFacts DEF Goal, Lasting
  <1>3. q \in plan.covered => FolderOp(q) = "leave_dir" /\ ~Lasting(q)
    <2>1. ASSUME q \in plan.covered PROVE sl[q] = Absent /\ q \notin FolderTodo
      BY <2>1, ThroughPlan, CoveredFacts
    <2>2. ASSUME q \in plan.covered PROVE FolderOp(q) = "leave_dir"
      BY <2>1, <2>2, FolderOpFacts DEF FolderTodo
    <2> QED BY <2>2 DEF Lasting
  <1>4. ASSUME FolderOp(q) = "leave_dir", ~Lasting(q), q \notin plan.covered
        PROVE  q \in CleanupTodo
    <2>1. CASE CleanupOp(q) = "rmdir_remote"
      BY <1>4, <2>1, ThroughPlan, PrunedIsCovered DEF Lasting
    <2>2. CASE CleanupOp(q) = "rmdir_local"
      BY <1>4, <2>2, ThroughPlan, CleanupIs DEF Lasting, CleanupTodo
    <2>3. CASE CleanupOp(q) = "drop_baseline_dir"
      BY <1>4, <2>3, ThroughPlan, CleanupIs DEF CleanupTodo
    <2> QED BY <1>4, <2>1, <2>2, <2>3, CleanupIs
  <1> QED BY <1>1, <1>2, <1>3, <1>4, Kinds DEF Goal

\* What is covered goes.
LEMMA CoveredGoals ==
    ASSUME Through, NEW q \in plan.covered
    PROVE  Goal(q) = Absent /\ sl[q] = Absent /\ q \in Planned /\ q \notin Ignored
  <1>1. q \in Planned /\ q \in Paths /\ sl[q] = Absent
    BY ThroughPlan, CoveredFacts
  <1>2. PICK r \in plan.roots : r \in Above[q] \cup {q}
    BY ThroughPlan, CoveredFacts
  <1>3. r \in Folders /\ Under(r) \cap Kept = {} /\ r \in Paths
    BY ThroughPlan, RootFacts, PlannedKinds
  <1>4. ASSUME q \in Files PROVE Goal(q) = Absent
    <2>1. q # r /\ q \notin Kept
      BY <1>1, <1>2, <1>3, <1>4, PlannedKinds, UnderIs
    <2>2. FileOp(q) \in {"delete_remote", "drop_baseline", "rmdir_remote",
                         "drop_baseline_dir", "leave_dir"}
      BY <1>1, <1>4, <2>1, PlannedKinds DEF Kept, Effective
    <2>3. FileOp(q) \in {"delete_remote", "drop_baseline"}
      BY <1>1, <2>2, ThroughPlan, FileOpIs DEF Chosen
    <2> QED BY <1>4, <2>3, FileGoals
  <1> QED BY <1>1, <1>4, FolderGoals, ThroughPlan, PlannedFacts, PlannedKinds

\* A path with a goal is listed, and something at it or below it is kept.
LEMMA GoalListed ==
    ASSUME Through, NEW q \in Paths, Goal(q) # Absent
    PROVE  /\ q \in Planned /\ q \notin Ignored
           /\ sl[q] # Absent \/ sr[q] # Absent
           /\ (Under(q) \cup {q}) \cap Kept # {}
  <1>1. q \in Files \/ q \in Folders
    BY DEF Goal
  <1>2. q \in Planned /\ q \notin Ignored
    BY <1>1, PlannedKinds, PlannedFacts, ThroughPlan
  <1>3. CASE q \in Files
    <2>1. FileOp(q) \notin {"delete_local", "delete_remote", "drop_baseline"}
      BY <1>3, FileGoals
    <2>2. FileOp(q) = Chosen(sl[q], sr[q], sb[q])
      BY ThroughPlan, FileOpIs
    <2>3. sl[q] # Absent \/ sr[q] # Absent
      BY <2>1, <2>2 DEF Chosen
    <2>4. q \in Kept
      BY <1>2, <1>3, <2>1, <2>2, PlannedKinds DEF Kept, Effective, Chosen
    <2> QED BY <1>2, <2>3, <2>4
  <1>4. CASE q \in Folders /\ FolderOp(q) # "leave_dir"
    <2>1. sl[q] # Absent \/ sr[q] # Absent
      BY <1>2, <1>4, ThroughKinds DEF FolderOp
    <2>2. CleanupOp(q) = None
      BY <1>4, CleanupFacts
    <2>3. q \in Kept
      BY <1>2, <1>4, <2>2, PlannedKinds, FolderOpFacts DEF Kept, Effective
    <2> QED BY <1>2, <2>1, <2>3
  <1>5. CASE q \in Folders /\ Lasting(q)
    BY <1>2, <1>5, ThroughPlan, CleanupFacts DEF Lasting
  <1> QED BY <1>1, <1>3, <1>4, <1>5, FolderGoals

\* The goals are a tree.
LEMMA GoalsClosed ==
    ASSUME Through, NEW p \in Paths, NEW q \in Above[p], Goal(p) # Absent
    PROVE  Goal(q) = Folder
  <1>1. q \in Paths /\ q \notin Ignored /\ Above[q] \subseteq Above[p]
    BY AboveFacts
  <1>2. sl[q] = Folder \/ sr[q] = Folder
    BY GoalListed, ThroughPlan DEF Closed, Reachable
  <1>3. q \in Folders
    BY <1>1, <1>2, ListedFolder
  <1>4. PICK x \in Kept : x \in Under(p) \cup {p}
    BY GoalListed
  <1>5. x \in Under(q) /\ x \in Paths
    <2>1. x \in Paths /\ (x = p \/ p \in Above[x])
      BY <1>4, KeptFacts, UnderIs
    <2>2. q \in Above[x]
      BY <2>1, AboveFacts
    <2> QED BY <1>1, <2>1, <2>2, UnderIs
  <1>6. q \notin plan.covered
    <2> SUFFICES ASSUME q \in plan.covered PROVE FALSE
      OBVIOUS
    <2>1. PICK r \in plan.roots : r \in Above[q] \cup {q}
      BY ThroughPlan, CoveredFacts
    <2>2. Under(r) \cap Kept = {} /\ r \in Paths
      BY ThroughPlan, RootFacts, PlannedKinds
    <2>3. x \in Under(r)
      BY <1>1, <1>5, <2>1, <2>2, AboveFacts, UnderIs
    <2> QED BY <1>4, <2>2, <2>3
  <1>7. CASE FolderOp(q) = "leave_dir"
    <2>1. CleanupOp(q) \in {"rmdir_local", "rmdir_remote"}
      BY <1>2, <1>7, CleanupIs, Kinds
    <2>2. Lasting(q)
      BY <1>3, <1>4, <1>5, <1>6, <2>1, ThroughPlan DEF Lasting
    <2> QED BY <1>3, <2>2, FolderGoals
  <1> QED BY <1>3, <1>7, FolderGoals

\* A path that the plan leaves alone is as it is to be.
LEMMA LeftAlone ==
    ASSUME Through, NEW q \in Paths,
           q \notin FolderTodo \cup plan.covered \cup FileTodo \cup CleanupTodo, ~Lasting(q)
    PROVE  sl[q] = Goal(q) /\ sr[q] = Goal(q) /\ sb[q] = Goal(q)
  <1>1. CASE q \notin Planned
    BY <1>1, ThroughKinds, PlannedKinds DEF Goal
  <1>2. CASE q \in Files
    <2>1. FileOp(q) = "record"
      BY <1>2, ThroughPlan DEF FileTodo
    <2> QED BY <1>2, <2>1, FileGoals
  <1>3. CASE q \in Folders
    <2>1. FolderOp(q) # "leave_dir"
      BY <1>3, FolderGoals
    <2>2. FolderOp(q) = "record_dir" /\ sb[q] = Folder
      BY <1>3, <2>1 DEF FolderTodo
    <2> QED BY <1>3, <2>1, <2>2, FolderGoals, FolderOpFacts, ThroughKinds
  <1> QED BY <1>1, <1>2, <1>3, ThroughKinds

-----------------------------------------------------------------------------
(* The operations bring their paths to the goals.                          *)

\* The way to a path that is to be there is free.
LEMMA WayIsFree ==
    ASSUME Through, PassMoves, NEW p \in Paths, Goal(p) # Absent
    PROVE  CanHold(local, p) /\ CanHold(remote, p)
  <1> SUFFICES ASSUME NEW q \in Above[p]
               PROVE  local[q] \in {Absent, Folder} /\ remote[q] \in {Absent, Folder}
    BY DEF CanHold
  <1>1. q \in Paths /\ q \notin Ignored /\ Goal(q) = Folder
    BY AboveFacts, GoalsClosed
  <1>2. q \in Folders
    BY <1>1, Kinds, FileGoals DEF Goal
  <1> QED BY <1>1, <1>2, ThroughKinds DEF PassMoves, Underway

\* A path set to its goal and a path cut for it leave every path on its way.
LEMMA PutOnWay ==
    ASSUME Through, NEW tree \in Trees, NEW p \in Paths, Goal(p) # Absent,
           NEW q \in Paths
    PROVE  /\ Goal(p) \in Values
           /\ Put(tree, p, Goal(p))[q] \in {tree[q], Goal(q)}
           /\ Put(tree, p, Goal(p))[p] = Goal(p)
  <1>1. Goal(p) \in Values
    <2>1. p \in Files \/ p \in Folders
      BY DEF Goal
    <2>2. p \in Files => Goal(p) \in {Absent, sl[p], sr[p]}
      BY FileGoals
    <2>3. p \in Folders => Goal(p) \in {Absent, Folder}
      BY FolderGoals
    <2> QED BY <2>1, <2>2, <2>3, Kinds, ThroughPlan DEF Trees, Values
  <1>2. q \in Above[p] => Goal(q) = Folder
    BY GoalsClosed
  <1> QED BY <1>1, <1>2, PutTree

LEMMA CutOnWay ==
    ASSUME Through, NEW tree \in Trees, NEW p \in Paths, Goal(p) # Folder,
           NEW q \in Paths, q # p
    PROVE  Cut(tree, p)[q] \in {tree[q], Goal(q)}
  <1>1. q \in Under(p) => Goal(q) = Absent
    BY GoalsClosed, UnderIs
  <1> QED BY <1>1, CutTree

\* What is below a folder that the cleanup removes is gone.
LEMMA NothingLingers ==
    ASSUME Through, PassMoves, NEW p, Turn(p), pc = "cleanup", CleanupOp(p) = "rmdir_local"
    PROVE  Goal(p) = Absent /\ ~IsFile(local[p]) /\ ~Lingers(p)
  <1>1. /\ p \in todo /\ p \in CleanupTodo /\ p \in Folders /\ p \in Paths
        /\ p \notin Ignored /\ p \notin plan.covered /\ Under(p) \cap todo = {}
    BY WorkOf, ThroughPlan DEF Turn
  <1>2. CleanupOp(p) # None /\ Under(p) \cap Kept = {} /\ FolderOp(p) = "leave_dir"
    BY <1>1, ThroughPlan, CleanupFacts DEF CleanupTodo
  <1>3. Goal(p) = Absent
    BY <1>1, <1>2, ThroughPlan, FolderGoals DEF Lasting
  <1>4. ~IsFile(local[p])
    BY <1>1, <1>3, ThroughKinds, Kinds DEF PassMoves, Underway
  <1>5. ASSUME NEW x \in Under(p), x \notin Ignored PROVE local[x] = Absent
    <2>1. x \in Paths /\ Goal(x) = Absent
      BY <1>1, <1>3, Kinds, GoalsClosed, UnderIs DEF Under
    <2>2. ~Lasting(x)
      BY <2>1, FolderGoals, Kinds DEF Lasting
    <2>3. ~Ahead(x)
      BY <1>1, <1>5 DEF Ahead
    <2> QED BY <1>5, <2>1, <2>2, <2>3 DEF PassMoves, Underway
  <1>6. Kids(local, p) \subseteq Ignored
    BY <1>5 DEF Kids
  <1> QED BY <1>3, <1>4, <1>6 DEF Lingers

\* No operation of the pass is in vain.
LEMMA NothingFails ==
    ASSUME Through, PassMoves, NEW p, Turn(p)
    PROVE  ~Cannot(p)
  <1>1. /\ p \in todo /\ p \in Paths /\ p \notin Ignored /\ plan # None
        /\ pc = "folders" => p \in FolderTodo /\ p \in Folders
        /\ pc = "files" => p \in Files
    BY WorkOf, ThroughPlan DEF Turn
  <1>2. /\ local[p] \in {sl[p], Goal(p)} /\ remote[p] \in {sr[p], Goal(p)}
    BY <1>1 DEF PassMoves, Underway
  <1>3. CASE pc = "folders"
    <2>1. Goal(p) = Folder
      BY <1>1, <1>3, FolderGoals DEF FolderTodo
    <2> QED BY <1>1, <1>2, <1>3, <2>1, WayIsFree, ThroughKinds, Kinds DEF Cannot
  <1>4. CASE pc = "files"
    <2>1. sl[p] # Folder /\ sr[p] # Folder /\ FileOp(p) = Chosen(sl[p], sr[p], sb[p])
      BY <1>1, <1>4, ThroughPlan, ThroughKinds, FileOpIs
    <2>2. ASSUME Sends(p) PROVE IsFile(local[p]) /\ CanHold(remote, p)
      <3>1. Goal(p) = sl[p] /\ sl[p] # Absent
        BY <1>1, <1>2, <1>4, <2>2, FileGoals, FileOpFacts, ThroughPlan DEF Sends
      <3>2. IsFile(local[p])
        BY <1>1, <1>2, <2>1, <3>1, ThroughPlan, FileIs DEF Trees, Values
      <3> QED BY <1>1, <3>1, <3>2, WayIsFree
    <2>3. ASSUME Fetches(p)
          PROVE  remote[p] = sr[p] /\ CanHold(local, p) /\ local[p] # Folder
      <3>1. Goal(p) = sr[p] /\ sr[p] # Absent
        BY <1>1, <1>4, <2>3, FileGoals, FileOpFacts, ThroughPlan DEF Fetches
      <3> QED BY <1>1, <1>2, <2>1, <3>1, WayIsFree
    <2> QED BY <1>4, <2>2, <2>3 DEF Cannot
  <1>5. CASE pc = "cleanup"
    BY <1>5, NothingLingers DEF Cannot
  <1> QED BY <1>3, <1>4, <1>5 DEF Cannot

\* What an operation does moves paths to their goals, and its own path arrives.
Arrives(p) ==
    /\ \A q \in Paths \ Ignored : /\ local'[q] \in {local[q], Goal(q)}
                                  /\ remote'[q] \in {remote[q], Goal(q)}
    /\ \A q \in Rows(p) : q \notin Ignored =>
          doing'[2] = Goal(q) /\ local'[q] = Goal(q) /\ remote'[q] = Goal(q)

LEMMA FolderArrives ==
    ASSUME Through, PassMoves, NEW p, MakeRemote(p) \/ MakeLocal(p) \/ RecordFolder(p)
    PROVE  Arrives(p)
  <1>1. /\ p \in Folders /\ p \in Paths /\ p \notin Ignored /\ Rows(p) = {p}
        /\ local \in Trees /\ remote \in Trees /\ doing' = <<p, Folder>>
    BY WorkOf, ThroughPlan DEF MakeRemote, MakeLocal, RecordFolder, Turn, Done, Rows
  <1>2. /\ local[p] \in {sl[p], Goal(p)} /\ remote[p] \in {sr[p], Goal(p)}
    BY <1>1 DEF PassMoves, Underway
  <1>3. Goal(p) = Folder /\ Goal(p) # Absent
    <2>1. FolderOp(p) # "leave_dir"
      BY DEF MakeRemote, MakeLocal, RecordFolder
    <2> QED BY <1>1, <2>1, FolderGoals, Kinds
  <1>4. sl[p] \in {Absent, Folder} /\ sr[p] \in {Absent, Folder} /\ p \in Planned
        /\ (sl[p] # Absent \/ sr[p] # Absent \/ sb[p] # Absent)
    BY <1>1, ThroughKinds
  <1>5. CASE MakeRemote(p)
    <2>1. local' = local /\ local[p] = Folder
      BY <1>2, <1>3, <1>4, <1>5, FolderOpFacts DEF MakeRemote
    <2>2. (remote' = remote /\ remote[p] = Folder) \/ remote' = Put(remote, p, Folder)
      BY <1>2, <1>3, <1>4, <1>5 DEF MakeRemote
    <2> QED BY <1>1, <1>3, <2>1, <2>2, PutOnWay DEF Arrives
  <1>6. CASE MakeLocal(p)
    <2>1. remote' = remote /\ remote[p] = Folder
      BY <1>2, <1>3, <1>4, <1>6, FolderOpFacts DEF MakeLocal
    <2>2. local' = Put(local, p, Folder)
      BY <1>6 DEF MakeLocal
    <2> QED BY <1>1, <1>3, <2>1, <2>2, PutOnWay DEF Arrives
  <1>7. CASE RecordFolder(p)
    <2>1. local' = local /\ remote' = remote /\ local[p] = Folder /\ remote[p] = Folder
      BY <1>2, <1>3, <1>4, <1>7, FolderOpFacts DEF RecordFolder, trees
    <2> QED BY <1>1, <1>3, <2>1 DEF Arrives
  <1> QED BY <1>5, <1>6, <1>7

LEMMA FileArrives ==
    ASSUME Through, PassMoves, NEW p, Upload(p) \/ Download(p) \/ Adopt(p)
    PROVE  Arrives(p)
  <1>1. /\ p \in Files /\ p \in Paths /\ p \notin Ignored /\ Rows(p) = {p}
        /\ local \in Trees /\ remote \in Trees /\ doing' = <<p, doing'[2]>>
    BY WorkOf, ThroughPlan DEF Upload, Download, Adopt, Turn, Done, Rows
  <1>2. /\ local[p] \in {sl[p], Goal(p)} /\ remote[p] \in {sr[p], Goal(p)}
    BY <1>1 DEF PassMoves, Underway
  <1>3. CASE Upload(p)
    <2>1. Goal(p) = sl[p] /\ sl[p] # Absent /\ local[p] = Goal(p)
      BY <1>1, <1>2, <1>3, FileGoals, FileOpFacts, ThroughPlan DEF Upload, Sends
    <2>2. local' = local /\ remote' = Put(Cut(remote, p), p, Goal(p)) /\ doing'[2] = Goal(p)
      BY <1>3, <2>1 DEF Upload, Done
    <2>3. Cut(remote, p) \in Trees
      BY <1>1, CutTree
    <2>4. ASSUME NEW q \in Paths PROVE remote'[q] \in {remote[q], Goal(q)}
      <3>1. remote'[q] \in {Cut(remote, p)[q], Goal(q)} /\ remote'[p] = Goal(p)
        BY <1>1, <2>1, <2>2, <2>3, PutOnWay
      <3>2. q # p => Cut(remote, p)[q] \in {remote[q], Goal(q)}
        BY <1>1, FileGoals, CutOnWay
      <3> QED BY <3>1, <3>2
    <2>5. remote'[p] = Goal(p)
      BY <1>1, <2>1, <2>2, <2>3, PutOnWay
    <2> QED BY <1>1, <2>1, <2>2, <2>4, <2>5 DEF Arrives
  <1>4. CASE Download(p)
    <2>1. Goal(p) = sr[p] /\ sr[p] # Absent /\ remote[p] = Goal(p)
      BY <1>1, <1>2, <1>4, FileGoals, FileOpFacts, ThroughPlan DEF Download, Fetches
    <2>2. remote' = remote /\ local' = Put(local, p, Goal(p)) /\ doing'[2] = Goal(p)
      BY <1>4, <2>1 DEF Download, Done
    <2> QED BY <1>1, <2>1, <2>2, PutOnWay DEF Arrives
  <1>5. CASE Adopt(p)
    <2>1. Goal(p) = sl[p] /\ Goal(p) = sr[p]
      BY <1>1, <1>5, FileGoals DEF Adopt
    <2>2. local' = local /\ remote' = remote /\ doing'[2] = Goal(p)
      BY <1>5, <2>1 DEF Adopt, Done, trees
    <2> QED BY <1>1, <1>2, <2>1, <2>2 DEF Arrives
  <1> QED BY <1>3, <1>4, <1>5

LEMMA RemovalArrives ==
    ASSUME Through, PassMoves, NEW p,
           \/ DeleteRemoteTree(p) \/ DeleteLocal(p) \/ DeleteRemote(p)
           \/ DropRow(p) \/ RemoveLocalFolder(p)
    PROVE  Arrives(p)
  <1>1. /\ p \in todo /\ p \in Paths /\ p \notin Ignored /\ plan # None
        /\ pc = "trees" => p \in plan.roots
        /\ pc = "files" => p \in Files
        /\ pc = "cleanup" => p \in CleanupTodo /\ p \in Folders
        /\ local \in Trees /\ remote \in Trees /\ doing' = <<p, Absent>>
    BY WorkOf, ThroughPlan
       DEF DeleteRemoteTree, DeleteLocal, DeleteRemote, DropRow, RemoveLocalFolder, Turn, Done
  <1>2. \A q \in Paths \ Ignored :
           /\ local[q] \in {sl[q], Goal(q)} /\ remote[q] \in {sr[q], Goal(q)}
    BY DEF PassMoves, Underway
  <1>3. ASSUME Goal(p) = Absent
        PROVE  /\ \A q \in Paths \ Ignored : /\ Cut(local, p)[q] \in {local[q], Goal(q)}
                                             /\ Cut(remote, p)[q] \in {remote[q], Goal(q)}
               /\ Cut(local, p)[p] = Goal(p) /\ Cut(remote, p)[p] = Goal(p)
    BY <1>1, <1>3, CutTree, CutOnWay, Kinds
  <1>4. CASE DeleteRemoteTree(p)
    <2>1. Rows(p) = {p} \cup (Under(p) \cap plan.covered) /\ p \in plan.covered
      BY <1>1, <1>4, ThroughPlan, RootFacts DEF DeleteRemoteTree, Rows
    <2>2. \A q \in plan.covered : Goal(q) = Absent /\ sl[q] = Absent /\ q \in Planned
                                  /\ q \notin Ignored
      BY CoveredGoals
    <2>3. local' = local /\ remote' = Cut(remote, p) /\ doing'[2] = Absent
      BY <1>1, <1>4 DEF DeleteRemoteTree, CutRemote
    <2>4. \A q \in Rows(p) : remote'[q] = Absent
      BY <1>1, <2>1, <2>3, CutTree
    <2>5. \A q \in Rows(p) : Goal(q) = Absent /\ local[q] = Absent
      BY <1>2, <2>1, <2>2, PlannedKinds
    <2> QED BY <1>3, <2>1, <2>2, <2>3, <2>4, <2>5 DEF Arrives
  <1>5. CASE DeleteLocal(p) \/ DeleteRemote(p)
    <2>1. pc = "files" /\ Rows(p) = {p}
      BY <1>5 DEF DeleteLocal, DeleteRemote, Rows
    <2>2. Goal(p) = Absent
      BY <1>1, <1>5, <2>1, FileGoals DEF DeleteLocal, DeleteRemote
    <2>3. CASE DeleteLocal(p)
      <3>1. sr[p] = Absent
        BY <1>1, <2>3, FileOpFacts, ThroughPlan DEF DeleteLocal
      <3>2. remote' = remote /\ local' = Cut(local, p)
        BY <2>3 DEF DeleteLocal, CutLocal
      <3> QED BY <1>1, <1>2, <1>3, <2>1, <2>2, <3>1, <3>2 DEF Arrives
    <2>4. CASE DeleteRemote(p)
      <3>1. sl[p] = Absent
        BY <1>1, <2>4, FileOpFacts, ThroughPlan DEF DeleteRemote
      <3>2. local' = local /\ remote' = Cut(remote, p)
        BY <2>4 DEF DeleteRemote, CutRemote
      <3> QED BY <1>1, <1>2, <1>3, <2>1, <2>2, <3>1, <3>2 DEF Arrives
    <2> QED BY <1>5, <2>3, <2>4
  <1>6. CASE DropRow(p)
    <2>1. Rows(p) = {p} /\ local' = local /\ remote' = remote
      BY <1>6 DEF DropRow, Rows, trees
    <2>2. sl[p] = Absent /\ sr[p] = Absent /\ Goal(p) = Absent
      <3>1. CASE pc = "files"
        <4>1. FileOp(p) = "drop_baseline"
          BY <1>6, <3>1 DEF DropRow
        <4> QED BY <1>1, <3>1, <4>1, FileOpFacts, FileGoals, ThroughPlan
      <3>2. CASE pc = "cleanup"
        <4>1. CleanupOp(p) = "drop_baseline_dir"
          BY <1>6, <3>2 DEF DropRow
        <4>2. CleanupOp(p) # None /\ FolderOp(p) = "leave_dir" /\ ~Lasting(p)
          BY <4>1, CleanupFacts DEF Lasting
        <4> QED BY <1>1, <3>2, <4>1, <4>2, CleanupFacts, FolderGoals
      <3> QED BY <1>6, <3>1, <3>2 DEF DropRow
    <2> QED BY <1>1, <1>2, <2>1, <2>2 DEF Arrives
  <1>7. CASE RemoveLocalFolder(p)
    <2>1. Turn(p) /\ pc = "cleanup" /\ CleanupOp(p) = "rmdir_local" /\ Rows(p) = {p}
      BY <1>7 DEF RemoveLocalFolder, Rows
    <2>2. Goal(p) = Absent
      BY <2>1, NothingLingers
    <2>3. sr[p] = Absent
      BY <1>1, <2>1, CleanupFacts DEF CleanupTodo
    <2>4. remote' = remote /\ local' = Cut(local, p)
      BY <1>7 DEF RemoveLocalFolder, CutLocal
    <2> QED BY <1>1, <1>2, <1>3, <2>1, <2>2, <2>3, <2>4 DEF Arrives
  <1> QED BY <1>4, <1>5, <1>6, <1>7

-----------------------------------------------------------------------------
(* The steps of a pass keep it on its way.                                 *)

LEMMA FrozenGoals ==
    ASSUME UNCHANGED <<sl, sr, sb, plan>>
    PROVE  /\ \A q : Goal(q)' = Goal(q)
           /\ \A q : Lasting(q)' = Lasting(q)
           /\ HeldUp' = HeldUp
  <1>1. \A q : Lasting(q)' = Lasting(q)
    BY Frozen DEF Lasting
  <1>2. \A q : FileGoal(q)' = FileGoal(q)
    BY Frozen DEF FileGoal
  <1>3. HeldUp' = HeldUp
    BY DEF HeldUp, InPlan, Known
  <1> QED BY <1>1, <1>2, <1>3, Frozen DEF Goal

LEMMA OpReachesGoals ==
    ASSUME Through, PassMoves, NEW p, Op(p)
    PROVE  PassMoves'
  <1>1. Arrives(p)
    BY FolderArrives, FileArrives, RemovalArrives DEF Op
  <1>2. UNCHANGED <<base, sl, sr, sb, plan, pc, todo>> /\ doing' = <<p, doing'[2]>>
    BY OpFrame
  <1>3. /\ \A q : Goal(q)' = Goal(q) /\ Lasting(q)' = Lasting(q)
        /\ \A q : Rows(q)' = Rows(q)
        /\ \A q : Ahead(q)' = Ahead(q)
    BY <1>2, FrozenGoals, Frozen, FrozenWork DEF Rows, Ahead
  <1>4. CommitFits'
    BY <1>1, <1>2, <1>3 DEF CommitFits, Arrives
  <1>5. ASSUME NEW q \in Paths \ Ignored PROVE Underway(q)'
    BY <1>1, <1>2, <1>3 DEF PassMoves, Underway, Arrives
  <1> QED BY <1>4, <1>5 DEF PassMoves

\* The work at hand is on no folder that lasts.
LEMMA WorkEnds ==
    ASSUME Through, NEW p \in todo, NEW q \in Rows(p)
    PROVE  ~Lasting(q)
  <1>1. CASE pc = "trees"
    BY <1>1, WorkOf, ThroughPlan, RootFacts DEF Rows, Lasting
  <1>2. CASE pc # "trees"
    <2>1. q = p
      BY <1>2 DEF Rows
    <2>2. pc = "files" => p \in Files /\ p \notin Folders
      BY WorkOf, ThroughPlan, PlannedKinds
    <2>3. pc = "folders" => p \in Folders /\ FolderOp(p) # "leave_dir"
      BY WorkOf, ThroughPlan DEF FolderTodo
    <2>4. pc = "cleanup" => ~Lasting(p)
      BY WorkOf, ThroughPlan DEF CleanupTodo, Lasting
    <2>5. pc \in Working
      BY DEF Through
    <2> QED BY <1>2, <2>1, <2>2, <2>3, <2>4, <2>5, FolderGoals DEF Working, Lasting
  <1> QED BY <1>1, <1>2

LEMMA CommitMoves ==
    ASSUME Through, PassMoves, Commit
    PROVE  PassMoves'
  <1> DEFINE p == doing[1]
  <1>1. /\ p \in todo /\ doing # None /\ todo' = todo \ {p} /\ doing' = None
        /\ UNCHANGED <<local, remote, sl, sr, sb, plan, pc>>
        /\ \A q \in Paths : base'[q] = IF q \in Rows(p) THEN doing[2] ELSE base[q]
    BY ThroughPlan DEF Commit, TypeOK, trees, listing
  <1>2. /\ \A q : Goal(q)' = Goal(q) /\ Lasting(q)' = Lasting(q)
        /\ FolderTodo' = FolderTodo /\ FileTodo' = FileTodo /\ CleanupTodo' = CleanupTodo
    BY <1>1, FrozenGoals, Frozen, FrozenWork
  <1>3. \A q \in Rows(p) : q \notin Ignored =>
           doing[2] = Goal(q) /\ local[q] = Goal(q) /\ remote[q] = Goal(q)
    BY <1>1 DEF PassMoves, CommitFits
  <1>4. ASSUME NEW q \in Paths, Ahead(q), ~Ahead(q)' PROVE q \in Rows(p)
    <2>1. p \in Paths
      BY <1>1, WorkOf, ThroughPlan
    <2> QED BY <1>1, <1>2, <1>4, <2>1, UnderIs DEF Ahead, Rows
  <1>5. ASSUME NEW q \in Paths \ Ignored PROVE Underway(q)'
    <2>1. Underway(q)
      BY DEF PassMoves
    <2>2. CASE q \in Rows(p)
      <3>1. base'[q] = Goal(q) /\ local[q] = Goal(q) /\ remote[q] = Goal(q) /\ ~Lasting(q)
        BY <1>1, <1>3, <2>2, WorkEnds
      <3> QED BY <1>1, <1>2, <2>1, <3>1 DEF Underway
    <2>3. CASE q \notin Rows(p)
      <3>1. base'[q] = base[q] /\ (Ahead(q) => Ahead(q)')
        BY <1>1, <1>4, <2>3
      <3> QED BY <1>1, <1>2, <2>1, <3>1 DEF Underway
    <2> QED BY <2>2, <2>3
  <1>6. CommitFits'
    BY <1>1 DEF CommitFits
  <1> QED BY <1>5, <1>6 DEF PassMoves

\* A phase that is through leaves the work of the next one.
LEMMA PhaseMoves ==
    ASSUME Through, PassMoves, NextPhase, pc # "cleanup"
    PROVE  PassMoves' /\ pc' \in Working
  <1>1. /\ UNCHANGED <<local, remote, base, sl, sr, sb, plan, doing>>
        /\ doing = None /\ todo = {}
    BY DEF NextPhase, Enter, trees, listing
  <1>2. /\ \A q : Goal(q)' = Goal(q) /\ Lasting(q)' = Lasting(q)
        /\ FileTodo' = FileTodo /\ CleanupTodo' = CleanupTodo
    BY <1>1, FrozenGoals, Frozen, FrozenWork
  <1>3. \/ pc = "folders" /\ pc' = "trees" /\ todo' = plan.roots
        \/ pc = "trees" /\ pc' = "files" /\ todo' = FileTodo
        \/ pc = "files" /\ pc' = "cleanup" /\ todo' = CleanupTodo
    BY DEF NextPhase, Enter
  <1>4. ASSUME NEW q \in Paths, Ahead(q) PROVE Ahead(q)'
    <2>1. q \in plan.covered => (Above[q] \cup {q}) \cap plan.roots # {}
      BY ThroughPlan, CoveredFacts
    <2> QED BY <1>1, <1>2, <1>3, <1>4, <2>1 DEF Ahead
  <1>5. ASSUME NEW q \in Paths \ Ignored PROVE Underway(q)'
    BY <1>1, <1>2, <1>4 DEF PassMoves, Underway
  <1>6. CommitFits'
    BY <1>1 DEF CommitFits
  <1> QED BY <1>3, <1>5, <1>6 DEF PassMoves, Working

-----------------------------------------------------------------------------
(* From one pass to the next.                                              *)

\* The plan of a pass that begins.
LEMMA StartAlone ==
    /\ Through /\ pc = "folders" /\ todo = FolderTodo
    => \A q \in Paths \ Ignored :
          \/ Ahead(q) \/ Lasting(q)
          \/ sl[q] = Goal(q) /\ sr[q] = Goal(q) /\ sb[q] = Goal(q)
  <1> SUFFICES ASSUME Through, pc = "folders", todo = FolderTodo,
                      NEW q \in Paths, ~Ahead(q), ~Lasting(q)
               PROVE  sl[q] = Goal(q) /\ sr[q] = Goal(q) /\ sb[q] = Goal(q)
    OBVIOUS
  <1> QED BY LeftAlone DEF Ahead

LEMMA DecideMoves ==
    ASSUME PassInv, Decide, Calm, ~HeldUp'
    PROVE  PassMoves'
  <1>1. /\ UNCHANGED <<local, remote, base, sl, sr, sb, doing>> /\ doing = None
        /\ pc = "listed" /\ pc' = "folders" /\ todo' = FolderTodo
    BY DEF Decide, trees, PassInv, WorkFits, Reading
  <1>2. todo' = FolderTodo'
    BY <1>1, Frozen
  <1>3. PassInv'
    BY DecidePass
  <1>4. Through'
    BY <1>1, <1>3 DEF Through, Working
  <1>5. (/\ Through /\ pc = "folders" /\ todo = FolderTodo
         => \A q \in Paths \ Ignored :
               \/ Ahead(q) \/ Lasting(q)
               \/ sl[q] = Goal(q) /\ sr[q] = Goal(q) /\ sb[q] = Goal(q))'
    BY StartAlone, PTL
  <1>6. ASSUME NEW q \in Paths \ Ignored PROVE Underway(q)'
    <2>1. local[q] = sl[q] /\ remote[q] = sr[q] /\ base[q] = sb[q]
      BY <1>1, ListedTree DEF Calm, Reading, PassInv, TypeOK
    <2>2. local'[q] = sl'[q] /\ remote'[q] = sr'[q] /\ base'[q] = sb'[q]
      BY <1>1, <2>1
    <2> QED BY <1>1, <1>2, <1>4, <1>5, <2>2 DEF Underway
  <1>7. CommitFits'
    BY <1>1 DEF CommitFits
  <1> QED BY <1>6, <1>7 DEF PassMoves

\* Trees that came to rest, but for folders that take more passes, hold nothing up.
LEMMA RestedListings ==
    ASSUME TypeOK, Listings, NEW k, Rested(sl, sr, sb, k)
    PROVE  Planned = Known /\ ~Suppressed
  <1>1. ASSUME NEW p \in Known, sl[p] # Absent \/ sr[p] # Absent
        PROVE  /\ p \in Paths /\ p \notin Ignored
               /\ \/ sl[p] = sr[p] /\ sl[p] = sb[p]
                  \/ sl[p] = Folder /\ sr[p] \in {Absent, Folder}
    BY <1>1 DEF Known, Listings, Bare, Rested, Behind
  <1>2. KindConflicts = {}
    BY <1>1, Kinds DEF KindConflicts
  <1>3. Reconcilable = Known
    BY <1>2 DEF Reconcilable
  <1>4. Collided(Known) = {}
    <2> SUFFICES ASSUME NEW p \in Collided(Known) PROVE FALSE
      OBVIOUS
    <2> DEFINE same == {q \in Known \cap Live : Fold[q] = Fold[p]}
    <2>1. Cardinality(same) > 1
      BY DEF Collided
    <2>2. IsFiniteSet(same) /\ same \subseteq Live /\ Live \subseteq Paths
      BY TreeSyncAssumption, FS_Subset DEF Live, Known
    <2>3. PICK x \in same : TRUE
      <3>1. same # {}
        BY <2>1, FS_EmptySet
      <3> QED BY <3>1
    <2>4. PICK y \in same : y # x
      <3> SUFFICES ASSUME same = {x} PROVE FALSE
        BY <2>3
      <3> QED BY <2>1, FS_Singleton
    <2>5. Fold[x] = Fold[y]
      BY <2>3, <2>4
    <2>6. x \in Live /\ y \in Live /\ x \in Paths \ Ignored /\ y \in Paths \ Ignored
      BY <1>1, <2>2, <2>3, <2>4 DEF Live
    <2> QED BY <2>4, <2>5, <2>6 DEF Rested, Live
  <1>5. Planned = Known
    BY <1>3, <1>4 DEF Planned
  <1>6. Deletions = {}
    <2> SUFFICES ASSUME NEW p \in Deletions PROVE FALSE
      OBVIOUS
    <2>1. p \in Files /\ FileOp(p) \in FileDestructive /\ p \in Planned /\ p \in Paths
      BY PlannedKinds DEF Deletions
    <2>2. /\ sl[p] # Absent \/ sr[p] # Absent
          /\ ~(sl[p] = sr[p])
      BY <2>1, FileOpFacts, FileOpIs DEF FileDestructive, TypeOK, Chosen
    <2>3. sl[p] = Folder
      BY <1>1, <2>1, <2>2, <1>5
    <2> QED BY <2>1, <2>3, ListedKinds DEF TypeOK
  <1> QED BY <1>5, <1>6 DEF Suppressed

LEMMA DecideRested ==
    ASSUME PassInv, Decide, NEW k, Rested(sl, sr, sb, k)
    PROVE  ~HeldUp'
  <1>1. Planned = Known /\ ~Suppressed
    BY RestedListings DEF PassInv
  <1>2. plan' = CoalescedPlan /\ UNCHANGED <<sl, sr, sb>>
    BY <1>1 DEF Decide
  <1>3. plan'.files \cup plan'.folders = Planned /\ plan'.withheld = FALSE
    BY <1>2, PlannedKinds DEF CoalescedPlan
  <1>4. Known' = Known
    BY <1>2 DEF Known
  <1> QED BY <1>1, <1>3, <1>4 DEF HeldUp, InPlan

\* A folder that lasts has something kept below it.
LEMMA LastingFacts ==
    ASSUME Through, NEW q \in Paths, Lasting(q)
    PROVE  /\ q \in Folders /\ q \notin Ignored /\ Goal(q) = Folder
           /\ sb[q] # Absent /\ sl[q] # sr[q]
           /\ \E x \in Kept : x \in Paths /\ x \notin Ignored /\ q \in Above[x]
  <1>1. q \in Folders /\ q \in Planned /\ Goal(q) = Folder
    BY FolderGoals, PlannedKinds DEF Lasting
  <1>2. sb[q] # Absent /\ sl[q] # sr[q]
    BY CleanupFacts DEF Lasting
  <1>3. PICK x \in Kept : x \in Under(q)
    BY ThroughPlan DEF Lasting
  <1> QED BY <1>1, <1>2, <1>3, KeptFacts, UnderIs, PlannedFacts, ThroughPlan

\* What a pass that has run its course leaves.
LEMMA EndAgrees ==
    ASSUME Through, PassMoves, pc = "cleanup", todo = {}, NEW q \in Paths \ Ignored
    PROVE  /\ ~Lasting(q) => local[q] = Goal(q) /\ remote[q] = Goal(q) /\ base[q] = Goal(q)
           /\ Lasting(q) => /\ local[q] = Folder /\ remote[q] \in {Absent, Folder}
                            /\ base[q] # Absent
           /\ local[q] # Absent \/ remote[q] # Absent => sl[q] # Absent \/ sr[q] # Absent
  <1>1. ~Ahead(q)
    BY DEF Ahead
  <1>2. Underway(q)
    BY DEF PassMoves
  <1>3. CASE ~Lasting(q)
    BY <1>1, <1>2, <1>3, GoalListed DEF Underway
  <1>4. CASE Lasting(q)
    <2>1. /\ q \in Folders /\ Goal(q) = Folder /\ sb[q] # Absent
          /\ sl[q] \in {Absent, Folder} /\ sr[q] \in {Absent, Folder}
          /\ sl[q] # sr[q]
      BY <1>4, LastingFacts, ThroughKinds
    <2>2. remote[q] \in {Absent, Folder} /\ base[q] # Absent /\ local[q] \in {sl[q], Folder}
      BY <1>2, <1>4, <2>1 DEF Underway
    <2>3. CASE sl[q] = Absent
      <3>1. PICK x \in Kept : x \in Paths /\ x \notin Ignored /\ q \in Above[x]
        BY <1>4, LastingFacts
      <3>2. sl[x] = Absent
        BY <2>3, <3>1, Kinds, ThroughPlan DEF Closed, Reachable
      <3>3. Goal(x) # Absent /\ ~Lasting(x)
        BY <3>1, <3>2, KeptFacts
      <3>4. ~Ahead(x) /\ Underway(x)
        BY <3>1 DEF Ahead, PassMoves
      <3>5. local[x] # Absent
        BY <3>3, <3>4 DEF Underway
      <3>6. local[q] = Folder
        BY <3>1, <3>5, ThroughPlan DEF TypeOK, Reachable
      <3> QED BY <1>4, <2>1, <2>2, <3>6
    <2> QED BY <1>4, <2>1, <2>2, <2>3
  <1> QED BY <1>3, <1>4

\* No case twins are both there.
LEMMA EndTwins ==
    ASSUME Through, NEW p \in Paths, NEW q \in Paths, p # q, Fold[p] = Fold[q],
           sl[p] # Absent \/ sr[p] # Absent
    PROVE  sl[q] = Absent /\ sr[q] = Absent
  <1> SUFFICES ASSUME sl[q] # Absent \/ sr[q] # Absent PROVE FALSE
    OBVIOUS
  <1>1. p \in Known /\ q \in Known /\ p \in Live /\ q \in Live
    BY DEF Known, Live
  <1>2. p \in Reconcilable /\ q \in Reconcilable /\ p \notin Collided(Reconcilable)
    BY <1>1, ThroughPlan DEF Planned
  <1> DEFINE same == {x \in Reconcilable \cap Live : Fold[x] = Fold[p]}
  <1>3. p \in same /\ q \in same
    BY <1>1, <1>2
  <1>4. IsFiniteSet(same)
    BY TreeSyncAssumption, FS_Subset DEF Live, Known
  <1>5. Cardinality(same) \in Nat /\ ~(Cardinality(same) > 1)
    BY <1>2, <1>4, FS_CardinalityType DEF Collided
  <1>6. Cardinality({p, q}) = 2
    <2>1. IsFiniteSet({p}) /\ Cardinality({p}) = 1
      BY FS_Singleton
    <2>2. Cardinality({p} \cup {q}) = Cardinality({p}) + 1
      BY <2>1, FS_AddElement
    <2>3. {p} \cup {q} = {p, q}
      OBVIOUS
    <2> QED BY <2>1, <2>2, <2>3
  <1>7. Cardinality({p, q}) <= Cardinality(same)
    BY <1>3, <1>4, FS_Subset
  <1> QED BY <1>5, <1>6, <1>7

\* A folder that lasts is one level further down than at the last pass.
LEMMA LastingDeepens ==
    ASSUME Through, NEW q \in Paths, Lasting(q), NEW k \in Nat, k >= 1,
           k >= 2 => Rested(sl, sr, sb, k)
    PROVE  Cardinality(Above[q]) + (k + 1) <= Depth + 1
  <1>1. PICK x \in Kept : x \in Paths /\ x \notin Ignored /\ q \in Above[x]
    BY LastingFacts
  <1>2. /\ Height(q) \in Nat /\ Height(x) \in Nat /\ Depth \in Nat
        /\ Height(q) + 1 <= Height(x) /\ Height(x) <= Depth
    BY <1>1, Heights, DepthIs
  <1>3. CASE k = 1
    BY <1>2, <1>3 DEF Height
  <1>4. CASE k >= 2
    <2>1. Behind(sl, sr, sb, k, q)
      BY <1>4, LastingFacts DEF Rested
    <2>2. sl[q] = Folder /\ sr[q] = Absent
      BY <2>1, LastingFacts DEF Behind
    <2>3. sr[x] = Absent
      BY <1>1, <2>2, Kinds, ThroughPlan DEF Closed, Reachable
    <2>4. sl[x] # Absent
      BY <2>3, KeptFacts
    <2>5. Behind(sl, sr, sb, k, x)
      BY <1>1, <1>4, <2>3, <2>4 DEF Rested
    <2>6. Height(x) + k <= Depth + 1
      BY <2>5 DEF Behind, Height
    <2> QED BY <1>2, <2>6 DEF Height
  <1> QED BY <1>3, <1>4

LEMMA EndRests ==
    ASSUME Through, PassMoves, pc = "cleanup", todo = {}, NEW k \in Nat, k >= 1,
           k >= 2 => Rested(sl, sr, sb, k)
    PROVE  Rested(local, remote, base, k + 1)
  <1>1. ASSUME NEW q \in Paths \ Ignored
        PROVE  \/ local[q] = remote[q] /\ local[q] = base[q]
               \/ Behind(local, remote, base, k + 1, q)
    BY EndAgrees, LastingDeepens DEF Behind
  <1>2. ASSUME NEW p \in Paths \ Ignored, NEW q \in Paths \ Ignored,
               p # q, Fold[p] = Fold[q]
        PROVE  \/ local[p] = Absent /\ remote[p] = Absent
               \/ local[q] = Absent /\ remote[q] = Absent
    BY <1>2, EndAgrees, EndTwins
  <1> QED BY <1>1, <1>2 DEF Rested

LEMMA RestedLess ==
    ASSUME NEW l, NEW r, NEW b, NEW k \in Nat, Rested(l, r, b, k + 1)
    PROVE  Rested(l, r, b, k)
  <1>1. ASSUME NEW q \in Paths, Behind(l, r, b, k + 1, q) PROVE Behind(l, r, b, k, q)
    <2>1. Height(q) \in Nat /\ Depth \in Nat
      BY Heights, DepthIs
    <2> QED BY <1>1, <2>1 DEF Behind, Height
  <1> QED BY <1>1 DEF Rested

-----------------------------------------------------------------------------
(* SettleInv is inductive.                                                 *)

\* What a rested tree is, whichever of its names it goes by.
LEMMA RestedListed ==
    ASSUME TypeOK, NEW k
    PROVE  Rested(Listed(local), Listed(remote), base, k) <=> Rested(local, remote, base, k)
  <1>1. \A q \in Paths \ Ignored :
           Listed(local)[q] = local[q] /\ Listed(remote)[q] = remote[q]
    BY ListedTree DEF TypeOK
  <1> QED BY <1>1 DEF Rested, Behind

LEMMA FrozenRest ==
    ASSUME UNCHANGED <<local, remote, base, sl, sr, sb, calm>>
    PROVE  /\ Rested(local, remote, base, calm)' <=> Rested(local, remote, base, calm)
           /\ Rested(sl, sr, sb, calm)' <=> Rested(sl, sr, sb, calm)
  BY DEF Rested, Behind

\* A step of a pass that works on.
LEMMA WorkCalm ==
    ASSUME PassInv, Calm, calm \in Nat, UNCHANGED <<sl, sr, sb, plan, calm>>,
           pc \in Working, pc' \in Working, Through /\ PassMoves => PassMoves'
    PROVE  Calm'
  <1>1. HeldUp' = HeldUp
    BY FrozenGoals
  <1>2. ~HeldUp => PassMoves'
    BY DEF Calm, Through
  <1>3. calm >= 2 => ~HeldUp /\ Rested(sl, sr, sb, calm)
    BY DEF Calm
  <1>4. Rested(sl, sr, sb, calm)' <=> Rested(sl, sr, sb, calm)
    BY DEF Rested, Behind
  <1> QED BY <1>1, <1>2, <1>3, <1>4 DEF Calm, Working, Reading

LEMMA ScanCalm ==
    ASSUME PassInv, Calm, calm \in Nat, ScanLocal \/ ScanRemote
    PROVE  Calm'
  <1>1. /\ UNCHANGED <<local, remote, base, calm>>
        /\ pc \in {"idle", "scanned"} /\ pc' \in Reading
        /\ sl' = Listed(local) /\ Listed(local)' = Listed(local)
        /\ pc' = "listed" => /\ sr' = Listed(remote) /\ Listed(remote)' = Listed(remote)
                             /\ sb' = base
    BY DEF ScanLocal, ScanRemote, Calm, Reading, Listed, trees, bounds
  <1>2. calm >= 2 => Rested(local, remote, base, calm)
    BY <1>1 DEF Calm, Working
  <1>3. Rested(local, remote, base, calm)' <=> Rested(local, remote, base, calm)
    BY <1>1 DEF Rested, Behind
  <1> QED BY <1>1, <1>2, <1>3 DEF Calm, Working, Reading

LEMMA DecideCalm ==
    ASSUME PassInv, Calm, calm \in Nat, Decide
    PROVE  Calm'
  <1>1. /\ UNCHANGED <<local, remote, base, sl, sr, sb, calm>>
        /\ pc = "listed" /\ pc' = "folders"
        /\ sl = Listed(local) /\ sr = Listed(remote) /\ sb = base
    BY DEF Decide, Calm, Reading, trees, bounds
  <1>2. calm >= 2 => Rested(sl, sr, sb, calm)
    BY <1>1, RestedListed DEF Calm, Working, PassInv
  <1>3. calm >= 2 => ~HeldUp'
    BY <1>2, DecideRested
  <1>4. ~HeldUp' => PassMoves'
    BY DecideMoves
  <1>5. Rested(sl, sr, sb, calm)' <=> Rested(sl, sr, sb, calm)
    BY <1>1, FrozenRest
  <1> QED BY <1>1, <1>2, <1>3, <1>4, <1>5 DEF Calm, Working, Reading

LEMMA EndCalm ==
    ASSUME PassInv, Calm, calm \in Nat, calm >= 1, NextPhase, pc = "cleanup"
    PROVE  Calm' /\ calm' \in Nat
  <1>1. /\ todo = {} /\ pc' = "idle" /\ UNCHANGED <<local, remote, base>>
        /\ calm' = IF HeldUp \/ calm = EnoughPasses THEN calm ELSE calm + 1
    BY DEF NextPhase, Enter, Over, trees
  <1>2. CASE HeldUp
    BY <1>1, <1>2 DEF Calm, Working, Reading
  <1>3. CASE ~HeldUp
    <2>1. Through /\ PassMoves /\ (calm >= 2 => Rested(sl, sr, sb, calm))
      BY <1>3 DEF Calm, Through, Working
    <2>2. Rested(local, remote, base, calm + 1)
      BY <1>1, <2>1, EndRests
    <2>3. Rested(local, remote, base, calm)
      BY <2>2, RestedLess
    <2>4. Rested(local, remote, base, calm')
      BY <1>1, <2>2, <2>3
    <2>5. Rested(local, remote, base, calm)'
      BY <1>1, <2>4 DEF Rested, Behind
    <2> QED BY <1>1, <2>5 DEF Calm, Working, Reading
  <1> QED BY <1>2, <1>3

LEMMA SettleStep == ASSUME SettleInv, [Next]_vars PROVE SettleInv'
  <1> USE DEF SettleInv
  <1>1. PassInv'
    BY PassStep
  <1> SUFFICES calm' \in Nat /\ (calm' >= 1 => Calm')
    BY <1>1
  <1>2. CASE UNCHANGED vars
    <2>1. /\ UNCHANGED <<local, remote, base, sl, sr, sb, plan, pc, todo, doing, calm>>
          /\ UNCHANGED <<Listed(local), Listed(remote)>>
      BY <1>2 DEF vars, trees, listing, bounds, Listed
    <2>2. HeldUp' = HeldUp /\ (PassMoves => PassMoves')
      <3>1. /\ \A q : Goal(q)' = Goal(q) /\ Lasting(q)' = Lasting(q)
            /\ \A q : Rows(q)' = Rows(q) /\ Ahead(q)' = Ahead(q)
            /\ HeldUp' = HeldUp
        BY <2>1, FrozenGoals, Frozen, FrozenWork DEF Rows, Ahead
      <3> QED BY <2>1, <3>1 DEF PassMoves, CommitFits, Underway
    <2> QED BY <2>1, <2>2, FrozenRest DEF Calm
  <1>3. CASE User
    BY <1>3, UserTrees DEF PassInv
  <1>4. CASE Fault
    BY <1>4 DEF Fault
  <1>5. CASE ScanLocal \/ ScanRemote
    BY <1>5, ScanCalm DEF ScanLocal, ScanRemote, bounds
  <1>6. CASE Decide
    BY <1>6, DecideCalm DEF Decide, bounds
  <1>7. CASE NextPhase /\ pc # "cleanup"
    <2>1. pc \in Working /\ pc' \in Working /\ UNCHANGED <<sl, sr, sb, plan, calm>>
      BY <1>7 DEF NextPhase, Enter, Working, listing, bounds
    <2> QED BY <1>7, <2>1, PhaseMoves, WorkCalm
  <1>8. CASE NextPhase /\ pc = "cleanup"
    <2>1. calm' \in Nat /\ (calm' >= 1 => calm >= 1 \/ (calm = 0 /\ calm' = 1))
      BY <1>8 DEF NextPhase, Enter
    <2>2. pc' = "idle"
      BY <1>8 DEF NextPhase, Enter, Over
    <2>3. CASE calm = 0
      BY <2>1, <2>2, <2>3, <1>8 DEF Calm, Reading, Working, NextPhase, Enter
    <2> QED BY <1>8, <2>1, <2>3, EndCalm
  <1>9. CASE Commit
    <2>1. pc \in Working /\ pc' \in Working /\ UNCHANGED <<sl, sr, sb, plan, calm>>
      BY <1>9 DEF Commit, listing, bounds, PassInv, WorkFits, TypeOK, Working, Reading
    <2> QED BY <1>9, <2>1, CommitMoves, WorkCalm
  <1>10. ASSUME NEW p, Op(p) PROVE calm' \in Nat /\ (calm' >= 1 => Calm')
    <2>1. pc \in Working /\ pc' \in Working /\ UNCHANGED <<sl, sr, sb, plan, calm>>
      BY <1>10, OpFrame
    <2> QED BY <1>10, <2>1, OpReachesGoals, WorkCalm
  <1>11. ASSUME NEW p, Skip(p), ~Fault PROVE calm' \in Nat /\ (calm' >= 1 => Calm')
    <2>1. Turn(p) /\ Cannot(p) /\ UNCHANGED <<sl, sr, sb, plan, calm, pc>> /\ p \in todo
      BY <1>11 DEF Skip, listing, Turn
    <2>2. pc \in Working
      BY <2>1, WorkOf DEF PassInv
    <2>3. ~(Through /\ PassMoves)
      BY <2>1, NothingFails
    <2> QED BY <2>1, <2>2, <2>3, WorkCalm
  <1> QED
    BY <1>2, <1>3, <1>4, <1>5, <1>6, <1>7, <1>8, <1>9, <1>10, <1>11, ApplyIs
       DEF Next, Engine, AbortScan, Interrupt

LEMMA SettledSoon == SettleInv => SoonAgrees
  <1> SUFFICES ASSUME SettleInv, plan # None, calm = EnoughPasses PROVE NothingToDo
    BY DEF SoonAgrees
  <1>1. plan.files = Files /\ plan.folders = Folders /\ InPlan = Planned
    BY PlanParts DEF SettleInv, PassInv
  <1>2. CASE Paths = {}
    BY <1>1, <1>2, PlannedKinds DEF NothingToDo, Known
  <1>3. CASE Paths # {}
    <2>1. Depth \in Nat /\ calm = 2 + Depth
      BY <1>3, DepthIs DEF EnoughPasses
    <2>2. pc \in Working
      BY DEF SettleInv, PassInv, TypeOK, Working
    <2>3. ~HeldUp /\ Rested(sl, sr, sb, calm)
      BY <2>1, <2>2 DEF SettleInv, Calm
    <2>4. Through
      BY <2>2, <2>3 DEF Through, SettleInv
    <2>5. ASSUME NEW q \in Planned PROVE sl[q] = sr[q] /\ sl[q] = sb[q] /\ sl[q] # Absent
      <3>1. q \in Paths /\ q \notin Ignored
        BY <2>4, ThroughPlan, PlannedFacts
      <3>2. ~Behind(sl, sr, sb, calm, q)
        BY <2>1, <3>1, Heights DEF Behind, Height
      <3> QED BY <2>3, <2>4, <3>1, <3>2, ThroughKinds DEF Rested
    <2>6. \A q \in Files : FileOp(q) = "record"
      BY <2>4, <2>5, ThroughPlan, FileOpFacts, PlannedKinds
    <2>7. \A q \in Folders : FolderOp(q) = "record_dir" /\ sb[q] = Folder
      BY <2>4, <2>5, ThroughKinds, PlannedKinds DEF FolderOp
    <2>8. InPlan = Known
      BY <2>3 DEF HeldUp
    <2> QED BY <1>1, <2>6, <2>7, <2>8 DEF NothingToDo
  <1> QED BY <1>2, <1>3

\* For any tree of paths: once as many passes as the tree has levels of folders, and two
\* more, have ended that were not held up, and no user acted and nothing failed since
\* then, every pass finds that all is recorded as it stands.
THEOREM PassesComeToRest == Spec => []SoonAgrees
  <1>1. Init => SettleInv
    BY InitPass DEF Init, SettleInv
  <1>2. SettleInv /\ [Next]_vars => SettleInv'
    BY SettleStep
  <1>3. SettleInv => SoonAgrees
    BY SettledSoon
  <1> QED BY <1>1, <1>2, <1>3, PTL DEF Spec
=============================================================================
