---------------------------- MODULE WalkCacheProofs ----------------------------
(***************************************************************************)
(* For any tree, ignore sets and bounds: WalkCache is type correct, a      *)
(* cache no failed walk has touched is sound, and a walk with the cache is *)
(* a walk without it (RemoteListing).                                      *)
(*                                                                         *)
(* The argument (WalkCacheInv): iCloud gives a folder a new etag whenever  *)
(* something below it changes, so an etag that stands vouches for the      *)
(* subtree (OldEtagOldTree).  Therefore a cached listing under an etag     *)
(* that stands is true (CacheIsSound), what the cache serves for a folder  *)
(* was so when the walk learned its etag (ServedWasSo), and everything the *)
(* walk has put together was so in its window (ListedWasSo).               *)
(***************************************************************************)
EXTENDS WalkCacheInv, TLAPS

-----------------------------------------------------------------------------
(* The tree of nodes.                                                      *)

LEMMA NotInItself ==
  \A n \in Nodes : n \notin Above[n]
  <1> SUFFICES ASSUME NEW n \in Nodes
               PROVE  n \notin Above[n]
    OBVIOUS
  <1>1. {n} \in SUBSET Nodes /\ {n} # {}
    OBVIOUS
  <1>2. \E m \in {n} : Above[m] \cap {n} = {}
    BY <1>1, WalkCacheAssumption
  <1> QED BY <1>2

LEMMA ItsFolder ==
  ASSUME NEW n \in Nodes, n # Root
  PROVE  /\ Parent[n] \in Folders /\ Parent[n] \in Nodes
         /\ Above[n] = {Parent[n]} \cup Above[Parent[n]]
  BY WalkCacheAssumption DEF Nodes

LEMMA FoldersAbove ==
  ASSUME NEW n \in Nodes, NEW f \in Above[n]
  PROVE  n # Root /\ f \in Folders /\ f \in Nodes
  BY WalkCacheAssumption DEF Nodes

LEMMA AboveIsWhole ==
  \A n \in Nodes : \A f \in Above[n] : Above[f] \subseteq Above[n]
  <1> DEFINE S == {n \in Nodes : \E f \in Above[n] : ~(Above[f] \subseteq Above[n])}
  <1> SUFFICES ASSUME S # {}
               PROVE  FALSE
    OBVIOUS
  <1>1. PICK n \in S : Above[n] \cap S = {}
    BY S \in SUBSET Nodes, WalkCacheAssumption
  <1>2. PICK f \in Above[n] : ~(Above[f] \subseteq Above[n])
    BY <1>1
  <1>3. n \in Nodes /\ n # Root
    BY <1>1, <1>2, FoldersAbove
  <1>4. f \in Above[Parent[n]] /\ Parent[n] \in Above[n]
    BY <1>2, <1>3, ItsFolder
  <1>5. Parent[n] \in Nodes /\ Parent[n] \notin S
    BY <1>1, <1>3, <1>4, ItsFolder
  <1> QED BY <1>2, <1>3, <1>4, <1>5, ItsFolder

LEMMA NoLoop ==
  ASSUME NEW n \in Nodes, NEW f \in Above[n]
  PROVE  n \notin Above[f] /\ f # n
  BY AboveIsWhole, NotInItself, FoldersAbove

\* Two folders above a node are one, or one is above the other.
LEMMA AboveIsLine ==
  \A n \in Nodes : \A f, g \in Above[n] : f = g \/ f \in Above[g] \/ g \in Above[f]
  <1> DEFINE Apart(f, g) == f # g /\ f \notin Above[g] /\ g \notin Above[f]
  <1> DEFINE S == {n \in Nodes : \E f, g \in Above[n] : Apart(f, g)}
  <1> SUFFICES ASSUME S # {}
               PROVE  FALSE
    OBVIOUS
  <1>1. PICK n \in S : Above[n] \cap S = {}
    BY S \in SUBSET Nodes, WalkCacheAssumption
  <1>2. PICK f \in Above[n], g \in Above[n] : Apart(f, g)
    BY <1>1
  <1>3. n \in Nodes /\ n # Root
    BY <1>1, <1>2, FoldersAbove
  <1>4. Parent[n] \in Nodes /\ Parent[n] \notin S
    BY <1>1, <1>3, ItsFolder
  <1>5. f \in Above[Parent[n]] /\ g \in Above[Parent[n]]
    BY <1>2, <1>3, ItsFolder
  <1> QED BY <1>2, <1>4, <1>5

LEMMA PathIsLine ==
  ASSUME NEW n \in Nodes, NEW f \in Path(n), NEW g \in Path(n)
  PROVE  f \in Path(g) \/ g \in Path(f)
  BY AboveIsLine DEF Path

LEMMA PathIsWhole ==
  ASSUME NEW n \in Nodes, NEW f \in Path(n)
  PROVE  f \in Nodes /\ Path(f) \subseteq Path(n) /\ Above[f] \subseteq Above[n]
  BY AboveIsWhole, FoldersAbove DEF Path

\* From a folder down to a node the way leads through a child of the folder.
LEMMA WayDown ==
  ASSUME NEW n \in Nodes, NEW f \in Above[n]
  PROVE  \E c \in Path(n) : /\ c \in KidsOf(f)
                            /\ c = n \/ c \in Folders
  <1> DEFINE S == {m \in Path(n) : f \in Above[m]}
  <1>1. n \in S /\ S \in SUBSET Nodes
    BY PathIsWhole DEF Path
  <1>2. PICK c \in S : Above[c] \cap S = {}
    BY <1>1, WalkCacheAssumption
  <1>3. c \in Nodes /\ c # Root /\ f \in Above[c] /\ c \in Path(n)
    BY <1>1, <1>2, FoldersAbove
  <1>4. Parent[c] \in Path(n) /\ Parent[c] \in Above[c]
    <2>1. Above[c] \subseteq Above[n] /\ Parent[c] \in Above[c]
      BY <1>3, ItsFolder, PathIsWhole
    <2> QED BY <2>1 DEF Path
  <1>5. Parent[c] = f
    BY <1>2, <1>3, <1>4, ItsFolder
  <1>6. c = n \/ c \in Folders
    BY <1>3, FoldersAbove DEF Path
  <1> QED BY <1>3, <1>5, <1>6 DEF KidsOf

LEMMA Kids ==
  ASSUME NEW f \in Folders, NEW c \in KidsOf(f)
  PROVE  /\ c \in Nodes /\ c # Root /\ Parent[c] = f
         /\ Above[c] = {f} \cup Above[f] /\ Path(c) = {c} \cup Path(f)
         /\ f \notin Above[f] /\ c \notin Path(f)
  <1>1. c \in Nodes /\ c # Root /\ Parent[c] = f /\ Above[c] = {f} \cup Above[f]
    BY ItsFolder DEF KidsOf
  <1>2. c \notin Above[c] /\ f \notin Above[f]
    BY <1>1, NotInItself, ItsFolder
  <1> QED BY <1>1, <1>2 DEF Path

-----------------------------------------------------------------------------
(* Listings.                                                               *)

LEMMA EmptyListing ==
  \A ns : IsListing(Empty, ns)
  BY DEF IsListing, Empty

LEMMA IsEmpty ==
  ASSUME NEW ns, NEW l, IsListing(l, ns), DOMAIN l = {}
  PROVE  l = Empty
  BY DEF IsListing, Empty

LEMMA SomeListing ==
  ASSUME NEW ns \in SUBSET Nodes, NEW l, IsListing(l, ns)
  PROVE  l # None
  BY WalkCacheAssumption DEF IsListing

LEMMA Merged ==
  ASSUME NEW ns, NEW l, NEW m, IsListing(l, ns), IsListing(m, ns)
  PROVE  /\ IsListing(Merge(l, m), ns)
         /\ DOMAIN Merge(l, m) = DOMAIN l \cup DOMAIN m
         /\ \A n \in DOMAIN l : Merge(l, m)[n] = l[n]
         /\ \A n \in DOMAIN m \ DOMAIN l : Merge(l, m)[n] = m[n]
  BY DEF IsListing, Merge

LEMMA WithoutOne ==
  ASSUME NEW ns, NEW l, NEW f, IsListing(l, ns)
  PROVE  /\ IsListing(Without(l, f), ns)
         /\ DOMAIN Without(l, f) = DOMAIN l \ {f}
         /\ \A n \in DOMAIN l \ {f} : Without(l, f)[n] = l[n]
  BY DEF IsListing, Without

\* A fresh listing holds the children that are there and not ignored.
LEMMA Listed ==
  ASSUME TypeOK, NEW f \in Folders
  PROVE  /\ IsListing(Listing(f), KidsOf(f))
         /\ DOMAIN Listing(f) = {c \in KidsOf(f) : etag[c] # 0 /\ c \notin ignored}
         /\ \A c \in DOMAIN Listing(f) : Listing(f)[c] = etag[c]
         /\ Listing(f) # None
  <1>1. IsListing(Listing(f), KidsOf(f))
    BY DEF IsListing, Listing, TypeOK, KidsOf
  <1>2. KidsOf(f) \in SUBSET Nodes
    BY DEF KidsOf
  <1> QED BY <1>1, <1>2, SomeListing DEF Listing

LEMMA ListedFolders ==
  ASSUME TypeOK, NEW f \in Folders
  PROVE  /\ IsListing(OnlyFolders(Listing(f)), Folders)
         /\ DOMAIN OnlyFolders(Listing(f)) =
               {c \in KidsOf(f) \cap Folders : etag[c] # 0 /\ c \notin ignored}
         /\ \A c \in DOMAIN OnlyFolders(Listing(f)) : OnlyFolders(Listing(f))[c] = etag[c]
  <1> DEFINE l == Listing(f)
  <1>1. /\ DOMAIN l = {c \in KidsOf(f) : etag[c] # 0 /\ c \notin ignored}
        /\ \A c \in DOMAIN l : l[c] = etag[c] /\ l[c] \in Nat
    BY Listed DEF IsListing
  <1>2. OnlyFolders(l) = [n \in DOMAIN l \cap Folders |-> l[n]]
    BY DEF OnlyFolders
  <1> HIDE DEF l
  <1>3. /\ IsListing(OnlyFolders(l), Folders)
        /\ DOMAIN OnlyFolders(l) = DOMAIN l \cap Folders
        /\ \A c \in DOMAIN OnlyFolders(l) : OnlyFolders(l)[c] = etag[c]
    BY <1>1, <1>2 DEF IsListing
  <1> QED BY <1>1, <1>3 DEF l

LEMMA NoCache ==
  IsCache(NoEtags, NoKids, FALSE, {})
  BY DEF IsCache, NoEtags, NoKids

-----------------------------------------------------------------------------
(* Type correctness.                                                       *)

LEMMA RootThere ==
  Root \in Folders /\ Root \in Nodes
  BY WalkCacheAssumption DEF Nodes

LEMMA WalkInit == Init => WalkInv
  <1> SUFFICES ASSUME Init
               PROVE  WalkInv
    OBVIOUS
  <1> USE WalkCacheAssumption, RootThere DEF Init
  <1>1. IsListing(front, Folders) /\ IsListing(next, Folders)
        /\ IsListing(out, Nodes \ {Root})
    BY EmptyListing
  <1>2. IsCache(cetag, ckids, failed, filtered)
    BY NoCache
  <1>3. etag \in [Nodes -> Nat] /\ rev \in Nat /\ during \in [Files -> SUBSET Nat]
    OBVIOUS
  <1>4. TypeOK
    <2>1. ignored \in (IF pc = "down" THEN {{}} ELSE Filters) /\ hash \in Filters \cup {None}
      OBVIOUS
    <2>2. events \in 0..MaxEvents
      OBVIOUS
    <2>3. due \in BOOLEAN /\ boot \in BOOLEAN /\ daemon \in BOOLEAN /\ useCache \in BOOLEAN
      OBVIOUS
    <2> QED BY <1>1, <1>2, <1>3, <2>1, <2>2, <2>3 DEF TypeOK
  <1>5. Pending = {}
    BY DEF Pending, Empty
  <1>6. CloudIsTree /\ EtagsArePast
    BY <1>5, FoldersAbove DEF CloudIsTree, EtagsArePast, NoEtags
  <1>7. CacheIsSound
    BY DEF CacheIsSound, Vouched, NoEtags
  <1>8. QuietOutside /\ SideBySide /\ FiltersRecorded
    BY <1>5 DEF QuietOutside, SideBySide, FiltersRecorded, Empty
  <1>9. /\ SavedIsSound /\ RebuiltIsSound /\ AskedIsCurrent /\ ServedWasSo
        /\ WindowIsOpen /\ ListedWasSo
    BY <1>5 DEF SavedIsSound, RebuiltIsSound, AskedIsCurrent, ServedWasSo,
                WindowIsOpen, ListedWasSo
  <1> QED BY <1>4, <1>6, <1>7, <1>8, <1>9 DEF WalkInv

LEMMA HappensFits ==
  ASSUME TypeOK, Happens
  PROVE  events' \in 0..MaxEvents
  BY WalkCacheAssumption DEF TypeOK, Happens

\* What a change in iCloud leaves of the process: everything.
LEMMA ChangeDo ==
  ASSUME NEW new, Change(new)
  PROVE  /\ etag' = new /\ rev' = rev + 1 /\ Happens
         /\ UNCHANGED <<cetag, ckids, failed, filtered, due, saved, hash, pc, boot,
                        daemon, ignored, useCache, rootEtag, front, next, out, view>>
         /\ during' = IF pc = "walking"
                      THEN [f \in Files |-> during[f] \cup {new[f]}] ELSE during
  BY DEF Change, cache, process, walk

LEMMA CloudChanges ==
  ASSUME Cloud
  PROVE  \E new :
            /\ Change(new)
            /\ \/ \E f \in Files : new =
                     [n \in Nodes |-> IF n \in Above[f] \cup {f} THEN rev + 1 ELSE etag[n]]
               \/ \E n \in Nodes \ {Root} : etag[n] # 0 /\ new =
                     [m \in Nodes |-> IF n \in Above[m] \cup {m} THEN 0
                                      ELSE IF m \in Above[n] THEN rev + 1 ELSE etag[m]]
  BY DEF Cloud, Write, Remove

LEMMA CloudTypes ==
  ASSUME TypeOK, Cloud
  PROVE  TypeOK'
  <1>1. PICK new : Change(new) /\ new \in [Nodes -> Nat]
    BY CloudChanges DEF TypeOK
  <1> USE <1>1
  <1>2. during' \in [Files -> SUBSET Nat]
    BY ChangeDo DEF TypeOK, Nodes
  <1>3. events' \in 0..MaxEvents
    BY ChangeDo, HappensFits
  <1> QED BY ChangeDo, <1>2, <1>3 DEF TypeOK

\* The walk ends or was not running: nothing of it is left.
LEMMA GoneDo ==
  ASSUME Gone
  PROVE  /\ pc' = "down" /\ cetag' = NoEtags /\ ckids' = NoKids /\ failed' = FALSE
         /\ filtered' = {} /\ front' = Empty /\ next' = Empty /\ out' = Empty
         /\ during' = [f \in Files |-> {}] /\ rootEtag' = 0 /\ useCache' = FALSE /\ ignored' = {}
         /\ due' = TRUE /\ boot' = FALSE /\ daemon' = FALSE
         /\ UNCHANGED <<etag, rev, hash, events>>
  BY DEF Gone, DropCache, cloud

\* What opens a walk: a pass that has nothing to heed, or is through with it.
Opens == StartPass \/ Unsave

LEMMA OpenDo ==
  ASSUME Opens
  PROVE  /\ pc \in {"idle", "unsave"} /\ pc' = "walking"
         /\ useCache' = MayUseCache(cetag) /\ rootEtag' = etag[Root]
         /\ front' = [n \in {Root} |-> etag[Root]] /\ next' = Empty /\ out' = Empty
         /\ during' = [f \in Files |-> {etag[f]}]
         /\ UNCHANGED <<etag, rev, cetag, ckids, failed, filtered, due, boot, daemon,
                        ignored, view, events>>
         /\ saved' = saved \/ saved' = None
         /\ hash' = hash \/ hash' = ignored
  BY DEF Opens, StartPass, Unsave, BeginWalk, cloud, cache, process

\* What a pass does before its walk: the cache in memory stays or is dropped.
Prepares == HeedFilters \/ PassFails

LEMMA PrepareDo ==
  ASSUME Prepares
  PROVE  /\ pc # "walking" /\ pc' \in {"idle", "unsave"}
         /\ UNCHANGED <<etag, rev, due, daemon, ignored, useCache, rootEtag, front, next,
                        out, view, during>>
         /\ \/ UNCHANGED <<cetag, ckids, failed, filtered>>
            \/ /\ cetag' = NoEtags /\ ckids' = NoKids /\ failed' = FALSE /\ filtered' = {}
         /\ saved' = saved \/ saved' = Outlived(saved)
  BY DEF Prepares, HeedFilters, PassFails, DropCache, cloud, cache, process, walk

\* The saved cache outlives its ignore set: only the record of what hid from it changes.
LEMMA OutlivedIsSame ==
  ASSUME TypeOK, saved # None
  PROVE  /\ Outlived(saved).etags = saved.etags /\ Outlived(saved).kids = saved.kids
         /\ Outlived(saved).failed = saved.failed
         /\ Outlived(saved).filtered \subseteq Nodes \X BOOLEAN
         /\ \A n : <<n, FALSE>> \notin Outlived(saved).filtered
         /\ Hidden(Outlived(saved).filtered) = Hidden(saved.filtered)
  <1> DEFINE past == {<<m[1], TRUE>> : m \in saved.filtered}
  <1>1. Outlived(saved) = [etags |-> saved.etags, kids |-> saved.kids,
                           failed |-> saved.failed, filtered |-> past]
    BY DEF Outlived
  <1>2. saved.filtered \subseteq Nodes \X BOOLEAN
    BY DEF TypeOK, IsCache
  <1>3. \A m \in saved.filtered : m[1] \in Nodes /\ m[2] \in BOOLEAN /\ m = <<m[1], m[2]>>
    BY <1>2
  <1>4. \A m \in past : m \in Nodes \X BOOLEAN /\ m[2] = TRUE
    <2> SUFFICES ASSUME NEW m \in past
                 PROVE  m \in Nodes \X BOOLEAN /\ m[2] = TRUE
      OBVIOUS
    <2>1. PICK k \in saved.filtered : m = <<k[1], TRUE>>
      OBVIOUS
    <2>2. k[1] \in Nodes
      BY <1>3
    <2> HIDE DEF past
    <2> QED BY <2>1, <2>2
  <1>5. \A n \in Nodes : <<n, TRUE>> \in past <=> \E b \in BOOLEAN : <<n, b>> \in saved.filtered
    <2> SUFFICES ASSUME NEW n \in Nodes
                 PROVE  <<n, TRUE>> \in past <=>
                           \E b \in BOOLEAN : <<n, b>> \in saved.filtered
      OBVIOUS
    <2>1. ASSUME <<n, TRUE>> \in past
          PROVE  \E b \in BOOLEAN : <<n, b>> \in saved.filtered
      <3>1. PICK m \in saved.filtered : <<n, TRUE>> = <<m[1], TRUE>>
        BY <2>1
      <3>2. n = m[1] /\ m[2] \in BOOLEAN /\ m = <<m[1], m[2]>>
        BY <1>3, <3>1
      <3> QED BY <3>2
    <2>2. ASSUME NEW b \in BOOLEAN, <<n, b>> \in saved.filtered
          PROVE  <<n, TRUE>> \in past
      <3>1. <<n, b>>[1] = n
        OBVIOUS
      <3> QED BY <2>2, <3>1
    <2> QED BY <2>1, <2>2
  <1> HIDE DEF past
  <1>6. \A n : <<n, FALSE>> \notin past
    <2> SUFFICES ASSUME NEW n, <<n, FALSE>> \in past
                 PROVE  FALSE
      OBVIOUS
    <2>1. <<n, FALSE>>[2] = FALSE
      OBVIOUS
    <2> QED BY <1>4, <2>1
  <1>7. Hidden(past) = Hidden(saved.filtered)
    BY <1>5, <1>6 DEF Hidden
  <1>8. past \subseteq Nodes \X BOOLEAN
    BY <1>4
  <1>9. /\ Outlived(saved).etags = saved.etags /\ Outlived(saved).kids = saved.kids
        /\ Outlived(saved).failed = saved.failed /\ Outlived(saved).filtered = past
    BY <1>1
  <1> QED BY <1>6, <1>7, <1>8, <1>9

LEMMA TypeStep ==
  ASSUME TypeOK, [Next]_vars
  PROVE  TypeOK'
  <1> USE WalkCacheAssumption, RootThere
  <1>1. CASE UNCHANGED vars
    BY <1>1 DEF vars, cloud, cache, process, walk, TypeOK
  <1>2. CASE Cloud
    BY <1>2, CloudTypes
  <1>3. CASE CadenceElapses
    BY <1>3 DEF CadenceElapses, cloud, cache, process, walk, TypeOK
  <1>4. ASSUME NEW d \in BOOLEAN, NEW i \in Filters, Start(d, i)
        PROVE  TypeOK'
    <2>1. IsCache(cetag, ckids, failed, filtered)'
      BY <1>4, NoCache DEF Start, DropCache, TypeOK
    <2>2. events' \in 0..MaxEvents
      BY <1>4, HappensFits DEF Start
    <2>3. due' \in BOOLEAN
      BY <1>4 DEF Start
    <2> QED BY <1>4, <2>1, <2>2, <2>3 DEF Start, cloud, walk, TypeOK
  <1>5. CASE Stop \/ Kill
    <2>1. Gone /\ (saved' # None => saved' = saved \/ (saved' =
             [etags |-> cetag, kids |-> ckids, failed |-> failed, filtered |-> filtered]))
      BY <1>5 DEF Stop, Kill
    <2>2. IsCache(cetag, ckids, failed, filtered)'
      BY <2>1, GoneDo, NoCache
    <2>3. (saved # None => IsCache(saved.etags, saved.kids, saved.failed, saved.filtered))'
      BY <2>1 DEF TypeOK
    <2>4. (IsListing(front, Folders) /\ IsListing(next, Folders)
           /\ IsListing(out, Nodes \ {Root}))'
      BY <2>1, GoneDo, EmptyListing
    <2> QED BY <2>1, <2>2, <2>3, <2>4, GoneDo DEF TypeOK
  <1>6. CASE Opens
    <2>1. IsCache(cetag, ckids, failed, filtered)'
      BY <1>6, OpenDo DEF TypeOK
    <2>2. (saved # None => IsCache(saved.etags, saved.kids, saved.failed, saved.filtered))'
      BY <1>6, OpenDo DEF TypeOK
    <2>3. (IsListing(next, Folders) /\ IsListing(out, Nodes \ {Root}))'
      BY <1>6, OpenDo, EmptyListing
    <2>4. IsListing(front, Folders)'
      BY <1>6, OpenDo DEF IsListing, TypeOK
    <2>5. during' \in [Files -> SUBSET Nat]
      BY <1>6, OpenDo DEF TypeOK, Nodes
    <2>6. useCache' \in BOOLEAN /\ rootEtag' \in Nat
      BY <1>6, OpenDo DEF MayUseCache, TypeOK
    <2>7. hash' \in Filters \cup {None} /\ ignored \in Filters
      BY <1>6, OpenDo DEF TypeOK
    <2> QED BY <1>6, OpenDo, <2>1, <2>2, <2>3, <2>4, <2>5, <2>6, <2>7 DEF TypeOK
  <1>13. CASE Prepares
    <2>1. IsCache(cetag, ckids, failed, filtered)'
      BY <1>13, PrepareDo, NoCache DEF TypeOK
    <2>2. (saved # None => IsCache(saved.etags, saved.kids, saved.failed, saved.filtered))'
      <3>1. CASE saved' = saved
        BY <3>1 DEF TypeOK
      <3>2. CASE saved # None /\ saved' = Outlived(saved)
        BY <3>2, OutlivedIsSame DEF TypeOK, IsCache
      <3> QED BY <1>13, <3>1, <3>2, PrepareDo DEF Outlived
    <2>3. /\ hash' \in Filters \cup {None} /\ boot' \in BOOLEAN /\ pc # "down"
          /\ events' \in 0..MaxEvents
      <3>1. CASE HeedFilters
        <4>1. hash' = ignored /\ pc = "idle" /\ boot' = boot /\ events' = events
          BY <3>1 DEF HeedFilters, process
        <4> QED BY <4>1 DEF TypeOK
      <3>2. CASE PassFails
        <4>1. hash' = hash /\ boot' = FALSE /\ pc # "down" /\ Happens
          BY <3>2 DEF PassFails
        <4> QED BY <4>1, HappensFits DEF TypeOK
      <3> QED BY <1>13, <3>1, <3>2 DEF Prepares
    <2> QED BY <1>13, PrepareDo, <2>1, <2>2, <2>3 DEF TypeOK
  <1>7. CASE NextLevel
    BY <1>7, EmptyListing DEF NextLevel, cloud, cache, process, TypeOK
  <1>8. CASE FinishWalk
    <2>1. (IsListing(front, Folders) /\ IsListing(next, Folders)
           /\ IsListing(out, Nodes \ {Root}))'
      BY <1>8, EmptyListing DEF FinishWalk, EndWalk
    <2>2. filtered' \subseteq Nodes \X BOOLEAN /\ failed' \in BOOLEAN /\ due' \in BOOLEAN
      BY <1>8 DEF FinishWalk, WalkDone, TypeOK, IsCache
    <2>3. IsCache(cetag, ckids, failed, filtered)'
      BY <1>8, <2>2 DEF FinishWalk, TypeOK, IsCache
    <2> QED BY <1>8, <2>1, <2>2, <2>3
            DEF FinishWalk, WalkDone, EndWalk, cloud, TypeOK
  <1>9. ASSUME NEW f \in Folders, EmitCached(f)
        PROVE  TypeOK'
    <2> DEFINE served == [n \in FromCache(f) |-> ckids[Parent[n]][n]]
    <2>1. IsListing(served, Nodes \ {Root})
      <3>1. FromCache(f) \subseteq Nodes \ {Root}
        BY DEF FromCache
      <3>2. ASSUME NEW n \in FromCache(f)
            PROVE  ckids[Parent[n]][n] \in Nat
        <4>1. n \in Nodes \ {Root} /\ ckids[Parent[n]] # None
              /\ n \in DOMAIN ckids[Parent[n]] /\ Parent[n] \in Folders
          BY ItsFolder DEF FromCache
        <4> QED BY <4>1 DEF TypeOK, IsCache, IsListing
      <3> QED BY <3>1, <3>2 DEF IsListing
    <2>2. IsListing(out', Nodes \ {Root})
      BY <1>9, <2>1, Merged DEF EmitCached, TypeOK
    <2>3. IsListing(front', Folders)
      BY <1>9, WithoutOne DEF EmitCached, TypeOK
    <2> QED BY <1>9, <2>2, <2>3 DEF EmitCached, cloud, cache, process, TypeOK
  <1>10. ASSUME NEW f \in Folders, RestartUncached(f)
         PROVE  TypeOK'
    <2>1. IsCache(cetag, ckids, failed, filtered)'
      BY <1>10, NoCache DEF RestartUncached, DropCache
    <2>2. (IsListing(next, Folders) /\ IsListing(out, Nodes \ {Root}))'
      BY <1>10, EmptyListing DEF RestartUncached
    <2>3. IsListing(front', Folders)
      BY <1>10 DEF RestartUncached, IsListing, TypeOK
    <2> QED BY <1>10, <2>1, <2>2, <2>3 DEF RestartUncached, cloud, process, TypeOK
  <1>11. ASSUME NEW f \in Folders, ListFolder(f)
         PROVE  TypeOK'
    <2>1. KidsOf(f) \subseteq Nodes \ {Root}
      BY DEF KidsOf
    <2>2. IsListing(Listing(f), Nodes \ {Root})
      BY <2>1, Listed DEF IsListing
    <2>3. IsListing(out', Nodes \ {Root})
      BY <1>11, <2>2, Merged DEF ListFolder, TypeOK
    <2>4. IsListing(front', Folders)
      BY <1>11, WithoutOne DEF ListFolder, TypeOK
    <2>5. IsListing(next', Folders)
      BY <1>11, ListedFolders, Merged DEF ListFolder, TypeOK
    <2>6. front[f] \in Nat
      BY <1>11 DEF ListFolder, TypeOK, IsListing
    <2>7. cetag' \in [Folders -> Nat]
      BY <1>11, <2>6 DEF ListFolder, TypeOK, IsCache
    <2>8. filtered' \subseteq Nodes \X BOOLEAN
      BY <1>11 DEF ListFolder, TypeOK, IsCache
    <2>9. /\ ckids' = [g \in Folders |-> ckids'[g]]
          /\ \A g \in Folders : ckids'[g] # None => IsListing(ckids'[g], KidsOf(g))
      BY <1>11, Listed DEF ListFolder, TypeOK, IsCache
    <2>10. IsCache(cetag, ckids, failed, filtered)'
      BY <1>11, <2>7, <2>8, <2>9 DEF ListFolder, TypeOK, IsCache, KidsOf
    <2> QED BY <1>11, <2>3, <2>4, <2>5, <2>10
            DEF ListFolder, cloud, process, TypeOK
  <1>12. ASSUME NEW f \in Folders, ListFails(f)
         PROVE  TypeOK'
    <2>1. (IsListing(front, Folders) /\ IsListing(next, Folders)
           /\ IsListing(out, Nodes \ {Root}))'
      BY <1>12, EmptyListing DEF ListFails, EndWalk
    <2>2. events' \in 0..MaxEvents
      BY <1>12, HappensFits DEF ListFails, TypeOK
    <2>3. IsCache(cetag, ckids, failed, filtered)'
      BY <1>12 DEF ListFails, TypeOK, IsCache
    <2> QED BY <1>12, <2>1, <2>2, <2>3 DEF ListFails, EndWalk, cloud, TypeOK
  <1> QED BY <1>1, <1>2, <1>3, <1>4, <1>5, <1>6, <1>7, <1>8, <1>9, <1>10, <1>11, <1>12, <1>13
          DEF Next, Walk, Opens, Prepares

-----------------------------------------------------------------------------
(* iCloud changes.                                                         *)

\* A folder that keeps its etag keeps everything below it: the property of iCloud
\* that the cache is built on.
LEMMA OldEtagOldTree ==
  ASSUME TypeOK, Cloud, NEW n \in Nodes, etag'[n] # 0, etag'[n] <= rev
  PROVE  \A m \in Nodes : n \in Path(m) => etag'[m] = etag[m]
  <1> SUFFICES ASSUME NEW m \in Nodes, n \in Path(m)
               PROVE  etag'[m] = etag[m]
    OBVIOUS
  <1>1. PICK new :
           /\ etag' = new
           /\ \/ \E f \in Files : new =
                    [k \in Nodes |-> IF k \in Above[f] \cup {f} THEN rev + 1 ELSE etag[k]]
              \/ \E x \in Nodes \ {Root} : etag[x] # 0 /\ new =
                    [k \in Nodes |-> IF x \in Above[k] \cup {k} THEN 0
                                     ELSE IF k \in Above[x] THEN rev + 1 ELSE etag[k]]
    BY CloudChanges, ChangeDo
  <1>2. rev \in Nat
    BY DEF TypeOK
  <1>3. ASSUME NEW f \in Files,
               etag' = [k \in Nodes |-> IF k \in Path(f) THEN rev + 1 ELSE etag[k]]
        PROVE  etag'[m] = etag[m]
    <2>1. n \notin Path(f) /\ f \in Nodes
      BY <1>2, <1>3 DEF Nodes
    <2>2. m \notin Path(f)
      BY <2>1, PathIsWhole
    <2> QED BY <1>3, <2>2
  <1>4. ASSUME NEW x \in Nodes \ {Root},
               etag' = [k \in Nodes |-> IF x \in Path(k) THEN 0
                                        ELSE IF k \in Above[x] THEN rev + 1 ELSE etag[k]]
        PROVE  etag'[m] = etag[m]
    <2>1. x \notin Path(n) /\ n \notin Above[x] /\ n # x
      BY <1>2, <1>4 DEF Path
    <2>2. x \notin Path(m)
      BY <2>1, PathIsLine DEF Path
    <2>3. m \notin Above[x]
      BY <2>1, AboveIsWhole DEF Path
    <2> QED BY <1>4, <2>2, <2>3
  <1> QED BY <1>1, <1>3, <1>4 DEF Path

LEMMA CloudTree ==
  ASSUME TypeOK, CloudIsTree, Cloud
  PROVE  CloudIsTree'
  <1> USE RootThere
  <1>1. PICK new :
           /\ etag' = new /\ rev' = rev + 1
           /\ \/ \E f \in Files : new =
                    [k \in Nodes |-> IF k \in Above[f] \cup {f} THEN rev + 1 ELSE etag[k]]
              \/ \E x \in Nodes \ {Root} : etag[x] # 0 /\ new =
                    [k \in Nodes |-> IF x \in Above[k] \cup {k} THEN 0
                                     ELSE IF k \in Above[x] THEN rev + 1 ELSE etag[k]]
    BY CloudChanges, ChangeDo
  <1>2. rev \in Nat /\ \A k \in Nodes : etag[k] \in Nat
    BY DEF TypeOK
  <1>3. \A k \in Nodes : etag'[k] <= rev'
    <2> SUFFICES ASSUME NEW k \in Nodes
                 PROVE  etag'[k] <= rev'
      OBVIOUS
    <2>1. etag'[k] \in {0, rev + 1, etag[k]}
      BY <1>1
    <2> QED BY <1>1, <1>2, <2>1 DEF CloudIsTree
  <1>4. ASSUME NEW f \in Files,
               etag' = [k \in Nodes |-> IF k \in Path(f) THEN rev + 1 ELSE etag[k]]
        PROVE  CloudIsTree'
    <2>1. \A k \in Nodes : etag[k] # 0 \/ k \in Path(f) <=> etag'[k] # 0
      BY <1>2, <1>4
    <2>2. \A k \in Nodes : \A g \in Above[k] :
             g \in Nodes /\ (k \in Path(f) => g \in Path(f))
      BY PathIsWhole, FoldersAbove DEF Path, Nodes
    <2> QED BY <1>3, <2>1, <2>2 DEF CloudIsTree
  <1>5. ASSUME NEW x \in Nodes \ {Root},
               etag' = [k \in Nodes |-> IF x \in Path(k) THEN 0
                                        ELSE IF k \in Above[x] THEN rev + 1 ELSE etag[k]]
        PROVE  CloudIsTree'
    <2>1. \A k \in Nodes :
             etag'[k] # 0 <=> x \notin Path(k) /\ (k \in Above[x] \/ etag[k] # 0)
      BY <1>2, <1>5
    <2>2. x \notin Path(Root)
      BY FoldersAbove DEF Path
    <2>3. ASSUME NEW k \in Nodes, NEW g \in Above[k], etag'[k] # 0
          PROVE  etag'[g] # 0
      <3>1. g \in Nodes /\ Path(g) \subseteq Path(k)
        BY FoldersAbove, PathIsWhole DEF Path
      <3>2. k \in Above[x] => g \in Above[x]
        BY AboveIsWhole
      <3> QED BY <2>1, <2>3, <3>1, <3>2 DEF CloudIsTree
    <2> QED BY <1>3, <2>1, <2>2, <2>3 DEF CloudIsTree
  <1> QED BY <1>1, <1>4, <1>5 DEF Path

LEMMA CloudRests ==
  ASSUME [Next]_vars, ~Cloud
  PROVE  UNCHANGED <<etag, rev>>
  <1>1. CASE UNCHANGED vars
    BY <1>1 DEF vars, cloud
  <1>2. CASE Walk
    BY <1>2 DEF Walk, NextLevel, FinishWalk, EmitCached, RestartUncached, ListFolder,
                ListFails, EndWalk, cloud
  <1>3. CASE CadenceElapses \/ \E d \in BOOLEAN, i \in Filters : Start(d, i)
    BY <1>3 DEF CadenceElapses, Start, cloud
  <1>4. CASE Stop \/ Kill
    BY <1>4, GoneDo DEF Stop, Kill
  <1>5. CASE Opens \/ Prepares
    BY <1>5, OpenDo, PrepareDo
  <1> QED BY <1>1, <1>2, <1>3, <1>4, <1>5 DEF Next, Opens, Prepares

LEMMA TreeStep ==
  ASSUME TypeOK, CloudIsTree, [Next]_vars
  PROVE  CloudIsTree'
  BY CloudTree, CloudRests DEF CloudIsTree

-----------------------------------------------------------------------------
(* The levels of the walk.                                                 *)

LEMMA QuietStep ==
  ASSUME QuietOutside, [Next]_vars
  PROVE  QuietOutside'
  <1>1. CASE UNCHANGED vars
    BY <1>1 DEF vars, walk, QuietOutside
  <1>2. CASE Cloud
    BY <1>2, CloudChanges, ChangeDo DEF QuietOutside
  <1>3. CASE CadenceElapses
    BY <1>3 DEF CadenceElapses, walk, QuietOutside
  <1>4. CASE \E d \in BOOLEAN, i \in Filters : Start(d, i)
    BY <1>4 DEF Start, walk, QuietOutside
  <1>5. CASE Stop \/ Kill
    BY <1>5, GoneDo DEF Stop, Kill, QuietOutside
  <1>6. CASE Opens \/ NextLevel \/ \E f \in Folders :
                EmitCached(f) \/ RestartUncached(f) \/ ListFolder(f)
    <2>1. pc' = "walking"
      BY <1>6, OpenDo DEF NextLevel, EmitCached, RestartUncached, ListFolder
    <2> QED BY <2>1 DEF QuietOutside
  <1>7. CASE FinishWalk \/ \E f \in Folders : ListFails(f)
    BY <1>7 DEF FinishWalk, ListFails, EndWalk, QuietOutside
  <1>8. CASE Prepares
    BY <1>8, PrepareDo DEF QuietOutside
  <1> QED BY <1>1, <1>2, <1>3, <1>4, <1>5, <1>6, <1>7, <1>8 DEF Next, Walk, Opens, Prepares

LEMMA NothingPending ==
  ASSUME QuietOutside, pc # "walking"
  PROVE  Pending = {} /\ during = [f \in Files |-> {}]
  BY DEF QuietOutside, Pending, Empty

\* The steps of a walk that is not over with them.
LEMMA WalkSteps ==
  ASSUME [Next]_vars, pc' = "walking"
  PROVE  \/ pc = "walking" /\ UNCHANGED vars
         \/ pc = "walking" /\ Cloud
         \/ Opens
         \/ pc = "walking" /\ NextLevel
         \/ pc = "walking" /\ \E f \in Folders :
               EmitCached(f) \/ RestartUncached(f) \/ ListFolder(f)
  <1>1. CASE UNCHANGED vars
    BY <1>1 DEF vars
  <1>2. CASE Cloud
    BY <1>2, CloudChanges, ChangeDo
  <1>3. CASE Opens \/ NextLevel \/ \E f \in Folders :
                EmitCached(f) \/ RestartUncached(f) \/ ListFolder(f)
    BY <1>3 DEF NextLevel, EmitCached, RestartUncached, ListFolder
  <1>4. CASE \/ CadenceElapses \/ Stop \/ Kill
             \/ \E d \in BOOLEAN, i \in Filters : Start(d, i)
    BY <1>4, GoneDo DEF CadenceElapses, Stop, Kill, Start
  <1>5. CASE FinishWalk \/ \E f \in Folders : ListFails(f)
    BY <1>5 DEF FinishWalk, ListFails, EndWalk
  <1>6. CASE Prepares
    BY <1>6, PrepareDo
  <1> QED BY <1>1, <1>2, <1>3, <1>4, <1>5, <1>6 DEF Next, Walk, Opens, Prepares

LEMMA PendingAtStart ==
  ASSUME Opens \/ \E f \in Folders : RestartUncached(f)
  PROVE  Pending' = {Root} /\ DOMAIN front' = {Root} /\ DOMAIN next' = {}
         /\ Asked(Root)' = rootEtag'
  BY OpenDo DEF RestartUncached, Pending, Asked, Empty

LEMMA PendingNextLevel ==
  ASSUME NextLevel
  PROVE  /\ Pending' = Pending /\ DOMAIN next' = {}
         /\ \A p \in Pending : Asked(p)' = Asked(p)
  BY DEF NextLevel, Pending, Asked, Empty

LEMMA PendingServed ==
  ASSUME TypeOK, SideBySide, NEW f \in Folders, EmitCached(f)
  PROVE  /\ f \in Pending /\ Asked(f) = front[f] /\ Pending' = Pending \ {f}
         /\ DOMAIN front' = DOMAIN front \ {f} /\ next' = next
         /\ \A p \in Pending' : Asked(p)' = Asked(p)
  <1>1. /\ f \in DOMAIN front /\ DOMAIN front' = DOMAIN front \ {f} /\ next' = next
        /\ \A n \in DOMAIN front \ {f} : front'[n] = front[n]
    <2>1. IsListing(front, Folders) /\ front' = Without(front, f) /\ next' = next
          /\ f \in DOMAIN front
      BY DEF EmitCached, TypeOK
    <2> QED BY <2>1 DEF Without
  <1> QED BY <1>1 DEF Pending, Asked, SideBySide

\* The subfolders that a listing of f adds to the next level.
NewBelow(f) == {c \in KidsOf(f) \cap Folders : etag[c] # 0 /\ c \notin ignored}

\* They are new to the walk.
LEMMA PendingListed ==
  ASSUME TypeOK, SideBySide, NEW f \in Folders, ListFolder(f)
  PROVE  /\ f \in Pending /\ Asked(f) = front[f]
         /\ Pending' = (Pending \ {f}) \cup NewBelow(f)
         /\ DOMAIN front' = DOMAIN front \ {f}
         /\ DOMAIN next' = DOMAIN next \cup NewBelow(f)
         /\ \A c \in NewBelow(f) : c \notin Pending /\ Asked(c)' = etag[c]
         /\ \A p \in Pending \ {f} : Asked(p)' = Asked(p)
  <1> DEFINE new == NewBelow(f)
  <1>1. /\ f \in DOMAIN front /\ DOMAIN front' = DOMAIN front \ {f}
        /\ \A n \in DOMAIN front \ {f} : front'[n] = front[n]
    <2>1. IsListing(front, Folders) /\ front' = Without(front, f) /\ f \in DOMAIN front
      BY DEF ListFolder, TypeOK
    <2> QED BY <2>1 DEF Without
  <1>2. /\ DOMAIN next' = DOMAIN next \cup new
        /\ \A n \in DOMAIN next : next'[n] = next[n]
        /\ \A n \in new \ DOMAIN next : next'[n] = etag[n]
    <2> DEFINE l == OnlyFolders(Listing(f))
    <2>1. IsListing(next, Folders) /\ next' = Merge(next, l)
      BY DEF ListFolder, TypeOK
    <2>2. IsListing(l, Folders) /\ DOMAIN l = new /\ \A c \in new : l[c] = etag[c]
      BY ListedFolders DEF NewBelow
    <2> HIDE DEF l, new
    <2> QED BY <2>1, <2>2 DEF Merge
  <1>3. \A c \in new : c \notin Pending
    BY <1>1, Kids DEF SideBySide, Pending, NewBelow
  <1> HIDE DEF new
  <1>4. /\ f \in Pending /\ Asked(f) = front[f]
        /\ Pending' = (Pending \ {f}) \cup new
        /\ \A c \in new : c \notin Pending /\ Asked(c)' = etag[c]
        /\ \A p \in Pending \ {f} : Asked(p)' = Asked(p)
    BY <1>1, <1>2, <1>3 DEF Pending, Asked, SideBySide
  <1> QED BY <1>1, <1>2, <1>4 DEF new

LEMMA PendingFolders ==
  ASSUME TypeOK
  PROVE  Pending \subseteq Folders /\ \A p \in Pending : p \in Nodes /\ Asked(p) \in Nat
  BY DEF TypeOK, IsListing, Pending, Asked, Nodes

LEMMA SideStep ==
  ASSUME TypeOK, QuietOutside, SideBySide, [Next]_vars
  PROVE  SideBySide'
  <1>1. CASE pc' # "walking"
    BY <1>1, QuietStep DEF QuietOutside, Pending, Empty, SideBySide
  <1>2. CASE UNCHANGED vars
    BY <1>2 DEF vars, walk, Pending, SideBySide
  <1>3. CASE Cloud
    BY <1>3, CloudChanges, ChangeDo DEF Pending, SideBySide
  <1>4. CASE Opens \/ \E f \in Folders : RestartUncached(f)
    BY <1>4, PendingAtStart, WalkCacheAssumption DEF SideBySide
  <1>5. CASE NextLevel
    BY <1>5, PendingNextLevel DEF SideBySide
  <1>6. ASSUME NEW f \in Folders, EmitCached(f)
        PROVE  SideBySide'
    BY <1>6, PendingServed DEF SideBySide
  <1>7. ASSUME NEW f \in Folders, ListFolder(f)
        PROVE  SideBySide'
    <2> DEFINE new == NewBelow(f)
    <2>1. /\ f \in Pending
          /\ Pending' = (Pending \ {f}) \cup new
          /\ DOMAIN front' = DOMAIN front \ {f} /\ DOMAIN next' = DOMAIN next \cup new
          /\ \A c \in new : c \notin Pending
      BY <1>7, PendingListed
    <2>2. \A c \in new : Above[c] = {f} \cup Above[f] /\ f \notin Above[f] /\ c \notin Path(f)
      BY Kids DEF NewBelow
    <2>3. \A p \in Pending : p \in Nodes /\ f \notin Above[p] /\ p \notin Above[f]
      BY <2>1, PendingFolders DEF SideBySide
    <2> HIDE DEF new
    <2>4. ASSUME NEW p \in Pending \ {f}, NEW c \in new
          PROVE  p \notin Above[c] /\ c \notin Above[p]
      BY <2>2, <2>3, AboveIsWhole
    <2>5. DOMAIN front' \cap DOMAIN next' = {}
      BY <2>1 DEF SideBySide, Pending
    <2>6. \A p, q \in Pending' : p \notin Above[q]
      BY <2>1, <2>2, <2>4 DEF SideBySide, Path
    <2> QED BY <2>5, <2>6 DEF SideBySide
  <1> QED BY <1>1, <1>2, <1>3, <1>4, <1>5, <1>6, <1>7, WalkSteps

LEMMA EtagStep ==
  ASSUME TypeOK, CloudIsTree, QuietOutside, SideBySide, EtagsArePast, [Next]_vars
  PROVE  EtagsArePast'
  <1> USE RootThere
  <1>0. /\ rev \in Nat /\ \A n \in Nodes : etag[n] \in Nat /\ etag[n] <= rev
        /\ \A f \in Folders : f \in Nodes /\ cetag[f] \in Nat /\ cetag[f] <= rev
        /\ rootEtag \in Nat /\ rootEtag <= rev
        /\ \A p \in Pending : Asked(p) \in Nat /\ Asked(p) <= rev
    BY PendingFolders DEF TypeOK, CloudIsTree, EtagsArePast, IsCache, Nodes
  <1> DEFINE SavedPast(s) == s # None => \A f \in Folders : s.etags[f] <= rev
  <1>1. ASSUME [Next]_vars, ~Cloud
        PROVE  /\ \A f \in Folders : cetag'[f] <= rev'
               /\ SavedPast(saved') /\ rootEtag' <= rev'
    <2>1. rev' = rev /\ SavedPast(saved)
      BY <1>1, CloudRests DEF EtagsArePast
    <2>2. CASE UNCHANGED vars
      BY <1>0, <2>1, <2>2 DEF vars, cache, walk
    <2>3. CASE CadenceElapses
      BY <1>0, <2>1, <2>3 DEF CadenceElapses, cache, walk
    <2>4. CASE \E d \in BOOLEAN, i \in Filters : Start(d, i)
      BY <1>0, <2>1, <2>4 DEF Start, DropCache, NoEtags, walk
    <2>5. CASE Stop \/ Kill
      <3>1. /\ \A f \in Folders : cetag'[f] <= rev'
            /\ rootEtag' <= rev'
        <4>1. cetag' = [f \in Folders |-> 0] /\ rootEtag' = 0
          BY <2>5, GoneDo DEF Stop, Kill, NoEtags
        <4> QED BY <1>0, <2>1, <4>1
      <3>2. \/ saved' = saved \/ saved' = None
            \/ saved' = [etags |-> cetag, kids |-> ckids, failed |-> failed,
                         filtered |-> filtered]
        BY <2>5 DEF Stop, Kill
      <3> QED BY <1>0, <2>1, <3>1, <3>2
    <2>6. CASE Opens
      BY <1>0, <2>1, <2>6, OpenDo
    <2>10. CASE Prepares
      <3>1. SavedPast(saved')
        <4>1. CASE saved' = saved
          BY <2>1, <4>1
        <4>2. CASE saved # None /\ saved' = Outlived(saved)
          BY <2>1, <4>2, OutlivedIsSame
        <4> QED BY <2>10, <4>1, <4>2, PrepareDo DEF Outlived
      <3>2. rootEtag' = rootEtag /\ \A f \in Folders : cetag'[f] \in {0, cetag[f]}
        BY <2>10, PrepareDo DEF NoEtags
      <3> QED BY <1>0, <2>1, <3>1, <3>2
    <2>7. CASE NextLevel \/ FinishWalk
      BY <1>0, <2>1, <2>7 DEF NextLevel, FinishWalk, EndWalk, cache
    <2>8. CASE \E f \in Folders : EmitCached(f) \/ RestartUncached(f) \/ ListFails(f)
      BY <1>0, <2>1, <2>8 DEF EmitCached, RestartUncached, ListFails, EndWalk, cache,
                              DropCache, NoEtags
    <2>9. ASSUME NEW f \in Folders, ListFolder(f)
          PROVE  /\ \A g \in Folders : cetag'[g] <= rev'
                 /\ SavedPast(saved') /\ rootEtag' <= rev'
      <3>1. front[f] <= rev
        <4>1. f \in Pending /\ Asked(f) = front[f]
          BY <2>9, PendingListed
        <4> QED BY <1>0, <4>1
      <3> QED BY <1>0, <2>1, <2>9, <3>1 DEF ListFolder, TypeOK, IsCache
    <2> QED BY <1>1, <2>2, <2>3, <2>4, <2>5, <2>6, <2>7, <2>8, <2>9, <2>10
            DEF Next, Walk, Opens, Prepares
  <1>2. CASE Cloud
    <2>1. /\ rev' = rev + 1
          /\ UNCHANGED <<cetag, saved, rootEtag, front, next>>
      BY <1>2, CloudChanges, ChangeDo
    <2>2. \A p \in Pending' : p \in Pending /\ Asked(p)' = Asked(p)
      BY <2>1 DEF Pending, Asked
    <2>3. saved # None => \A f \in Folders : saved.etags[f] \in Nat /\ saved.etags[f] <= rev
      BY DEF TypeOK, IsCache, EtagsArePast
    <2> QED BY <1>0, <2>1, <2>2, <2>3 DEF EtagsArePast
  <1>3. CASE ~Cloud
    <2>1. rev' = rev
      BY <1>3, CloudRests
    <2>2. \A p \in Pending' : Asked(p)' <= rev
      <3>1. CASE pc' # "walking"
        BY <3>1, QuietStep DEF QuietOutside, Pending, Empty
      <3>2. CASE UNCHANGED vars
        <4>1. UNCHANGED <<front, next>>
          BY <3>2 DEF vars, walk
        <4>2. \A p \in Pending' : p \in Pending /\ Asked(p)' = Asked(p)
          BY <4>1 DEF Pending, Asked
        <4> QED BY <1>0, <4>2
      <3>3. CASE Opens \/ \E f \in Folders : RestartUncached(f)
        BY <1>0, <3>3, PendingAtStart, OpenDo DEF RestartUncached
      <3>4. CASE NextLevel
        <4>1. \A p \in Pending' : p \in Pending /\ Asked(p)' = Asked(p)
          BY <3>4, PendingNextLevel
        <4> QED BY <1>0, <4>1
      <3>5. ASSUME NEW f \in Folders, EmitCached(f)
            PROVE  \A p \in Pending' : Asked(p)' <= rev
        <4>1. \A p \in Pending' : p \in Pending /\ Asked(p)' = Asked(p)
          BY <3>5, PendingServed
        <4> QED BY <1>0, <4>1
      <3>6. ASSUME NEW f \in Folders, ListFolder(f)
            PROVE  \A p \in Pending' : Asked(p)' <= rev
        <4>1. /\ Pending' = (Pending \ {f}) \cup NewBelow(f)
              /\ \A c \in NewBelow(f) : Asked(c)' = etag[c]
              /\ \A p \in Pending \ {f} : Asked(p)' = Asked(p)
          BY <3>6, PendingListed
        <4>2. NewBelow(f) \subseteq Nodes
          BY DEF NewBelow, Nodes
        <4> QED BY <1>0, <4>1, <4>2
      <3> QED BY <1>3, <3>1, <3>2, <3>3, <3>4, <3>5, <3>6, WalkSteps
    <2> QED BY <1>1, <1>3, <2>1, <2>2 DEF EtagsArePast
  <1> QED BY <1>2, <1>3

-----------------------------------------------------------------------------
(* The recorded ignore set, and the window.                                *)

LEMMA IgnoredNodes ==
  ASSUME TypeOK
  PROVE  ignored \subseteq Nodes \ {Root}
  BY WalkCacheAssumption DEF TypeOK

LEMMA HiddenMore ==
  ASSUME TypeOK
  PROVE  /\ Hidden(filtered \cup (ignored \X {boot})) = Hidden(filtered) \cup ignored
         /\ Hidden(ignored \X {boot}) = ignored
  <1>1. boot \in BOOLEAN
    BY DEF TypeOK
  <1> QED BY <1>1, IgnoredNodes DEF Hidden

LEMMA FilterStep ==
  ASSUME TypeOK, FiltersRecorded, [Next]_vars
  PROVE  FiltersRecorded'
  <1> USE DEF FiltersRecorded
  <1>1. CASE UNCHANGED vars
    BY <1>1 DEF vars, cache, process
  <1>2. CASE Cloud
    BY <1>2, CloudChanges, ChangeDo
  <1>3. CASE CadenceElapses
    BY <1>3 DEF CadenceElapses, cache, process
  <1>4. ASSUME NEW d \in BOOLEAN, NEW i \in Filters, Start(d, i)
        PROVE  FiltersRecorded'
    BY <1>4 DEF Start, DropCache
  <1>5. CASE Stop \/ Kill
    <2>1. /\ pc' = "down" /\ filtered' = {} /\ hash' = hash
      BY <1>5, GoneDo DEF Stop, Kill
    <2>2. \/ saved' = saved \/ saved' = None
          \/ saved' = [etags |-> cetag, kids |-> ckids, failed |-> failed,
                       filtered |-> filtered]
      BY <1>5 DEF Stop, Kill
    <2>3. CASE saved' = saved \/ saved' = None
      BY <2>1, <2>3
    <2>4. CASE saved' = [etags |-> cetag, kids |-> ckids, failed |-> failed,
                         filtered |-> filtered]
      <3>1. saved'.filtered = filtered
        BY <2>4
      <3> QED BY <2>1, <3>1
    <2> QED BY <2>2, <2>3, <2>4
  <1>6. CASE StartPass
    <2>1. /\ pc' = "walking" /\ UNCHANGED <<boot, ignored, filtered, saved>>
          /\ hash' = (IF boot THEN hash ELSE ignored) /\ ~FilterChanged
          /\ boot \in BOOLEAN /\ ignored \in Filters /\ ignored # None
      BY <1>6, WalkCacheAssumption DEF StartPass, BeginWalk, cache, process, TypeOK
    <2> QED BY <2>1 DEF FilterChanged
  <1>12. CASE HeedFilters
    <2>1. /\ pc' = "unsave" /\ UNCHANGED <<boot, ignored>> /\ ~boot
          /\ hash' = ignored /\ filtered' = {} /\ saved' = Outlived(saved)
      BY <1>12 DEF HeedFilters, FilterChanged, DropCache, process
    <2>2. Outlived(None) = None
      BY DEF Outlived
    <2> QED BY <2>1, <2>2, OutlivedIsSame
  <1>13. CASE Unsave
    BY <1>13, OpenDo DEF Unsave, Opens, BeginWalk, cache, process
  <1>14. CASE PassFails
    BY <1>14 DEF PassFails, cache
  <1>7. CASE NextLevel
    BY <1>7 DEF NextLevel, cache, process
  <1>8. CASE FinishWalk
    <2>1. /\ pc = "walking" /\ pc' = "idle" /\ hash' = hash /\ saved' = saved
          /\ filtered' = filtered \/ filtered' = ignored \X {boot}
          /\ boot \in BOOLEAN /\ ignored \in Filters /\ ignored # None
      BY <1>8, WalkCacheAssumption DEF FinishWalk, WalkDone, EndWalk, TypeOK
    <2> QED BY <2>1
  <1>9. ASSUME NEW f \in Folders, EmitCached(f) \/ ListFails(f)
        PROVE  FiltersRecorded'
    BY <1>9 DEF EmitCached, ListFails, EndWalk, cache, process
  <1>10. ASSUME NEW f \in Folders, RestartUncached(f)
         PROVE  FiltersRecorded'
    BY <1>10 DEF RestartUncached, DropCache, process
  <1>11. ASSUME NEW f \in Folders, ListFolder(f)
         PROVE  FiltersRecorded'
    <2>1. /\ pc = "walking" /\ UNCHANGED <<pc, boot, ignored, hash, saved>>
          /\ filtered' = filtered \cup (ignored \X {boot})
          /\ boot \in BOOLEAN /\ ignored \in Filters /\ ignored # None
      BY <1>11, WalkCacheAssumption DEF ListFolder, process, TypeOK
    <2> QED BY <2>1
  <1> QED BY <1>1, <1>2, <1>3, <1>4, <1>5, <1>6, <1>7, <1>8, <1>9, <1>10, <1>11,
             <1>12, <1>13, <1>14 DEF Next, Walk

LEMMA WindowStep ==
  ASSUME TypeOK, WindowIsOpen, [Next]_vars
  PROVE  WindowIsOpen'
  <1> SUFFICES ASSUME pc' = "walking"
               PROVE  \A g \in Files : etag'[g] \in during'[g]
    BY DEF WindowIsOpen
  <1>1. CASE UNCHANGED vars
    BY <1>1 DEF vars, cloud, WindowIsOpen
  <1>2. CASE Cloud
    BY <1>2, CloudChanges, ChangeDo
  <1>3. CASE Opens
    BY <1>3, OpenDo
  <1>4. CASE pc = "walking" /\ \/ NextLevel
                               \/ \E f \in Folders :
                                     EmitCached(f) \/ RestartUncached(f) \/ ListFolder(f)
    BY <1>4 DEF NextLevel, EmitCached, RestartUncached, ListFolder, cloud, WindowIsOpen
  <1> QED BY <1>1, <1>2, <1>3, <1>4, WalkSteps

-----------------------------------------------------------------------------
(* What the cache holds.                                                   *)

LEMMA RootAbove ==
  \A n \in Nodes : Root \in Path(n)
  <1> DEFINE S == {n \in Nodes : Root \notin Path(n)}
  <1> SUFFICES ASSUME S # {}
               PROVE  FALSE
    OBVIOUS
  <1>1. PICK n \in S : Above[n] \cap S = {}
    BY S \in SUBSET Nodes, WalkCacheAssumption
  <1>2. n \in Nodes /\ n # Root
    BY <1>1 DEF Path
  <1>3. Root \in Path(Parent[n])
    BY <1>1, <1>2, ItsFolder
  <1> QED BY <1>1, <1>2, <1>3, ItsFolder DEF Path

\* A cached listing is as it was if neither it nor what it lists has changed.
LEMMA FreshStays ==
  ASSUME NEW d \in Folders, NEW h, NEW i, h \subseteq i,
         ckids[d] # None => DOMAIN ckids[d] \subseteq KidsOf(d),
         ckids'[d] = ckids[d], \A k \in KidsOf(d) : etag'[k] = etag[k],
         Fresh(ckids, d, h)
  PROVE  /\ ckids'[d] # None
         /\ \A k \in DOMAIN ckids'[d] : etag'[k] # 0 /\ ckids'[d][k] = etag'[k]
         /\ \A k \in KidsOf(d) \ i : etag'[k] # 0 => k \in DOMAIN ckids'[d]
  BY DEF Fresh

LEMMA CachedKids ==
  ASSUME TypeOK
  PROVE  \A d \in Folders : ckids[d] # None => DOMAIN ckids[d] \subseteq KidsOf(d)
  BY DEF TypeOK, IsCache, IsListing

LEMMA SavedKids ==
  ASSUME TypeOK, saved # None
  PROVE  \A d \in Folders : saved.kids[d] # None => DOMAIN saved.kids[d] \subseteq KidsOf(d)
  BY DEF TypeOK, IsCache, IsListing

\* An old etag stands for an old subtree.
LEMMA OldBelow ==
  ASSUME TypeOK, Cloud, NEW f \in Folders, NEW d \in Folders, f \in Path(d),
         etag'[f] # 0, etag'[f] <= rev
  PROVE  /\ etag'[f] = etag[f] /\ etag'[d] = etag[d]
         /\ \A k \in KidsOf(d) : etag'[k] = etag[k]
  <1>1. f \in Nodes /\ d \in Nodes /\ f \in Path(f)
    BY DEF Nodes, Path
  <1>2. \A k \in KidsOf(d) : k \in Nodes /\ f \in Path(k)
    BY Kids DEF Path
  <1> QED BY <1>1, <1>2, OldEtagOldTree

LEMMA SavedStep ==
  ASSUME TypeOK, QuietOutside, EtagsArePast, CacheIsSound, SavedIsSound, [Next]_vars
  PROVE  SavedIsSound'
  <1>1. CASE Cloud
    <2>1. saved' = saved
      BY <1>1, CloudChanges, ChangeDo
    <2> SUFFICES ASSUME saved # None, ~saved.failed, NEW f \in Folders, NEW d \in Folders,
                        saved.etags[f] # 0, saved.etags[f] = etag'[f], f \in Path(d),
                        etag'[d] # 0, Path(d) \cap Hidden(saved.filtered) = {}
                 PROVE  Fresh(saved.kids, d, Hidden(saved.filtered))'
      BY <2>1 DEF SavedIsSound, Vouched, Known
    <2>2. etag'[f] <= rev
      BY DEF EtagsArePast
    <2>3. /\ etag'[f] = etag[f] /\ etag'[d] = etag[d]
          /\ \A k \in KidsOf(d) : etag'[k] = etag[k]
      BY <1>1, <2>2, OldBelow
    <2>4. Fresh(saved.kids, d, Hidden(saved.filtered))
      BY <2>3 DEF SavedIsSound, Vouched, Known
    <2>5. Hidden(saved.filtered)' = Hidden(saved.filtered)
      BY <2>1 DEF Hidden
    <2> QED BY <2>1, <2>3, <2>4, <2>5, SavedKids DEF Fresh
  <1>2. CASE ~Cloud
    <2>1. etag' = etag
      BY <1>2, CloudRests
    <2>2. \/ saved' = saved \/ saved' = None \/ saved' = Outlived(saved)
          \/ /\ pc = "idle"
             /\ saved' = [etags |-> cetag, kids |-> ckids, failed |-> failed,
                          filtered |-> filtered]
      <3>1. CASE UNCHANGED vars
        BY <3>1 DEF vars
      <3>2. CASE Walk
        BY <3>2 DEF Walk, NextLevel, FinishWalk, EmitCached, RestartUncached,
                    ListFolder, ListFails
      <3>3. CASE CadenceElapses \/ \E d \in BOOLEAN, i \in Filters : Start(d, i)
        BY <3>3 DEF CadenceElapses, Start
      <3>5. CASE Opens \/ Prepares
        BY <3>5, OpenDo, PrepareDo
      <3>4. CASE Stop \/ Kill
        BY <3>4 DEF Stop, Kill
      <3> QED BY <1>2, <3>1, <3>2, <3>3, <3>4, <3>5 DEF Next, Opens, Prepares
    <2>3. CASE saved' = saved
      BY <2>1, <2>3 DEF SavedIsSound, Vouched, Known, Fresh, Hidden
    <2>4. CASE saved' = None
      BY <2>4 DEF SavedIsSound
    <2>6. CASE saved' = Outlived(saved)
      <3>1. CASE saved = None
        BY <2>6, <3>1 DEF Outlived, SavedIsSound
      <3>2. CASE saved # None
        <4>1. /\ saved'.etags = saved.etags /\ saved'.kids = saved.kids
              /\ saved'.failed = saved.failed
              /\ Hidden(saved.filtered)' = Hidden(saved.filtered)
          BY <2>6, <3>2, OutlivedIsSame DEF Hidden
        <4> QED BY <2>1, <3>2, <4>1 DEF SavedIsSound, Vouched, Known, Fresh
      <3> QED BY <3>1, <3>2
    <2>5. CASE /\ pc = "idle"
               /\ saved' = [etags |-> cetag, kids |-> ckids, failed |-> failed,
                            filtered |-> filtered]
      <3>1. Pending = {}
        BY <2>5, NothingPending
      <3>2. /\ saved'.etags = cetag /\ saved'.kids = ckids /\ saved'.failed = failed
            /\ saved'.filtered = filtered
        BY <2>5
      <3> QED BY <2>1, <3>1, <3>2 DEF CacheIsSound, SavedIsSound, Vouched, Known, Fresh,
                                      Hidden
    <2> QED BY <2>2, <2>3, <2>4, <2>5, <2>6
  <1> QED BY <1>1, <1>2

LEMMA SoundAfterCloud ==
  ASSUME TypeOK, EtagsArePast, CacheIsSound, Cloud
  PROVE  CacheIsSound'
  <1>1. UNCHANGED <<cetag, ckids, failed, filtered, front, next>>
    BY CloudChanges, ChangeDo
  <1>2. Pending' = Pending /\ Hidden(filtered)' = Hidden(filtered)
    BY <1>1 DEF Pending, Hidden
  <1> SUFFICES ASSUME ~failed, NEW f \in Folders, NEW d \in Folders,
                      cetag[f] # 0, cetag[f] = etag'[f], f \in Path(d), etag'[d] # 0,
                      Path(d) \cap Hidden(filtered) = {},
                      ~\E p \in Pending : f \in Above[p] /\ p \in Path(d)
               PROVE  Fresh(ckids, d, Hidden(filtered))'
    BY <1>1, <1>2 DEF CacheIsSound, Vouched, Known
  <1>3. /\ etag'[f] = etag[f] /\ etag'[d] = etag[d]
        /\ \A k \in KidsOf(d) : etag'[k] = etag[k]
    BY OldBelow DEF EtagsArePast
  <1>4. Fresh(ckids, d, Hidden(filtered))
    BY <1>3 DEF CacheIsSound, Vouched, Known
  <1> QED BY <1>1, <1>2, <1>3, <1>4, CachedKids DEF Fresh

\* A folder below the listed one hangs on one of the subfolders just found.
LEMMA HangsOnNew ==
  ASSUME CloudIsTree, NEW x \in Folders, NEW d \in Folders, NEW h,
         x \in Path(d), d # x, Known(d, h), ignored \subseteq h
  PROVE  \E c \in NewBelow(x) : c \in Path(d)
  <1>1. d \in Nodes /\ x \in Above[d]
    BY DEF Nodes, Path
  <1>2. PICK c \in Path(d) : c \in KidsOf(x) /\ (c = d \/ c \in Folders)
    BY <1>1, WayDown
  <1>3. etag[c] # 0
    BY <1>1, <1>2 DEF CloudIsTree, Known, Path
  <1> QED BY <1>2, <1>3 DEF NewBelow, Known

\* The folder just listed is cached as it is.
LEMMA ListedIsFresh ==
  ASSUME TypeOK, NEW x \in Folders, ListFolder(x), NEW h, ignored \subseteq h
  PROVE  /\ ckids'[x] # None
         /\ \A k \in DOMAIN ckids'[x] : etag'[k] # 0 /\ ckids'[x][k] = etag'[k]
         /\ \A k \in KidsOf(x) \ h : etag'[k] # 0 => k \in DOMAIN ckids'[x]
  <1>1. ckids'[x] = Listing(x) /\ etag' = etag
    BY DEF ListFolder, cloud, TypeOK, IsCache
  <1> QED BY <1>1, Listed

LEMMA ListFolderDo ==
  ASSUME TypeOK, NEW x \in Folders, ListFolder(x)
  PROVE  /\ UNCHANGED <<etag, rev, failed, due, saved, hash, pc, boot, daemon, ignored,
                        useCache, rootEtag, view, during>>
         /\ pc = "walking" /\ x \in DOMAIN front /\ ~Matches(x)
         /\ cetag'[x] = front[x]
         /\ \A f \in Folders \ {x} : cetag'[f] = cetag[f] /\ ckids'[f] = ckids[f]
         /\ filtered' = filtered \cup (ignored \X {boot})
         /\ Hidden(filtered') = Hidden(filtered) \cup ignored
         /\ out' = Merge(out, Listing(x))
  BY HiddenMore DEF ListFolder, cloud, process, TypeOK, IsCache

LEMMA SoundAfterListing ==
  ASSUME TypeOK, CloudIsTree, SideBySide, CacheIsSound, NEW x \in Folders, ListFolder(x)
  PROVE  CacheIsSound'
  <1> DEFINE H == Hidden(filtered) \cup ignored
  <1>1. /\ etag' = etag /\ failed' = failed /\ Hidden(filtered') = H
        /\ \A f \in Folders \ {x} : cetag'[f] = cetag[f] /\ ckids'[f] = ckids[f]
    BY ListFolderDo
  <1>2. Pending' = (Pending \ {x}) \cup NewBelow(x)
    BY PendingListed
  <1> SUFFICES ASSUME ~failed, NEW f \in Folders, NEW d \in Folders,
                      cetag'[f] # 0, cetag'[f] = etag[f], f \in Path(d),
                      Known(d, H), ~\E p \in Pending' : f \in Above[p] /\ p \in Path(d)
               PROVE  /\ ckids'[d] # None
                      /\ \A k \in DOMAIN ckids'[d] : etag'[k] # 0 /\ ckids'[d][k] = etag'[k]
                      /\ \A k \in KidsOf(d) \ H : etag'[k] # 0 => k \in DOMAIN ckids'[d]
    BY <1>1 DEF CacheIsSound, Vouched, Known, Fresh
  <1>3. CASE d = x
    BY <1>3, ListedIsFresh
  <1>4. CASE d # x
    <2>1. x \in Path(d) => \E c \in NewBelow(x) : c \in Path(d)
      BY <1>4, HangsOnNew
    <2>2. \A c \in NewBelow(x) : Above[c] = {x} \cup Above[x]
      BY Kids DEF NewBelow
    <2>3. f # x
      BY <1>2, <2>1, <2>2
    <2>4. ~\E p \in Pending : f \in Above[p] /\ p \in Path(d)
      BY <1>2, <2>1, <2>2
    <2>5. Fresh(ckids, d, Hidden(filtered))
      BY <1>1, <2>3, <2>4 DEF CacheIsSound, Vouched, Known
    <2>6. ckids'[d] = ckids[d] /\ \A k \in KidsOf(d) : etag'[k] = etag[k]
      BY <1>1, <1>4
    <2> QED BY <2>5, <2>6, FreshStays, CachedKids
  <1> QED BY <1>3, <1>4

LEMMA SoundAfterServing ==
  ASSUME TypeOK, SideBySide, CacheIsSound, AskedIsCurrent, NEW x \in Folders, EmitCached(x)
  PROVE  CacheIsSound'
  <1>1. UNCHANGED <<etag, cetag, ckids, failed, filtered>> /\ cetag[x] = front[x]
        /\ front[x] # 0
    BY DEF EmitCached, Matches, cloud, cache
  <1>2. x \in Pending /\ Asked(x) = front[x] /\ Pending' = Pending \ {x}
    BY PendingServed
  <1> SUFFICES ASSUME ~failed, NEW f \in Folders, NEW d \in Folders,
                      Vouched(cetag, f), f \in Path(d), Known(d, Hidden(filtered)),
                      ~\E p \in Pending' : f \in Above[p] /\ p \in Path(d)
               PROVE  Fresh(ckids, d, Hidden(filtered))
    BY <1>1 DEF CacheIsSound, Vouched, Known, Fresh, Hidden
  <1>3. CASE ~\E p \in Pending : f \in Above[p] /\ p \in Path(d)
    BY <1>3 DEF CacheIsSound
  <1>4. CASE \E p \in Pending : f \in Above[p] /\ p \in Path(d)
    <2>1. f \in Above[x] /\ x \in Path(d)
      BY <1>2, <1>4
    <2>2. Vouched(cetag, x)
      BY <1>1, <1>2, <2>1 DEF AskedIsCurrent, Vouched
    <2>3. ~\E p \in Pending : x \in Above[p] /\ p \in Path(d)
      BY <1>2 DEF SideBySide
    <2> QED BY <2>1, <2>2, <2>3 DEF CacheIsSound
  <1> QED BY <1>3, <1>4

LEMMA DroppedIsSound ==
  ASSUME cetag' = NoEtags
  PROVE  CacheIsSound'
  BY DEF CacheIsSound, Vouched, NoEtags

\* A cache that stays as it is stays sound while nothing new is served.
LEMMA SameIsSound ==
  ASSUME CacheIsSound, UNCHANGED <<etag, cetag, ckids, failed, filtered>>,
         Pending \subseteq Pending'
  PROVE  CacheIsSound'
  BY DEF CacheIsSound, Vouched, Known, Fresh, Hidden

LEMMA SoundStep ==
  ASSUME TypeOK, CloudIsTree, EtagsArePast, QuietOutside, SideBySide, CacheIsSound,
         SavedIsSound, RebuiltIsSound, AskedIsCurrent, [Next]_vars
  PROVE  CacheIsSound'
  <1>1. CASE UNCHANGED vars
    BY <1>1, SameIsSound DEF vars, cloud, cache, walk, Pending
  <1>2. CASE Cloud
    BY <1>2, SoundAfterCloud
  <1>3. CASE CadenceElapses
    BY <1>3, SameIsSound DEF CadenceElapses, cloud, cache, walk, Pending
  <1>4. ASSUME NEW d \in BOOLEAN, NEW i \in Filters, Start(d, i)
        PROVE  CacheIsSound'
    <2>1. CASE d /\ saved # None
      <3>1. /\ cetag' = saved.etags /\ ckids' = saved.kids /\ failed' = saved.failed
            /\ filtered' = saved.filtered /\ etag' = etag
        BY <1>4, <2>1 DEF Start, cloud
      <3> QED BY <2>1, <3>1 DEF SavedIsSound, CacheIsSound, Vouched, Known, Fresh, Hidden
    <2>2. CASE ~(d /\ saved # None)
      BY <1>4, <2>2, DroppedIsSound DEF Start, DropCache
    <2> QED BY <2>1, <2>2
  <1>5. CASE Stop \/ Kill
    BY <1>5, GoneDo, DroppedIsSound DEF Stop, Kill
  <1>6. CASE Opens
    <2>1. Pending = {}
      BY <1>6, OpenDo, NothingPending
    <2> QED BY <1>6, <2>1, OpenDo, SameIsSound
  <1>13. CASE Prepares
    <2>1. Pending' = Pending /\ etag' = etag
      BY <1>13, PrepareDo DEF Pending
    <2> QED BY <1>13, <2>1, PrepareDo, SameIsSound, DroppedIsSound
  <1>7. CASE NextLevel
    BY <1>7, PendingNextLevel, SameIsSound DEF NextLevel, cloud, cache
  <1>8. CASE FinishWalk
    <2>1. Pending = {}
      BY <1>8 DEF FinishWalk, WalkDone, Pending, Empty
    <2>2. CASE useCache
      <3>1. failed' = failed
        <4>1. failed' = (failed /\ useCache) /\ failed \in BOOLEAN
          BY <1>8 DEF FinishWalk, TypeOK, IsCache
        <4> QED BY <2>2, <4>1, Zenon
      <3>2. UNCHANGED <<etag, cetag, ckids, filtered>>
        BY <1>8, <2>2 DEF FinishWalk, cloud
      <3> QED BY <2>1, <3>1, <3>2, SameIsSound
    <2>3. CASE ~useCache
      <3>1. /\ etag' = etag /\ cetag' = cetag /\ ckids' = ckids /\ pc = "walking"
            /\ Hidden(filtered') = ignored
        BY <1>8, <2>3, HiddenMore DEF FinishWalk, WalkDone, cloud
      <3> SUFFICES ASSUME NEW f \in Folders, NEW d \in Folders, Vouched(cetag, f),
                          f \in Path(d), Known(d, ignored)
                   PROVE  Fresh(ckids, d, ignored)
        BY <3>1 DEF CacheIsSound, Vouched, Known, Fresh
      <3> QED BY <2>1, <2>3, <3>1 DEF RebuiltIsSound
    <2> QED BY <2>2, <2>3
  <1>9. ASSUME NEW f \in Folders, EmitCached(f)
        PROVE  CacheIsSound'
    BY <1>9, SoundAfterServing
  <1>10. ASSUME NEW f \in Folders, RestartUncached(f)
         PROVE  CacheIsSound'
    BY <1>10, DroppedIsSound DEF RestartUncached, DropCache
  <1>11. ASSUME NEW f \in Folders, ListFolder(f)
         PROVE  CacheIsSound'
    BY <1>11, SoundAfterListing
  <1>12. ASSUME NEW f \in Folders, ListFails(f)
         PROVE  CacheIsSound'
    BY <1>12 DEF ListFails, CacheIsSound
  <1> QED BY <1>1, <1>2, <1>3, <1>4, <1>5, <1>6, <1>7, <1>8, <1>9, <1>10, <1>11, <1>12, <1>13
          DEF Next, Walk, Opens, Prepares

LEMMA RebuiltStep ==
  ASSUME TypeOK, CloudIsTree, EtagsArePast, SideBySide, RebuiltIsSound, [Next]_vars
  PROVE  RebuiltIsSound'
  <1> SUFFICES ASSUME pc' = "walking", ~useCache',
                      NEW f \in Folders, NEW d \in Folders,
                      cetag'[f] # 0, cetag'[f] = etag'[f], f \in Path(d),
                      etag'[d] # 0, Path(d) \cap ignored' = {}, Path(d) \cap Pending' = {}
               PROVE  Fresh(ckids, d, ignored)'
    BY DEF RebuiltIsSound, Vouched, Known
  <1>1. CASE pc = "walking" /\ UNCHANGED vars
    BY <1>1 DEF vars, cloud, cache, process, walk, Pending, RebuiltIsSound, Vouched,
                Known, Fresh
  <1>2. CASE pc = "walking" /\ Cloud
    <2>1. UNCHANGED <<cetag, ckids, ignored, useCache, front, next>>
      BY <1>2, CloudChanges, ChangeDo
    <2>2. /\ etag'[f] = etag[f] /\ etag'[d] = etag[d]
          /\ \A k \in KidsOf(d) : etag'[k] = etag[k]
      BY <1>2, <2>1, OldBelow DEF EtagsArePast
    <2>3. Fresh(ckids, d, ignored)
      BY <1>2, <2>1, <2>2 DEF RebuiltIsSound, Vouched, Known, Pending
    <2> QED BY <2>1, <2>2, <2>3, CachedKids DEF Fresh
  <1>3. CASE Opens \/ \E x \in Folders : RestartUncached(x)
    BY <1>3, PendingAtStart, RootAbove DEF Nodes
  <1>4. CASE pc = "walking" /\ NextLevel
    <2>1. UNCHANGED <<etag, cetag, ckids, ignored, useCache>> /\ Pending' = Pending
      BY <1>4, PendingNextLevel DEF NextLevel, cloud, cache, process
    <2> QED BY <1>4, <2>1 DEF RebuiltIsSound, Vouched, Known, Fresh
  <1>5. CASE \E x \in Folders : EmitCached(x)
    BY <1>5 DEF EmitCached, Matches
  <1>6. ASSUME NEW x \in Folders, ListFolder(x)
        PROVE  Fresh(ckids, d, ignored)'
    <2>1. /\ pc = "walking" /\ UNCHANGED <<etag, ignored, useCache>>
          /\ \A g \in Folders \ {x} : cetag'[g] = cetag[g] /\ ckids'[g] = ckids[g]
      BY <1>6, ListFolderDo
    <2>2. Pending' = (Pending \ {x}) \cup NewBelow(x)
      BY <1>6, PendingListed
    <2>3. CASE d = x
      BY <1>6, <2>1, <2>3, ListedIsFresh DEF Fresh
    <2>4. CASE d # x
      <3>1. x \notin Path(d)
        BY <2>1, <2>2, <2>4, HangsOnNew DEF Known
      <3>2. f # x /\ Path(d) \cap Pending = {}
        BY <2>2, <3>1
      <3>3. Fresh(ckids, d, ignored)
        BY <2>1, <3>2 DEF RebuiltIsSound, Vouched, Known
      <3> QED BY <2>1, <2>4, <3>3 DEF Fresh
    <2> QED BY <2>3, <2>4
  <1> QED BY <1>1, <1>2, <1>3, <1>4, <1>5, <1>6, WalkSteps

LEMMA AskedStep ==
  ASSUME TypeOK, EtagsArePast, QuietOutside, SideBySide, AskedIsCurrent, [Next]_vars
  PROVE  AskedIsCurrent'
  <1>0. \A p \in Pending : p \in Nodes /\ p \in Folders /\ \A f \in Above[p] : f \in Folders
    BY PendingFolders, FoldersAbove
  <1>1. CASE pc' # "walking"
    BY <1>1, QuietStep DEF QuietOutside, Pending, Empty, AskedIsCurrent
  <1>2. CASE UNCHANGED vars
    BY <1>2 DEF vars, cloud, cache, walk, Pending, Asked, AskedIsCurrent, Vouched
  <1>3. CASE Cloud
    <2>1. UNCHANGED <<cetag, front, next>>
      BY <1>3, CloudChanges, ChangeDo
    <2>2. ASSUME NEW p \in Pending, NEW f \in Above[p], Vouched(cetag, f)'
          PROVE  Asked(p) = etag'[p]
      <3>1. f \in Folders /\ p \in Folders /\ f \in Path(p)
        BY <1>0 DEF Path
      <3>2. etag'[f] # 0 /\ etag'[f] <= rev /\ etag'[f] = cetag[f]
        BY <2>1, <2>2, <3>1 DEF Vouched, EtagsArePast
      <3>3. etag'[f] = etag[f] /\ etag'[p] = etag[p]
        BY <1>3, <3>1, <3>2, OldBelow
      <3>4. Vouched(cetag, f)
        BY <3>2, <3>3 DEF Vouched
      <3> QED BY <3>3, <3>4 DEF AskedIsCurrent
    <2>3. Pending' = Pending /\ \A p \in Pending : Asked(p)' = Asked(p)
      BY <2>1 DEF Pending, Asked
    <2> QED BY <2>2, <2>3 DEF AskedIsCurrent
  <1>4. CASE Opens \/ \E x \in Folders : RestartUncached(x)
    BY <1>4, PendingAtStart, WalkCacheAssumption DEF AskedIsCurrent
  <1>5. CASE NextLevel
    <2>1. UNCHANGED <<etag, cetag>>
      BY <1>5 DEF NextLevel, cloud, cache
    <2> QED BY <1>5, <2>1, PendingNextLevel DEF AskedIsCurrent, Vouched
  <1>6. ASSUME NEW x \in Folders, EmitCached(x)
        PROVE  AskedIsCurrent'
    <2>1. UNCHANGED <<etag, cetag>>
      BY <1>6 DEF EmitCached, cloud, cache
    <2> QED BY <1>6, <2>1, PendingServed DEF AskedIsCurrent, Vouched
  <1>7. ASSUME NEW x \in Folders, ListFolder(x)
        PROVE  AskedIsCurrent'
    <2>1. etag' = etag /\ \A f \in Folders \ {x} : cetag'[f] = cetag[f]
      BY <1>7, ListFolderDo
    <2>2. /\ x \in Pending /\ Pending' = (Pending \ {x}) \cup NewBelow(x)
          /\ \A c \in NewBelow(x) : Asked(c)' = etag[c]
          /\ \A p \in Pending \ {x} : Asked(p)' = Asked(p)
      BY <1>7, PendingListed
    <2>3. ASSUME NEW p \in Pending \ {x}, NEW f \in Above[p], Vouched(cetag, f)'
          PROVE  Asked(p)' = etag'[p]
      <3>1. f \in Folders \ {x}
        BY <1>0, <2>2 DEF SideBySide
      <3>2. Vouched(cetag, f)
        BY <2>1, <2>3, <3>1 DEF Vouched
      <3> QED BY <2>1, <2>2, <3>2 DEF AskedIsCurrent
    <2> QED BY <2>1, <2>2, <2>3 DEF AskedIsCurrent
  <1> QED BY <1>1, <1>2, <1>3, <1>4, <1>5, <1>6, <1>7, WalkSteps

-----------------------------------------------------------------------------
(* What the walk shows.                                                    *)

\* A sound cache serves the subtree of a folder whose etag stands: each file there
\* is with its etag, and no other.
LEMMA CacheServes ==
  ASSUME TypeOK, CloudIsTree, CacheIsSound, ~failed,
         NEW p \in Folders, Vouched(cetag, p), \A q \in Pending : p \notin Above[q],
         NEW g \in Files, p \in Above[g], Plain(g)
  PROVE  /\ g \in FromCache(p) => ckids[Parent[g]][g] = etag[g]
         /\ g \notin FromCache(p) => etag[g] = 0
  <1>0. g \in Nodes /\ p \in Nodes
    BY DEF Nodes
  <1>1. ASSUME NEW m \in Path(g), p \in Above[m]
        PROVE  /\ m \in KidsOf(Parent[m]) /\ Parent[m] \in Folders
               /\ Parent[m] \in Path(g) /\ p \in Path(Parent[m])
               /\ Parent[m] = p \/ p \in Above[Parent[m]]
    <2>1. m \in Nodes /\ m # Root
      BY <1>0, <1>1, PathIsWhole, FoldersAbove
    <2>2. Parent[m] \in Folders /\ Above[m] = {Parent[m]} \cup Above[Parent[m]]
      BY <2>1, ItsFolder
    <2>3. Above[m] \subseteq Above[g]
      BY <1>0, PathIsWhole
    <2> QED BY <1>1, <2>1, <2>2, <2>3 DEF KidsOf, Path
  <1>2. ASSUME NEW m \in Path(g), p \in Above[m], etag[Parent[m]] # 0
        PROVE  /\ ckids[Parent[m]] # None
               /\ m \in DOMAIN ckids[Parent[m]] <=> etag[m] # 0
               /\ m \in DOMAIN ckids[Parent[m]] => ckids[Parent[m]][m] = etag[m]
    <2>1. /\ m \in KidsOf(Parent[m]) /\ Parent[m] \in Folders
          /\ Parent[m] \in Path(g) /\ p \in Path(Parent[m])
      BY <1>1, <1>2
    <2>2. Path(Parent[m]) \subseteq Path(g)
      BY <1>0, <2>1, PathIsWhole
    <2>3. Known(Parent[m], Hidden(filtered)) /\ m \notin Hidden(filtered)
      BY <1>2, <2>2 DEF Known, Plain
    <2>4. Fresh(ckids, Parent[m], Hidden(filtered))
      BY <2>1, <2>3 DEF CacheIsSound
    <2> QED BY <2>1, <2>3, <2>4 DEF Fresh
  <1>3. etag[p] # 0
    BY DEF Vouched
  <1>4. ASSUME g \in FromCache(p)
        PROVE  etag[g] # 0 /\ ckids[Parent[g]][g] = etag[g]
    <2> DEFINE Gone0 == {m \in Path(g) : p \in Above[m] /\ etag[m] = 0}
    <2>1. Gone0 = {}
      <3> SUFFICES ASSUME Gone0 # {}
                   PROVE  FALSE
        OBVIOUS
      <3>1. Gone0 \in SUBSET Nodes
        BY <1>0, PathIsWhole
      <3>2. PICK m \in Gone0 : Above[m] \cap Gone0 = {}
        BY <3>1, WalkCacheAssumption
      <3>3. etag[Parent[m]] # 0
        <4>1. Parent[m] \in Path(g) /\ (Parent[m] = p \/ p \in Above[Parent[m]])
          BY <1>1, <3>2
        <4>2. Parent[m] \in Above[m]
          BY <1>0, <3>2, PathIsWhole, FoldersAbove, ItsFolder
        <4> QED BY <1>3, <3>2, <4>1, <4>2
      <3>4. m \in DOMAIN ckids[Parent[m]]
        BY <1>4, <3>2 DEF FromCache, Path
      <3> QED BY <1>2, <3>2, <3>3, <3>4
    <2>2. g \in Path(g) /\ etag[g] # 0
      BY <2>1 DEF Path
    <2>3. etag[Parent[g]] # 0 /\ g \in DOMAIN ckids[Parent[g]]
      <3>1. Parent[g] \in Above[g]
        BY <1>0, FoldersAbove, ItsFolder
      <3> QED BY <1>0, <2>2, <3>1, <1>4 DEF CloudIsTree, FromCache
    <2> QED BY <1>2, <2>2, <2>3
  <1>5. ASSUME etag[g] # 0
        PROVE  g \in FromCache(p)
    <2>1. ASSUME NEW m \in Path(g), p \in Above[m]
          PROVE  /\ m \notin ignored /\ ckids[Parent[m]] # None
                 /\ m \in DOMAIN ckids[Parent[m]]
      <3>1. m \in Nodes /\ etag[m] # 0 /\ Parent[m] \in Above[m]
        BY <1>0, <1>5, <2>1, PathIsWhole, FoldersAbove, ItsFolder DEF CloudIsTree, Path
      <3>2. etag[Parent[m]] # 0
        BY <3>1 DEF CloudIsTree
      <3> QED BY <1>2, <2>1, <3>1, <3>2 DEF Plain
    <2> QED BY <1>0, <2>1 DEF FromCache, Path
  <1> QED BY <1>4, <1>5

\* A listing elsewhere does not touch what the cache serves below p.
LEMMA ServedSame ==
  ASSUME TypeOK, NEW x \in Folders, NEW p \in Folders, p \notin Path(x),
         ignored' = ignored, \A f \in Folders \ {x} : ckids'[f] = ckids[f]
  PROVE  /\ FromCache(p)' = FromCache(p)
         /\ \A g \in Files : p \in Above[g] => ckids'[Parent[g]] = ckids[Parent[g]]
  <1>1. ASSUME NEW m \in Nodes, p \in Above[m]
        PROVE  ckids'[Parent[m]] = ckids[Parent[m]]
    <2>1. m # Root /\ Parent[m] \in Folders /\ Above[m] = {Parent[m]} \cup Above[Parent[m]]
      BY <1>1, FoldersAbove, ItsFolder
    <2>2. p \in Path(Parent[m])
      BY <1>1, <2>1 DEF Path
    <2> QED BY <2>1, <2>2
  <1>2. \A n \in Nodes : \A m \in Above[n] \cup {n} : m \in Nodes
    BY FoldersAbove
  <1> QED BY <1>1, <1>2 DEF FromCache, Nodes

LEMMA ServedStep ==
  ASSUME TypeOK, CloudIsTree, QuietOutside, SideBySide, CacheIsSound, WindowIsOpen,
         ServedWasSo, [Next]_vars
  PROVE  ServedWasSo'
  <1>1. CASE pc' # "walking"
    BY <1>1, QuietStep DEF QuietOutside, Pending, Empty, ServedWasSo
  <1>2. CASE UNCHANGED vars
    BY <1>2 DEF vars, cloud, cache, process, walk, Pending, Asked, ServedWasSo, Plain,
                FromCache, Hidden
  <1>3. CASE Cloud
    <2>1. UNCHANGED <<cetag, ckids, failed, filtered, ignored, useCache, front, next>>
      BY <1>3, CloudChanges, ChangeDo
    <2>2. \A g \in Files : during[g] \subseteq during'[g]
      BY <1>3, CloudChanges, ChangeDo
    <2>3. /\ Pending' = Pending /\ \A p \in Pending : Asked(p)' = Asked(p)
          /\ \A g \in Files : Plain(g)' <=> Plain(g)
          /\ \A p \in Pending : FromCache(p)' = FromCache(p)
      BY <2>1 DEF Pending, Asked, Plain, Hidden, FromCache
    <2> QED BY <2>1, <2>2, <2>3 DEF ServedWasSo
  <1>4. CASE Opens
    <2> SUFFICES ASSUME useCache', ~failed', NEW g \in Files,
                        cetag'[Root] = Asked(Root)', Asked(Root)' # 0,
                        Root \in Above[g], Plain(g)'
                 PROVE  /\ g \in FromCache(Root)' => ckids'[Parent[g]][g] \in during'[g]
                        /\ g \notin FromCache(Root)' => 0 \in during'[g]
      BY <1>4, PendingAtStart DEF ServedWasSo
    <2>1. Asked(Root)' = etag[Root] /\ cetag'[Root] # 0
      BY <1>4, PendingAtStart, OpenDo
    <2>3. /\ UNCHANGED <<cetag, ckids, failed, filtered, ignored>>
          /\ during' = [f \in Files |-> {etag[f]}]
      BY <1>4, OpenDo
    <2>4. Vouched(cetag, Root) /\ ~failed /\ Plain(g) /\ FromCache(Root)' = FromCache(Root)
      BY <2>1, <2>3 DEF Vouched, Plain, Hidden, FromCache
    <2>5. Pending = {}
      BY <1>4, OpenDo, NothingPending
    <2>6. /\ g \in FromCache(Root) => ckids[Parent[g]][g] = etag[g]
          /\ g \notin FromCache(Root) => etag[g] = 0
      BY <2>4, <2>5, RootThere, CacheServes
    <2> QED BY <2>3, <2>4, <2>6
  <1>5. CASE NextLevel
    <2>1. UNCHANGED <<cetag, ckids, failed, filtered, ignored, useCache, during>>
      BY <1>5 DEF NextLevel, cache, process
    <2>2. /\ \A g \in Files : Plain(g)' <=> Plain(g)
          /\ \A p \in Pending : FromCache(p)' = FromCache(p)
      BY <2>1 DEF Plain, Hidden, FromCache
    <2> QED BY <1>5, <2>1, <2>2, PendingNextLevel DEF ServedWasSo
  <1>6. ASSUME NEW x \in Folders, EmitCached(x)
        PROVE  ServedWasSo'
    <2>1. UNCHANGED <<cetag, ckids, failed, filtered, ignored, useCache, during>>
      BY <1>6 DEF EmitCached, cache, process
    <2>2. /\ \A g \in Files : Plain(g)' <=> Plain(g)
          /\ \A p \in Pending : FromCache(p)' = FromCache(p)
      BY <2>1 DEF Plain, Hidden, FromCache
    <2>3. Pending' = Pending \ {x} /\ \A p \in Pending' : Asked(p)' = Asked(p)
      BY <1>6, PendingServed
    <2> QED BY <2>1, <2>2, <2>3 DEF ServedWasSo
  <1>7. CASE \E x \in Folders : RestartUncached(x)
    BY <1>7 DEF RestartUncached, ServedWasSo
  <1>8. ASSUME NEW x \in Folders, ListFolder(x)
        PROVE  ServedWasSo'
    <2>1. /\ UNCHANGED <<etag, failed, ignored, useCache, during>> /\ pc = "walking"
          /\ \A f \in Folders \ {x} : cetag'[f] = cetag[f] /\ ckids'[f] = ckids[f]
          /\ Hidden(filtered') = Hidden(filtered) \cup ignored
      BY <1>8, ListFolderDo
    <2>2. /\ x \in Pending /\ Pending' = (Pending \ {x}) \cup NewBelow(x)
          /\ \A c \in NewBelow(x) : c \notin Pending /\ Asked(c)' = etag[c]
          /\ \A p \in Pending \ {x} : Asked(p)' = Asked(p)
      BY <1>8, PendingListed
    <2> SUFFICES ASSUME useCache, ~failed, NEW p \in Pending', NEW g \in Files,
                        cetag'[p] = Asked(p)', Asked(p)' # 0, p \in Above[g], Plain(g)'
                 PROVE  /\ g \in FromCache(p)' => ckids'[Parent[g]][g] \in during[g]
                        /\ g \notin FromCache(p)' => 0 \in during[g]
      BY <2>1 DEF ServedWasSo
    <2>3. Plain(g)
      BY <2>1 DEF Plain
    <2>4. p \in Folders /\ p # x /\ p \notin Path(x)
      <3>1. CASE p \in NewBelow(x)
        BY <3>1, Kids DEF NewBelow, Path
      <3>2. CASE p \in Pending \ {x}
        BY <2>2, <3>2, PendingFolders DEF SideBySide, Path
      <3> QED BY <2>2, <3>1, <3>2
    <2>5. cetag'[p] = cetag[p] /\ FromCache(p)' = FromCache(p)
          /\ ckids'[Parent[g]] = ckids[Parent[g]]
      BY <2>1, <2>4, ServedSame
    <2>6. CASE p \in Pending \ {x}
      BY <2>2, <2>3, <2>5, <2>6 DEF ServedWasSo
    <2>7. CASE p \in NewBelow(x)
      <3>1. Vouched(cetag, p)
        BY <2>2, <2>5, <2>7 DEF Vouched
      <3>2. \A q \in Pending : p \notin Above[q]
        <4>1. x \in Above[p] /\ p \in Nodes
          BY <2>7, Kids DEF NewBelow
        <4> QED BY <2>2, <4>1, PendingFolders, AboveIsWhole DEF SideBySide
      <3>3. /\ g \in FromCache(p) => ckids[Parent[g]][g] = etag[g]
            /\ g \notin FromCache(p) => etag[g] = 0
        BY <2>3, <2>4, <3>1, <3>2, CacheServes
      <3> QED BY <2>1, <2>5, <3>3 DEF WindowIsOpen
    <2> QED BY <2>2, <2>6, <2>7
  <1> QED BY <1>1, <1>2, <1>3, <1>4, <1>5, <1>6, <1>7, <1>8, WalkSteps

LEMMA ListedStep ==
  ASSUME TypeOK, CloudIsTree, QuietOutside, SideBySide, WindowIsOpen, ServedWasSo,
         ListedWasSo, [Next]_vars
  PROVE  ListedWasSo'
  <1> SUFFICES ASSUME pc' = "walking", ~failed', NEW g \in Files, Plain(g)'
               PROVE  /\ g \in DOMAIN out' => out'[g] \in during'[g]
                      /\ g \notin DOMAIN out' =>
                            0 \in during'[g] \/ Above[g] \cap Pending' # {}
    BY DEF ListedWasSo
  <1>0. g \in Nodes /\ g # Root
    BY WalkCacheAssumption DEF Nodes
  <1>1. CASE pc = "walking" /\ UNCHANGED vars
    BY <1>1 DEF vars, cache, process, walk, Pending, Plain, Hidden, ListedWasSo
  <1>2. CASE pc = "walking" /\ Cloud
    <2>1. UNCHANGED <<failed, filtered, ignored, out, front, next>>
          /\ during[g] \subseteq during'[g]
      BY <1>2, CloudChanges, ChangeDo
    <2>2. Pending' = Pending /\ Plain(g)
      BY <2>1 DEF Pending, Plain, Hidden
    <2> QED BY <1>2, <2>1, <2>2 DEF ListedWasSo
  <1>3. CASE Opens \/ \E x \in Folders : RestartUncached(x)
    <2>1. DOMAIN out' = {} /\ Pending' = {Root}
      BY <1>3, PendingAtStart, OpenDo DEF RestartUncached, Empty
    <2>2. Root \in Above[g]
      BY <1>0, RootAbove DEF Path
    <2> QED BY <2>1, <2>2
  <1>4. CASE pc = "walking" /\ NextLevel
    <2>1. UNCHANGED <<failed, filtered, ignored, out, during>> /\ Pending' = Pending
      BY <1>4, PendingNextLevel DEF NextLevel, cache, process
    <2>2. Plain(g)
      BY <2>1 DEF Plain, Hidden
    <2> QED BY <1>4, <2>1, <2>2 DEF ListedWasSo
  <1>5. ASSUME NEW x \in Folders, EmitCached(x)
        PROVE  /\ g \in DOMAIN out' => out'[g] \in during'[g]
               /\ g \notin DOMAIN out' => 0 \in during'[g] \/ Above[g] \cap Pending' # {}
    <2> DEFINE served == [n \in FromCache(x) |-> ckids[Parent[n]][n]]
    <2>1. /\ UNCHANGED <<failed, filtered, ignored, during>> /\ pc = "walking"
          /\ useCache /\ cetag[x] = front[x] /\ front[x] # 0
          /\ out' = Merge(out, served)
      BY <1>5 DEF EmitCached, Matches, cache, process
    <2>2. x \in Pending /\ Asked(x) = front[x] /\ Pending' = Pending \ {x}
      BY <1>5, PendingServed
    <2>3. Plain(g)
      BY <2>1 DEF Plain, Hidden
    <2>4. /\ DOMAIN out' = DOMAIN out \cup FromCache(x)
          /\ g \in DOMAIN out => out'[g] = out[g]
          /\ g \in FromCache(x) \ DOMAIN out => out'[g] = ckids[Parent[g]][g]
      BY <2>1 DEF Merge
    <2>6. x \in Above[g] => /\ g \in FromCache(x) => ckids[Parent[g]][g] \in during[g]
                            /\ g \notin FromCache(x) => 0 \in during[g]
      BY <2>1, <2>2, <2>3 DEF ServedWasSo
    <2>7. g \in FromCache(x) => x \in Above[g]
      BY DEF FromCache
    <2>8. /\ g \in DOMAIN out => out[g] \in during[g]
          /\ g \notin DOMAIN out => 0 \in during[g] \/ Above[g] \cap Pending # {}
      BY <2>1, <2>3 DEF ListedWasSo
    <2> QED BY <2>1, <2>2, <2>4, <2>6, <2>7, <2>8
  <1>6. ASSUME NEW x \in Folders, ListFolder(x)
        PROVE  /\ g \in DOMAIN out' => out'[g] \in during'[g]
               /\ g \notin DOMAIN out' => 0 \in during'[g] \/ Above[g] \cap Pending' # {}
    <2>1. /\ UNCHANGED <<etag, failed, ignored, during>> /\ pc = "walking"
          /\ Hidden(filtered') = Hidden(filtered) \cup ignored
          /\ out' = Merge(out, Listing(x))
      BY <1>6, ListFolderDo
    <2>2. x \in Pending /\ Pending' = (Pending \ {x}) \cup NewBelow(x)
      BY <1>6, PendingListed
    <2>3. Plain(g)
      BY <2>1 DEF Plain
    <2>4. /\ DOMAIN out' = DOMAIN out \cup DOMAIN Listing(x)
          /\ g \in DOMAIN out => out'[g] = out[g]
          /\ g \in DOMAIN Listing(x) \ DOMAIN out => out'[g] = Listing(x)[g]
      BY <2>1 DEF Merge
    <2>5. /\ DOMAIN Listing(x) = {c \in KidsOf(x) : etag[c] # 0 /\ c \notin ignored}
          /\ \A c \in DOMAIN Listing(x) : Listing(x)[c] = etag[c]
      BY Listed
    <2>6. etag[g] \in during[g]
      BY <2>1 DEF WindowIsOpen
    <2>7. /\ g \in DOMAIN out => out[g] \in during[g]
          /\ g \notin DOMAIN out => 0 \in during[g] \/ Above[g] \cap Pending # {}
      BY <2>1, <2>3 DEF ListedWasSo
    <2>8. x \in Above[g] /\ g \notin DOMAIN Listing(x) /\ etag[g] # 0
             => Above[g] \cap NewBelow(x) # {}
      <3> SUFFICES ASSUME x \in Above[g], g \notin DOMAIN Listing(x), etag[g] # 0
                   PROVE  Above[g] \cap NewBelow(x) # {}
        OBVIOUS
      <3>1. PICK c \in Path(g) : c \in KidsOf(x) /\ (c = g \/ c \in Folders)
        BY <1>0, WayDown
      <3>2. etag[c] # 0 /\ c \notin ignored
        BY <1>0, <2>3, <3>1 DEF CloudIsTree, Path, Plain
      <3>3. c # g
        BY <2>5, <3>1, <3>2
      <3> QED BY <3>1, <3>2, <3>3 DEF NewBelow, Path
    <2> QED BY <2>1, <2>2, <2>4, <2>5, <2>6, <2>7, <2>8
  <1> QED BY <1>1, <1>2, <1>3, <1>4, <1>5, <1>6, WalkSteps

-----------------------------------------------------------------------------
(* The theorems.                                                           *)

LEMMA WalkInductive ==
  ASSUME WalkInv, [Next]_vars
  PROVE  WalkInv'
  <1> USE DEF WalkInv
  <1>1. TypeOK' /\ CloudIsTree' /\ QuietOutside' /\ SideBySide' /\ FiltersRecorded'
    BY TypeStep, TreeStep, QuietStep, SideStep, FilterStep
  <1>2. EtagsArePast'
    BY EtagStep
  <1>3. CacheIsSound'
    BY SoundStep
  <1>4. SavedIsSound' /\ RebuiltIsSound' /\ AskedIsCurrent'
    BY SavedStep, RebuiltStep, AskedStep
  <1>5. ServedWasSo' /\ WindowIsOpen' /\ ListedWasSo'
    BY ServedStep, WindowStep, ListedStep
  <1> QED BY <1>1, <1>2, <1>3, <1>4, <1>5

\* The listing, its cache and the saved copy of it are of their kinds, for any
\* tree, ignore sets and bounds (icloud_client.py walk, export_walk_cache).
THEOREM WalkTypes == Spec => []TypeOK
  <1>1. Init => WalkInv
    BY WalkInit
  <1>2. WalkInv /\ [Next]_vars => WalkInv'
    BY WalkInductive
  <1>3. WalkInv => TypeOK
    BY DEF WalkInv
  <1> QED BY <1>1, <1>2, <1>3, PTL DEF Spec

\* A cache that no failed walk has touched is sound at every moment, also the one
\* that waits in the baseline for the next start (icloud_client.py:693, 618).
THEOREM CacheSound == Spec => [](CacheIsSound /\ SavedIsSound)
  <1>1. WalkInv => CacheIsSound /\ SavedIsSound
    BY DEF WalkInv
  <1> QED BY <1>1, WalkInit, WalkInductive, PTL DEF Spec

\* A step inside a walk, of the walk itself: it opens no window and adds nothing to
\* the one that is open.
LEMMA WalkMaps ==
  ASSUME WalkInv, WalkInv', pc = "walking", pc' = "walking", ~WalkDone,
         UNCHANGED <<etag, during>>
  PROVE  [Uncached!ListingNext]_(Uncached!listing)
  <1>1. CASE ~WalkDone'
    BY <1>1 DEF Uncached!listing
  <1>2. CASE WalkDone'
    <2>1. FilesIn(out)' # None
      <3>1. FilesIn(out)' \in [Files -> Nat]
        BY DEF FilesIn, WalkInv, TypeOK, IsListing
      <3>2. Files \in SUBSET Nodes
        BY DEF Nodes
      <3> QED BY <3>1, <3>2, WalkCacheAssumption
    <2>2. \A g \in Files \ Doubted' : FilesIn(out)'[g] \in during[g]
      <3> SUFFICES ASSUME NEW g \in Files, g \notin Doubted'
                   PROVE  FilesIn(out)'[g] \in during'[g]
        OBVIOUS
      <3>1. ~failed' /\ g \in Visible' /\ ~Unnoticed(g)'
        BY DEF Doubted
      <3>2. Plain(g)'
        <4>1. ASSUME NEW n \in Path(g), n \in Hidden(filtered)'
              PROVE  FALSE
          <5>1. PICK b \in BOOLEAN : <<n, b>> \in filtered'
            BY <4>1 DEF Hidden
          <5>2. n \in Nodes /\ ~boot' /\ b = FALSE
            BY <3>1, <4>1, <5>1 DEF Unnoticed, Path, Hidden
          <5>3. n \in ignored'
            BY <5>1, <5>2 DEF WalkInv, FiltersRecorded
          <5> QED BY <3>1, <5>3 DEF Visible, Path
        <4> QED BY <3>1, <4>1 DEF Plain, Visible, Path
      <3>3. Pending' = {}
        BY <1>2 DEF WalkDone, Pending, Empty
      <3> QED BY <3>1, <3>2, <3>3 DEF WalkInv, ListedWasSo, FilesIn
    <2>3. Uncached!Show
      BY <1>2, <2>1, <2>2 DEF Uncached!Show
    <2> QED BY <2>3 DEF Uncached!ListingNext
  <1> QED BY <1>1, <1>2

LEMMA ListingStep ==
  ASSUME WalkInv, WalkInv', [Next]_vars
  PROVE  [Uncached!ListingNext]_(Uncached!listing)
  <1>1. CASE Cloud
    <2>1. /\ UNCHANGED <<pc, front, next, out>>
          /\ during' = IF pc = "walking"
                       THEN [f \in Files |-> during[f] \cup {etag'[f]}] ELSE during
      BY <1>1, CloudChanges, ChangeDo
    <2>2. Uncached!Move
      BY <2>1 DEF Uncached!Move, WalkDone, FilesIn
    <2> QED BY <2>2 DEF Uncached!ListingNext
  <1>2. CASE ~Cloud
    <2>1. etag' = etag
      BY <1>2, CloudRests
    <2>2. CASE pc = "walking" /\ pc' # "walking"
      <3>1. during' = [f \in Files |-> {}]
        BY <2>2 DEF WalkInv, QuietOutside
      <3>2. Uncached!Close
        BY <2>1, <2>2, <3>1 DEF Uncached!Close, Uncached!Closed, WalkDone
      <3> QED BY <3>2 DEF Uncached!ListingNext
    <2>3. CASE pc # "walking" /\ pc' # "walking"
      <3>1. during' = during
        BY <2>3 DEF WalkInv, QuietOutside
      <3> QED BY <2>1, <2>3, <3>1 DEF Uncached!listing, WalkDone
    <2>4. CASE Opens
      <3>1. /\ pc # "walking" /\ pc' = "walking" /\ DOMAIN front' # {}
            /\ during' = [f \in Files |-> {etag[f]}]
        BY <2>4, OpenDo
      <3>2. ~WalkDone /\ ~WalkDone'
        BY <3>1 DEF WalkDone, Empty
      <3>3. Uncached!Open
        BY <2>1, <3>1, <3>2 DEF Uncached!Open
      <3> QED BY <3>3 DEF Uncached!ListingNext
    <2>5. CASE UNCHANGED vars
      BY <2>5 DEF vars, cloud, walk, Uncached!listing, WalkDone, FilesIn
    <2>6. CASE /\ pc = "walking" /\ pc' = "walking"
               /\ NextLevel \/ \E f \in Folders :
                     EmitCached(f) \/ RestartUncached(f) \/ ListFolder(f)
      <3>1. ~WalkDone /\ UNCHANGED <<etag, during>>
        BY <2>6 DEF NextLevel, EmitCached, RestartUncached, ListFolder, WalkDone, Empty,
                    cloud
      <3> QED BY <2>6, <3>1, WalkMaps
    <2> QED BY <1>2, <2>2, <2>3, <2>4, <2>5, <2>6, WalkSteps
  <1> QED BY <1>1, <1>2

\* A walk with the cache implements a walk without one, for any tree, ignore sets
\* and bounds, whatever fails, restarts or is killed: when a walk is over it shows
\* each file as it was at some moment while the walk ran, but for the files in doubt
\* (icloud_client.py walk and _emit_cached; syncer.py _ignore_changed).
THEOREM WalkImplementsListing == Spec => CacheIsTransparent
  <1>1. Init => Uncached!ListingInit
    BY DEF Init, Uncached!ListingInit, Uncached!Closed, WalkDone
  <1>2. WalkInv /\ [Next]_vars => [Uncached!ListingNext]_(Uncached!listing)
    BY WalkInductive, ListingStep
  <1> QED BY <1>1, <1>2, WalkInit, WalkInductive, PTL
          DEF Spec, CacheIsTransparent, Uncached!ListingSpec
=============================================================================
