------------------------------- MODULE WalkCache -------------------------------
(***************************************************************************)
(* The remote listing of a pass: ICloudClient.walk and its etag-keyed      *)
(* cache (ifolder_sync/icloud_client.py), the persistence of that cache    *)
(* across restarts (daemon.py run and _shutdown) and its invalidation when *)
(* the ignore set changes (syncer.py _decide_pass, _ignore_changed).       *)
(*                                                                         *)
(* iCloud is a tree whose folder etags fingerprint their whole subtree, a  *)
(* fact the code relies on: a write bumps the etag of every ancestor.  A   *)
(* walk goes down breadth first; a folder whose etag equals the cached one *)
(* is served from the cache with everything below it, the others are       *)
(* listed one network call each, and iCloud may change between two calls.  *)
(***************************************************************************)
EXTENDS Naturals, FiniteSets

CONSTANTS
    None,
    Folders, Files, Root,   \* the nodes a walk can meet
    Parent,                 \* the folder of each node but Root
    Above,                  \* the folders above each node
    Filters,                \* ignore sets a configuration may hold
    MaxEvents               \* bound on changes in iCloud, process starts and failures of
                            \* a pass or a listing, together

Nodes == Folders \cup Files

\* The nodes are a tree: every set of them has a topmost one.
ASSUME WalkCacheAssumption ==
    /\ Root \in Folders /\ Folders \cap Files = {}
    /\ Parent \in [Nodes \ {Root} -> Folders]
    /\ Above \in [Nodes -> SUBSET Folders]
    /\ Above[Root] = {}
    /\ \A n \in Nodes \ {Root} : Above[n] = {Parent[n]} \cup Above[Parent[n]]
    /\ \A S \in SUBSET Nodes : S # {} => \E n \in S : Above[n] \cap S = {}
    /\ Filters \subseteq SUBSET (Nodes \ {Root})
    /\ None \notin Filters
    /\ \A K \in SUBSET Nodes : None \notin [K -> Nat]
    /\ MaxEvents \in Nat

VARIABLES
    etag, rev,       \* iCloud: the etag of each node (0: absent), the last one
    cetag, ckids,    \* _etag_cache, _children_cache
    due,             \* full_walk_interval has passed since _last_full_walk
    saved,           \* meta walk_cache
    hash,            \* meta ignore_hash
    pc, boot, daemon, ignored,  \* the process: step, first pass, kind, ignore set
    useCache, rootEtag, front, next, out,   \* the walk
    view,            \* the files the last finished walk listed
    during,          \* the etags each file had while the walk ran
    failed,          \* a walk failed since the cache was last filled from scratch
    filtered,        \* <<n, b>>: node n was ignored by a walk that filled the cache;
                     \* with b, meta ignore_hash is not of that walk
    events

cloud   == <<etag, rev>>
cache   == <<cetag, ckids, failed, filtered>>
process == <<boot, daemon, ignored>>
walk    == <<useCache, rootEtag, front, next, out>>
vars    == <<cloud, cache, due, saved, hash, pc, process, walk, view, during, events>>

-----------------------------------------------------------------------------
KidsOf(f) == {n \in Nodes \ {Root} : Parent[n] = f}

NoEtags == [f \in Folders |-> 0]
NoKids  == [f \in Folders |-> None]
Empty   == [n \in {} |-> 0]

\* The union of two listings of disjoint places.
Merge(l, m) == [n \in DOMAIN l \cup DOMAIN m |-> IF n \in DOMAIN l THEN l[n] ELSE m[n]]

Without(l, f) == [n \in DOMAIN l \ {f} |-> l[n]]

\* Mutant of OnlyFolders: every child is queued for listing.
EveryChild(l) == l

OnlyFolders(l) == [n \in DOMAIN l \cap Folders |-> l[n]]

\* A fresh listing of a folder; ignored children are pruned.
Listing(f) == [n \in {k \in KidsOf(f) : etag[k] # 0 /\ k \notin ignored} |-> etag[n]]

FilesIn(l) == [f \in Files |-> IF f \in DOMAIN l THEN l[f] ELSE 0]

Visible == {f \in Files : (Above[f] \cup {f}) \cap ignored = {}}

FilesNow == [f \in Files |-> IF f \in Visible THEN etag[f] ELSE 0]

-----------------------------------------------------------------------------
Init ==
    /\ etag = [n \in Nodes |-> 1] /\ rev = 1
    /\ cetag = NoEtags /\ ckids = NoKids /\ due = TRUE
    /\ failed = FALSE /\ filtered = {}
    /\ saved = None /\ hash = None
    /\ pc = "down" /\ boot = FALSE /\ daemon = FALSE /\ ignored = {}
    /\ useCache = FALSE /\ rootEtag = 0
    /\ front = Empty /\ next = Empty /\ out = Empty
    /\ view = None /\ during = [f \in Files |-> {}]
    /\ events = 0

-----------------------------------------------------------------------------
Happens == events < MaxEvents /\ events' = events + 1

\* iCloud changes: another device, or a transfer of this engine's own pass.
Change(newEtag) ==
    /\ Happens
    /\ rev' = rev + 1
    /\ etag' = newEtag
    /\ during' = IF pc = "walking"
                 THEN [f \in Files |-> during[f] \cup {newEtag[f]}] ELSE during
    /\ UNCHANGED <<cache, due, saved, hash, pc, process, walk, view>>

Write(f) ==
    Change([n \in Nodes |-> IF n \in Above[f] \cup {f} THEN rev + 1 ELSE etag[n]])

Remove(n) ==
    /\ etag[n] # 0
    /\ Change([m \in Nodes |-> IF n \in Above[m] \cup {m} THEN 0
                               ELSE IF m \in Above[n] THEN rev + 1 ELSE etag[m]])

\* full_walk_interval, with its jitter, runs out; only a pass that starts asks.
CadenceElapses ==
    /\ pc = "idle"
    /\ ~due
    /\ due' = TRUE
    /\ UNCHANGED <<cloud, cache, saved, hash, pc, process, walk, view, during, events>>

-----------------------------------------------------------------------------
DropCache ==
    cetag' = NoEtags /\ ckids' = NoKids /\ failed' = FALSE /\ filtered' = {}

\* A daemon imports the saved cache; a manual sync starts without one.
Start(asDaemon, filter) ==
    /\ pc = "down"
    /\ Happens
    /\ pc' = "idle"
    /\ daemon' = asDaemon /\ boot' = asDaemon /\ ignored' = filter
    /\ IF asDaemon /\ saved # None
       THEN /\ cetag' = saved.etags /\ ckids' = saved.kids
            /\ failed' = saved.failed /\ filtered' = saved.filtered
            /\ due' = FALSE
       ELSE DropCache /\ due' = TRUE
    /\ UNCHANGED <<cloud, saved, hash, walk, view, during>>

\* The process is gone, and with it its memory.
Gone ==
    /\ pc' = "down"
    /\ DropCache /\ due' = TRUE
    /\ useCache' = FALSE /\ rootEtag' = 0
    /\ front' = Empty /\ next' = Empty /\ out' = Empty
    /\ boot' = FALSE /\ daemon' = FALSE /\ ignored' = {}
    /\ view' = None /\ during' = [f \in Files |-> {}]
    /\ UNCHANGED <<cloud, hash, events>>

\* _shutdown of the daemon persists the cache; a manual sync just ends.
Stop ==
    /\ pc = "idle"
    /\ saved' = IF ~daemon THEN saved
                ELSE IF cetag = NoEtags THEN None
                ELSE [etags |-> cetag, kids |-> ckids, failed |-> failed,
                      filtered |-> filtered]
    /\ Gone

Kill ==
    /\ pc # "down"
    /\ UNCHANGED saved
    /\ Gone

-----------------------------------------------------------------------------
\* _ignore_changed, which a bootstrap pass does not ask.
FilterChanged == ~boot /\ hash \notin {None, ignored}

\* Mutant of MayUseCache: no full walk is ever due.
MayUseCacheForEver(etags) == etags # NoEtags

\* walk: the cache is used until the full-walk cadence runs out.
MayUseCache(etags) == ~due /\ etags # NoEtags

\* The first level of the walk.
BeginWalk(etags) ==
    /\ pc' = "walking"
    /\ useCache' = MayUseCache(etags)
    /\ rootEtag' = etag[Root]
    /\ front' = [n \in {Root} |-> etag[Root]]
    /\ next' = Empty /\ out' = Empty
    /\ during' = [f \in Files |-> {etag[f]}]
    /\ UNCHANGED <<cloud, due, process, view, events>>

\* The start of a pass that finds the ignore set it knows, or does not ask.
StartPass ==
    /\ pc = "idle" /\ ~FilterChanged
    /\ hash' = IF boot THEN hash ELSE ignored
    /\ BeginWalk(cetag)
    /\ UNCHANGED <<cache, saved>>

\* The saved cache is of another ignore set than the recorded one from here on
\* (only the history in it changes).
Outlived(blob) ==
    IF blob = None THEN None
    ELSE [etags |-> blob.etags, kids |-> blob.kids, failed |-> blob.failed,
          filtered |-> {<<m[1], TRUE>> : m \in blob.filtered}]

\* The start of a pass that finds a changed ignore set: it is recorded, in a commit of
\* its own, and the cache in memory is dropped.
HeedFilters ==
    /\ pc = "idle" /\ FilterChanged
    /\ pc' = "unsave"
    /\ hash' = ignored
    /\ DropCache /\ saved' = Outlived(saved)
    /\ UNCHANGED <<cloud, due, process, walk, view, during, events>>

\* The saved cache is dropped too, by a commit after that of the ignore set.
Unsave ==
    /\ pc = "unsave"
    /\ saved' = None
    /\ BeginWalk(cetag)
    /\ UNCHANGED <<cache, hash>>

\* A pass fails before its walk: a bootstrap pass is over all the same, and a changed
\* ignore set stays recorded.
PassFails ==
    /\ pc = "unsave" \/ (pc = "idle" /\ boot)
    /\ Happens
    /\ pc' = "idle" /\ boot' = FALSE
    /\ UNCHANGED <<cloud, cache, due, saved, hash, daemon, ignored, walk, view, during>>

\* Mutant of Matches: a folder that is in the cache is served from it.
MatchesKnown(f) == useCache /\ front[f] # 0 /\ cetag[f] # 0

\* The folder's etag is the cached one: nothing below it has changed.
Matches(f) == useCache /\ front[f] # 0 /\ cetag[f] = front[f]

\* The nodes _emit_cached reaches from f: no ignored node on the way down, and
\* each one in the cached listing of its folder.
FromCache(f) ==
    {n \in Nodes : /\ f \in Above[n]
                   /\ \A m \in Above[n] \cup {n} : f \in Above[m] =>
                         /\ m \notin ignored
                         /\ ckids[Parent[m]] # None
                         /\ m \in DOMAIN ckids[Parent[m]]}

CacheMiss(f) == \E d \in {f} \cup (FromCache(f) \cap Folders) : ckids[d] = None

EmitCached(f) ==
    /\ pc = "walking"
    /\ f \in DOMAIN front
    /\ Matches(f)
    /\ ~CacheMiss(f)
    /\ out' = Merge(out, [n \in FromCache(f) |-> ckids[Parent[n]][n]])
    /\ front' = Without(front, f)
    /\ UNCHANGED <<cloud, cache, due, saved, hash, pc, process, useCache,
                   rootEtag, next, view, during, events>>

\* _WalkCacheMiss: drop the cache and walk again without it.
RestartUncached(f) ==
    /\ pc = "walking"
    /\ f \in DOMAIN front
    /\ Matches(f)
    /\ CacheMiss(f)
    /\ DropCache
    /\ useCache' = FALSE
    /\ front' = [n \in {Root} |-> rootEtag]
    /\ next' = Empty /\ out' = Empty
    /\ UNCHANGED <<cloud, due, saved, hash, pc, process, rootEtag, view, during,
                   events>>

\* One listing of the level comes back and is recorded with the etag that was
\* known before it was asked for.
ListFolder(f) ==
    /\ pc = "walking"
    /\ f \in DOMAIN front
    /\ ~Matches(f)
    /\ etag[f] # 0
    /\ out' = Merge(out, Listing(f))
    /\ ckids' = [ckids EXCEPT ![f] = Listing(f)]
    /\ cetag' = [cetag EXCEPT ![f] = front[f]]
    /\ filtered' = filtered \cup (ignored \X {boot})
    /\ front' = Without(front, f)
    /\ next' = Merge(next, OnlyFolders(Listing(f)))
    /\ UNCHANGED <<cloud, failed, due, saved, hash, pc, process, useCache,
                   rootEtag, view, during, events>>

NextLevel ==
    /\ pc = "walking"
    /\ front = Empty /\ next # Empty
    /\ front' = next /\ next' = Empty
    /\ UNCHANGED <<cloud, cache, due, saved, hash, pc, process, useCache,
                   rootEtag, out, view, during, events>>

\* The walk is over: a pass in which it failed is over too.
EndWalk ==
    /\ pc' = "idle" /\ boot' = FALSE
    /\ useCache' = FALSE /\ rootEtag' = 0
    /\ front' = Empty /\ next' = Empty /\ out' = Empty
    /\ during' = [f \in Files |-> {}]

\* A listing fails, or its folder is gone by now: the walk raises and keeps
\* what it has already recorded.
ListFails(f) ==
    /\ pc = "walking"
    /\ f \in DOMAIN front
    /\ ~Matches(f)
    /\ \/ etag[f] # 0 /\ Happens
       \/ etag[f] = 0 /\ UNCHANGED events
    /\ failed' = TRUE
    /\ EndWalk
    /\ UNCHANGED <<cloud, cetag, ckids, filtered, due, saved, hash, daemon,
                   ignored, view>>

WalkDone == pc = "walking" /\ front = Empty /\ next = Empty

FinishWalk ==
    /\ WalkDone
    /\ view' = FilesIn(out)
    /\ due' = (due /\ useCache)
    /\ failed' = (failed /\ useCache)
    /\ filtered' = IF useCache THEN filtered ELSE ignored \X {boot}
    /\ EndWalk
    /\ UNCHANGED <<cloud, cetag, ckids, saved, hash, daemon, ignored, events>>

-----------------------------------------------------------------------------
Cloud == (\E f \in Files : Write(f)) \/ (\E n \in Nodes \ {Root} : Remove(n))

Walk == \/ NextLevel \/ FinishWalk
        \/ \E f \in Folders :
              EmitCached(f) \/ RestartUncached(f) \/ ListFolder(f) \/ ListFails(f)

Next == \/ Cloud \/ CadenceElapses
        \/ \E d \in BOOLEAN, i \in Filters : Start(d, i)
        \/ Stop \/ Kill \/ StartPass \/ HeedFilters \/ Unsave \/ PassFails \/ Walk

Spec == Init /\ [][Next]_vars

\* The poll loop keeps starting passes, a walk's calls return or fail, and the
\* clock runs whatever the process does.
FairSpec == Spec /\ WF_vars(StartPass \/ HeedFilters \/ Unsave) /\ WF_vars(Walk)
                 /\ SF_vars(CadenceElapses)

-----------------------------------------------------------------------------
IsListing(l, ns) == DOMAIN l \subseteq ns /\ l \in [DOMAIN l -> Nat]

\* A cache: per folder its etag and the listing of its own children, if it has one.
IsCache(etags, kids, flag, filter) ==
    /\ etags \in [Folders -> Nat]
    /\ kids = [f \in Folders |-> kids[f]]
    /\ \A f \in Folders : kids[f] # None => IsListing(kids[f], KidsOf(f))
    /\ flag \in BOOLEAN /\ filter \subseteq Nodes \X BOOLEAN

\* Every variable holds a value of its kind; a running process has one of the
\* configured ignore sets.
TypeOK ==
    /\ etag \in [Nodes -> Nat] /\ rev \in Nat
    /\ IsCache(cetag, ckids, failed, filtered)
    /\ saved # None => IsCache(saved.etags, saved.kids, saved.failed, saved.filtered)
    /\ due \in BOOLEAN /\ hash \in Filters \cup {None}
    /\ pc \in {"down", "idle", "unsave", "walking"}
    /\ ignored \in (IF pc = "down" THEN {{}} ELSE Filters)
    /\ boot \in BOOLEAN /\ daemon \in BOOLEAN /\ useCache \in BOOLEAN
    /\ rootEtag \in Nat
    /\ IsListing(front, Folders) /\ IsListing(next, Folders)
    /\ IsListing(out, Nodes \ {Root})
    /\ during \in [Files -> SUBSET Nat]
    /\ events \in 0..MaxEvents

\* The cache was filled while the file was ignored, and this pass cannot know.  A
\* bootstrap pass neither asks for a changed ignore set nor records its own, and a
\* process that dies between the two commits of HeedFilters and Unsave leaves a cache
\* of the old set beside the new one.
Unnoticed(f) ==
    \E n \in Above[f] \cup {f}, b \in BOOLEAN : <<n, b>> \in filtered /\ (boot \/ b)

\* The ignored files and two cases: a walk has failed since the cache was filled,
\* which StaleCacheIsDetected refutes, and a file that is ignored no more, of which
\* no pass is told.  VaultGate's UnignoredIsKept shows what it can come to.
Doubted == IF failed THEN Files
           ELSE {f \in Files : f \notin Visible \/ Unnoticed(f)}

Uncached == INSTANCE RemoteListing WITH
    state <- [f \in Files |-> etag[f]], walking <- pc = "walking",
    moments <- during, shown <- IF WalkDone THEN FilesIn(out) ELSE None,
    doubt <- Doubted

\* A walk with the cache is a walk without it (RemoteListing): it shows each file as
\* it was at some moment while it ran, but for those in doubt, a walk that fails
\* shows nothing, and no restart, kill, import of a saved cache or change of the
\* ignore set lends one walk what another has seen.
CacheIsTransparent == Uncached!ListingSpec

\* Once iCloud rests and listings succeed, every running process comes to see
\* iCloud as it is: the full walk heals what failed walks left in the cache.
EventuallySeen == <>[](pc # "down" /\ view # None => view = FilesNow)

-----------------------------------------------------------------------------
(* What the source says and the code does not do.                          *)

\* "a stale cache ... is detected and re-listed" (icloud_client.py:617): also
\* after a walk that failed halfway.
StaleCacheIsDetected ==
    WalkDone => \A f \in Visible : FilesIn(out)[f] \in during[f] \/ Unnoticed(f)
=============================================================================
