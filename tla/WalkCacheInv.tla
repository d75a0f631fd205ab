----------------------------- MODULE WalkCacheInv -----------------------------
(***************************************************************************)
(* The inductive invariant behind WalkCache's CacheIsTransparent: why what *)
(* a walk serves from its cache (ICloudClient._emit_cached) is what iCloud *)
(* held at some moment while the walk ran.                                 *)
(***************************************************************************)
EXTENDS WalkCache

Path(n) == Above[n] \cup {n}

\* The folders of this and the next level, still to be served, and the etag the
\* walk knows of each.
Pending == DOMAIN front \cup DOMAIN next
Asked(p) == IF p \in DOMAIN front THEN front[p] ELSE next[p]

Hidden(filter) == {n \in Nodes : \E b \in BOOLEAN : <<n, b>> \in filter}

\* The cache has the etag that the folder has in iCloud now.
Vouched(etags, f) == etags[f] # 0 /\ etags[f] = etag[f]

\* The cached listing of d is one made now, but for hidden children.
Fresh(kids, d, hidden) ==
    /\ kids[d] # None
    /\ \A k \in DOMAIN kids[d] : etag[k] # 0 /\ kids[d][k] = etag[k]
    /\ \A k \in KidsOf(d) \ hidden : etag[k] # 0 => k \in DOMAIN kids[d]

\* A folder that is there and that no ignore set hid.
Known(d, hidden) == etag[d] # 0 /\ Path(d) \cap hidden = {}

\* A file that neither this walk nor those that filled the cache ignored.
Plain(g) == Path(g) \cap (ignored \cup Hidden(filtered)) = {}

-----------------------------------------------------------------------------
\* iCloud: what is there is in a folder that is there, and no etag comes twice.
CloudIsTree ==
    /\ etag[Root] # 0
    /\ \A n \in Nodes : etag[n] # 0 => \A f \in Above[n] : etag[f] # 0
    /\ \A n \in Nodes : etag[n] <= rev

EtagsArePast ==
    /\ \A f \in Folders : cetag[f] <= rev
    /\ saved # None => \A f \in Folders : saved.etags[f] <= rev
    /\ rootEtag <= rev
    /\ \A p \in Pending : Asked(p) <= rev

\* Outside a walk nothing is pending and no window is open.
QuietOutside ==
    pc # "walking" => /\ front = Empty /\ next = Empty /\ out = Empty
                      /\ during = [f \in Files |-> {}]

\* What is pending lies side by side: no folder twice, none below another.
SideBySide ==
    /\ DOMAIN front \cap DOMAIN next = {}
    /\ \A p, q \in Pending : p \notin Above[q]

\* A listing made in a pass that is no bootstrap pass is under the recorded ignore
\* set, which is the set of the pass that walks or is about to.
FiltersRecorded ==
    /\ pc \in {"unsave", "walking"} /\ ~boot => hash = ignored
    /\ pc = "unsave" => ~boot
    /\ \A n \in Nodes : <<n, FALSE>> \in filtered => hash # None /\ n \in hash
    /\ saved # None =>
          \A n \in Nodes : <<n, FALSE>> \in saved.filtered => hash # None /\ n \in hash

\* If a folder still has the etag of its cached listing, everything below it is
\* cached as it is, down to the folders this walk has yet to serve.
CacheIsSound ==
    ~failed =>
        \A f, d \in Folders :
            /\ Vouched(cetag, f) /\ f \in Path(d)
            /\ Known(d, Hidden(filtered))
            /\ ~\E p \in Pending : f \in Above[p] /\ p \in Path(d)
            => Fresh(ckids, d, Hidden(filtered))

SavedIsSound ==
    saved # None /\ ~saved.failed =>
        \A f, d \in Folders :
            Vouched(saved.etags, f) /\ f \in Path(d) /\ Known(d, Hidden(saved.filtered))
            => Fresh(saved.kids, d, Hidden(saved.filtered))

\* A walk without the cache rebuilds it, whatever it held before: so a failed walk
\* is forgotten when a full walk is through.
RebuiltIsSound ==
    pc = "walking" /\ ~useCache =>
        \A f, d \in Folders :
            /\ Vouched(cetag, f) /\ f \in Path(d)
            /\ Known(d, ignored)
            /\ Path(d) \cap Pending = {}
            => Fresh(ckids, d, ignored)

\* While the cached etag of a folder stands, so does what the walk has asked below it.
AskedIsCurrent ==
    \A p \in Pending : \A f \in Above[p] : Vouched(cetag, f) => Asked(p) = etag[p]

\* What the cache would serve in place of a pending folder was so in the window.
ServedWasSo ==
    useCache /\ ~failed =>
        \A p \in Pending : \A g \in Files :
            cetag[p] = Asked(p) /\ Asked(p) # 0 /\ p \in Above[g] /\ Plain(g) =>
                /\ g \in FromCache(p) => ckids[Parent[g]][g] \in during[g]
                /\ g \notin FromCache(p) => 0 \in during[g]

WindowIsOpen == pc = "walking" => \A g \in Files : etag[g] \in during[g]

\* What the walk has listed was so in the window, and what it has not listed was
\* absent in the window or is still to come.
ListedWasSo ==
    pc = "walking" /\ ~failed =>
        \A g \in Files : Plain(g) =>
            /\ g \in DOMAIN out => out[g] \in during[g]
            /\ g \notin DOMAIN out => 0 \in during[g] \/ Above[g] \cap Pending # {}

WalkInv ==
    /\ TypeOK
    /\ CloudIsTree /\ EtagsArePast /\ QuietOutside /\ SideBySide /\ FiltersRecorded
    /\ CacheIsSound /\ SavedIsSound /\ RebuiltIsSound
    /\ AskedIsCurrent /\ ServedWasSo /\ WindowIsOpen /\ ListedWasSo
=============================================================================
