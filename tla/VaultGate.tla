------------------------------- MODULE VaultGate -------------------------------
(***************************************************************************)
(* What a pass checks before it may take a missing note for a deleted one  *)
(* (syncer.py _decide_pass): that the folder at local_root is the vault    *)
(* the baseline knows (_preflight_local and the marker of config.py), that *)
(* the baseline's keys are those of this volume (_ident, the NFC probe,    *)
(* _migrate_baseline_nfc, _normalization_downgraded), that the ignore set  *)
(* did not change (_ignore_changed), and that this is not the first pass   *)
(* of a daemon.  With the daemon's own preflight and restart, a one-shot   *)
(* sync and rebaseline.                                                    *)
(*                                                                         *)
(* One note with an accented name, whose name has a decomposed form "d"    *)
(* and a composed form "c".  A folder's volume is sensitive when it tells  *)
(* the two apart.  Only the presence of the note counts here: contents     *)
(* and policies are FileSync's, several paths and the threshold TreeSync's *)
(* and the walk cache in full WalkCache's.  A folder is named by its       *)
(* marker, once it has one; the folder at local_root does not change under *)
(* a running pass, nor its volume under a running process.                 *)
(***************************************************************************)
EXTENDS Naturals

CONSTANTS
    Folders,      \* the folders that may stand at local_root
    None,         \* no folder
    MaxChanges    \* bound on what users do to folders, iCloud and settings

ASSUME VaultGateAssumption ==
    /\ None \notin Folders
    /\ MaxChanges \in Nat

VARIABLES
    at, notes, sensitive, marked,    \* the folder at local_root; per folder: the
                                     \* note's forms in it, its volume, whether it
                                     \* holds a marker
    remote,                          \* the note's forms in iCloud
    config,                          \* the settings on disk
    rows, uuid, migrated, hash, saved,   \* the baseline, its meta, the saved cache
    pc, oneshot, boot, settings, nfc, cache,   \* the process
    defer, mine, theirs,             \* the pass: deletions deferred, the keys listed
    missed,                          \* history of the pass: it may delete, and its listing
                                     \* of iCloud replays a cache without the note, which
                                     \* it does not ignore
    erased, erasedRemote,            \* history: the forms the user deleted in a
                                     \* folder, in iCloud
    mixed,                           \* history: a pass that may delete saw both forms
                                     \* of the note and told them apart
    changes

world == <<at, notes, sensitive, marked, remote, config, erased, erasedRemote, changes>>
store == <<rows, uuid, migrated, hash, saved>>
process == <<oneshot, boot, settings, nfc, cache>>
pass == <<defer, mine, theirs, missed>>
vars == <<world, store, process, pass, pc, mixed>>

Names == {"d", "c"}

\* unicodedata.normalize("NFC", name)
Nfc(name) == "c"

Settings == [normalize : BOOLEAN, ignored : BOOLEAN]

Defaults == [normalize |-> TRUE, ignored |-> FALSE]

\* What the walk cache holds of the folder of the note: "shows" or "hides" it.
Caches == {"none", "shows", "hides"}

Steps == { "off", "idle", "check", "mark", "know", "rekey", "filters", "unsave",
           "scan", "list", "apply_d", "apply_c", "done" }

Listing == {"rekey", "filters", "unsave", "scan", "list"}

Applying == {"apply_d", "apply_c"}

\* A fresh profile, whose vault and iCloud folder may hold the note already.
Init ==
    /\ at \in Folders
    /\ notes \in [Folders -> {{}, {"d"}, {"c"}}]
    /\ \A f \in Folders : f # at => notes[f] = {}
    /\ sensitive \in [Folders -> BOOLEAN]
    /\ marked = [f \in Folders |-> FALSE]
    /\ remote \in {{}, {"c"}}
    /\ config = Defaults
    /\ rows = {} /\ uuid = None /\ migrated = FALSE /\ hash = {} /\ saved = "none"
    /\ pc = "off" /\ oneshot = FALSE /\ boot = FALSE /\ settings = Defaults
    /\ nfc = "unknown" /\ cache = "none"
    /\ defer = FALSE /\ mine = {} /\ theirs = {}
    /\ erased = [f \in Folders |-> {}] /\ erasedRemote = {}
    /\ missed = FALSE /\ mixed = FALSE /\ changes = 0

-----------------------------------------------------------------------------
\* The folder opened at the path of a name: a volume that is not sensitive
\* finds the note under either form.
Resolves(name) == IF sensitive[at] THEN name \in notes[at] ELSE notes[at] # {}

\* _child: the exact name first, then any with the same NFC form.
Nodes(name) == IF name \in remote THEN {name} ELSE {n \in remote : Nfc(n) = Nfc(name)}

\* _normalize_active: the probe is asked once in the life of the process.
Probed == IF nfc # "unknown" THEN nfc = "yes" ELSE ~sensitive[at]

Active == settings.normalize /\ Probed

Probe == nfc' = IF ~settings.normalize THEN nfc ELSE IF Probed THEN "yes" ELSE "no"

\* _ident
Ident(name) == IF Active THEN Nfc(name) ELSE name

\* A process that is gone keeps nothing in memory.
Ends ==
    /\ pc' = "off" /\ boot' = FALSE /\ oneshot' = FALSE
    /\ nfc' = "unknown" /\ cache' = "none" /\ settings' = Defaults
    /\ defer' = FALSE /\ mine' = {} /\ theirs' = {} /\ missed' = FALSE

\* The initial pass is over whether it completed or not.
EndPass ==
    IF oneshot THEN Ends
    ELSE /\ pc' = "idle" /\ boot' = FALSE
         /\ defer' = FALSE /\ mine' = {} /\ theirs' = {} /\ missed' = FALSE
         /\ UNCHANGED <<oneshot, settings, nfc, cache>>

-----------------------------------------------------------------------------
\* The daemon's _preflight: a missing root with a baseline ends the start, one
\* without is created.  cli.py sync has no preflight of its own.
StartDaemon ==
    /\ pc = "off"
    /\ \/ at # None /\ UNCHANGED at
       \/ at = None /\ rows = {}
          /\ at' \in {f \in Folders : notes[f] = {} /\ ~marked[f]}
    /\ pc' = "idle" /\ boot' = TRUE /\ settings' = config /\ cache' = saved
    /\ UNCHANGED <<notes, sensitive, marked, remote, config, erased,
                   erasedRemote, changes, store, pass, oneshot, nfc, mixed>>

StartSync ==
    /\ pc = "off"
    /\ pc' = "check" /\ oneshot' = TRUE /\ settings' = config
    /\ UNCHANGED <<world, store, pass, boot, nfc, cache, mixed>>

BeginPass ==
    /\ pc = "idle"
    /\ pc' = "check" /\ defer' = boot
    /\ UNCHANGED <<world, store, process, mine, theirs, missed, mixed>>

\* A clean stop exports the cache.
StopDaemon ==
    /\ pc = "idle"
    /\ saved' = cache
    /\ Ends
    /\ UNCHANGED <<world, rows, uuid, migrated, hash, mixed>>

\* Any step of a pass may fail, and the process may be killed at any step.
PassFails ==
    /\ pc \notin {"off", "idle"} /\ ~oneshot
    /\ EndPass
    /\ UNCHANGED <<world, store, mixed>>

Kill ==
    /\ pc # "off"
    /\ Ends
    /\ UNCHANGED <<world, store, mixed>>

-----------------------------------------------------------------------------
Unmarked == {f \in Folders : notes[f] = {} /\ ~marked[f]}

\* Mutant of CheckVault: any folder with a marker is taken for the vault.
CheckNothing ==
    /\ pc = "check" /\ at # None
    /\ pc' = IF marked[at] THEN "rekey" ELSE "mark"
    /\ UNCHANGED <<world, store, process, pass, mixed>>

\* _preflight_local up to its first write.  A root that is missing is created for
\* an empty baseline and fails the pass otherwise; a vault identity error ends
\* the process, and a daemon exports its cache.
CheckVault ==
    /\ pc = "check"
    /\ \/ /\ at = None /\ rows = {}
          /\ at' \in Unmarked
          /\ pc' = "mark" /\ UNCHANGED <<process, pass, saved>>
       \/ /\ at = None /\ rows # {}
          /\ EndPass /\ UNCHANGED <<at, saved>>
       \/ /\ at # None /\ rows # {} /\ uuid # None
          /\ ~marked[at] \/ uuid # at
          /\ Ends
          /\ saved' = IF oneshot THEN saved ELSE cache
          /\ UNCHANGED at
       \/ /\ at # None
          /\ rows = {} \/ uuid = None \/ (marked[at] /\ uuid = at)
          /\ pc' = IF ~marked[at] THEN "mark" ELSE IF uuid # at THEN "know" ELSE "rekey"
          /\ UNCHANGED <<at, process, pass, saved>>
    /\ UNCHANGED <<notes, sensitive, marked, remote, config, erased, erasedRemote, changes,
                   rows, uuid, migrated, hash, mixed>>

\* write_vault_marker
WriteMarker ==
    /\ pc = "mark"
    /\ marked' = [marked EXCEPT ![at] = TRUE]
    /\ pc' = "know"
    /\ UNCHANGED <<at, notes, sensitive, remote, config, erased, erasedRemote,
                   changes, store, process, pass, mixed>>

\* set_meta("vault_uuid")
KnowVault ==
    /\ pc = "know"
    /\ uuid' = at
    /\ pc' = "rekey"
    /\ UNCHANGED <<world, rows, migrated, hash, saved, process, pass, mixed>>

\* _migrate_baseline_nfc, in one transaction: of two rows that become one key
\* both are dropped.
Rekey ==
    /\ pc = "rekey"
    /\ Probe
    /\ IF Active /\ ~migrated
       THEN /\ rows' = IF rows = Names THEN {} ELSE {Nfc(k) : k \in rows}
            /\ migrated' = TRUE
       ELSE UNCHANGED <<rows, migrated>>
    /\ pc' = "filters"
    /\ UNCHANGED <<world, uuid, hash, saved, oneshot, boot, settings, cache, pass, mixed>>

\* The walk cache of a walk under the settings of the process.
Filtered == IF settings.ignored THEN "hides" ELSE "shows"

\* The hashed policy.
Policy == [ignored |-> settings.ignored, active |-> Active]

\* _ignore_changed, not asked when deletions are deferred already: a new policy is
\* recorded, defers the deletions of this pass and drops the walk cache.
Filters ==
    /\ pc = "filters"
    /\ Probe
    /\ LET changed == ~defer /\ hash \notin {{}, {Policy}}
       IN  /\ hash' = IF defer THEN hash ELSE {Policy}
           /\ defer' = (defer \/ changed)
           /\ cache' = IF changed THEN "none" ELSE cache
           /\ pc' = IF changed THEN "unsave" ELSE "scan"
    /\ UNCHANGED <<world, rows, uuid, migrated, saved, oneshot, boot, settings,
                   mine, theirs, missed, mixed>>

\* set_meta("walk_cache", ""), a commit after that of the policy.
Unsave ==
    /\ pc = "unsave"
    /\ saved' = "none"
    /\ pc' = "scan"
    /\ UNCHANGED <<world, rows, uuid, migrated, hash, process, pass, mixed>>

\* Mutant of Scan: the volume's change is not noticed.
ScanUnheeded ==
    /\ pc = "scan"
    /\ Probe
    /\ mine' = IF settings.ignored THEN {} ELSE {Ident(n) : n \in notes[at]}
    /\ pc' = "list"
    /\ UNCHANGED <<world, store, oneshot, boot, settings, cache, defer, theirs, missed, mixed>>

\* _normalization_downgraded, then _scan_local.  A root that is gone by now fails
\* the pass.
Scan ==
    /\ pc = "scan"
    /\ Probe
    /\ defer' = (defer \/ (migrated /\ ~Active))
    /\ mine' = IF settings.ignored THEN {} ELSE {Ident(n) : n \in notes[at]}
    /\ pc' = "list"
    /\ UNCHANGED <<world, store, oneshot, boot, settings, cache, theirs, missed, mixed>>

\* Mutant of Listed: a cached listing is replayed as it was filtered (_emit_cached
\* without its test).
ListedAsCached == IF cache' = "hides" THEN {} ELSE {Ident(n) : n \in remote}

\* What a walk lists: what the cache shows, when it is used, and the ignore set of
\* this pass does not hide.
Listed == IF cache' = "hides" \/ settings.ignored THEN {} ELSE {Ident(n) : n \in remote}

\* _scan_remote: a walk replays the cache, or walks afresh when there is none or the
\* full walk is due.
List ==
    /\ pc = "list"
    /\ \/ cache # "none" /\ UNCHANGED cache
       \/ cache' = Filtered
    /\ theirs' = Listed
    /\ missed' = (~defer /\ cache' = "hides" /\ ~settings.ignored)
    /\ mixed' = (mixed \/ (~defer /\ ~migrated /\ ~Active /\ rows \cup mine \cup theirs' = Names))
    /\ pc' = "apply_d"
    /\ UNCHANGED <<world, store, oneshot, boot, settings, nfc, defer, mine>>

-----------------------------------------------------------------------------
\* A change of the folder in iCloud, an upload over the same name too, changes its etag:
\* what was cached of it is not served again.
RemoteBecomes(forms) == remote' = forms /\ cache' = "none" /\ saved' = "none"

\* _remove_existing, then an upload named after the source file.
Upload(k) ==
    /\ Resolves(k)
    /\ RemoteBecomes((remote \ Nodes(k)) \cup {k})
    /\ rows' = rows \cup {k} /\ erasedRemote' = erasedRemote \ {k}
    /\ UNCHANGED <<notes, erased>>

\* The replace keeps the name a volume already knows the note by.
Download(k) ==
    /\ Nodes(k) # {}
    /\ notes' = [notes EXCEPT ![at] = IF Resolves(k) THEN @ ELSE @ \cup {k}]
    /\ rows' = rows \cup {k} /\ erased' = [erased EXCEPT ![at] = @ \ {k}]
    /\ UNCHANGED <<remote, cache, saved, erasedRemote>>

DeleteRemote(k) ==
    /\ IF Nodes(k) = {} THEN UNCHANGED <<remote, cache, saved>>
       ELSE RemoteBecomes(remote \ Nodes(k))
    /\ rows' = rows \ {k}
    /\ UNCHANGED <<notes, erased, erasedRemote>>

DeleteLocal(k) ==
    /\ notes' = [notes EXCEPT ![at] = IF sensitive[at] THEN @ \ {k} ELSE {}]
    /\ rows' = rows \ {k}
    /\ UNCHANGED <<remote, cache, saved, erased, erasedRemote>>

Record(k, present) ==
    /\ rows' = IF present THEN rows \cup {k} ELSE rows \ {k}
    /\ UNCHANGED <<notes, remote, cache, saved, erased, erasedRemote>>

Skip == UNCHANGED <<rows, notes, remote, cache, saved, erased, erasedRemote>>

\* _decide_file by presence, and the operation it chose.
Act(k) ==
    LET known == k \in rows  here == k \in mine  there == k \in theirs
    IN  CASE here /\ there                       -> Record(k, TRUE)
          [] ~here /\ ~there                     -> Record(k, FALSE)
          [] here /\ ~there /\ ~known            -> Upload(k)
          [] ~here /\ there /\ ~known            -> Download(k)
          [] here /\ ~there /\ known             -> IF defer THEN Skip ELSE DeleteLocal(k)
          [] ~here /\ there /\ known             -> IF defer THEN Skip ELSE DeleteRemote(k)

\* The operations run in the order of the keys; one that fails leaves its row.
Apply(k, step, next) ==
    /\ pc = step
    /\ Act(k) \/ Skip
    /\ pc' = next
    /\ UNCHANGED <<at, sensitive, marked, config, changes, uuid, migrated,
                   hash, oneshot, boot, settings, nfc, pass, mixed>>

ApplyDecomposed == Apply("d", "apply_d", "apply_c")

ApplyComposed == Apply("c", "apply_c", "done")

\* The pass is complete.
Complete ==
    /\ pc = "done"
    /\ EndPass
    /\ UNCHANGED <<world, store, mixed>>

-----------------------------------------------------------------------------
\* cmd_rebaseline, under the lock: the baseline goes with its meta, a marker is
\* kept.
Rebaseline ==
    /\ pc = "off"
    /\ rows' = {} /\ uuid' = None /\ migrated' = FALSE /\ hash' = {} /\ saved' = "none"
    /\ marked' = [f \in Folders |-> marked[f] \/ f = at]
    /\ UNCHANGED <<at, notes, sensitive, remote, config, erased, erasedRemote,
                   changes, process, pass, pc, mixed>>

-----------------------------------------------------------------------------
\* What users do, at most MaxChanges times.  A note is not created anew where the
\* baseline remembers it: what happens then is FileSync's.  The gates read neither
\* the notes nor the settings on disk, so that a change of these while they run is
\* a change just after.
Changes(when) ==
    /\ pc \in when
    /\ changes < MaxChanges /\ changes' = changes + 1

Anytime == {"off", "idle", "scan", "list"} \cup Applying

UserWrites(n) ==
    /\ Changes(Anytime)
    /\ at # None /\ notes[at] = {} /\ rows = {}
    /\ notes' = [notes EXCEPT ![at] = {n}]
    /\ erased' = [erased EXCEPT ![at] = @ \ {n}]
    /\ UNCHANGED <<at, sensitive, marked, remote, config, erasedRemote,
                   store, process, pass, pc, mixed>>

UserDeletes(n) ==
    /\ Changes(Anytime)
    /\ at # None /\ n \in notes[at]
    /\ notes' = [notes EXCEPT ![at] = @ \ {n}]
    /\ erased' = [erased EXCEPT ![at] = @ \cup {n}]
    /\ UNCHANGED <<at, sensitive, marked, remote, config, erasedRemote,
                   store, process, pass, pc, mixed>>

DeviceWrites(n) ==
    /\ Changes(Anytime)
    /\ remote = {} /\ rows = {}
    /\ RemoteBecomes({n})
    /\ erasedRemote' = erasedRemote \ {n}
    /\ UNCHANGED <<at, notes, sensitive, marked, config, erased,
                   rows, uuid, migrated, hash, oneshot, boot, settings, nfc, pass, pc, mixed>>

DeviceDeletes(n) ==
    /\ Changes(Anytime)
    /\ n \in remote
    /\ RemoteBecomes(remote \ {n})
    /\ erasedRemote' = erasedRemote \cup {n}
    /\ UNCHANGED <<at, notes, sensitive, marked, config, erased,
                   rows, uuid, migrated, hash, oneshot, boot, settings, nfc, pass, pc, mixed>>

\* The vault is moved away, recreated or unmounted, or another folder takes its
\* place.
Swap(f) ==
    /\ Changes({"off", "idle"})
    /\ f # at /\ at' = f
    /\ UNCHANGED <<notes, sensitive, marked, remote, config, erased,
                   erasedRemote, store, process, pass, pc, mixed>>

\* The vault moves to a volume of the other kind with all it holds; of two forms
\* that become one file, one is lost to the move.
Convert(f) ==
    /\ Changes({"off"})
    /\ sensitive' = [sensitive EXCEPT ![f] = ~@]
    /\ notes' = [notes EXCEPT ![f] = IF @ = Names THEN {"c"} ELSE @]
    /\ erased' = [erased EXCEPT ![f] = IF notes[f] = Names THEN {"d"} ELSE @]
    /\ UNCHANGED <<at, marked, remote, config, erasedRemote,
                   store, process, pass, pc, mixed>>

EditSettings(s) ==
    /\ Changes({"off"})
    /\ s # config /\ config' = s
    /\ UNCHANGED <<at, notes, sensitive, marked, remote, erased, erasedRemote,
                   store, process, pass, pc, mixed>>

-----------------------------------------------------------------------------
Gates == CheckVault \/ WriteMarker \/ KnowVault \/ Rekey \/ Filters \/ Unsave

Pass == \/ BeginPass \/ Gates \/ Scan \/ List
        \/ ApplyDecomposed \/ ApplyComposed \/ Complete

Users == \/ \E n \in Names : UserWrites(n) \/ UserDeletes(n) \/ DeviceWrites(n) \/ DeviceDeletes(n)
         \/ \E f \in Folders \cup {None} : Swap(f)
         \/ \E f \in Folders : Convert(f)
         \/ \E s \in Settings : EditSettings(s)

Next == \/ StartDaemon \/ StartSync \/ StopDaemon
        \/ Pass \/ PassFails \/ Kill
        \/ Rebaseline
        \/ Users

Spec == Init /\ [][Next]_vars

-----------------------------------------------------------------------------
\* Every variable holds a value of its kind, and a pass that is past its check works
\* on the folder the baseline knows.
TypeOK ==
    /\ at \in Folders \cup {None}
    /\ notes \in [Folders -> SUBSET Names] /\ sensitive \in [Folders -> BOOLEAN]
    /\ marked \in [Folders -> BOOLEAN]
    /\ remote \subseteq Names /\ config \in Settings
    /\ rows \subseteq Names /\ uuid \in Folders \cup {None} /\ migrated \in BOOLEAN
    /\ hash \subseteq [ignored : BOOLEAN, active : BOOLEAN]
    /\ saved \in Caches /\ cache \in Caches
    /\ pc \in Steps /\ oneshot \in BOOLEAN /\ boot \in BOOLEAN
    /\ settings \in Settings /\ nfc \in {"unknown", "yes", "no"}
    /\ defer \in BOOLEAN
    /\ mine \subseteq Names /\ theirs \subseteq Names
    /\ missed \in BOOLEAN /\ mixed \in BOOLEAN
    /\ erased \in [Folders -> SUBSET Names] /\ erasedRemote \subseteq Names
    /\ changes \in 0..MaxChanges
    /\ pc \notin {"off", "idle", "check"} => at \in Folders
    /\ pc \in Listing \cup Applying \cup {"done"} => uuid = at /\ marked[at]

\* A step of a pass that applies.  Nothing is promised where both forms of the note
\* met and are not made one, for an upload of one replaces the other.
Applies == pc \in Applying /\ pc' # pc /\ ~mixed

\* A pass takes the note out of iCloud only if the user deleted a form of it in
\* the folder at local_root: no swap of folders, move to another volume, change of
\* the settings, restart, kill or one-shot sync makes a missing note a deleted one.
RemoteKept ==
    [][Applies /\ remote # {} /\ remote' = {} => erased[at] # {}]_vars

\* A pass takes the note out of the vault only if another device deleted a form of it
\* in iCloud, or if it took a note that is no longer ignored for a deleted one, which
\* UnignoredIsKept shows it does.
LocalKept ==
    [][Applies /\ ~missed /\ notes[at] # {} /\ notes'[at] = {} => erasedRemote # {}]_vars

-----------------------------------------------------------------------------
(* What the source says and the code does not do.                          *)

\* After a change of the ignore set no listing made under the old one is replayed
\* ("a newly-un-ignored one stays missing. Drop it ... so this pass walks fresh",
\* syncer.py:641-644): a note that is ignored no more is not taken for deleted.
UnignoredIsKept ==
    [][Applies /\ notes[at] # {} /\ notes'[at] = {} => erasedRemote # {}]_vars
=============================================================================
