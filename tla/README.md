# Formal model of ifolder-sync

`ifolder-sync` keeps a local folder (an Obsidian vault) and an iCloud Drive folder in
step. A per-profile daemon scans the vault, lists iCloud through its web API, compares
both with a persisted baseline (three-way diff), and applies the differences. This
directory holds TLA+ modules of the parts of that program where order, failure and
concurrency decide whether data is kept, the TLC configurations that check them on small
instances, and proofs (TLAPS) of the results that hold for every instance.

All line numbers refer to `src/`; files without a directory are in `src/ifolder_sync/`.

## 1. The system

| Component | State it keeps | Operations | Interacts with |
|---|---|---|---|
| decision layer (`syncer.py` `_decide_file`) | none | signature comparison, choice of an operation per path | called by the pass |
| one file under a pass (`syncer.py` `_apply_file`, `_do_*`, `_resolve_conflict`, `trash.py`) | the file on both sides, baseline row, `settle_counts`, `unreadable_counts`, in-memory download backoff | record, upload, download, adopt, delete on either side, conflict resolution | client calls, state store, users |
| a pass over the tree (`syncer.py` `sync_once`, `_decide_pass`, `_apply_*`) | the listing, the plan, the rows of all paths | list, set aside conflicts and case twins, decide files and folders, threshold, bootstrap deferral, coalesced remote deletion, four apply phases | as above |
| remote listing (`icloud_client.py` `walk`) | etag and children per folder, persisted across clean restarts | walk with or without cache, invalidate, export, import | pass, state store |
| transfers (`icloud_client.py`, `retry.py`) | none | download, upload (move the old one aside, send), delete, trash, mkdir | pass |
| baseline store (`state.py`, `syncstate.py`) | SQLite rows and meta values | upsert, delete, meta, integrity check, backup | everything |
| instance lock (`locking.py`) | a kernel flock, the pid label in the lock file | acquire, release, probe | daemon and all commands |
| daemon (`daemon.py`, `watcher.py`) | stop and wake events, debounce timer, reconnect and drift counters, `last_error` | startup gates, loop, outcomes of a pass, reconnect, shutdown | launchd, pass, client, watcher thread |
| lifecycle commands (`cli.py`) | the plist in LaunchAgents | start, stop, restart, uninstall, install-agent over launchctl | launchd, lock |
| gates of a pass (`syncer.py`, `config.py`) | the vault marker; `vault_uuid`, `nfc_migrated`, `ignore_hash` and `nfc_active` in the baseline's meta | preflight, vault identity, NFC migration, deferral of deletions | daemon, one-shot sync, rebaseline |
| sign-in (`icloud_client.py`, `twofa.py`, `cli.py`) | the `.session` and `.cookiejar` files, the Keychain item | connect, two-factor dialogues, auth, status of the session | Apple, operator, all processes of the Apple ID |
| configuration (`config.py`), rendering (`cli.py`, `inflight.py`, `obsidian.py`) | profile files, `status.json` | load, validate, report | operator |

What is hard here, and what correctness means:

* **Nobody coordinates the two sides.** Users write the vault and other devices write
  iCloud between any two calls of a pass. A pass acts on a listing that is already old.
  *Correct:* no content is silently lost, agreement is real, a deletion is propagated
  only if a user made it, and passes come to rest.
* **Every call can fail, every process can die.** An operation is several I/O steps and a
  commit. *Correct:* the next pass reads what is left without taking the engine's own
  traces for a user's deed.
* **iCloud publishes records before content.** *Correct:* a record without its body is
  waited for, not judged, and not for ever.
* **Caching.** *Correct:* a cached listing is one the walk could have made.
* **Several processes share a baseline.** *Correct:* one writer at a time, on the file
  that is at the path.
* **The daemon runs unattended.** *Correct:* no wakeup is lost, logins to Apple are
  bounded, it goes down with a reason and comes back from a crash.
* **launchd answers later.** `bootout` and a throttled respawn take effect after the call
  returned, and another terminal may act in between. *Correct:* what a command reported
  stays true.
* **A missing note may be no deletion.** Another folder may stand at the vault's path, its
  volume may spell names differently, the ignore set may have changed. *Correct:* only a
  user's deletion is propagated.
* **Every process rewrites the session.** *Correct:* a trusted session is not thrown away,
  Apple is not asked again and again, and status does not call a refused session valid.

## 2. Modules

| Module | Models | Correspondence |
|---|---|---|
| `SyncDecide` | the decision layer | constant-level operators; `DecideFile` is `_decide_file`, branch by branch |
| `FileSync` | one path, one I/O step per action | `ScanLocal`, `Decide`, then the steps of the operation: `Upload*`, `Download*`, `Verify*`, `Conflict*`, `Delete*`; `Crash` at any step; users in `LocalEdit`, `RemoteEdit`, ... |
| `FileSyncInv` | the inductive invariants of `FileSync`: `LossInv` (behind `NoSilentLoss`), `TruthInv` (`AgreementIsReal`, `DeletionsAreUsers`, `UnreadableIsNotJudged`) and `OursInv` (`NoBlindUpload`) | |
| `TreeSync` | a pass over a tree: phases, folders, threshold, coalescing | a file operation is one step plus the commit of its row; EXTENDS `SyncDecide` |
| `TreeSyncInv` | its inductive invariants: `PassInv` (what a pass may remove), `KeepsInv` (`DeletedStaysDeleted`), `SettleInv` (`SoonAgrees`) | |
| `WalkCache` | the cached walk, level by level | one action per folder served, listed, failed or restarted |
| `WalkCacheInv` | its inductive invariant, behind the refinement of `RemoteListing` | |
| `InstanceLock` | the processes of one profile | one action per system call that another process can tell apart |
| `Daemon` | the daemon process and its launchd job | a pass is one step with the outcomes of `sync_once`; the login in a reconnect is a step of its own |
| `Lifecycle` | the lifecycle commands in several terminals, launchd, the daemon as a process | one action per launchctl call, poll or file operation |
| `VaultGate` | the gates of a pass, for one note whose name has two forms | one action per check or commit of `_decide_pass`, then the scan, the listing and one action per form |
| `Session` | signing in, and the session on disk | one action per file operation, login, prompt or request |
| `RemoteListing` | what a walk promises, without a cache | abstract specification; `WalkCache` implements it |
| `BaselineOwner` | what the instance lock promises | abstract specification; `InstanceLock` implements it |
| `FileSyncProofs`, `TreeSyncProofs`, `WalkCacheProofs`, `InstanceLockProofs`, `DaemonProofs`, `LifecycleProofs`, `SessionProofs`, `VaultGateProofs` | theorems | |
| `MC*` | values of the constants for TLC | |

Composition: `FileSync` and `TreeSync` share `SyncDecide`: the first opens each operation
and keeps one path, the second keeps whole trees and makes operations coarse. `WalkCache`
says what the listing both start from is worth. `InstanceLock` justifies that the engine
modules have a single engine. `Daemon` says when passes run, `VaultGate` when a pass may
believe a deletion. `Lifecycle` surrounds the daemon with the commands and keeps of it what
launchd sees; `Session` opens what is one step in `Daemon`, the login.

### FileSync
A body is `[size, mtime]`: the clock gives each user write its own mtime, so a body is
identified by its birth signature; the mtime a file *wears* is separate (downloads stamp
it, uploads send it). A remote copy is `full`, `unready` (size without content) or `husk`
(0 bytes until it heals). History variables: `owed` (non-empty bodies no user replaced or
deleted), `slipped` (vault writes that fell into the window of a download), `lgone` and
`rgone` (who made a side absent). Abstracted: `max_file_size_mb`, file names of backups (the
one-second stamp of conflict and trash names is taken as unique), retries inside a call
(`with_retry` shows as success or failure of the whole).

### TreeSync
`local`, `remote` and `base` map each path to absent, folder or a file version. The plan is
built in one step from the listing (`Decide`), as `_decide_pass` does without I/O. Phases:
`folders`, `trees` (coalesced remote deletions), `files`, `cleanup`. A multi-step file
operation is one step here; `FileSync` justifies the pieces. The assumptions on `Above` say that
the paths are a tree: the folders above a path are themselves paths with their own folders, and
any two of them lie one above the other. `calm` counts the passes since a user or a fault last
acted, but for those held up: with paths set aside or deletions withheld, a pass leaves work on
purpose. `Removed` and `Goes` look at every listed path, planned or set aside; `TakenAlong` are the
case twins below a folder that one call deletes, the one kind of path such a call takes that no
plan named.

### WalkCache
`cetag` and `ckids` are the cache, `saved` its persisted copy, `during[f]` the values a
file had while the present walk ran, `failed` whether a walk has failed since the cache was
filled. A changed ignore set is two commits, `HeedFilters` (meta `ignore_hash`,
`syncer.py:998`) and `Unsave` (meta `walk_cache`, `syncer.py:647`), with room for a kill or a
failure between them. `filtered` is the history of the ignore sets the cached listing was made
under, and says of each whether it is the recorded one; `Outlived` turns that flag when
`HeedFilters` records another set.
`CacheIsTransparent` maps the walk to `RemoteListing`: the window of the abstract walk is
`during`, what it shows is `out` once the last level is listed. In doubt (`Doubted`) are every
file once a walk has failed, and a file that is ignored no more and of which no pass is told,
because the cache comes from a bootstrap pass, from a process that died between the two commits,
or the present pass is a bootstrap pass. Section 5 has both.

### InstanceLock
The baseline is an inode number, so that an unlinked file somebody still has open is told
from the file at the path. `OneSessionAtATime` maps the lock to `BaselineOwner`: the owner is
the process that holds the flock and is past its label.

### Daemon
`lastError` is the cause in meta `last_error`. `vault` follows an edit: `edited`, `scanned`
by the present pass, `clean` once that pass completed. Time is not counted: a poll timeout
may end a wait at any moment, and `recent` stands for "less than
`min_reconnect_interval_seconds` since the last reconnect". So the active-window cadence
and the length of the backoff do not show; that the backoff is on does. The lock `_sync_lock`
is left out, for the main thread is the only caller of `_run_sync`. A login that needs the
operator raises `AuthError`, a `RuntimeError` (`_authenticate_token_first` and `connect`
convert to it); any other failure of a login is an API error or a network error.

### Lifecycle
launchd is external and is what the commands take it to be: `bootout` sends SIGTERM and unloads
the job when the process is gone, `bootstrap` of a loaded or disabled label fails, `kickstart -k`
respawns after at most `ThrottleInterval`, a crash is respawned and exit 0 is not, a login loads
every agent that is installed and enabled. Time is counted in units of the settle wait; a
command's `timer` is its deadline. `met[c]` is a history of what the reports of terminal `c` are
conditional on: another command (`start`, `other`), a crash. `lock` can be held by a process that
is not the job's, for instance a foreground daemon. `restart` and `start --background` run
the same converge chain and are one command here.

### VaultGate
Contents are `FileSync`'s business; here only the presence of one note counts, under two forms
of its accented name. A folder is identified by its marker once it has one. A volume is
`sensitive` when it tells the forms apart. `Swap`, `Convert` and `EditSettings` are what users do:
put another folder, or none, at `local_root`, move a folder to the other kind of volume, edit
`normalize_unicode` or the ignore set. `Listed` filters a cached listing again under the ignore set
of the pass, as `_emit_cached` does, so a cache can hide a note but not show an ignored one. The
histories `erased` and `erasedRemote` say what users deleted; `missed` marks a pass that replays a
listing without a note it does not ignore (finding `vault_unignored`), `mixed` one that saw both
forms. Users do not act between two gate steps of one pass, the folder
is not swapped under a running pass, and the NFC probe is made once per process, as in the code.

### Session
A session is how far the login came and the trust token, for that is what `_has_poisoned_session`
and pyicloud read. `mem[p]` is what a process holds and saves again after each of its requests,
`late` the processes that read before a trusted session was saved. pyicloud and Apple are
external. The Keychain may block, as it does without a login session; the two-factor prompts
are answered by a person or not at all. A request and the save after it are one step.

## 3. Runs

| Run | Shows | Bounds, and why they suffice |
|---|---|---|
| `filesync_newer` | nothing lost silently, agreement and deletions are real, no premature judgement of unreadable remotes, no blind upload, under policy `newer` | two user actions and one fault or kill at any step: a race needs one edit against one operation, a second edit makes the reaction race too, one mishap leaves each half-done state once. Sizes 0 and 1 tell empty from not; windows of 2 passes tell waiting from escalated |
| `filesync_settles` | a path settles when users and faults stop, under policy `both` | one user action and one mishap, from every initial placement |
| `walkcache_sees` | a cached walk implements a walk without a cache; the full walk heals what a failed walk left | a root and a folder, a file in each: one etag above another is what the cache logic compares. Four events among changes in iCloud, starts and failures of a pass or a listing: a start that fills the cache, one that dies between the two commits, one that imports what is left, and a change or failure beside them |
| `lock_exclusive` | one writer, on the right file; the lock implements sessions one at a time | three processes: holder, prober, newcomer |
| `tree_pass` | threshold, deletions of whole folders, no resurrection, passes come to rest within `2 + Depth` passes | six paths in two levels with a case twin and an ignored file; two user actions, one fault |
| `daemon_run` | no lost wakeup, prompt and explained stops, bounded logins, edits get synced | one reconnect per completed pass, two edits, three faults, lapses, signals or kills |
| `lifecycle_run` | what start, stop and uninstall reported stays true, a start fails only for a reason, every command ends | two terminals, each any number of commands; every timeout one unit, a drain of up to two: shorter than, as long as and longer than the settle wait |
| `vault_run` | a pass takes the note off one side only if a user deleted it on the other | two folders, one to be swapped for the other; three changes by users: two to set a scene (a move and an edit, say) and one for the pass to meet. Passes, restarts, kills and one-shot syncs are not bounded |
| `session_run` | logins and codes are bounded, a trusted session is kept, status is honest, an unattended sign-in ends | one terminal, one daemon; two wrong codes and one of the legacy flow (5 and 3 in the code): one below the limit and one at it. Attempts, lapses and faults are not bounded |
| `filesync_valve`, `walkcache_torn`, `vault_unignored` | the findings of section 5 | as the passing run of the module; `vault_unignored` needs two changes |

Deadlock is checked except in `WalkCache`, where the bound on events stops the model
while the process is down, and in `Lifecycle`, `VaultGate` and `Session`, where nothing need
happen once everybody is off: a system at rest is no deadlock there.

`SoonAgrees` allows `2 + Depth` undisturbed passes: the one the last edit or fault cut into, one
for the files, and one per level of folders, because `_coalesce_remote_deletes` counts files the
same pass deletes in the vault as survivors (`kept`), so that the local folders of a tree deleted
in iCloud go one level per pass. With `1 + Depth` the property fails. Passes that are held up do
not count, for a set-aside path or a withheld deletion waits for the operator. A pass may also be
held up by the percentage alone, add rows and so bring the share of its own deletions down: then
the next pass deletes what this one withheld (other constants than the run's show it:
`ThresholdPct = 45`, `ThresholdCount = 3`). What does hold, and the property says, is that once a
pass was not held up none is again.

### Fairness
* `FileSync`: weak fairness of the engine. The poll timer starts a pass whenever none runs,
  and calls return or fail (`_install_request_timeout`). Nothing obliges content to arrive:
  `EventuallySettled` names the paths that may wait for it.
* `WalkCache`: weak fairness of starting a pass and of the walk, and strong fairness of the
  full-walk cadence, which is a wall clock that runs on through restarts.
* `Daemon`: weak fairness of the process's own steps (waits have a timeout, requests too),
  the timer thread, elapsing time and launchd's restart of a crashed job. The operator, the
  users, Apple and faults are under no fairness.
* `Lifecycle`: weak fairness of each command, which polls with a sleep of its own, and of what
  launchd has due (`Spawn`, `DrainEnds`); strong fairness of `Tick`, for time passes also beside a
  daemon that crashes at each spawn. Nobody is obliged to run a command.
* `Session`: weak fairness of a daemon's own steps in its sign-in. A Keychain read that blocks
  stays blocked: the daemon's way out is the code's timeout. Persons are under no fairness.

## 4. Proofs

| Theorem | Says |
|---|---|
| `FileSyncProofs!DeleteNeedsBaseline` | a path without a baseline row is never deleted by the decision layer |
| `FileSyncProofs!TypeCorrect` | `FileSync` is type correct, and every step finds the snapshot or buffer it uses |
| `FileSyncProofs!LossInductive`, `NothingLost` | no silent loss, for every policy, tolerance, window, set of sizes and bound |
| `FileSyncProofs!TruthInductive`, `AgreementHolds`, `DeletionsFollowUsers`, `UnreadableWaits` | what the next pass would only re-record is the same on both sides; a pass deletes a side's file only after a user emptied the other; an unreadable remote is waited for the whole window |
| `FileSyncProofs!OursInductive`, `NoEditOverwritten` | a plain upload replaces no remote body that a user wrote and nobody replaced since |
| `TreeSyncProofs!TreeTypes`, `ThresholdKept`, `DoomedAlone` | the types of a pass; for any tree and threshold, a pass removes only the listed files it decided to delete, and no more of them than the threshold admits, files set aside included; case twins below a folder deleted in one call excepted |
| `TreeSyncProofs!DeletionsStay` | what a user deleted on one side while both agreed stays deleted there, through any number of edits, faults and kills |
| `TreeSyncProofs!PassesComeToRest` | undisturbed passes find nothing left to do after `2 + Depth` of them, for any tree: the bound, not merely that it ends |
| `WalkCacheProofs!WalkTypes`, `CacheSound` | the walk's types; a cache no failed walk has touched is true wherever the etag it has of a folder stands |
| `WalkCacheProofs!WalkImplementsListing` | `WalkCache` implements `RemoteListing`, for any tree of items, ignore sets and bounds, and through kills between any two commits |
| `InstanceLockProofs!LockTypes`, `WritersApart`, `CommandsShareBaseline`, `LabelHonest` | the lock's types and safety, for any number of processes; the label in the lock file names the holder or nobody |
| `InstanceLockProofs!SessionsApart` | `InstanceLock` implements `BaselineOwner` |
| `DaemonProofs!DaemonTypes`, `LoginsBounded`, `RefusedLoginNotRepeated`, `WakeupsKept`, `StopsPromptly`, `CauseIsShown` | the daemon's types and safety properties for every budget and bound |
| `LifecycleProofs!LifeTypes`, `StopIsKept`, `UninstallIsKept` | what stop and uninstall reported stays true, for any number of terminals and any timeouts |
| `LifecycleProofs!StartIsKept` | so does what start reported, however many starts run at once |
| `LifecycleProofs!FailuresHaveReasons` | a start reports failure only if another command came in between, the daemon crashed or stopped on purpose, or its drain outlasted the settle wait |
| `SessionProofs!SessionTypes`, `LoginsAreFew`, `StatusHonest`, `TrustIsKept` | all safety properties of `Session` for any number of processes and limits |
| `VaultGateProofs!VaultIsKnown` | type correctness, and with it: a pass past its check works on the folder the baseline knows, which holds its marker |
| `VaultGateProofs!NoteKeptRemotely`, `NoteKeptLocally` | a pass takes the note off one side only if a user deleted it on the other, for any folders and any number of changes; out of the vault, also where its listing lacks a note that is ignored no more (`missed`) |

They assume what the modules' `ASSUME`s state (and TLC evaluates): constants of their kind,
`None`, `Nobody`, `Torn` outside the data, `MaxInodes`, `MaxTrips` and the timeouts positive,
attended and unattended processes disjoint, the paths of a tree a tree. The theorems of `FileSync`
that need `TruthInv` have one hypothesis more, `Apart`: users write more than `MTimeTol` ticks
apart. Two writes of one size within the tolerance are one signature to the engine, by design
(`MTIME_TOL`, `syncer.py:79`). The runs of `FileSync` satisfy it (`MCApart`), and `NothingLost` does
without.

* **`NothingLost`.** `NoSilentLoss` is not inductive: a state may be one step from replacing a
  file that is nowhere else. `LossInv` (module `FileSyncInv`) says why each such step is safe:
  a vault file that still wears the baseline's local signature is backed elsewhere
  (`BaselineIsBacked`), what a download is about to replace is backed unless the file moved
  since the scan (`ReplacedIsBacked`), what was fetched is backed (`FetchedIsBacked`), what an
  upload sends is what the vault holds (`UploadIsVault`), and the clock is ahead of every
  recorded signature, so no later write wears an old one (`ClockAhead`).
* **`TruthInv`.** The engine reads three things as facts: a signature that did not move, a side
  that is absent, bytes it fetched. `TruthInv` ties each to what users did: a listing is of the
  file as it is or of one written since (`RemoteSince`, `LocalSince`), what was decided follows
  from such a listing (`DecisionHolds`), and an absence the engine made itself is known to it
  (`EngineEmptiedRemote`, `EngineEmptiedLocal`), so that it is never read as a deletion.
* **`OursInv`** adds where a body that another device wrote is: in the row, in the listing or in the
  snapshot an upload compares before it replaces (`KnownIsOurs`, `FetchedIsNews`, `SnapshotIsOwn`). It
  is conditional on no vault write having slipped into a download, as `NoBlindUpload` is.
* **`TreeSync`.** The plan is fixed when a pass decides, so every operation is traced back to the
  listings: `PassInv` says whose work is at hand, and what a folder's deletion takes along was
  planned or a case twin (`RootFacts`, `CoveredFacts`, `BelowRoot`: nothing below it can be in a conflict
  of kinds, for the vault has nothing there). `KeepsInv` is what the other side, the rows and the running
  pass may still hold of a path that a user deleted: no version the baseline does not know, no
  new folder still to be made. For `SoonAgrees`, `SettleInv` gives each path the goal its listings
  fix (`Goal`). The goals form a tree (`GoalsClosed`), hence no operation of the pass undoes
  another and none fails (`NothingFails`); a pass that ends leaves every path at its goal, but for
  folders with something kept below (`Lasting`). Such a folder lies above one that lasted in the
  pass before (`LastingDeepens`), so its level plus the number of passes is bounded by `Depth + 1`,
  and after `2 + Depth` there is none.
* **`WalkCache`.** `WalkInv`: an etag that stands vouches for its whole subtree. While no walk
  failed, whatever is cached below a folder whose cached etag is current is as it is
  (`CacheIsSound`; `SavedIsSound` for the copy across restarts, `RebuiltIsSound` for a full walk
  under way, which forgets a failure). So what is served in place of a listing was so while the
  walk ran (`ServedWasSo`), what is shown was so (`ListedWasSo`), and `Walk` maps to the abstract
  walk. It needs of the tree that every set of nodes has a topmost one.
* **`InstanceLock`.** The invariant: past the flock a process holds it, and its handle is the
  file at the path unless it is a daemon that opened before. The step lemma of the refinement
  has one case per process step: `Begin` at the label, `End` at a release or a kill of the owner,
  `Create` and `Remove` where the file comes and goes, stutters otherwise.
* **`Daemon`.** `DaemonInv`: the reconnect counter equals the logins it stands for; an edit that
  is being scanned is not also waiting to be noticed; after a refused login, or a stop nobody
  asked for, the process is on its way out with its cause recorded; before the handlers are
  installed no event is set.
* **`Lifecycle`.** Stop and uninstall: only a start or a login loads a job, and a terminal that
  has met neither knows what it unloaded is unloaded (`StartIsMet`, `StopHolds`,
  `UninstallHolds`). Start is harder, since starts boot each other's job out: what survives is
  `Carried`, the job has a process or some start is on its way to bootstrap it, and once all
  commands are over only the first is left. `FailuresHaveReasons` is about clocks: a command that met
  nobody else is `Alone`, and then what it waits for (the drain, the throttled spawn) is due before
  its deadline.
* **`Session`.** The counters are those of one sign-in, so the invariant says at which step which
  count stands (`LoginsCounted`, `CodesCounted`), that what stopped the daemon stays recorded
  (`RefusalRecorded`), and that who could still destroy a trusted session read before it was
  saved (`Known`).
* **`VaultGate`.** `MarkedFirst`: a folder holds its marker before the baseline records it in
  `vault_uuid`; with it `TypeOK` is inductive. `KeptInv` is the argument of the two action
  properties: while a row is in play, a note that is missing on one side was deleted there
  (`GoneHere`, `GoneThere`), and that carries over to the running pass's listings (`ScanFits`,
  `ListFits`) because their keys have the form of the baseline's (`ProbedFirst`, `OneForm`) and
  what they leave out is what the pass ignores, but for a replayed cache that hides more
  (`OneFilter`).

Only model-checked: liveness (`EventuallySettled`, `EventuallySeen`, `EditsAreSynced`,
`CommandsEnd`, `UnattendedEnds`), which needs fairness and is out of the prover's reach. Every
other property of the passing runs is stated by a theorem. Each inductive invariant was an
invariant of a TLC run before it was proved; beyond the instances of section 3: `TreeSync` with up
to five user actions on a small tree, and with a percentage that holds passes up; `OursInv` under
all four policies, and with three mishaps (11.6 million states); `WalkInv` on a tree of three
levels (1.2 million states).

The proofs corrected the model in two places. With `MaxEdits = 2` no run reached the
case in which a pass has listed a new remote folder, a user deletes it there, another deletes its
parent in the vault, and the pass makes the folder, and with it the parent, again
(`syncer.py:1426-1436` makes what was listed without looking again): `DeletedStaysDeleted` claims
nothing where a folder moved since its listing (`FolderMoved`). And `SoonAgrees` had counted passes
held up by the percentage (section 3).

## 5. Where documents and code part

Each is a run that ends in a counterexample.

* `filesync_valve`: after the husk valve's upload has moved the remote away and failed, the next
  pass deletes the vault file it meant to keep (`syncer.py:1584`; it goes to the trash).
* `walkcache_torn`: after a walk that failed below a folder already recorded, the old listing
  below is served as current until the next full walk (`icloud_client.py:693`).
* `vault_unignored`: the daemon's initial pass does not look for a changed ignore set
  (`syncer.py:635`), so it neither drops a cache nor records under which set it fills one. A note is
  ignored, that pass fails after its walk and before it drops the note's row, the daemon stops and
  saves the cache, the note is un-ignored. The next start imports a cache without the note, no later
  pass finds a change in the hash it knows, and one that does not defer deletions takes the note for
  deleted in iCloud and removes it from the vault (it goes to the trash). The comment at
  `syncer.py:640-644` names just this cache and says it is dropped.

Seen while modelling, in the models as the code has it, with no run of their own:

* A vault write between the scan and `os.replace` of a download is overwritten and kept nowhere
  (`icloud_client.py:826`). `NoSilentLoss` names the window (`slipped`).
* A daemon that opened the store while `rebaseline` ran works on an unlinked file
  (`daemon.py:61`); `CommandSeesBaseline` is about the other commands.
* A folder deleted by one call (`syncer.py:938-947`) takes along case twins the pass had set aside,
  though the warning is "skipping all this pass" (`syncer.py:1024`). They are in no action list, so
  they are not counted either ("The threshold still counts per file", `syncer.py:892-894`), and a
  bootstrap pass takes them too if its own delete count is 0 (`syncer.py:868`). `ThresholdHolds` and
  `OnlyDoomedFilesGo` except these twins (`TakenAlong`); without the exception TLC finds both violated
  within the bounds of `tree_pass` after ten states. For conflicts of kinds the docstring's "no
  transfer, no delete" (`syncer.py:1039-1043`) holds, and `OnlyDoomedFilesGo` includes them.
* The delete threshold is per pass: deletions spread over passes that each stay under it are not
  added up. Only a daemon's first pass defers deletions; a one-shot sync does not (`cli.py:506`).
* Between the commit of a new `ignore_hash` (`syncer.py:998`) and the clearing of `walk_cache`
  (`syncer.py:647`) a kill leaves a cache of the old set beside the new hash. The next start imports
  it and finds nothing changed: a file that is ignored no more is missing from its listings until
  the folder changes or the full walk is due. `CacheIsTransparent` names these files (`Unnoticed`).
* A vault write between `os.replace` and the stat that records a download is recorded as the
  downloaded content (`syncer.py:1846`). `AgreementIsReal` names it too (`slipped`).
* A network error during a reconnect login is a `requests` exception, and the handler catches
  pyicloud's (`daemon.py:427`): the daemon exits non-zero although the comment there says a
  blip does not crash it. launchd restarts it, and the reconnect throttle is forgotten.
* The initial pass defers deletions even if it fails; the next pass, the first to see both
  sides, deletes at once (`daemon.py:485-505`, README.md:318-321).
* DRIFT SUSPECTED is raised only if the first *attempted* applying pass trips, and the next
  completed pass clears it though deletions are still suppressed (`daemon.py:145`, `150`).
* The threshold's percentage is of all baseline rows, folders included; deletions of folders
  alone are exempt from it (`syncer.py:849-872`).
* The etag is not consulted once the vault's side has changed, so a silent remote rewrite of
  the same size and mtime is replaced by the upload (`syncer.py:1240`; it goes to Recently
  Deleted).
* A download that failed too often is skipped until the remote changes or the process restarts;
  no time limit applies (`syncer.py:1794`).
* The persisted walk cache is not cleared once imported (`daemon.py:526`).
* `strict_child_count` raises a `RuntimeError` (`icloud_client.py:740`), which the daemon takes
  for an authentication failure and stops, with a session that is good (`PassRefused`).
* The flock probe of an observer can make a daemon that starts at that instant exit 0 with
  `AlreadyRunning`, and launchd then leaves it down (`LockBusy`).
* Lifecycle. `_verify` returns at the first sight of a running process, before preflight and
  sign-in, although "report the truth, never false success" is the aim (`cli.py:578-579`).
  `cmd_uninstall` ignores the result of its `_verify` (`cli.py:676-678`). "Atomic: a restart never
  ends with the daemon stopped" (`cli.py:1656-1657`) does not hold if the daemon drains longer (up
  to ExitTimeOut, 30 s) than the 5 s settle wait: the model notes such a start in `met`.
  `cmd_stop` counts `unknown` as stopped while the job drains, and any holder of the lock as a
  foreground daemon.
* Vault gates. With `normalize_unicode` off a move to another volume can show the note under both
  forms, as documented (`docs/ADVANCED_USAGE.md:125`); short of `mixed` it costs no note. On a
  volume that tells the forms apart `_child` may match a name of the other form than the one
  listed (`syncer.py:436-437`); a pass that meets both forms replaces one by the other (`mixed`).
  A legacy baseline without `vault_uuid` accepts whatever folder it meets first. The NFC probe is
  cached for the life of the process.
* Session: the last writer wins. A daemon that is online or signing in saves its own session
  after each request, a refused one too, over the one `auth` has just made trusted; one that
  starts while `auth` waits for the code discards that session and logs in itself. Between the
  poison check and the unlink another process may have saved a good session. `late` names
  exactly these. Another error over the `auth` one in `last_error` makes status say valid again.
  A stale trust token hides an incomplete two-factor login from `_has_poisoned_session`. A
  failed `trust_session` leaves a session that the next connect discards. `TrustKept` says nothing of
  a session the engine itself saves in the form an aged one has (`Aged`).

## 6. Not modelled

* Two profiles that mark the same vault at once, a folder swapped between preflight and scan,
  and the Unicode algorithms themselves (`Nfc`, `Fold`, `Ignored`, `Filters` stand for their
  outcome on the paths of a model); ignore patterns, symlinks, Obsidian detection.
* `keyring_timeout_seconds` set to 0, which disables the bound on the Keychain read: `UnattendedEnds` is about
  the default, a timeout.
* A dry run's own sign-in, and the lock of pyicloud's parallel walk threads on the session files.
* `max_file_size_mb`, the active-window cadence, the backup ring and its names, `status.json`
  and the dashboard: nothing the engine reads back.
* Command parsing, rendering and setup dialogues, configuration loading and migration, the
  doctor's report: no state of theirs is read by another component; the values are constants of
  the models.
* The SQLite schema, its migration and the integrity check: a damaged store is a state of
  `Daemon` (`corrupt`), the transactions are the atomic steps of the engine modules.
* Repository tooling: not part of the running program.

## 7. What could follow

1. An abstract specification of a synchronised pair (both sides move only to what a user wrote,
   deletions only after users) and `FileSync` shown to implement it.
2. The gates of `VaultGate` composed with the trees of `TreeSync`: several notes, the threshold
   and an unnoticed ignore set at once.
3. Proofs about the two above; and of `TreeSync`, that a pass which set paths aside leaves them as
   they were but for what a coalesced deletion takes along.
