---------------------------- MODULE VaultGateProofs ----------------------------
(***************************************************************************)
(* For any folders and any number of changes by users: a pass lists and    *)
(* applies only in a folder that holds the marker the baseline knows, and  *)
(* takes the note off one side only if a user deleted it on the other, but *)
(* where it takes one that is ignored no more for a deleted one (missed).  *)
(*                                                                         *)
(* The folder at local_root stays what it is while a pass runs, and every  *)
(* way to the listing leads over the check or over the two writes that     *)
(* make a folder the vault, the marker first.                              *)
(***************************************************************************)
EXTENDS VaultGate, TLAPS

\* The marker is written before the baseline knows it.
MarkedFirst == pc = "know" => at \in Folders /\ marked[at]

VaultInv == TypeOK /\ MarkedFirst

-----------------------------------------------------------------------------
LEMMA PolicyTypes ==
  ASSUME settings \in Settings
  PROVE  Policy \in [ignored : BOOLEAN, active : BOOLEAN]
  BY DEF Policy, Settings, Active

\* A process that is gone is in its first state.
LEMMA EndsTypes ==
  ASSUME VaultInv, Ends
  PROVE  /\ pc' = "off" /\ oneshot' \in BOOLEAN /\ boot' \in BOOLEAN
         /\ settings' \in Settings /\ nfc' \in {"unknown", "yes", "no"} /\ cache' \in Caches
         /\ defer' \in BOOLEAN /\ mine' \subseteq Names /\ theirs' \subseteq Names
         /\ missed' \in BOOLEAN
  BY DEF Ends, Defaults, Settings, Caches

LEMMA EndPassTypes ==
  ASSUME VaultInv, EndPass
  PROVE  /\ pc' \in {"off", "idle"} /\ oneshot' \in BOOLEAN /\ boot' \in BOOLEAN
         /\ settings' \in Settings /\ nfc' \in {"unknown", "yes", "no"} /\ cache' \in Caches
         /\ defer' \in BOOLEAN /\ mine' \subseteq Names /\ theirs' \subseteq Names
         /\ missed' \in BOOLEAN
  BY EndsTypes DEF EndPass, VaultInv, TypeOK

LEMMA ProbeTypes ==
  ASSUME VaultInv, Probe
  PROVE  nfc' \in {"unknown", "yes", "no"}
  BY DEF Probe, Probed, VaultInv, TypeOK

\* Where the process is off or idle, nothing is asked of the vault.
LEMMA OffKeeps ==
  ASSUME pc' \in {"off", "idle", "check"}
  PROVE  /\ MarkedFirst'
         /\ pc' \notin {"off", "idle", "check"} => at' \in Folders
         /\ pc' \in Listing \cup Applying \cup {"done"} => uuid' = at' /\ marked'[at']
  BY DEF MarkedFirst, Listing, Applying

-----------------------------------------------------------------------------
\* An operation on one key stays within the two forms of the note.
LEMMA ActTypes ==
  ASSUME VaultInv, NEW k \in Names, at \in Folders, Act(k) \/ Skip
  PROVE  /\ rows' \subseteq Names /\ notes' \in [Folders -> SUBSET Names]
         /\ remote' \subseteq Names /\ cache' \in Caches /\ saved' \in Caches
         /\ erased' \in [Folders -> SUBSET Names] /\ erasedRemote' \subseteq Names
<1> USE DEF VaultInv, TypeOK
<1>1. Nodes(k) \subseteq Names
  BY DEF Nodes
<1>2. CASE Upload(k)
  BY <1>1, <1>2 DEF Upload, RemoteBecomes, Caches
<1>3. CASE Download(k)
  <2>1. notes' \in [Folders -> SUBSET Names]
    BY <1>3 DEF Download
  <2>2. erased' \in [Folders -> SUBSET Names]
    BY <1>3 DEF Download
  <2>3. QED
    BY <1>3, <2>1, <2>2 DEF Download
<1>4. CASE DeleteRemote(k)
  BY <1>1, <1>4 DEF DeleteRemote, RemoteBecomes, Caches
<1>5. CASE DeleteLocal(k)
  <2>1. notes' \in [Folders -> SUBSET Names]
    BY <1>5 DEF DeleteLocal
  <2>2. QED
    BY <1>5, <2>1 DEF DeleteLocal
<1>6. CASE Skip \/ Record(k, TRUE) \/ Record(k, FALSE)
  BY <1>6 DEF Skip, Record
<1>7. QED
  <2> DEFINE known == k \in rows  here == k \in mine  there == k \in theirs
  <2>1. Act(k) => \/ Record(k, TRUE) \/ Record(k, FALSE) \/ Upload(k) \/ Download(k)
                  \/ DeleteLocal(k) \/ DeleteRemote(k) \/ Skip
    <3>1. CASE here /\ there
      BY <3>1 DEF Act
    <3>2. CASE ~here /\ ~there
      BY <3>2 DEF Act
    <3>3. CASE here /\ ~there
      BY <3>3 DEF Act
    <3>4. CASE ~here /\ there
      BY <3>4 DEF Act
    <3>5. QED
      BY <3>1, <3>2, <3>3, <3>4
  <2>2. QED
    BY <1>2, <1>3, <1>4, <1>5, <1>6, <2>1

-----------------------------------------------------------------------------
\* The steps of a process that do not work on the note.
LEMMA GateStep ==
  ASSUME VaultInv,
         \/ StartDaemon \/ StartSync \/ StopDaemon \/ BeginPass \/ Gates \/ Scan \/ List
         \/ Complete \/ PassFails \/ Kill \/ Rebaseline
  PROVE  VaultInv'
<1> USE DEF VaultInv, MarkedFirst, TypeOK, world, store, process, pass, Steps, Listing, Applying
<1>1. CASE StartDaemon
  BY <1>1, OffKeeps DEF StartDaemon
<1>2. CASE StartSync
  BY <1>2, OffKeeps DEF StartSync
<1>3. CASE StopDaemon
  BY <1>3, EndsTypes, OffKeeps DEF StopDaemon
<1>4. CASE BeginPass
  BY <1>4, OffKeeps DEF BeginPass
<1>5. CASE CheckVault
  <2>1. CASE Ends \/ EndPass
    BY <1>5, <2>1, EndsTypes, EndPassTypes, OffKeeps DEF CheckVault
  <2>2. CASE at = None /\ at' \in Unmarked /\ pc' = "mark" /\ UNCHANGED <<process, pass, saved>>
    BY <1>5, <2>2 DEF CheckVault, Unmarked
  <2>3. CASE /\ at # None /\ UNCHANGED <<at, process, pass, saved>>
             /\ pc' = IF ~marked[at] THEN "mark" ELSE IF uuid # at THEN "know" ELSE "rekey"
    BY <1>5, <2>3 DEF CheckVault
  <2>4. QED
    BY <1>5, <2>1, <2>2, <2>3 DEF CheckVault
<1>6. CASE WriteMarker
  BY <1>6 DEF WriteMarker
<1>7. CASE KnowVault
  BY <1>7 DEF KnowVault
<1>8. CASE Rekey
  <2>1. {Nfc(k) : k \in rows} \subseteq Names
    BY DEF Nfc, Names
  <2>2. rows' \subseteq Names /\ migrated' \in BOOLEAN /\ pc' = "filters"
    BY <1>8, <2>1 DEF Rekey
  <2>3. QED
    BY <1>8, <2>2, ProbeTypes DEF Rekey
<1>9. CASE Filters
  <2>1. hash' \subseteq [ignored : BOOLEAN, active : BOOLEAN]
    BY <1>9, PolicyTypes DEF Filters
  <2>2. defer' \in BOOLEAN /\ cache' \in Caches /\ missed' \in BOOLEAN
        /\ pc' \in {"scan", "unsave"}
    BY <1>9 DEF Filters, Caches
  <2>3. QED
    BY <1>9, <2>1, <2>2, ProbeTypes DEF Filters
<1>10. CASE Unsave
  BY <1>10 DEF Unsave, Caches
<1>11. CASE Scan
  <2>1. mine' \subseteq Names /\ defer' \in BOOLEAN
    BY <1>11 DEF Scan, Ident, Nfc, Names
  <2>2. QED
    BY <1>11, <2>1, ProbeTypes DEF Scan
<1>12. CASE List
  <2>1. theirs' \subseteq Names /\ cache' \in Caches /\ mixed' \in BOOLEAN
    BY <1>12 DEF List, Listed, Ident, Filtered, Nfc, Names, Caches
  <2>2. QED
    BY <1>12, <2>1 DEF List
<1>13. CASE Complete \/ PassFails
  BY <1>13, EndPassTypes, OffKeeps DEF Complete, PassFails
<1>14. CASE Kill
  BY <1>14, EndsTypes, OffKeeps DEF Kill
<1>15. CASE Rebaseline
  BY <1>15, OffKeeps, ZenonT(60) DEF Rebaseline, Caches
<1>16. QED
  BY <1>1, <1>2, <1>3, <1>4, <1>5, <1>6, <1>7, <1>8, <1>9, <1>10, <1>11, <1>12, <1>13, <1>14,
     <1>15 DEF Gates

\* The operations leave the folder and its marker alone.
LEMMA ApplyStep ==
  ASSUME VaultInv, ApplyDecomposed \/ ApplyComposed
  PROVE  VaultInv'
<1>1. /\ pc \in Applying /\ pc' \in {"apply_c", "done"}
      /\ UNCHANGED <<at, sensitive, marked, config, changes, uuid, migrated,
                     hash, oneshot, boot, settings, nfc, pass, mixed>>
      /\ \E k \in Names : Act(k) \/ Skip
  BY DEF ApplyDecomposed, ApplyComposed, Apply, Applying, Names
<1>2. at \in Folders /\ uuid = at /\ marked[at]
  BY <1>1 DEF VaultInv, TypeOK, Applying
<1>3. /\ rows' \subseteq Names /\ notes' \in [Folders -> SUBSET Names]
      /\ remote' \subseteq Names /\ cache' \in Caches /\ saved' \in Caches
      /\ erased' \in [Folders -> SUBSET Names] /\ erasedRemote' \subseteq Names
  BY <1>1, <1>2, ActTypes
<1>4. QED
  BY <1>1, <1>2, <1>3 DEF VaultInv, TypeOK, MarkedFirst, Steps, Applying, Listing, pass

\* A folder takes another's place only between passes.
LEMMA UsersStep ==
  ASSUME VaultInv, Users
  PROVE  VaultInv'
<1> USE DEF VaultInv, MarkedFirst, TypeOK, store, process, pass, Changes
<1>1. changes < MaxChanges /\ changes' = changes + 1 => changes' \in 0..MaxChanges
  BY VaultGateAssumption
<1>2. ASSUME NEW n \in Names, UserWrites(n) \/ UserDeletes(n)
      PROVE  VaultInv'
  <2>1. notes' \in [Folders -> SUBSET Names] /\ erased' \in [Folders -> SUBSET Names]
    BY <1>2 DEF UserWrites, UserDeletes
  <2>2. QED
    BY <1>1, <1>2, <2>1 DEF UserWrites, UserDeletes
<1>3. ASSUME NEW n \in Names, DeviceWrites(n) \/ DeviceDeletes(n)
      PROVE  VaultInv'
  BY <1>1, <1>3 DEF DeviceWrites, DeviceDeletes, RemoteBecomes, Caches
<1>4. ASSUME NEW f \in Folders \cup {None}, Swap(f)
      PROVE  VaultInv'
  BY <1>1, <1>4, OffKeeps DEF Swap
<1>5. ASSUME NEW f \in Folders, Convert(f)
      PROVE  VaultInv'
  <2>1. /\ notes' \in [Folders -> SUBSET Names] /\ erased' \in [Folders -> SUBSET Names]
        /\ sensitive' \in [Folders -> BOOLEAN]
    BY <1>5 DEF Convert, Names
  <2>2. QED
    BY <1>1, <1>5, <2>1 DEF Convert
<1>6. ASSUME NEW s \in Settings, EditSettings(s)
      PROVE  VaultInv'
  BY <1>1, <1>6 DEF EditSettings
<1>7. QED
  BY <1>2, <1>3, <1>4, <1>5, <1>6 DEF Users

-----------------------------------------------------------------------------
\* The invariant is inductive.
THEOREM VaultInductive == Spec => []VaultInv
<1>1. Init => VaultInv
  <2> SUFFICES ASSUME Init PROVE VaultInv
    OBVIOUS
  <2>1. \A f \in Folders : notes[f] \in SUBSET Names
    BY DEF Init, Names
  <2>2. notes \in [Folders -> SUBSET Names] /\ erased \in [Folders -> SUBSET Names]
    BY <2>1 DEF Init
  <2>3. Defaults \in Settings /\ remote \subseteq Names /\ saved \in Caches /\ cache \in Caches
    BY DEF Init, Defaults, Settings, Names, Caches
  <2>4. changes \in 0..MaxChanges
    BY VaultGateAssumption DEF Init
  <2>5. QED
    BY <2>2, <2>3, <2>4 DEF Init, VaultInv, MarkedFirst, TypeOK, Steps, Listing, Applying
<1>2. VaultInv /\ [Next]_vars => VaultInv'
  <2>1. VaultInv /\ UNCHANGED vars => VaultInv'
    BY DEF VaultInv, MarkedFirst, TypeOK, vars, world, store, process, pass
  <2>2. QED
    BY <2>1, GateStep, ApplyStep, UsersStep DEF Next, Pass
<1>3. QED
  BY <1>1, <1>2, PTL DEF Spec

\* _preflight_local: whatever folders are moved to local_root, kills and restarts
\* happen, a pass lists and applies in the folder the baseline knows.
THEOREM VaultIsKnown == Spec => []TypeOK
<1>1. VaultInv => TypeOK
  BY DEF VaultInv
<1>2. QED
  BY VaultInductive, <1>1, PTL

-----------------------------------------------------------------------------
(* Why a missing note is a deletion where a pass takes it for one.  A row can *)
(* cost the note only if it is in play: the rows of a migrated baseline under *)
(* another form than "c" are dropped without an operation.  While a row is in *)
(* play, a note that is missing on one side was deleted there (GoneHere,      *)
(* GoneThere), and so it is for what the running pass has listed (ScanFits,   *)
(* ListFits), for its keys are those of the baseline (OneForm) and both its   *)
(* listings are filtered by its ignore set (OneFilter); only a replayed       *)
(* listing of a wider one (missed) shows less than there is.                  *)
InPlay == "c" \in rows \/ (~migrated /\ rows # {})

RowsHaveVault ==
    /\ rows # {} => uuid \in Folders
    /\ pc \in {"mark", "know"} => rows = {}

GoneHere == ~mixed /\ InPlay /\ notes[uuid] = {} => erased[uuid] # {}

GoneThere == ~mixed /\ InPlay /\ remote = {} => erasedRemote # {}

\* The probe was asked before the baseline was migrated, and a baseline that was
\* migrated is not compared with names as they are.
ProbedFirst ==
    /\ pc \in {"filters", "unsave", "scan", "list"} \cup Applying =>
          /\ Active => migrated
          /\ settings.normalize => nfc # "unknown"
    /\ pc \in {"list"} \cup Applying /\ ~defer => (migrated => Active)

OneForm ==
    /\ pc \in {"list"} \cup Applying /\ Active => mine \subseteq {"c"}
    /\ pc \in Applying /\ Active => theirs \subseteq {"c"}
    /\ pc \in Applying /\ ~defer /\ ~mixed /\ ~migrated => rows \cup mine \cup theirs # Names

OneFilter ==
    /\ pc = "unsave" => defer
    /\ pc \in Applying /\ settings.ignored => theirs = {}
    /\ pc \in {"list"} \cup Applying /\ settings.ignored => mine = {}

\* The rows the rest of the pass has still to look at.
Ahead == IF pc = "apply_c" THEN "c" \in rows ELSE InPlay

AheadIn(forms) == IF pc = "apply_c" THEN "c" \in forms ELSE forms # {}

ScanFits ==
    pc \in {"list"} \cup Applying /\ ~mixed =>
        /\ ~defer /\ ~settings.ignored /\ mine = {} /\ Ahead => erased[at] # {}
        /\ AheadIn(mine) /\ notes[at] = {} => erased[at] # {}

ListFits ==
    pc \in Applying /\ ~mixed =>
        /\ ~defer /\ ~missed /\ ~settings.ignored /\ theirs = {} /\ Ahead => erasedRemote # {}
        /\ AheadIn(theirs) /\ remote = {} => erasedRemote # {}

KeptInv == /\ RowsHaveVault /\ GoneHere /\ GoneThere /\ ProbedFirst
           /\ OneForm /\ OneFilter /\ ScanFits /\ ListFits

-----------------------------------------------------------------------------
\* Asking the probe changes no key.
LEMMA ProbeKeepsActive ==
  ASSUME VaultInv, Probe, UNCHANGED <<settings, sensitive, at>>
  PROVE  /\ Active' <=> Active
         /\ settings.normalize => nfc' # "unknown"
  BY DEF Probe, Probed, Active, VaultInv, TypeOK

\* Between passes only the baseline counts.
LEMMA RestKept ==
  ASSUME KeptInv, pc' \in {"off", "idle", "check"},
         UNCHANGED <<notes, remote, erased, erasedRemote, rows, uuid, migrated, mixed>>
  PROVE  KeptInv'
  BY DEF KeptInv, RowsHaveVault, GoneHere, GoneThere, ProbedFirst, OneForm, OneFilter, ScanFits,
         ListFits, InPlay, Applying

LEMMA EndsRest ==
  ASSUME VaultInv, Ends \/ EndPass
  PROVE  pc' \in {"off", "idle"}
  BY DEF Ends, EndPass

\* The steps of a process up to the listing, and its end.
LEMMA GateKeeps ==
  ASSUME VaultInv, KeptInv,
         \/ StartDaemon \/ StartSync \/ StopDaemon \/ BeginPass \/ Gates
         \/ Complete \/ PassFails \/ Kill \/ Rebaseline
  PROVE  KeptInv'
<1> USE DEF world, store, process, pass
<1>1. CASE StartDaemon \/ StartSync \/ StopDaemon \/ BeginPass
  BY <1>1, RestKept DEF StartDaemon, StartSync, StopDaemon, BeginPass, Ends
<1>2. CASE Complete \/ PassFails \/ Kill
  BY <1>2, RestKept, EndsRest DEF Complete, PassFails, Kill
<1>3. CASE CheckVault
  <2>1. CASE Ends \/ EndPass
    BY <1>3, <2>1, RestKept, EndsRest DEF CheckVault
  <2>2. CASE pc' = "mark" /\ rows = {}
    BY <1>3, <2>2 DEF CheckVault, KeptInv, RowsHaveVault, GoneHere, GoneThere, ProbedFirst,
       OneForm, OneFilter, ScanFits, ListFits, InPlay, Applying
  <2>3. CASE /\ at # None /\ UNCHANGED at
             /\ rows = {} \/ uuid = None \/ (marked[at] /\ uuid = at)
             /\ pc' = IF ~marked[at] THEN "mark" ELSE IF uuid # at THEN "know" ELSE "rekey"
    <3>1. rows # {} => uuid # None
      BY VaultGateAssumption DEF KeptInv, RowsHaveVault
    <3>2. pc' \in {"mark", "know"} => rows = {}
      BY <2>3, <3>1
    <3>3. pc' \in {"mark", "know", "rekey"}
      BY <2>3
    <3>4. QED
      BY <1>3, <3>2, <3>3 DEF CheckVault, KeptInv, RowsHaveVault, GoneHere, GoneThere,
         ProbedFirst, OneForm, OneFilter, ScanFits, ListFits, InPlay, Applying
  <2>4. QED
    BY <1>3, <2>1, <2>2, <2>3 DEF CheckVault
<1>4. CASE WriteMarker \/ KnowVault
  BY <1>4 DEF WriteMarker, KnowVault, KeptInv, RowsHaveVault, GoneHere, GoneThere, ProbedFirst,
     OneForm, OneFilter, ScanFits, ListFits, InPlay, Applying
<1>5. CASE Rekey
  <2>1. pc' = "filters" /\ UNCHANGED <<notes, remote, erased, erasedRemote, uuid, mixed, settings>>
        /\ (Active' <=> Active) /\ (settings.normalize => nfc' # "unknown")
    BY <1>5, ProbeKeepsActive DEF Rekey
  <2>2. (InPlay' => InPlay) /\ (rows' # {} => rows # {}) /\ (Active => migrated')
    <3>1. CASE Active /\ ~migrated
      BY <1>5, <3>1 DEF Rekey, InPlay
    <3>2. CASE ~(Active /\ ~migrated)
      BY <1>5, <3>2 DEF Rekey, InPlay, VaultInv, TypeOK
    <3>3. QED
      BY <3>1, <3>2
  <2>3. QED
    BY <2>1, <2>2 DEF KeptInv, RowsHaveVault, GoneHere, GoneThere, ProbedFirst,
       OneForm, OneFilter, ScanFits, ListFits, Applying
<1>6. CASE Filters
  <2>1. /\ UNCHANGED <<notes, remote, erased, erasedRemote, rows, uuid, migrated, mixed, settings>>
        /\ (Active' <=> Active) /\ (settings.normalize => nfc' # "unknown")
        /\ pc = "filters" /\ pc' \in {"scan", "unsave"}
    BY <1>6, ProbeKeepsActive DEF Filters
  <2>2. pc' = "unsave" => defer'
    BY <1>6 DEF Filters, VaultInv, TypeOK
  <2>3. QED
    BY <2>1, <2>2 DEF KeptInv, RowsHaveVault, GoneHere, GoneThere, ProbedFirst,
       OneForm, OneFilter, ScanFits, ListFits, InPlay, Applying
<1>7. CASE Unsave
  BY <1>7 DEF Unsave, KeptInv, RowsHaveVault, GoneHere, GoneThere, ProbedFirst,
     OneForm, OneFilter, ScanFits, ListFits, InPlay, Applying, Active, Probed
<1>8. CASE Rebaseline
  BY <1>8 DEF Rebaseline, KeptInv, RowsHaveVault, GoneHere, GoneThere, ProbedFirst,
     OneForm, OneFilter, ScanFits, ListFits, InPlay, Applying
<1>9. QED
  BY <1>1, <1>2, <1>3, <1>4, <1>5, <1>6, <1>7, <1>8 DEF Gates

-----------------------------------------------------------------------------
\* The listings are made of what is there.
LEMMA ScanKeeps ==
  ASSUME VaultInv, KeptInv, Scan
  PROVE  KeptInv'
<1> USE DEF world, store, process, pass
<1>1. /\ pc = "scan" /\ pc' = "list" /\ uuid = at
      /\ UNCHANGED <<at, notes, remote, erased, erasedRemote, rows, uuid, migrated, mixed,
                     settings, cache, missed>>
      /\ (Active' <=> Active) /\ (settings.normalize => nfc' # "unknown")
  BY ProbeKeepsActive DEF Scan, VaultInv, TypeOK, Listing
<1>2. /\ mine' = IF settings.ignored THEN {} ELSE {Ident(n) : n \in notes[at]}
      /\ ~defer' => ~defer /\ (migrated => Active)
  BY DEF Scan, VaultInv, TypeOK
<1>3. Active => mine' \subseteq {"c"}
  BY <1>2 DEF Ident, Nfc
<1>4. ScanFits'
  <2>1. CASE settings.ignored
    BY <1>1, <1>2, <2>1 DEF ScanFits, AheadIn, Applying
  <2>2. CASE ~settings.ignored
    <3>1. mine' = {} <=> notes[at] = {}
      BY <1>2, <2>2
    <3>2. QED
      BY <1>1, <3>1 DEF ScanFits, AheadIn, Ahead, InPlay, KeptInv, GoneHere, Applying
  <2>3. QED
    BY <2>1, <2>2
<1>5. RowsHaveVault' /\ GoneHere' /\ GoneThere' /\ ProbedFirst'
  BY <1>1, <1>2 DEF KeptInv, RowsHaveVault, GoneHere, GoneThere, ProbedFirst, InPlay, Applying
<1>6. OneForm' /\ OneFilter' /\ ListFits'
  BY <1>1, <1>2, <1>3 DEF KeptInv, OneForm, OneFilter, ListFits, Applying
<1>7. QED
  BY <1>4, <1>5, <1>6 DEF KeptInv

LEMMA ListKeeps ==
  ASSUME VaultInv, KeptInv, List
  PROVE  KeptInv'
<1> USE DEF world, store, process, pass
<1>1. /\ pc = "list" /\ pc' = "apply_d"
      /\ UNCHANGED <<at, sensitive, notes, remote, erased, erasedRemote, rows, uuid, migrated,
                     settings, nfc, defer, mine>>
      /\ (Active' <=> Active)
  BY DEF List, Active, Probed
<1>2. /\ ~mixed' => ~mixed
      /\ ~mixed' /\ ~defer /\ ~migrated /\ ~Active => rows \cup mine \cup theirs' # Names
  BY DEF List, VaultInv, TypeOK
<1>3. Active => theirs' \subseteq {"c"}
  BY DEF List, Listed, Ident, Nfc
<1>4. settings.ignored => theirs' = {}
  BY DEF List, Listed
<1>5. ~defer /\ ~missed' /\ ~settings.ignored /\ theirs' = {} => remote = {}
  BY DEF List, Listed
<1>6. remote = {} => theirs' = {}
  BY DEF List, Listed
<1>7. RowsHaveVault' /\ GoneHere' /\ GoneThere' /\ ProbedFirst'
  BY <1>1, <1>2 DEF KeptInv, RowsHaveVault, GoneHere, GoneThere, ProbedFirst, InPlay, Applying
<1>8. OneForm' /\ OneFilter'
  BY <1>1, <1>2, <1>3, <1>4 DEF KeptInv, OneForm, OneFilter, ProbedFirst, Applying
<1>9. ScanFits'
  BY <1>1, <1>2 DEF KeptInv, ScanFits, Ahead, AheadIn, InPlay, Applying
<1>10. ListFits'
  BY <1>1, <1>2, <1>5, <1>6 DEF KeptInv, ListFits, GoneThere, Ahead, AheadIn, InPlay, Applying
<1>11. QED
  BY <1>7, <1>8, <1>9, <1>10 DEF KeptInv

-----------------------------------------------------------------------------
\* A pass that may delete knows the note by one key.
LEMMA OneKey ==
  ASSUME VaultInv, KeptInv, pc \in Applying, ~defer, ~mixed
  PROVE  \/ migrated /\ mine \subseteq {"c"} /\ theirs \subseteq {"c"}
         \/ ~migrated /\ \E k \in Names : rows \cup mine \cup theirs \subseteq {k}
<1>1. migrated => mine \subseteq {"c"} /\ theirs \subseteq {"c"}
  BY DEF KeptInv, ProbedFirst, OneForm
<1>2. ~migrated => \E k \in Names : rows \cup mine \cup theirs \subseteq {k}
  <2> DEFINE keys == rows \cup mine \cup theirs
  <2>1. keys \subseteq {"d", "c"}
    BY DEF VaultInv, TypeOK, Names
  <2>2. ~migrated => keys # {"d", "c"}
    BY DEF KeptInv, OneForm, Names
  <2>3. ~migrated => "d" \notin keys \/ "c" \notin keys
    <3> HIDE DEF keys
    <3>1. QED
      BY <2>1, <2>2
  <2>4. QED
    BY <2>1, <2>3 DEF Names
<1>3. QED
  BY <1>1, <1>2

\* What the operation on a key is.
LEMMA ActIs ==
  ASSUME NEW k, Act(k) \/ Skip
  PROVE  \/ Record(k, TRUE) /\ k \in mine /\ k \in theirs
         \/ Record(k, FALSE) /\ k \notin mine /\ k \notin theirs
         \/ Upload(k) /\ k \in mine /\ k \notin theirs /\ k \notin rows
         \/ Download(k) /\ k \notin mine /\ k \in theirs /\ k \notin rows
         \/ DeleteLocal(k) /\ k \in mine /\ k \notin theirs /\ k \in rows /\ ~defer
         \/ DeleteRemote(k) /\ k \notin mine /\ k \in theirs /\ k \in rows /\ ~defer
         \/ Skip
<1> DEFINE here == k \in mine  there == k \in theirs  known == k \in rows
<1>1. CASE here /\ there
  BY <1>1 DEF Act
<1>2. CASE ~here /\ ~there
  BY <1>2 DEF Act
<1>3. CASE here /\ ~there
  BY <1>3 DEF Act
<1>4. CASE ~here /\ there
  BY <1>4 DEF Act
<1>5. QED
  BY <1>1, <1>2, <1>3, <1>4

\* What a step of the pass leaves alone.
LEMMA ApplyIs ==
  ASSUME VaultInv, ApplyDecomposed \/ ApplyComposed
  PROVE  /\ UNCHANGED <<at, sensitive, uuid, migrated, settings, nfc, defer, mine, theirs, missed,
                        mixed>>
         /\ (Active' <=> Active) /\ at \in Folders /\ uuid = at
         /\ \E k \in Names : /\ Act(k) \/ Skip
                             /\ \/ pc = "apply_d" /\ k = "d" /\ pc' = "apply_c"
                                \/ pc = "apply_c" /\ k = "c" /\ pc' = "done"
  BY DEF ApplyDecomposed, ApplyComposed, Apply, pass, Active, Probed, VaultInv, TypeOK,
     Applying, Names

\* The sides are still what the listings and the baseline make of them.
LEMMA ApplyKeeps ==
  ASSUME VaultInv, KeptInv, ApplyDecomposed \/ ApplyComposed
  PROVE  KeptInv'
<1>1. PICK k \in Names : /\ Act(k) \/ Skip
                         /\ \/ pc = "apply_d" /\ k = "d" /\ pc' = "apply_c"
                            \/ pc = "apply_c" /\ k = "c" /\ pc' = "done"
  BY ApplyIs
<1>2. /\ UNCHANGED <<at, sensitive, uuid, migrated, settings, nfc, defer, mine, theirs, missed,
                     mixed>>
      /\ (Active' <=> Active) /\ at \in Folders /\ uuid = at
  BY ApplyIs
<1>3. pc \in Applying /\ k \in {"d", "c"} /\ pc' \in {"apply_c", "done"}
  BY <1>1 DEF Applying
<1>4. rows \subseteq Names /\ notes \in [Folders -> SUBSET Names]
      /\ erased \in [Folders -> SUBSET Names]
  BY DEF VaultInv, TypeOK
<1>5. rows' \subseteq rows \cup mine \cup theirs
  BY <1>1, ActIs DEF Record, Upload, Download, DeleteLocal, DeleteRemote, Skip
<1>6. RowsHaveVault' /\ ProbedFirst' /\ OneFilter' /\ OneForm'
  <2>1. RowsHaveVault' /\ ProbedFirst' /\ OneFilter'
    BY <1>2, <1>3 DEF KeptInv, RowsHaveVault, ProbedFirst, OneFilter, Applying
  <2>2. ~defer /\ ~mixed /\ ~migrated => rows' \cup mine \cup theirs # Names
    <3>1. rows \cup mine \cup theirs \subseteq Names
      BY DEF VaultInv, TypeOK
    <3>2. ~defer /\ ~mixed /\ ~migrated => rows \cup mine \cup theirs # Names
      BY <1>3 DEF KeptInv, OneForm
    <3>3. QED
      BY <1>5, <3>1, <3>2
  <2>3. OneForm'
    BY <1>2, <1>3, <2>2 DEF KeptInv, OneForm, Applying
  <2>4. QED
    BY <2>1, <2>3
<1> SUFFICES GoneHere' /\ GoneThere' /\ ScanFits' /\ ListFits'
  BY <1>6 DEF KeptInv
<1>7. CASE mixed
  BY <1>2, <1>7 DEF GoneHere, GoneThere, ScanFits, ListFits
<1> USE DEF KeptInv, GoneHere, GoneThere, ScanFits, ListFits, Ahead, AheadIn, InPlay, Applying
<1>8. CASE ~mixed /\ Record(k, TRUE) /\ k \in mine /\ k \in theirs
  BY <1>1, <1>2, <1>8 DEF Record
<1>9. CASE ~mixed /\ Record(k, FALSE) /\ k \notin mine /\ k \notin theirs
  BY <1>1, <1>2, <1>9 DEF Record
<1>10. CASE ~mixed /\ Upload(k) /\ k \in mine /\ k \notin theirs /\ k \notin rows
  <2>1. notes[at] # {} /\ UNCHANGED <<notes, erased>> /\ remote' # {} /\ rows' = rows \cup {k}
    BY <1>10 DEF Upload, Resolves, RemoteBecomes
  <2>2. ~(~defer /\ pc = "apply_d" /\ "c" \in rows)
    BY <1>1, <1>3, <1>10, OneKey DEF Names
  <2>3. QED
    BY <1>1, <1>2, <2>1, <2>2
<1>11. CASE ~mixed /\ Download(k) /\ k \notin mine /\ k \in theirs /\ k \notin rows
  <2>1. remote # {} /\ UNCHANGED <<remote, erasedRemote>> /\ rows' = rows \cup {k}
    BY <1>11 DEF Download, Nodes
  <2>2. notes'[at] # {}
    BY <1>2, <1>4, <1>11 DEF Download, Resolves
  <2>3. ~(~defer /\ pc = "apply_d" /\ "c" \in rows)
    BY <1>1, <1>3, <1>11, OneKey DEF Names
  <2>4. QED
    BY <1>1, <1>2, <2>1, <2>2, <2>3
<1>12. CASE ~mixed /\ DeleteLocal(k) /\ k \in mine /\ k \notin theirs /\ k \in rows /\ ~defer
  <2>1. UNCHANGED <<remote, erased, erasedRemote>> /\ rows' = rows \ {k}
    BY <1>12 DEF DeleteLocal
  <2>2. ~InPlay' /\ ~(pc = "apply_d" /\ ("c" \in rows \/ "c" \in mine))
    BY <1>1, <1>2, <1>3, <1>4, <1>12, <2>1, OneKey DEF Names
  <2>3. QED
    BY <1>1, <1>2, <2>1, <2>2
<1>13. CASE ~mixed /\ DeleteRemote(k) /\ k \notin mine /\ k \in theirs /\ k \in rows /\ ~defer
  <2>1. UNCHANGED <<notes, erased, erasedRemote>> /\ rows' = rows \ {k}
    BY <1>13 DEF DeleteRemote
  <2>2. ~InPlay' /\ ~(pc = "apply_d" /\ ("c" \in rows \/ "c" \in theirs))
    BY <1>1, <1>2, <1>3, <1>4, <1>13, <2>1, OneKey DEF Names
  <2>3. QED
    BY <1>1, <1>2, <2>1, <2>2
<1>14. CASE ~mixed /\ Skip
  BY <1>1, <1>2, <1>14 DEF Skip
<1>15. QED
  BY <1>1, <1>7, <1>8, <1>9, <1>10, <1>11, <1>12, <1>13, <1>14, ActIs

-----------------------------------------------------------------------------
\* What users take away is remembered as erased, and they bring nothing back that the
\* baseline knows.
LEMMA UsersKeep ==
  ASSUME VaultInv, KeptInv, Users
  PROVE  KeptInv'
<1> USE DEF store, process, pass, Changes
<1>1. /\ notes \in [Folders -> SUBSET Names] /\ erased \in [Folders -> SUBSET Names]
      /\ at # None => at \in Folders
      /\ pc \in {"list"} \cup Applying => uuid = at
  BY DEF VaultInv, TypeOK, Listing
<1>2. RowsHaveVault /\ (rows # {} => uuid \in Folders)
  BY DEF KeptInv, RowsHaveVault
<1>3. ASSUME NEW n \in Names, UserWrites(n)
      PROVE  KeptInv'
  <2>1. /\ rows = {} /\ notes'[at] = {n}
        /\ UNCHANGED <<at, sensitive, remote, erasedRemote, rows, uuid, migrated, pc, mixed,
                       settings, nfc, cache, defer, mine, theirs, missed>>
    BY <1>1, <1>3 DEF UserWrites
  <2>2. QED
    BY <2>1 DEF KeptInv, RowsHaveVault, GoneHere, GoneThere, ProbedFirst, OneForm, OneFilter,
       ScanFits, ListFits, Ahead, AheadIn, InPlay, Active, Probed, Applying
<1>4. ASSUME NEW n \in Names, UserDeletes(n)
      PROVE  KeptInv'
  <2>1. /\ erased'[at] # {} /\ (uuid \in Folders /\ uuid # at => UNCHANGED <<notes[uuid], erased[uuid]>>)
        /\ UNCHANGED <<at, sensitive, remote, erasedRemote, rows, uuid, migrated, pc, mixed,
                       settings, nfc, cache, defer, mine, theirs, missed>>
    BY <1>1, <1>4 DEF UserDeletes
  <2>2. GoneHere'
    BY <1>2, <2>1 DEF KeptInv, GoneHere, InPlay
  <2>3. QED
    BY <2>1, <2>2 DEF KeptInv, RowsHaveVault, GoneThere, ProbedFirst, OneForm, OneFilter,
       ScanFits, ListFits, Ahead, AheadIn, InPlay, Active, Probed, Applying
<1>5. ASSUME NEW n \in Names, DeviceWrites(n)
      PROVE  KeptInv'
  <2>1. /\ rows = {} /\ remote' # {} /\ cache' \in {cache, "none"}
        /\ UNCHANGED <<at, sensitive, notes, erased, rows, uuid, migrated, pc, mixed,
                       settings, nfc, defer, mine, theirs, missed>>
    BY <1>5 DEF DeviceWrites, RemoteBecomes
  <2>2. QED
    BY <2>1 DEF KeptInv, RowsHaveVault, GoneHere, GoneThere, ProbedFirst, OneForm, OneFilter,
       ScanFits, ListFits, Ahead, AheadIn, InPlay, Active, Probed, Applying
<1>6. ASSUME NEW n \in Names, DeviceDeletes(n)
      PROVE  KeptInv'
  <2>1. /\ erasedRemote' # {} /\ cache' \in {cache, "none"}
        /\ UNCHANGED <<at, sensitive, notes, erased, rows, uuid, migrated, pc, mixed,
                       settings, nfc, defer, mine, theirs, missed>>
    BY <1>6 DEF DeviceDeletes, RemoteBecomes
  <2>2. QED
    BY <2>1 DEF KeptInv, RowsHaveVault, GoneHere, GoneThere, ProbedFirst, OneForm, OneFilter,
       ScanFits, ListFits, Ahead, AheadIn, InPlay, Active, Probed, Applying
<1>7. ASSUME NEW f \in Folders \cup {None}, Swap(f)
      PROVE  KeptInv'
  BY <1>7, RestKept DEF Swap
<1>8. ASSUME NEW f \in Folders, Convert(f)
      PROVE  KeptInv'
  <2>1. /\ pc = "off" /\ UNCHANGED <<at, remote, erasedRemote, rows, uuid, migrated, pc, mixed>>
        /\ \A g \in Folders : notes'[g] = {} => notes[g] = {} /\ erased'[g] = erased[g]
    BY <1>1, <1>8 DEF Convert, Names
  <2>2. GoneHere'
    BY <1>2, <2>1 DEF KeptInv, GoneHere, InPlay
  <2>3. QED
    BY <2>1, <2>2 DEF KeptInv, RowsHaveVault, GoneThere, ProbedFirst, OneForm, OneFilter,
       ScanFits, ListFits, InPlay, Applying
<1>9. ASSUME NEW s \in Settings, EditSettings(s)
      PROVE  KeptInv'
  BY <1>9, RestKept DEF EditSettings
<1>10. QED
  BY <1>3, <1>4, <1>5, <1>6, <1>7, <1>8, <1>9 DEF Users

-----------------------------------------------------------------------------
THEOREM KeptInductive == Spec => [](VaultInv /\ KeptInv)
<1>1. Init => KeptInv
  BY DEF Init, KeptInv, RowsHaveVault, GoneHere, GoneThere, ProbedFirst, OneForm, OneFilter,
     ScanFits, ListFits, InPlay, Applying
<1>2. VaultInv /\ KeptInv /\ [Next]_vars => KeptInv'
  <2>1. VaultInv /\ KeptInv /\ UNCHANGED vars => KeptInv'
    BY DEF KeptInv, RowsHaveVault, GoneHere, GoneThere, ProbedFirst, OneForm, OneFilter,
       ScanFits, ListFits, Ahead, AheadIn, InPlay, Active, Probed,
       vars, world, store, process, pass
  <2>2. QED
    BY <2>1, GateKeeps, ScanKeeps, ListKeeps, ApplyKeeps, UsersKeep DEF Next, Pass
<1>3. QED
  BY <1>1, <1>2, VaultInductive, PTL DEF Spec

\* A step from a state where the pass applies that is one of the pass is an operation.
LEMMA AppliesIs ==
  ASSUME VaultInv, [Next]_vars, Applies,
         ~UNCHANGED <<notes, remote>>
  PROVE  ApplyDecomposed \/ ApplyComposed
<1> USE DEF Applies, Applying, world, store, process, pass
<1>1. ~(StartDaemon \/ StartSync \/ StopDaemon \/ BeginPass \/ Gates \/ Scan \/ List \/ Complete
        \/ PassFails \/ Kill \/ Rebaseline)
  BY DEF StartDaemon, StartSync, StopDaemon, BeginPass, Gates, CheckVault, WriteMarker, KnowVault,
     Rekey, Filters, Unsave, Scan, List, Complete, PassFails, Kill, Rebaseline
<1>2. ~Users
  BY DEF Users, UserWrites, UserDeletes, DeviceWrites, DeviceDeletes, Swap, Convert, EditSettings,
     Changes
<1>3. ~UNCHANGED vars
  BY DEF vars
<1>4. QED
  BY <1>1, <1>2, <1>3 DEF Next, Pass

\* _decide_pass: no swap of folders, move to another volume, change of the settings,
\* restart, kill or one-shot sync makes a pass delete the note in iCloud: it is deleted
\* there only if a user deleted it in the vault.
THEOREM NoteKeptRemotely == Spec => RemoteKept
<1>1. VaultInv /\ KeptInv /\ [Next]_vars =>
        (Applies /\ remote # {} /\ remote' = {} => erased[at] # {})
  <2>1. SUFFICES ASSUME VaultInv, KeptInv, [Next]_vars, Applies, remote # {}, remote' = {}
                 PROVE  erased[at] # {}
    OBVIOUS
  <2>2. ApplyDecomposed \/ ApplyComposed
    BY <2>1, AppliesIs
  <2>3. PICK k \in Names : /\ Act(k) \/ Skip
                           /\ \/ pc = "apply_d" /\ k = "d" /\ pc' = "apply_c"
                              \/ pc = "apply_c" /\ k = "c" /\ pc' = "done"
    BY <2>1, <2>2, ApplyIs
  <2>4. DeleteRemote(k) /\ k \notin mine /\ k \in theirs /\ k \in rows /\ ~defer
    BY <2>1, <2>3, ActIs DEF Record, Upload, Download, DeleteLocal, Skip, RemoteBecomes
  <2>5. pc \in Applying /\ ~mixed /\ mine \subseteq {"d", "c"}
    BY <2>1 DEF Applies, VaultInv, TypeOK, Names
  <2>6. ~settings.ignored
    BY <2>1, <2>4, <2>5 DEF KeptInv, OneFilter
  <2>7. mine = {} /\ Ahead
    BY <2>1, <2>3, <2>4, <2>5, OneKey DEF Ahead, InPlay, Names
  <2>8. QED
    BY <2>1, <2>4, <2>5, <2>6, <2>7 DEF KeptInv, ScanFits
<1>2. QED
  BY <1>1, KeptInductive, PTL DEF Spec, RemoteKept

\* _decide_pass: a pass deletes the note in the vault only if another device deleted it
\* in iCloud, but where it replays a cached listing that hides the note from before it
\* was ignored no more.
THEOREM NoteKeptLocally == Spec => LocalKept
<1>1. VaultInv /\ KeptInv /\ [Next]_vars =>
        (Applies /\ ~missed /\ notes[at] # {} /\ notes'[at] = {} => erasedRemote # {})
  <2>1. SUFFICES ASSUME VaultInv, KeptInv, [Next]_vars, Applies, ~missed, notes[at] # {},
                        notes'[at] = {}
                 PROVE  erasedRemote # {}
    OBVIOUS
  <2>2. ApplyDecomposed \/ ApplyComposed
    BY <2>1, AppliesIs
  <2>3. PICK k \in Names : /\ Act(k) \/ Skip
                           /\ \/ pc = "apply_d" /\ k = "d" /\ pc' = "apply_c"
                              \/ pc = "apply_c" /\ k = "c" /\ pc' = "done"
    BY <2>1, <2>2, ApplyIs
  <2>4. at \in Folders /\ notes \in [Folders -> SUBSET Names]
    BY <2>1, <2>2, ApplyIs DEF VaultInv, TypeOK
  <2>5. ~Download(k)
    BY <2>1, <2>4 DEF Download
  <2>6. DeleteLocal(k) /\ k \in mine /\ k \notin theirs /\ k \in rows /\ ~defer
    BY <2>1, <2>3, <2>5, ActIs DEF Record, Upload, DeleteRemote, Skip
  <2>7. pc \in Applying /\ ~mixed /\ ~missed /\ theirs \subseteq {"d", "c"}
    BY <2>1 DEF Applies, VaultInv, TypeOK, Names
  <2>8. ~settings.ignored
    BY <2>1, <2>6, <2>7 DEF KeptInv, OneFilter
  <2>9. theirs = {} /\ Ahead
    BY <2>1, <2>3, <2>6, <2>7, OneKey DEF Ahead, InPlay, Names
  <2>10. QED
    BY <2>1, <2>6, <2>7, <2>8, <2>9 DEF KeptInv, ListFits
<1>2. QED
  BY <1>1, KeptInductive, PTL DEF Spec, LocalKept
=============================================================================
