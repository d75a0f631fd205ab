--------------------------- MODULE FileSyncProofs ---------------------------
(***************************************************************************)
(* Theorems about the decision layer and about FileSync, for every value   *)
(* of the constants: its types and gates and, by the invariants of         *)
(* FileSyncInv, that it loses nothing silently (LossInv), that the         *)
(* signatures and absences it reads mean what it takes them to mean        *)
(* (TruthInv), and that an upload overwrites no unseen edit (OursInv).     *)
(***************************************************************************)
EXTENDS FileSyncInv, TLAPS

-----------------------------------------------------------------------------
\* Which side an operation finds: the contract the asserts of _apply_file
\* encode (syncer.py, "The decide layer guarantees which side(s) exist per op").
LEMMA DecideSides ==
    ASSUME NEW l \in LocalEntry \cup {None},
           NEW r \in RemoteEntry \cup {None},
           NEW b \in BaseRow \cup {None},
           NEW c \in BOOLEAN,
           NEW o, o = DecideFile(l, r, b, c)
    PROVE  /\ o \in FileOps
           /\ o \in {"record", "conflict", "verify_adopt", "settle_wait"}
                 => l # None /\ r # None
           /\ o \in {"download", "rescue_download"} => r # None
           /\ o \in {"upload", "rescue_upload"} => l # None
  <1> USE DEF FileOps
  <1>1. CASE l # None /\ r # None
    <2>1. o = DecideBothPresent(l, r, b, c)
      BY <1>1 DEF DecideFile
    <2>2. DecideFirstSight(l, r, c) \in {"conflict", "verify_adopt", "settle_wait"}
      BY DEF DecideFirstSight
    <2>3. DecideRemoteOnlyMoved(l, r, b, c) \in {"settle_wait", "conflict", "download"}
      BY DEF DecideRemoteOnlyMoved
    <2>4. o \in {"upload", "download", "conflict", "settle_wait", "verify_adopt",
                 "record"}
      BY <2>1, <2>2, <2>3 DEF DecideBothPresent
    <2> QED BY <1>1, <2>4
  <1>2. CASE l # None /\ r = None
    BY <1>2 DEF DecideFile, DecideLocalOnly
  <1>3. CASE l = None /\ r # None
    BY <1>3 DEF DecideFile, DecideRemoteOnly
  <1>4. CASE l = None /\ r = None
    BY <1>4 DEF DecideFile
  <1> QED BY <1>1, <1>2, <1>3, <1>4

\* A file is deleted only when the baseline knew it and the surviving side has
\* not moved since ("never deletes without a baseline", THREE_WAY_BASELINE).
THEOREM DeleteNeedsBaseline ==
    ASSUME NEW l \in LocalEntry \cup {None},
           NEW r \in RemoteEntry \cup {None},
           NEW b \in BaseRow \cup {None},
           NEW c \in BOOLEAN
    PROVE  /\ DecideFile(l, r, b, c) = "delete_local" =>
                  l # None /\ r = None /\ b # None /\ ~LocalMoved(l, b)
           /\ DecideFile(l, r, b, c) = "delete_remote" =>
                  l = None /\ r # None /\ b # None /\ ~RemoteMoved(r, b)
  <1>1. CASE l # None /\ r # None
    <2>1. DecideFile(l, r, b, c) = DecideBothPresent(l, r, b, c)
      BY <1>1 DEF DecideFile
    <2>2. DecideFirstSight(l, r, c) \in {"conflict", "verify_adopt", "settle_wait"}
      BY DEF DecideFirstSight
    <2>3. DecideRemoteOnlyMoved(l, r, b, c) \in {"settle_wait", "conflict", "download"}
      BY DEF DecideRemoteOnlyMoved
    <2>4. DecideBothPresent(l, r, b, c) \in
              {"upload", "download", "conflict", "settle_wait", "verify_adopt", "record"}
      BY <2>2, <2>3 DEF DecideBothPresent
    <2> QED BY <2>1, <2>4
  <1>2. CASE ~(l # None /\ r # None)
    BY <1>2 DEF DecideFile, DecideLocalOnly, DecideRemoteOnly
  <1> QED BY <1>1, <1>2

\* A plain download replaces a vault file only if that file has not moved since
\* the baseline was written.
LEMMA DownloadNeedsUnmoved ==
    ASSUME NEW l \in LocalEntry \cup {None},
           NEW r \in RemoteEntry \cup {None},
           NEW b \in BaseRow \cup {None},
           NEW c \in BOOLEAN
    PROVE  DecideFile(l, r, b, c) \in {"download", "rescue_download"} =>
               l = None \/ (b # None /\ ~LocalMoved(l, b))
  <1> SUFFICES ASSUME l # None,
                      DecideFile(l, r, b, c) \in {"download", "rescue_download"}
               PROVE  b # None /\ ~LocalMoved(l, b)
    OBVIOUS
  <1>1. r # None
    BY DEF DecideFile, DecideLocalOnly
  <1>2. DecideFile(l, r, b, c) = DecideBothPresent(l, r, b, c)
    BY <1>1 DEF DecideFile
  <1>3. DecideFirstSight(l, r, c) \in {"conflict", "verify_adopt", "settle_wait"}
    BY DEF DecideFirstSight
  <1>4. ~LocalChanged(l, b)
    BY <1>2, <1>3 DEF DecideBothPresent
  <1> QED BY <1>4 DEF LocalChanged

-----------------------------------------------------------------------------
\* The helpers that build entries and rows keep their shapes.
LEMMA EntryShapes ==
    /\ \A f \in LocalFile \cup {None} : Stat(f) \in LocalEntry \cup {None}
    /\ \A f \in LocalFile : f # None /\ Stat(f) \in LocalEntry /\ f.body \in Body
    /\ \A f \in RemoteFile \cup {None} : Listing(f) \in RemoteEntry \cup {None}
    /\ \A f \in RemoteFile : f # None /\ Listing(f) \in RemoteEntry /\ f.body \in Body
    /\ \A l \in LocalEntry, r \in LocalEntry \cup RemoteEntry, e \in Nat :
          Row(l, r, e) \in BaseRow
  <1> USE DecideAssumption, NoneAssumption
          DEF LocalFile, RemoteFile, LocalEntry, RemoteEntry, Body, BaseRow
  <1>1. \A f \in LocalFile : f # None /\ Stat(f) \in LocalEntry /\ f.body \in Body
    BY DEF Stat
  <1>2. \A f \in RemoteFile : f # None /\ Listing(f) \in RemoteEntry /\ f.body \in Body
    BY DEF Listing, ListedSize
  <1>3. Stat(None) = None /\ Listing(None) = None
    BY DEF Stat, Listing
  <1>4. \A l \in LocalEntry, r \in LocalEntry \cup RemoteEntry, e \in Nat :
          Row(l, r, e) \in BaseRow
    BY DEF Row
  <1> QED BY <1>1, <1>2, <1>3, <1>4

\* What EXCEPT keeps of a file.
LEMMA FileUpdates ==
    /\ \A f \in RemoteFile, e \in Nat :
          /\ [f EXCEPT !.stage = "full", !.etag = e] \in RemoteFile
          /\ [f EXCEPT !.stage = "full", !.etag = e].body = f.body
          /\ [f EXCEPT !.stage = "full", !.etag = e].mtime = f.mtime
          /\ [f EXCEPT !.stage = "full", !.etag = e].stage = "full"
    /\ \A f \in LocalFile, t \in Nat :
          /\ [f EXCEPT !.mtime = t] \in LocalFile
          /\ [f EXCEPT !.mtime = t].body = f.body
          /\ [f EXCEPT !.mtime = t].mtime = t
  BY DEF RemoteFile, LocalFile

\* The first step of an operation names the operation.
LEMMA FirstSteps ==
    ASSUME NEW o \in FileOps, FirstStep(o) # None
    PROVE  /\ FirstStep(o) \in {"up_snap", "dn_fetch", "cf_probe", "vf_fetch",
                                "del_local", "del_remote", "record", "drop"}
           /\ FirstStep(o) = "dn_fetch" => o \in {"download", "rescue_download"}
           /\ FirstStep(o) = "vf_fetch" => o = "verify_adopt"
           /\ FirstStep(o) = "cf_probe" => o = "conflict"
           /\ FirstStep(o) = "record" => o = "record"
  BY DEF FirstStep

\* Counters of faults, deferrals and failures keep their ranges.
LEMMA FaultCounts ==
    TypeOK /\ (Fault \/ FetchFails) => mishaps' \in 0..MaxMishaps
  BY FileSyncAssumption DEF TypeOK, Fault, FetchFails

\* A deferral leaves a well-formed unreadable counter.
LEMMA UnreadMovesOn ==
    TypeOK /\ re # None /\ DeferUnreadable => unread' \in UnreadRow
  <1> SUFFICES ASSUME TypeOK, re # None, DeferUnreadable PROVE unread' \in UnreadRow
    OBVIOUS
  <1>1. \A n \in Nat : CountTo(UnreadableMaxPasses, n) \in Nat
    BY FileSyncAssumption DEF CountTo
  <1>2. unread # None => unread.count \in Nat
    BY DEF TypeOK, UnreadRow
  <1>3. UnreadMatches(re) => unread # None
    BY DEF UnreadMatches
  <1>4. re.size \in Nat /\ re.mtime \in Nat /\ re.etag \in Nat
    BY DEF TypeOK, RemoteEntry
  <1> QED
    BY <1>1, <1>2, <1>3, <1>4 DEF DeferUnreadable, UnreadRow

\* A failed download leaves a well-formed failure counter.
LEMMA FailureMovesOn ==
    TypeOK /\ re # None /\ NoteDownloadFailure => dlfail' \in FailRow
  <1> SUFFICES ASSUME TypeOK, re # None, NoteDownloadFailure PROVE dlfail' \in FailRow
    OBVIOUS
  <1>1. \A n \in Nat : CountTo(DownloadMaxFails, n) \in Nat
    BY FileSyncAssumption DEF CountTo
  <1>2. dlfail # None => dlfail.count \in Nat
    BY DEF TypeOK, FailRow
  <1>3. FailMatches(re) => dlfail # None
    BY DEF FailMatches
  <1>4. re.size \in Nat /\ re.mtime \in Nat
    BY DEF TypeOK, RemoteEntry
  <1> QED
    BY <1>1, <1>2, <1>3, <1>4 DEF NoteDownloadFailure, FailRow

\* What iCloud serves is a body.
LEMMA ServedIsBody == TypeOK /\ remote # None => Served \in Body
  BY DEF TypeOK, Served, RemoteFile, Body

-----------------------------------------------------------------------------
\* The start is well typed.
LEMMA TypeInit == Init => TypeOK
  <1> SUFFICES ASSUME Init PROVE TypeOK
    OBVIOUS
  <1> USE DecideAssumption, FileSyncAssumption, NoneAssumption
  <1>1. PICK s1 \in Sizes, s2 \in Sizes, t2 \in {1, 1 + MTimeTol} :
           /\ InitPlace([size |-> s1, mtime |-> 1], [size |-> s2, mtime |-> t2])
           /\ now = t2
    BY DEF Init
  <1>2. now \in Nat /\ s1 \in Nat /\ s2 \in Nat /\ t2 \in Nat
    BY <1>1
  <1>3. /\ local \in LocalFile \cup {None}
        /\ remote \in RemoteFile \cup {None}
        /\ base \in BaseRow \cup {None}
    BY <1>1, <1>2 DEF InitPlace, LocalFile, RemoteFile, BaseRow, Body, Row, Stat,
                      Listing, ListedSize
  <1>4. owed \subseteq Body
    BY <1>3 DEF Init, BodyOf, NonEmpty, LocalFile, RemoteFile
  <1> QED
    BY <1>2, <1>3, <1>4 DEF Init, TypeOK, Registers, PassSteps

\* Every step keeps the types.
LEMMA TypeNext == TypeOK /\ [Next]_vars => TypeOK'
  <1> SUFFICES ASSUME TypeOK, [Next]_vars PROVE TypeOK'
    OBVIOUS
  <1> USE DecideAssumption, FileSyncAssumption, NoneAssumption
          DEF TypeOK, Registers, PassSteps, disk, cloud, meta, world, gone, Fetching
  <1>1. ASSUME NEW s \in Sizes, NEW g \in Gaps, LocalEdit(s, g) PROVE TypeOK'
    BY <1>1 DEF LocalEdit, LocalFile, Body, NonEmpty, LocalBodies
  <1>2. CASE LocalDelete
    BY <1>2 DEF LocalDelete
  <1>3. ASSUME NEW s \in Sizes, NEW g \in Gaps, NEW t \in Stages, RemoteEdit(s, g, t)
        PROVE  TypeOK'
    BY <1>3 DEF RemoteEdit, RemoteFile, Body, NonEmpty, BodyOf
  <1>4. CASE RemoteDelete
    BY <1>4 DEF RemoteDelete
  <1>5. CASE Materialize
    <2>1. rev' \in Nat /\ remote \in RemoteFile /\ remote.body \in Body
      BY <1>5, EntryShapes DEF Materialize
    <2>2. remote' \in RemoteFile
      BY <1>5, <2>1, FileUpdates DEF Materialize
    <2>3. owed' \subseteq Body
      BY <1>5, <2>1 DEF Materialize, NonEmpty
    <2> QED BY <1>5, <2>1, <2>2, <2>3 DEF Materialize
  <1>6. CASE ScanLocal
    BY <1>6, EntryShapes DEF ScanLocal
  <1>7. CASE ScanRemote
    <2> DEFINE r == Listing(remote)
               c == Converges(le, r)
               d == DecideFile(le, r, base, c)
               o == EscalateSettle(d)
    <2>1. r \in RemoteEntry \cup {None}
      BY EntryShapes
    <2>2. c \in BOOLEAN
      BY DEF Converges, Escalated, UnreadMatches
    <2>3. /\ d \in FileOps
          /\ d \in {"record", "conflict", "verify_adopt", "settle_wait"}
                => le # None /\ r # None
          /\ d \in {"download", "rescue_download"} => r # None
      BY <2>1, <2>2, DecideSides
    <2>4. /\ o \in FileOps
          /\ o \in {"record", "conflict", "verify_adopt"} => le # None /\ r # None
          /\ o \in {"download", "rescue_download"} => r # None
      BY <2>3 DEF EscalateSettle, FileOps
    <2>5. settle' \in Nat
      BY <1>7 DEF ScanRemote, CountTo
    <2>7. CASE FirstStep(o) = None
      BY <1>7, <2>5, <2>7 DEF ScanRemote, EndPass
    <2>8. CASE FirstStep(o) # None
      <3> HIDE DEF o
      <3>1. op' = o /\ re' = r /\ pc' = FirstStep(o) /\ UNCHANGED <<le, buf, boot>>
        BY <1>7, <2>8 DEF ScanRemote, o
      <3>2. /\ pc' \in {"up_snap", "dn_fetch", "cf_probe", "vf_fetch",
                       "del_local", "del_remote", "record", "drop"}
            /\ pc' = "dn_fetch" => o \in {"download", "rescue_download"}
            /\ pc' = "vf_fetch" => o = "verify_adopt"
            /\ pc' = "cf_probe" => o = "conflict"
            /\ pc' = "record" => o = "record"
        BY <2>4, <2>8, <3>1, FirstSteps
      <3> HIDE DEF r, d, c
      <3>3. Registers'
        BY <2>4, <3>1, <3>2
      <3> QED
        BY <1>7, <2>1, <2>4, <2>5, <3>1, <3>2, <3>3 DEF ScanRemote
    <2> QED BY <2>7, <2>8
  <1>8. CASE ScanNothing
    BY <1>8 DEF ScanNothing, EndPass
  <1>9. CASE AbortScan
    BY <1>9, FaultCounts DEF AbortScan, EndPass
  <1>10. CASE ApplyRecord
    BY <1>10, EntryShapes DEF ApplyRecord, EndPass, RemoteEntry
  <1>11. CASE ApplyDropBaseline
    BY <1>11 DEF ApplyDropBaseline, EndPass
  <1>12. CASE DeleteLocalFile
    BY <1>12, EntryShapes DEF DeleteLocalFile, Goto, LocalBodies
  <1>13. CASE DeleteRemoteFile
    BY <1>13, EntryShapes DEF DeleteRemoteFile, Goto, BodyOf
  <1>14. CASE DeleteFails
    BY <1>14, FaultCounts DEF DeleteFails, EndPass
  <1>15. CASE CommitDelete
    BY <1>15 DEF CommitDelete, EndPass
  <1>16. CASE SnapshotForUpload
    BY <1>16 DEF SnapshotForUpload, EndPass, Goto
  <1>17. CASE UploadRemove
    BY <1>17, EntryShapes DEF UploadRemove, Goto, BodyOf
  <1>18. CASE UploadMissesExisting
    BY <1>18 DEF UploadMissesExisting, Goto
  <1>19. CASE UploadSend
    BY <1>19, EntryShapes DEF UploadSend, Goto, BodyOf, LocalFile, RemoteFile
  <1>20. CASE UploadFails
    BY <1>20, FaultCounts DEF UploadFails, EndPass
  <1>21. CASE UploadCommit
    BY <1>21, EntryShapes DEF UploadCommit, EndPass
  <1>22. CASE DownloadSkip
    BY <1>22 DEF DownloadSkip, EndPass
  <1>23. CASE DownloadFetch
    BY <1>23, ServedIsBody DEF DownloadFetch, FetchGood, Goto, LocalFile, RemoteEntry
  <1>24. CASE DownloadUnreadable
    BY <1>24, UnreadMovesOn DEF DownloadUnreadable, DeferUnreadable, EndPass
  <1>25. CASE DownloadFails
    BY <1>25, FaultCounts, FailureMovesOn DEF DownloadFails, EndPass
  <1>26. CASE DownloadInstall
    BY <1>26, EntryShapes DEF DownloadInstall, Goto, LocalFile, LocalBodies
  <1>27. CASE DownloadStamp
    <2>1. re.mtime \in Nat /\ re.etag \in Nat /\ re \in RemoteEntry
      BY <1>27 DEF DownloadStamp, RemoteEntry
    <2>4. slipped' \subseteq Body
      BY <1>27, EntryShapes DEF DownloadStamp, LocalBodies
    <2>2. CASE local = None
      BY <1>27, <2>4, <2>2 DEF DownloadStamp, EndPass
    <2>3. CASE local # None
      <3>0. local' = [local EXCEPT !.mtime = re.mtime]
        BY <1>27, <2>3 DEF DownloadStamp
      <3>1. local' \in LocalFile
        BY <2>1, <2>3, <3>0, FileUpdates
      <3>2. Stat(local') \in LocalEntry
        BY <3>1, EntryShapes
      <3>3. base' = Row(Stat(local'), re, re.etag)
        BY <1>27, <2>3 DEF DownloadStamp
      <3>4. base' \in BaseRow
        BY <2>1, <3>2, <3>3, EntryShapes
      <3> QED BY <1>27, <2>4, <3>1, <3>4 DEF DownloadStamp, EndPass
    <2> QED BY <2>2, <2>3
  <1>28. CASE VerifyFetch
    BY <1>28, ServedIsBody DEF VerifyFetch, FetchGood, Goto, LocalFile, RemoteEntry
  <1>29. CASE VerifyUnreadable
    BY <1>29, UnreadMovesOn DEF VerifyUnreadable, DeferUnreadable, EndPass
  <1>30. CASE VerifyFails
    BY <1>30, FaultCounts DEF VerifyFails, Goto, FileOps
  <1>31. CASE VerifyCompare
    <2>1. CASE Identical
      <3>1. base' \in BaseRow
        BY <1>31, <2>1, EntryShapes DEF VerifyCompare, RemoteEntry
      <3> QED BY <1>31, <2>1, <3>1 DEF VerifyCompare, EndPass
    <2>2. CASE ~Identical
      BY <1>31, <2>2 DEF VerifyCompare, Goto, FileOps
    <2> QED BY <2>1, <2>2
  <1>32. CASE ConflictReadable
    BY <1>32 DEF ConflictReadable, Goto, ResolveStep
  <1>33. CASE ConflictUnreadable
    <2>1. CASE Escalated(re)
      BY <1>33, <2>1 DEF ConflictUnreadable, Goto
    <2>2. CASE ~Escalated(re)
      BY <1>33, <2>2, UnreadMovesOn DEF ConflictUnreadable, DeferUnreadable, EndPass
    <2> QED BY <2>1, <2>2
  <1>34. CASE ConflictProbeFails
    BY <1>34, FaultCounts DEF ConflictProbeFails, EndPass
  <1>35. CASE ConflictBackupRemote
    BY <1>35, ServedIsBody DEF ConflictBackupRemote, FetchGood, Goto
  <1>36. CASE ConflictBackupUnreadable
    BY <1>36, UnreadMovesOn DEF ConflictBackupUnreadable, DeferUnreadable, EndPass
  <1>37. CASE ConflictBackupFails
    <2>1. mishaps' \in 0..MaxMishaps
      BY <1>37, FaultCounts DEF ConflictBackupFails, FetchFails
    <2>2. dlfail' \in FailRow \cup {None}
      BY <1>37, FailureMovesOn DEF ConflictBackupFails
    <2> QED BY <1>37, <2>1, <2>2 DEF ConflictBackupFails, EndPass
  <1>38. CASE ConflictMoveAside
    BY <1>38, EntryShapes DEF ConflictMoveAside, Goto, LocalBodies
  <1>39. ASSUME NEW d \in BOOLEAN, Crash(d) PROVE TypeOK'
    BY <1>39, FaultCounts DEF Crash
  <1>40. CASE UNCHANGED vars
    BY <1>40 DEF vars
  <1> QED
    BY <1>1, <1>2, <1>3, <1>4, <1>5, <1>6, <1>7, <1>8, <1>9, <1>10, <1>11, <1>12,
       <1>13, <1>14, <1>15, <1>16, <1>17, <1>18, <1>19, <1>20, <1>21, <1>22,
       <1>23, <1>24, <1>25, <1>26, <1>27, <1>28, <1>29, <1>30, <1>31, <1>32,
       <1>33, <1>34, <1>35, <1>36, <1>37, <1>38, <1>39, <1>40
       DEF Next, User, Engine, Scan, ApplyBaseline, ApplyDelete, ApplyUpload,
           ApplyDownload, ApplyVerify, ApplyConflict

\* Every variable keeps its type and every step of a pass finds the snapshot
\* entries and buffers the code asserts or assumes (_apply_file, _do_upload,
\* _do_download).
THEOREM TypeCorrect == Spec => []TypeOK
  <1>1. Init => TypeOK
    BY TypeInit
  <1>2. TypeOK /\ [Next]_vars => TypeOK'
    BY TypeNext
  <1> QED BY <1>1, <1>2, PTL DEF Spec

-----------------------------------------------------------------------------
(* LossInv is inductive.                                                   *)

\* The clocks of well-typed entries and files.
LEMMA Times ==
    TypeOK => /\ now \in Nat
              /\ local # None => local.mtime \in Nat /\ local.body.mtime \in Nat
              /\ remote # None => remote.mtime \in Nat /\ remote.body.mtime \in Nat
              /\ base # None => base.lmtime \in Nat
              /\ le # None => le.mtime \in Nat
              /\ re # None => re.mtime \in Nat
              /\ buf # None => buf.mtime \in Nat /\ buf.body.mtime \in Nat
  BY DEF TypeOK, Body, LocalFile, RemoteFile, BaseRow, LocalEntry, RemoteEntry

\* The row's local half is the entry it was made from.
LEMMA RowTimes ==
    \A l, r, e : Row(l, r, e).lsize = l.size /\ Row(l, r, e).lmtime = l.mtime
  BY DEF Row

\* An entry's size and mtime are its file's.
LEMMA StatTimes ==
    \A f \in LocalFile : Stat(f).size = f.body.size /\ Stat(f).mtime = f.mtime
  BY NoneAssumption DEF Stat

\* A body born by now that is safe at another place stays safe.
LEMMA BackedStays ==
    ASSUME TypeOK, ClockAhead, Guarded, [Next]_vars, NEW b, Backed(b),
           b.mtime <= now
    PROVE  Backed(b)'
  <1> USE DEF Backed, StoredBodies, RemoteBodies, disk, cloud, meta, world, gone,
              Fetching, Guarded
  <1>1. ASSUME NEW s \in Sizes, NEW g \in Gaps, LocalEdit(s, g) PROVE Backed(b)'
    <2>1. b # [size |-> s, mtime |-> now + g]
      BY Times, FileSyncAssumption
    <2> QED BY <1>1, <2>1 DEF LocalEdit, NonEmpty
  <1>2. CASE LocalDelete
    BY <1>2 DEF LocalDelete
  <1>3. ASSUME NEW s \in Sizes, NEW g \in Gaps, NEW t \in Stages, RemoteEdit(s, g, t)
        PROVE  Backed(b)'
    <2> DEFINE n == [size |-> s, mtime |-> now + g]
    <2>1. /\ remote' = [body |-> n, mtime |-> now + g, etag |-> rev + 1, stage |-> t]
          /\ owed' = (owed \ BodyOf(remote)) \cup (IF t = "full" THEN NonEmpty(n) ELSE {})
          /\ UNCHANGED <<ltrash, copies, rtrash, slipped>>
      BY <1>3 DEF RemoteEdit
    <2>2. remote' # None
      BY TypeNext, <1>3, <2>1, NoneAssumption, FileSyncAssumption DEF TypeOK, RemoteFile, Body
    <2>3. b \in owed /\ b \notin BodyOf(remote) => b \in slipped \cup rtrash \cup ltrash \cup copies
      BY DEF BodyOf
    <2>4. b \in owed' => (b \in owed /\ b \notin BodyOf(remote)) \/ (t = "full" /\ b = n)
      BY <2>1 DEF NonEmpty
    <2> QED BY <2>1, <2>2, <2>3, <2>4
  <1>4. CASE RemoteDelete
    BY <1>4 DEF RemoteDelete, BodyOf
  <1>5. CASE Materialize
    <2>1. remote \in RemoteFile /\ rev' \in Nat
      BY <1>5 DEF Materialize, TypeOK
    <2>2. remote' # None /\ remote'.body = remote.body /\ remote'.stage = "full"
      BY <1>5, <2>1, FileUpdates, EntryShapes DEF Materialize
    <2> QED BY <1>5, <2>2 DEF Materialize, NonEmpty
  <1>6. CASE Scan
    BY <1>6 DEF Scan, ScanLocal, ScanRemote, ScanNothing, AbortScan
  <1>7. CASE ApplyBaseline
    BY <1>7 DEF ApplyBaseline, ApplyRecord, ApplyDropBaseline
  <1>8. CASE ApplyDelete
    BY <1>8 DEF ApplyDelete, DeleteLocalFile, DeleteRemoteFile, DeleteFails,
                CommitDelete, BodyOf
  <1>9. CASE ApplyUpload
    BY <1>9 DEF ApplyUpload, SnapshotForUpload, UploadRemove, UploadMissesExisting,
                UploadSend, UploadFails, UploadCommit, BodyOf
  <1>10. CASE ApplyDownload
    BY <1>10 DEF ApplyDownload, DownloadSkip, DownloadFetch, DownloadUnreadable,
                 DownloadFails, DownloadInstall, DownloadStamp
  <1>11. CASE ApplyVerify
    BY <1>11 DEF ApplyVerify, VerifyFetch, VerifyUnreadable, VerifyFails, VerifyCompare
  <1>12. CASE ApplyConflict
    BY <1>12 DEF ApplyConflict, ConflictReadable, ConflictUnreadable,
                 ConflictProbeFails, ConflictBackupRemote, ConflictBackupUnreadable,
                 ConflictBackupFails, ConflictMoveAside
  <1>13. ASSUME NEW d \in BOOLEAN, Crash(d) PROVE Backed(b)'
    BY <1>13 DEF Crash
  <1>14. CASE UNCHANGED vars
    BY <1>14 DEF vars
  <1> QED
    BY <1>1, <1>2, <1>3, <1>4, <1>5, <1>6, <1>7, <1>8, <1>9, <1>10, <1>11,
       <1>12, <1>13, <1>14 DEF Next, User, Engine

\* What iCloud serves was born by now.
LEMMA ServedIsOld ==
    TypeOK /\ ClockAhead /\ remote # None => Served.mtime <= now
  BY DEF TypeOK, RemoteFile, Body, ClockAhead, Served

\* No step sets a recorded mtime beyond the clock.
LEMMA ClockStays ==
    ASSUME TypeOK, TypeOK', ClockAhead, [Next]_vars
    PROVE  ClockAhead'
  <1> USE DEF disk, cloud, meta, world, gone, Fetching, EndPass, Goto,
          ClockAhead, DeferUnreadable
  <1>1. ASSUME NEW s \in Sizes, NEW g \in Gaps, LocalEdit(s, g) PROVE ClockAhead'
    <2>1. now \in Nat /\ g \in Nat /\ now <= now + g
      BY Times, FileSyncAssumption
    <2>2. now' = now + g
      BY <1>1 DEF LocalEdit
    <2> QED BY <1>1, <2>1, <2>2, Times DEF LocalEdit
  <1>2. CASE LocalDelete
    BY <1>2 DEF LocalDelete
  <1>3. ASSUME NEW s \in Sizes, NEW g \in Gaps, NEW t \in Stages, RemoteEdit(s, g, t)
        PROVE  ClockAhead'
    <2>1. now \in Nat /\ g \in Nat /\ now <= now + g
      BY Times, FileSyncAssumption
    <2>2. now' = now + g
      BY <1>3 DEF RemoteEdit
    <2> QED BY <1>3, <2>1, <2>2, Times DEF RemoteEdit
  <1>4. CASE RemoteDelete
    BY <1>4 DEF RemoteDelete
  <1>5. CASE Materialize
    <2>1. remote \in RemoteFile /\ rev' \in Nat
      BY <1>5 DEF Materialize, TypeOK
    <2>2. remote'.body = remote.body /\ remote'.mtime = remote.mtime
      BY <1>5, <2>1, FileUpdates DEF Materialize
    <2> QED BY <1>5, <2>2 DEF Materialize
  <1>6. CASE Scan
    BY <1>6 DEF Scan, ScanLocal, ScanRemote, ScanNothing, AbortScan, Stat,
        Listing
  <1>7. CASE ApplyBaseline
    BY <1>7, RowTimes DEF ApplyBaseline, ApplyRecord, ApplyDropBaseline,
        TypeOK, Registers
  <1>8. CASE ApplyDelete
    BY <1>8 DEF ApplyDelete, DeleteLocalFile, DeleteRemoteFile, DeleteFails,
        CommitDelete
  <1>9. CASE ApplyUpload
    BY <1>9, RowTimes, StatTimes DEF ApplyUpload, SnapshotForUpload,
        UploadRemove, UploadMissesExisting, UploadSend, UploadFails,
        UploadCommit, TypeOK, Registers
  <1>10. CASE ApplyDownload
    <2>1. now \in Nat /\ now <= now + 1
      BY Times
    <2>2. CASE DownloadInstall
      <3>1. /\ now' = now + 1
            /\ buf # None /\ buf.body \in Body
            /\ local' = [body |-> buf.body, mtime |-> now + 1]
            /\ UNCHANGED <<remote, base, le, re, buf>>
        BY <2>2, NoneAssumption
           DEF DownloadInstall, TypeOK, Registers, LocalFile
      <3>2. buf.body.mtime <= now /\ buf.mtime <= now
        BY <3>1
      <3>3. buf.body.mtime <= now' /\ buf.mtime <= now'
        BY <2>1, <3>1, <3>2, Times
      <3>4. local'.mtime = now' /\ local'.body = buf.body
        BY <3>1
      <3>5. now <= now' /\ now' <= now' /\ now' \in Nat
        BY <2>1, <3>1
      <3> QED BY <3>1, <3>3, <3>4, <3>5, <2>1, Times
    <2>3. CASE DownloadStamp
      <3>1. re # None /\ UNCHANGED <<now, remote>> /\ le' = None /\ re' = None /\ buf' = None
        BY <2>3 DEF DownloadStamp, TypeOK, Registers
      <3>2. CASE local = None
        BY <2>3, <3>1, <3>2 DEF DownloadStamp
      <3>3. CASE local # None
        <4>1. /\ local' = [local EXCEPT !.mtime = re.mtime]
              /\ base' = Row(Stat(local'), re, re.etag)
          BY <2>3, <3>3 DEF DownloadStamp
        <4>2. local' \in LocalFile /\ local'.mtime = re.mtime
          BY <3>1, <3>3, <4>1, FileUpdates, Times DEF TypeOK
        <4>2a. local'.body = local.body
          BY <3>1, <3>3, <4>1, FileUpdates, Times DEF TypeOK
        <4>3. Stat(local').mtime = re.mtime
          BY <4>2, StatTimes
        <4>4. base'.lmtime = re.mtime
          BY <4>1, <4>3 DEF Row
        <4> QED BY <3>1, <3>3, <4>2, <4>2a, <4>4
      <3> QED BY <3>2, <3>3
    <2>4. CASE DownloadFetch
      BY <2>4, ServedIsOld DEF DownloadFetch, FetchGood, TypeOK, Registers
    <2> QED
      BY <1>10, <2>2, <2>3, <2>4 DEF ApplyDownload, DownloadSkip,
         DownloadUnreadable, DownloadFails
  <1>11. CASE ApplyVerify
    <2>1. CASE VerifyFetch
      BY <2>1, ServedIsOld DEF VerifyFetch, FetchGood, TypeOK, Registers
    <2> QED
      BY <1>11, <2>1, RowTimes DEF ApplyVerify, VerifyUnreadable,
         VerifyFails, VerifyCompare, TypeOK, Registers
  <1>12. CASE ApplyConflict
    BY <1>12 DEF ApplyConflict, ConflictReadable, ConflictUnreadable,
        ConflictProbeFails, ConflictBackupRemote, ConflictBackupUnreadable,
        ConflictBackupFails, ConflictMoveAside
  <1>13. ASSUME NEW d \in BOOLEAN, Crash(d) PROVE ClockAhead'
    BY <1>13 DEF Crash
  <1>14. CASE UNCHANGED vars
    BY <1>14 DEF vars
  <1> QED
    BY <1>1, <1>2, <1>3, <1>4, <1>5, <1>6, <1>7, <1>8, <1>9, <1>10, <1>11,
       <1>12, <1>13, <1>14 DEF Next, User, Engine

\* No step makes an empty or a future body owed.
LEMMA OwedStay ==
    ASSUME TypeOK, TypeOK', ClockAhead, OwedAreBorn, [Next]_vars
    PROVE  OwedAreBorn'
  <1> USE DEF disk, cloud, meta, world, gone, Fetching, EndPass, Goto,
          OwedAreBorn, NonEmpty
  <1>1. ASSUME NEW s \in Sizes, NEW g \in Gaps, LocalEdit(s, g) PROVE OwedAreBorn'
    <2>1. /\ now' = now + g /\ now <= now + g /\ now \in Nat /\ g \in Nat
          /\ \A b \in owed : b \in Body
      BY <1>1, Times, FileSyncAssumption DEF LocalEdit, TypeOK
    <2>2. \A b \in owed' : b \in owed \/ (b.mtime = now' /\ b.size > 0)
      BY <1>1 DEF LocalEdit
    <2> QED BY <2>1, <2>2 DEF Body
  <1>2. CASE LocalDelete
    BY <1>2 DEF LocalDelete
  <1>3. ASSUME NEW s \in Sizes, NEW g \in Gaps, NEW t \in Stages, RemoteEdit(s, g, t)
        PROVE  OwedAreBorn'
    <2>1. /\ now' = now + g /\ now <= now + g /\ now \in Nat /\ g \in Nat
          /\ \A b \in owed : b \in Body
      BY <1>3, Times, FileSyncAssumption DEF RemoteEdit, TypeOK
    <2>2. \A b \in owed' : b \in owed \/ (b.mtime = now' /\ b.size > 0)
      BY <1>3 DEF RemoteEdit
    <2> QED BY <2>1, <2>2 DEF Body
  <1>4. CASE RemoteDelete
    BY <1>4 DEF RemoteDelete
  <1>5. CASE Materialize
    BY <1>5 DEF Materialize, ClockAhead
  <1>6. CASE Scan
    BY <1>6 DEF Scan, ScanLocal, ScanRemote, ScanNothing, AbortScan
  <1>7. CASE ApplyBaseline
    BY <1>7 DEF ApplyBaseline, ApplyRecord, ApplyDropBaseline
  <1>8. CASE ApplyDelete
    BY <1>8 DEF ApplyDelete, DeleteLocalFile, DeleteRemoteFile, DeleteFails,
        CommitDelete
  <1>9. CASE ApplyUpload
    BY <1>9 DEF ApplyUpload, SnapshotForUpload, UploadRemove,
        UploadMissesExisting, UploadSend, UploadFails, UploadCommit
  <1>10. CASE ApplyDownload
    <2>1. CASE DownloadInstall
      BY <2>1, Times DEF DownloadInstall, TypeOK, Body
    <2> QED
      BY <1>10, <2>1 DEF ApplyDownload, DownloadSkip, DownloadFetch,
         DownloadUnreadable, DownloadFails, DownloadStamp
  <1>11. CASE ApplyVerify
    BY <1>11 DEF ApplyVerify, VerifyFetch, VerifyUnreadable, VerifyFails,
        VerifyCompare
  <1>12. CASE ApplyConflict
    BY <1>12 DEF ApplyConflict, ConflictReadable, ConflictUnreadable,
        ConflictProbeFails, ConflictBackupRemote, ConflictBackupUnreadable,
        ConflictBackupFails, ConflictMoveAside
  <1>13. ASSUME NEW d \in BOOLEAN, Crash(d) PROVE OwedAreBorn'
    BY <1>13 DEF Crash
  <1>14. CASE UNCHANGED vars
    BY <1>14 DEF vars
  <1> QED
    BY <1>1, <1>2, <1>3, <1>4, <1>5, <1>6, <1>7, <1>8, <1>9, <1>10, <1>11,
       <1>12, <1>13, <1>14 DEF Next, User, Engine

-----------------------------------------------------------------------------
\* The vault and the row stand: what was safe is safe.
LEMMA BaselineKept ==
    ASSUME TypeOK, ClockAhead, Guarded, [Next]_vars, BaselineIsBacked,
           local' \in {local, None}, base' \in {base, None}
    PROVE  BaselineIsBacked'
  BY BackedStays DEF BaselineIsBacked, Stat, ClockAhead

\* A recorded signature keeps vouching only for safe bytes: each step that
\* writes a row or a vault file either knows its bytes are safe or gives the
\* file an mtime no row holds.
LEMMA BaselineStays ==
    ASSUME TypeOK, TypeOK', Guarded, [Next]_vars, ClockAhead, BaselineIsBacked,
           RecordIsUnmoved, FetchedIsBacked, UploadIsVault
    PROVE  BaselineIsBacked'
  <1> USE DEF disk, cloud, meta, world, gone, Fetching
  <1>1. CASE local' \in {local, None} /\ base' \in {base, None}
    BY <1>1, BaselineKept
  <1>2. ASSUME NEW s \in Sizes, NEW g \in Gaps, LocalEdit(s, g)
        PROVE  BaselineIsBacked'
    <2>1. base' = base /\ local' # None /\ local'.mtime = now + g /\ Stat(local').mtime = now + g
      BY <1>2, StatTimes, NoneAssumption, FileSyncAssumption
         DEF LocalEdit, TypeOK, LocalFile, Body
    <2>2. base # None => now + g > base.lmtime
      BY Times, FileSyncAssumption DEF ClockAhead
    <2>3. base # None => LocalMoved(Stat(local'), base)
      BY <2>1, <2>2, Times, FileSyncAssumption
         DEF LocalMoved, Changed, Distance, MTimeTolLocal
    <2> QED BY <2>1, <2>3 DEF BaselineIsBacked
  <1>3. CASE ApplyRecord
    <2>1. /\ local' = local /\ base # None
          /\ base'.lsize = base.lsize /\ base'.lmtime = base.lmtime
      <3>1. /\ le.size = base.lsize /\ le.mtime = base.lmtime /\ base # None
        BY <1>3, Times DEF ApplyRecord, RecordIsUnmoved, LocalMoved, Changed,
                           Distance, MTimeTolLocal
      <3> QED BY <1>3, <3>1 DEF ApplyRecord, Row
    <2>2. LocalMoved(Stat(local), base) => LocalMoved(Stat(local'), base')
      BY <2>1 DEF LocalMoved, Changed
    <2> QED BY <2>1, <2>2, BackedStays DEF BaselineIsBacked, ClockAhead
  <1>4. CASE UploadCommit
    <2>1. local' = local /\ base' = Row(Stat(buf), Stat(buf), 0) /\ pc = "up_commit"
      BY <1>4 DEF UploadCommit
    <2>2. base'.lmtime = buf.mtime /\ buf \in LocalFile
      BY <2>1, StatTimes, NoneAssumption DEF Row, TypeOK, Registers
    <2>3. ASSUME local # None, ~LocalMoved(Stat(local), base')
          PROVE  Backed(local.body)
      <3>1. /\ Stat(local).mtime = local.mtime
            /\ local.mtime \in Nat /\ buf.mtime \in Nat
        BY <2>2, <2>3, StatTimes, Times DEF TypeOK, LocalFile
      <3>2. ~(Distance(local.mtime, buf.mtime) > 0)
        BY <2>2, <2>3, <3>1 DEF LocalMoved, Changed, MTimeTolLocal
      <3>3. local.mtime = buf.mtime
        BY <3>1, <3>2 DEF Distance
      <3> QED BY <2>1, <2>3, <3>3 DEF UploadIsVault
    <2> QED BY <2>1, <2>3, BackedStays DEF BaselineIsBacked, ClockAhead
  <1>5. CASE DownloadInstall
    <2>1. base' = base /\ local' # None /\ Stat(local').mtime = now + 1
      <3>1. buf.body \in Body /\ now + 1 \in Nat
        BY <1>5, Times, EntryShapes DEF DownloadInstall, TypeOK, Registers, LocalFile
      <3>2. local' \in LocalFile /\ local'.mtime = now + 1 /\ base' = base
        BY <1>5, <3>1 DEF DownloadInstall, LocalFile
      <3> QED BY <3>2, StatTimes, NoneAssumption
    <2>2. base # None => LocalMoved(Stat(local'), base)
      BY <2>1, Times DEF LocalMoved, Changed, Distance, MTimeTolLocal, ClockAhead
    <2> QED BY <2>1, <2>2 DEF BaselineIsBacked
  <1>6. CASE DownloadStamp /\ local # None
    <2>1. local' = [local EXCEPT !.mtime = re.mtime] /\ pc = "dn_stamp"
      BY <1>6 DEF DownloadStamp
    <2>2. re.mtime \in Nat
      BY <2>1, Times DEF TypeOK, Registers
    <2>3. local'.body = local.body
      BY <1>6, <2>1, <2>2, FileUpdates DEF TypeOK
    <2>4. CASE local.body = buf.body
      <3>1. Backed(local.body) /\ local.body.mtime <= now
        BY <1>6, <2>1, <2>4 DEF FetchedIsBacked, ClockAhead
      <3> QED BY <2>3, <3>1, BackedStays DEF BaselineIsBacked
    <2>5. CASE local.body # buf.body
      <3>1. local.body \in slipped'
        BY <1>6, <2>5 DEF DownloadStamp, LocalBodies
      <3> QED BY <2>3, <3>1 DEF BaselineIsBacked, Backed
    <2> QED BY <2>4, <2>5
  <1>7. CASE VerifyCompare /\ Identical
    <2>1. local' = local /\ local # None /\ local.body = buf.body /\ pc = "vf_compare"
      BY <1>7 DEF VerifyCompare, Identical
    <2>2. Backed(local.body)
      BY <2>1 DEF FetchedIsBacked
    <2> QED BY <2>1, <2>2, BackedStays DEF BaselineIsBacked, ClockAhead
  <1>8. (local' \in {local, None} /\ base' \in {base, None})
        \/ (\E s \in Sizes, g \in Gaps : LocalEdit(s, g)) \/ ApplyRecord
        \/ UploadCommit \/ DownloadInstall \/ (DownloadStamp /\ local # None)
        \/ (VerifyCompare /\ Identical)
    <2>1. CASE User \/ Materialize \/ (\E d \in BOOLEAN : Crash(d)) \/ UNCHANGED vars
      BY <2>1 DEF User, LocalDelete, RemoteEdit, RemoteDelete, Materialize, Crash, vars
    <2>2. CASE Scan \/ ApplyBaseline \/ ApplyDelete
      BY <2>2 DEF Scan, ScanLocal, ScanRemote, ScanNothing, AbortScan, ApplyBaseline,
         ApplyDropBaseline, ApplyDelete, DeleteLocalFile, DeleteRemoteFile,
         DeleteFails, CommitDelete
    <2>3. CASE ApplyUpload
      BY <2>3 DEF ApplyUpload, SnapshotForUpload, UploadRemove, UploadMissesExisting,
         UploadSend, UploadFails
    <2>4. CASE ApplyDownload
      BY <2>4 DEF ApplyDownload, DownloadSkip, DownloadFetch, DownloadUnreadable,
         DownloadFails, DownloadStamp
    <2>5. CASE ApplyVerify \/ ApplyConflict
      BY <2>5 DEF ApplyVerify, VerifyFetch, VerifyUnreadable, VerifyFails,
         VerifyCompare, ApplyConflict, ConflictReadable, ConflictUnreadable,
         ConflictProbeFails, ConflictBackupRemote, ConflictBackupUnreadable,
         ConflictBackupFails, ConflictMoveAside
    <2> QED BY <2>1, <2>2, <2>3, <2>4, <2>5 DEF Next, Engine
  <1> QED BY <1>1, <1>2, <1>3, <1>4, <1>5, <1>6, <1>7, <1>8

-----------------------------------------------------------------------------
\* A row is re-recorded only when the vault file has not moved.
LEMMA RecordNeedsUnmoved ==
    ASSUME NEW l \in LocalEntry \cup {None},
           NEW r \in RemoteEntry \cup {None},
           NEW b \in BaseRow \cup {None},
           NEW c \in BOOLEAN,
           DecideFile(l, r, b, c) = "record"
    PROVE  l # None /\ b # None /\ ~LocalMoved(l, b)
  <1>1. l # None /\ r # None
    BY DEF DecideFile, DecideLocalOnly, DecideRemoteOnly
  <1>2. DecideBothPresent(l, r, b, c) = "record"
    BY <1>1 DEF DecideFile
  <1>3. DecideFirstSight(l, r, c) # "record" /\ DecideRemoteOnlyMoved(l, r, b, c) # "record"
    BY DEF DecideFirstSight, DecideRemoteOnlyMoved
  <1> QED BY <1>1, <1>2, <1>3 DEF DecideBothPresent, LocalChanged, RemoteChanged, EtagMoved

\* What ScanRemote decides for the path, before waits are escalated.
Decision == DecideFile(le, Listing(remote), base, Converges(le, Listing(remote)))

\* What ScanRemote does, in terms of Decision.
LEMMA ScanDecides ==
    ASSUME TypeOK, ScanRemote
    PROVE  /\ Decision \in FileOps
           /\ UNCHANGED <<local, base, owed, slipped>>
           /\ \/ pc' = "idle"
              \/ /\ le' = le
                 /\ FirstStep(EscalateSettle(Decision)) # None
                 /\ pc' = FirstStep(EscalateSettle(Decision))
  <1> DEFINE o == EscalateSettle(Decision)
  <1>1. Listing(remote) \in RemoteEntry \cup {None} /\ Converges(le, Listing(remote)) \in BOOLEAN
    BY EntryShapes DEF TypeOK, Converges, Escalated, UnreadMatches
  <1>2. Decision \in FileOps
    <2>1. \A l \in LocalEntry \cup {None}, r \in RemoteEntry \cup {None},
             b \in BaseRow \cup {None}, c \in BOOLEAN :
             DecideFile(l, r, b, c) \in FileOps
      BY DecideSides
    <2>2. le \in LocalEntry \cup {None} /\ base \in BaseRow \cup {None}
      BY DEF TypeOK
    <2> QED BY <1>1, <2>1, <2>2, Zenon DEF Decision
  <1>3. CASE FirstStep(o) = None
    BY <1>2, <1>3 DEF ScanRemote, EndPass, Decision, disk, world
  <1>4. CASE FirstStep(o) # None
    BY <1>2, <1>4 DEF ScanRemote, Decision, disk, world
  <1> QED BY <1>3, <1>4

\* The step that re-records a row was chosen over an unmoved vault file.
LEMMA RecordStays ==
    ASSUME TypeOK, [Next]_vars, RecordIsUnmoved
    PROVE  RecordIsUnmoved'
  <1> USE DEF disk, cloud, meta, world, gone, Fetching, EndPass, Goto,
          RecordIsUnmoved, DeferUnreadable
  <1>1. ASSUME NEW s \in Sizes, NEW g \in Gaps, LocalEdit(s, g) PROVE RecordIsUnmoved'
    BY <1>1 DEF LocalEdit
  <1>2. CASE LocalDelete
    BY <1>2 DEF LocalDelete
  <1>3. ASSUME NEW s \in Sizes, NEW g \in Gaps, NEW t \in Stages, RemoteEdit(s, g, t)
        PROVE  RecordIsUnmoved'
    BY <1>3 DEF RemoteEdit
  <1>4. CASE RemoteDelete
    BY <1>4 DEF RemoteDelete
  <1>5. CASE Materialize
    BY <1>5 DEF Materialize
  <1>6. CASE Scan
    <2> SUFFICES ASSUME pc' = "record"
                 PROVE  base' # None /\ le' # None /\ ~LocalMoved(le', base')
      BY DEF RecordIsUnmoved
    <2>1. ScanRemote
      BY <1>6 DEF Scan, ScanLocal, ScanNothing, AbortScan
    <2>2. /\ base' = base /\ le' = le /\ Decision \in FileOps
          /\ FirstStep(EscalateSettle(Decision)) = "record"
          /\ FirstStep(EscalateSettle(Decision)) # None
      BY <2>1, ScanDecides
    <2>3. Decision = "record"
      BY <2>2, FirstSteps DEF EscalateSettle, FileOps
    <2>4. Listing(remote) \in RemoteEntry \cup {None} /\ Converges(le, Listing(remote)) \in BOOLEAN
      BY EntryShapes DEF TypeOK, Converges, Escalated, UnreadMatches
    <2> QED BY <2>2, <2>3, <2>4, RecordNeedsUnmoved DEF TypeOK, Decision
  <1>7. CASE ApplyBaseline
    BY <1>7 DEF ApplyBaseline, ApplyRecord, ApplyDropBaseline
  <1>8. CASE ApplyDelete
    BY <1>8 DEF ApplyDelete, DeleteLocalFile, DeleteRemoteFile, DeleteFails,
        CommitDelete
  <1>9. CASE ApplyUpload
    BY <1>9 DEF ApplyUpload, SnapshotForUpload, UploadRemove,
        UploadMissesExisting, UploadSend, UploadFails, UploadCommit
  <1>10. CASE ApplyDownload
    BY <1>10 DEF ApplyDownload, DownloadSkip, DownloadFetch,
        DownloadUnreadable, DownloadFails, DownloadInstall, DownloadStamp
  <1>11. CASE ApplyVerify
    BY <1>11 DEF ApplyVerify, VerifyFetch, VerifyUnreadable, VerifyFails,
        VerifyCompare
  <1>12. CASE ApplyConflict
    BY <1>12 DEF ApplyConflict, ConflictReadable, ConflictUnreadable,
        ConflictProbeFails, ConflictBackupRemote, ConflictBackupUnreadable,
        ConflictBackupFails, ConflictMoveAside, ResolveStep
  <1>13. ASSUME NEW d \in BOOLEAN, Crash(d) PROVE RecordIsUnmoved'
    BY <1>13 DEF Crash
  <1>14. CASE UNCHANGED vars
    BY <1>14 DEF vars
  <1> QED
    BY <1>1, <1>2, <1>3, <1>4, <1>5, <1>6, <1>7, <1>8, <1>9, <1>10, <1>11,
       <1>12, <1>13, <1>14 DEF Next, User, Engine

-----------------------------------------------------------------------------
\* A plain download is chosen only if the scanned vault file is safe elsewhere.
LEMMA DownloadAfterScan ==
    ASSUME TypeOK, BaselineIsBacked, ScanRemote, pc' = "dn_fetch"
    PROVE  local = None \/ Stat(local) # le \/ Backed(local.body)
  <1> SUFFICES ASSUME local # None, Stat(local) = le PROVE Backed(local.body)
    OBVIOUS
  <1>1. /\ Decision \in FileOps
        /\ FirstStep(EscalateSettle(Decision)) # None
        /\ FirstStep(EscalateSettle(Decision)) = "dn_fetch"
    BY ScanDecides
  <1>2. Decision \in {"download", "rescue_download"}
    BY <1>1, FirstSteps DEF EscalateSettle, FileOps
  <1>3. /\ Listing(remote) \in RemoteEntry \cup {None}
        /\ Converges(le, Listing(remote)) \in BOOLEAN
    BY EntryShapes DEF TypeOK, Converges, Escalated, UnreadMatches
  <1>4. le = None \/ (base # None /\ ~LocalMoved(le, base))
    BY <1>2, <1>3, DownloadNeedsUnmoved DEF TypeOK, Decision
  <1>5. le # None
    BY EntryShapes, DecideAssumption DEF TypeOK
  <1> QED BY <1>4, <1>5 DEF BaselineIsBacked

\* A conflict downloads without a backup only over an unmoved or empty file.
LEMMA DownloadAfterProbe ==
    ASSUME TypeOK, Guarded, OwedAreBorn, BaselineIsBacked, ConflictReadable,
           pc' = "dn_fetch"
    PROVE  local = None \/ Stat(local) # le \/ Backed(local.body)
  <1> SUFFICES ASSUME local # None, Stat(local) = le PROVE Backed(local.body)
    OBVIOUS
  <1>1. /\ pc = "cf_probe" /\ ResolveStep = "dn_fetch" /\ le # None
    BY DEF ConflictReadable, Goto, TypeOK, Registers
  <1>2. LocalUnmoved \/ le.size = 0
    BY <1>1 DEF ResolveStep, Guarded
  <1>3. CASE LocalUnmoved
    BY <1>3 DEF LocalUnmoved, BaselineIsBacked
  <1>4. CASE le.size = 0
    <2>1. local.body.size = 0 /\ ~(0 > 0)
      BY <1>4, StatTimes DEF TypeOK
    <2> QED BY <2>1 DEF OwedAreBorn, Backed
  <1> QED BY <1>2, <1>3, <1>4

\* While a pass runs, a file that is safe to replace stays so, and a write that
\* lands since the scan no longer matches the scan.
LEMMA VaultStaysBacked ==
    ASSUME TypeOK, TypeOK', ClockAhead, Guarded, [Next]_vars, le' = le,
           local = None \/ Stat(local) # le \/ Backed(local.body),
           local' \in {local, None} \/ \E s \in Sizes, g \in Gaps : LocalEdit(s, g)
    PROVE  (local = None \/ Stat(local) # le \/ Backed(local.body))'
  <1>1. CASE local' = None
    BY <1>1
  <1>2. CASE local' = local /\ local # None
    <2>1. Stat(local) = le => Backed(local.body) /\ local.body.mtime <= now
      BY <1>2 DEF ClockAhead
    <2> QED BY <1>2, <2>1, BackedStays
  <1>3. ASSUME NEW s \in Sizes, NEW g \in Gaps, LocalEdit(s, g)
        PROVE  Stat(local') # le
    <2>1. local'.mtime = now + g /\ (local' # None => local' \in LocalFile)
      BY <1>3 DEF LocalEdit, TypeOK
    <2>2. local' # None
      BY <1>3, NoneAssumption, FileSyncAssumption DEF LocalEdit, TypeOK, LocalFile, Body
    <2>3. Stat(local').mtime = now + g /\ Stat(local') \in LocalEntry
      BY <2>1, <2>2, StatTimes, EntryShapes
    <2>4. CASE le = None
      BY <2>3, <2>4, DecideAssumption
    <2>5. CASE le # None
      <3>1. le.mtime \in Nat /\ le.mtime <= now /\ now \in Nat /\ g \in Nat \ {0}
        BY <2>5, Times, FileSyncAssumption DEF ClockAhead
      <3>2. le.mtime # now + g
        BY <3>1
      <3> QED BY <2>3, <3>2
    <2> QED BY <2>4, <2>5
  <1> QED BY <1>1, <1>2, <1>3

\* What os.replace is about to destroy is safe, or the replace will record that
\* it slipped.
LEMMA ReplacedStays ==
    ASSUME TypeOK, TypeOK', [Next]_vars, Guarded, ClockAhead, OwedAreBorn,
           BaselineIsBacked, ReplacedIsBacked
    PROVE  ReplacedIsBacked'
  <1> USE DEF disk, cloud, meta, world, gone, Fetching
  <1>1. CASE ScanRemote
    <2>1. pc' = "dn_fetch" => local = None \/ Stat(local) # le \/ Backed(local.body)
      BY <1>1, DownloadAfterScan
    <2>2. local' = local /\ pc' # "dn_install" /\ (pc' = "dn_fetch" => le' = le)
      BY <1>1, ScanDecides, FirstSteps DEF EscalateSettle, FileOps
    <2> QED BY <2>1, <2>2, VaultStaysBacked DEF ReplacedIsBacked
  <1>2. CASE ConflictReadable
    <2>1. pc' = "dn_fetch" => local = None \/ Stat(local) # le \/ Backed(local.body)
      BY <1>2, DownloadAfterProbe
    <2>2. local' = local /\ le' = le /\ pc' # "dn_install"
      BY <1>2 DEF ConflictReadable, Goto, ResolveStep
    <2> QED BY <2>1, <2>2, VaultStaysBacked DEF ReplacedIsBacked
  <1>3. CASE ConflictMoveAside
    BY <1>3 DEF ConflictMoveAside, ReplacedIsBacked
  <1>4. CASE pc' \in {"dn_fetch", "dn_install"} =>
                /\ pc \in {"dn_fetch", "dn_install"} /\ le' = le
                /\ \/ local' \in {local, None}
                   \/ \E s \in Sizes, g \in Gaps : LocalEdit(s, g)
    <2> SUFFICES ASSUME pc' \in {"dn_fetch", "dn_install"}
                 PROVE  (local = None \/ Stat(local) # le \/ Backed(local.body))'
      BY DEF ReplacedIsBacked
    <2>1. local = None \/ Stat(local) # le \/ Backed(local.body)
      BY <1>4 DEF ReplacedIsBacked
    <2> QED BY <1>4, <2>1, VaultStaysBacked
  <1>5. \/ ScanRemote \/ ConflictReadable \/ ConflictMoveAside
        \/ pc' \in {"dn_fetch", "dn_install"} =>
                /\ pc \in {"dn_fetch", "dn_install"} /\ le' = le
                /\ \/ local' \in {local, None}
                   \/ \E s \in Sizes, g \in Gaps : LocalEdit(s, g)
    <2> USE DEF EndPass, Goto, DeferUnreadable
    <2>1. CASE User \/ Materialize \/ (\E d \in BOOLEAN : Crash(d)) \/ UNCHANGED vars
      BY <2>1 DEF User, LocalEdit, LocalDelete, RemoteEdit, RemoteDelete, Materialize,
         Crash, vars
    <2>2. CASE Scan \/ ApplyBaseline \/ ApplyDelete
      BY <2>2 DEF Scan, ScanLocal, ScanNothing, AbortScan, ApplyBaseline, ApplyRecord,
         ApplyDropBaseline, ApplyDelete, DeleteLocalFile, DeleteRemoteFile,
         DeleteFails, CommitDelete
    <2>3. CASE ApplyUpload
      BY <2>3 DEF ApplyUpload, SnapshotForUpload, UploadRemove, UploadMissesExisting,
         UploadSend, UploadFails, UploadCommit
    <2>4. CASE ApplyDownload
      BY <2>4 DEF ApplyDownload, DownloadSkip, DownloadFetch, DownloadUnreadable,
         DownloadFails, DownloadInstall, DownloadStamp
    <2>5. CASE ApplyVerify \/ ApplyConflict
      BY <2>5 DEF ApplyVerify, VerifyFetch, VerifyUnreadable, VerifyFails,
         VerifyCompare, ApplyConflict, ConflictUnreadable, ConflictProbeFails,
         ConflictBackupRemote, ConflictBackupUnreadable, ConflictBackupFails
    <2> QED BY <2>1, <2>2, <2>3, <2>4, <2>5 DEF Next, Engine
  <1> QED BY <1>1, <1>2, <1>3, <1>4, <1>5

-----------------------------------------------------------------------------
\* What iCloud serves is a body it holds, or nothing anyone owns.
LEMMA ServedIsBacked ==
    ASSUME TypeOK, OwedAreBorn, remote # None
    PROVE  Backed(Served)
  <1>1. CASE remote.stage = "full"
    BY <1>1 DEF Backed, Served, StoredBodies, RemoteBodies
  <1>2. CASE remote.stage # "full"
    <2>1. Served.size = 0 /\ ~(0 > 0)
      BY <1>2 DEF Served, TypeOK, RemoteFile, Body
    <2> QED BY <2>1 DEF Backed, OwedAreBorn
  <1> QED BY <1>1, <1>2

\* Fetched bytes stay safe until they are installed and recorded.
LEMMA FetchedStays ==
    ASSUME TypeOK, TypeOK', [Next]_vars, Guarded, ClockAhead, OwedAreBorn,
           FetchedIsBacked
    PROVE  FetchedIsBacked'
  <1> USE DEF disk, cloud, meta, world, gone, Fetching
  <1>1. CASE DownloadFetch \/ VerifyFetch
    <2>1. buf'.body = Served /\ remote # None
      BY <1>1 DEF DownloadFetch, VerifyFetch, FetchGood
    <2> QED BY <2>1, ServedIsBacked, ServedIsOld, BackedStays DEF FetchedIsBacked
  <1>2. CASE pc' \in {"vf_compare", "dn_install", "dn_stamp"} =>
                pc \in {"vf_compare", "dn_install", "dn_stamp"} /\ buf' = buf
    <2>1. pc \in {"vf_compare", "dn_install", "dn_stamp"} =>
              buf.body.mtime <= now /\ Backed(buf.body)
      BY DEF FetchedIsBacked, ClockAhead, TypeOK, Registers
    <2> QED BY <1>2, <2>1, BackedStays DEF FetchedIsBacked
  <1>3. \/ DownloadFetch \/ VerifyFetch
        \/ pc' \in {"vf_compare", "dn_install", "dn_stamp"} =>
                pc \in {"vf_compare", "dn_install", "dn_stamp"} /\ buf' = buf
    <2> USE DEF EndPass, Goto, DeferUnreadable
    <2>1. CASE User \/ Materialize \/ (\E d \in BOOLEAN : Crash(d)) \/ UNCHANGED vars
      BY <2>1 DEF User, LocalEdit, LocalDelete, RemoteEdit, RemoteDelete, Materialize,
         Crash, vars
    <2>2. CASE Scan
      BY <2>2, ScanDecides, FirstSteps
         DEF Scan, ScanLocal, ScanNothing, AbortScan, EscalateSettle, FileOps
    <2>3. CASE ApplyBaseline \/ ApplyDelete
      BY <2>3 DEF ApplyBaseline, ApplyRecord, ApplyDropBaseline, ApplyDelete,
         DeleteLocalFile, DeleteRemoteFile, DeleteFails, CommitDelete
    <2>4. CASE ApplyUpload
      BY <2>4 DEF ApplyUpload, SnapshotForUpload, UploadRemove, UploadMissesExisting,
         UploadSend, UploadFails, UploadCommit
    <2>5. CASE ApplyDownload
      BY <2>5 DEF ApplyDownload, DownloadSkip, DownloadFetch, DownloadUnreadable,
         DownloadFails, DownloadInstall, DownloadStamp
    <2>6. CASE ApplyVerify
      BY <2>6 DEF ApplyVerify, VerifyFetch, VerifyUnreadable, VerifyFails, VerifyCompare
    <2>7. CASE ApplyConflict
      BY <2>7 DEF ApplyConflict, ConflictReadable, ConflictUnreadable,
         ConflictProbeFails, ConflictBackupRemote, ConflictBackupUnreadable,
         ConflictBackupFails, ConflictMoveAside, ResolveStep
    <2> QED BY <2>1, <2>2, <2>3, <2>4, <2>5, <2>6, <2>7 DEF Next, Engine
  <1> QED BY <1>1, <1>2, <1>3

\* The upload snapshot is what the vault holds until it is recorded.
LEMMA UploadStays ==
    ASSUME TypeOK, TypeOK', [Next]_vars, Guarded, ClockAhead, UploadIsVault
    PROVE  UploadIsVault'
  <1> USE DEF disk, cloud, meta, world, gone, Fetching
  <1>1. CASE SnapshotForUpload
    BY <1>1 DEF SnapshotForUpload, EndPass, Goto, UploadIsVault
  <1>2. CASE UploadSend
    <2>1. /\ remote' # None /\ remote'.stage = "full" /\ remote'.body = buf.body
          /\ local' = local /\ buf' = buf
          /\ pc = "up_send" /\ pc' = "up_commit"
      <3>1. remote' = [body |-> buf.body, mtime |-> buf.mtime, etag |-> rev + 1,
                      stage |-> "full"]
        BY <1>2 DEF UploadSend
      <3>2. remote' \in RemoteFile
        BY <1>2, <3>1 DEF UploadSend, TypeOK, Registers, LocalFile, RemoteFile, Body
      <3> QED BY <1>2, <3>1, <3>2, NoneAssumption DEF UploadSend, Goto
    <2>2. Backed(buf.body)'
      BY <2>1 DEF Backed, StoredBodies, RemoteBodies
    <2> QED BY <2>1, <2>2 DEF UploadIsVault
  <1>3. CASE /\ pc' = "up_commit" => pc = "up_commit"
             /\ pc' \in {"up_remove", "up_send", "up_commit"} =>
                    /\ pc \in {"up_remove", "up_send", "up_commit"} /\ buf' = buf
                    /\ \/ local' \in {local, None}
                       \/ \E s \in Sizes, g \in Gaps : LocalEdit(s, g)
    <2>1. pc \in {"up_remove", "up_send", "up_commit"} =>
              buf # None /\ buf.mtime <= now /\ buf.body.mtime <= now
      BY DEF TypeOK, Registers, ClockAhead
    <2>2. pc' = "up_commit" => Backed(buf.body)'
      BY <1>3, <2>1, BackedStays DEF UploadIsVault
    <2>3. pc' \in {"up_remove", "up_send", "up_commit"} =>
              local' = None \/ local'.mtime # buf'.mtime \/ local'.body = buf'.body
      <3> SUFFICES ASSUME pc' \in {"up_remove", "up_send", "up_commit"}
                   PROVE  local' = None \/ local'.mtime # buf'.mtime \/ local'.body = buf'.body
        OBVIOUS
      <3>1. CASE local' \in {local, None}
        BY <1>3, <3>1 DEF UploadIsVault
      <3>2. ASSUME NEW s \in Sizes, NEW g \in Gaps, LocalEdit(s, g)
            PROVE  local'.mtime # buf.mtime
        <4>1. local'.mtime = now + g
          BY <3>2 DEF LocalEdit
        <4> QED BY <1>3, <2>1, <4>1, Times, FileSyncAssumption
      <3> QED BY <1>3, <3>1, <3>2
    <2> QED BY <2>2, <2>3 DEF UploadIsVault
  <1>4. \/ SnapshotForUpload \/ UploadSend
        \/ /\ pc' = "up_commit" => pc = "up_commit"
           /\ pc' \in {"up_remove", "up_send", "up_commit"} =>
                    /\ pc \in {"up_remove", "up_send", "up_commit"} /\ buf' = buf
                    /\ \/ local' \in {local, None}
                       \/ \E s \in Sizes, g \in Gaps : LocalEdit(s, g)
    <2> USE DEF EndPass, Goto, DeferUnreadable
    <2>1. CASE User \/ Materialize \/ (\E d \in BOOLEAN : Crash(d)) \/ UNCHANGED vars
      BY <2>1 DEF User, LocalEdit, LocalDelete, RemoteEdit, RemoteDelete, Materialize,
         Crash, vars
    <2>2. CASE Scan
      BY <2>2, ScanDecides, FirstSteps
         DEF Scan, ScanLocal, ScanNothing, AbortScan, EscalateSettle, FileOps
    <2>3. CASE ApplyBaseline \/ ApplyDelete
      BY <2>3 DEF ApplyBaseline, ApplyRecord, ApplyDropBaseline, ApplyDelete,
         DeleteLocalFile, DeleteRemoteFile, DeleteFails, CommitDelete
    <2>4. CASE ApplyUpload
      BY <2>4 DEF ApplyUpload, SnapshotForUpload, UploadRemove, UploadMissesExisting,
         UploadSend, UploadFails, UploadCommit
    <2>5. CASE ApplyDownload
      BY <2>5 DEF ApplyDownload, DownloadSkip, DownloadFetch, DownloadUnreadable,
         DownloadFails, DownloadInstall, DownloadStamp
    <2>6. CASE ApplyVerify
      BY <2>6 DEF ApplyVerify, VerifyFetch, VerifyUnreadable, VerifyFails, VerifyCompare
    <2>7. CASE ApplyConflict
      BY <2>7 DEF ApplyConflict, ConflictReadable, ConflictUnreadable,
         ConflictProbeFails, ConflictBackupRemote, ConflictBackupUnreadable,
         ConflictBackupFails, ConflictMoveAside, ResolveStep
    <2> QED BY <2>1, <2>2, <2>3, <2>4, <2>5, <2>6, <2>7 DEF Next, Engine
  <1> QED BY <1>1, <1>2, <1>3, <1>4

\* No step loses an owed body.
LEMMA LossStays ==
    ASSUME TypeOK, TypeOK', [Next]_vars, Guarded, ClockAhead, OwedAreBorn, ReplacedIsBacked,
           NoSilentLoss
    PROVE  NoSilentLoss'
  <1> DEFINE Kept == LocalBodies \cup StoredBodies \cup slipped
  <1> SUFFICES ASSUME NEW b, b \in owed' PROVE b \in Kept'
    BY DEF NoSilentLoss
  <1> USE DEF disk, cloud, meta, world, gone, Fetching
  <1>1. b \in owed => b \in LocalBodies \/ b \in StoredBodies \/ b \in slipped
    BY DEF NoSilentLoss, Guarded
  <1>2. Backed(b)' => b \in Kept'
    BY DEF Backed
  <1>3. ASSUME NEW s \in Sizes, NEW g \in Gaps, LocalEdit(s, g) PROVE b \in Kept'
    <2>1. local' \in LocalFile /\ local' # None
      BY <1>3, FileSyncAssumption, NoneAssumption DEF LocalEdit, LocalFile, Body, TypeOK
    <2>2. b \in LocalBodies' \/ (b \in owed /\ b \notin LocalBodies)
      BY <1>3, <2>1 DEF LocalEdit, NonEmpty, LocalBodies
    <2>3. StoredBodies' = StoredBodies /\ slipped \subseteq slipped'
      BY <1>3 DEF LocalEdit, StoredBodies, RemoteBodies
    <2> QED BY <1>1, <2>2, <2>3
  <1>4. CASE LocalDelete
    BY <1>1, <1>4 DEF LocalDelete, StoredBodies, RemoteBodies, LocalBodies
  <1>5. CASE DeleteLocalFile
    BY <1>1, <1>5 DEF DeleteLocalFile, StoredBodies, RemoteBodies
  <1>6. CASE ConflictMoveAside
    BY <1>1, <1>6 DEF ConflictMoveAside, StoredBodies, RemoteBodies
  <1>7. CASE DownloadInstall
    <2>1. b \in owed /\ pc = "dn_install" /\ b.mtime <= now
      BY <1>7 DEF DownloadInstall, OwedAreBorn
    <2>2. Backed(b) \/ (b \in LocalBodies /\ Stat(local) # le)
      BY <1>1, <2>1 DEF ReplacedIsBacked, LocalBodies, Backed
    <2>3. Stat(local) # le => LocalBodies \subseteq slipped'
      BY <1>7 DEF DownloadInstall
    <2> QED BY <1>2, <2>1, <2>2, <2>3, BackedStays
  <1>8. CASE DownloadStamp
    <2>1. b \in owed /\ StoredBodies' = StoredBodies /\ slipped \subseteq slipped'
      BY <1>8 DEF DownloadStamp, StoredBodies, RemoteBodies
    <2>2. LocalBodies' = LocalBodies
      <3>1. CASE local = None
        BY <1>8, <3>1 DEF DownloadStamp, LocalBodies
      <3>2. CASE local # None
        <4>1. local' = [local EXCEPT !.mtime = re.mtime] /\ re.mtime \in Nat
          BY <1>8, <3>2, Times DEF DownloadStamp, TypeOK, Registers
        <4>2. local' \in LocalFile /\ local'.body = local.body
          BY <3>2, <4>1, FileUpdates DEF TypeOK
        <4> QED BY <3>2, <4>2, NoneAssumption DEF LocalBodies
      <3> QED BY <3>1, <3>2
    <2> QED BY <1>1, <2>1, <2>2
  <1>9. CASE local' = local /\ (b \in owed \/ b \in StoredBodies')
    <2>1. b \in owed /\ b \notin LocalBodies => Backed(b)
      BY <1>1 DEF Backed
    <2>2. LocalBodies' = LocalBodies
      BY <1>9 DEF LocalBodies
    <2> QED BY <1>2, <1>9, <2>1, <2>2, BackedStays DEF OwedAreBorn
  <1>10. \/ (\E s \in Sizes, g \in Gaps : LocalEdit(s, g)) \/ LocalDelete
         \/ DeleteLocalFile \/ ConflictMoveAside \/ DownloadInstall \/ DownloadStamp
         \/ local' = local /\ (b \in owed \/ b \in StoredBodies')
    <2> USE DEF EndPass, Goto
    <2>1. ASSUME NEW s \in Sizes, NEW g \in Gaps, NEW t \in Stages, RemoteEdit(s, g, t)
          PROVE  local' = local /\ (b \in owed \/ b \in StoredBodies')
      <3> DEFINE n == [size |-> s, mtime |-> now + g]
      <3>1. /\ remote' = [body |-> n, mtime |-> now + g, etag |-> rev + 1, stage |-> t]
            /\ b \in owed \/ (t = "full" /\ b = n)
            /\ local' = local
        BY <2>1 DEF RemoteEdit, NonEmpty
      <3>2. remote' # None
        BY <2>1, <3>1, NoneAssumption, FileSyncAssumption DEF TypeOK, RemoteFile, Body
      <3> QED BY <3>1, <3>2 DEF StoredBodies, RemoteBodies
    <2>2. CASE Materialize
      <3>1. remote \in RemoteFile /\ rev' \in Nat /\ local' = local
        BY <2>2 DEF Materialize, TypeOK
      <3>2. remote' # None /\ remote'.body = remote.body /\ remote'.stage = "full"
        BY <2>2, <3>1, FileUpdates, EntryShapes DEF Materialize
      <3>3. b \in owed \/ b = remote.body
        BY <2>2 DEF Materialize, NonEmpty
      <3> QED BY <3>1, <3>2, <3>3 DEF StoredBodies, RemoteBodies
    <2>3. CASE RemoteDelete \/ (\E d \in BOOLEAN : Crash(d)) \/ UNCHANGED vars
      BY <2>3 DEF RemoteDelete, Crash, vars
    <2>4. CASE Scan
      BY <2>4 DEF Scan, ScanLocal, ScanRemote, ScanNothing, AbortScan
    <2>5. CASE ApplyBaseline \/ ApplyDelete
      BY <2>5 DEF ApplyBaseline, ApplyRecord, ApplyDropBaseline, ApplyDelete,
         DeleteRemoteFile, DeleteFails, CommitDelete
    <2>6. CASE ApplyUpload
      BY <2>6 DEF ApplyUpload, SnapshotForUpload, UploadRemove, UploadMissesExisting,
         UploadSend, UploadFails, UploadCommit
    <2>7. CASE ApplyDownload
      BY <2>7 DEF ApplyDownload, DownloadSkip, DownloadFetch, DownloadUnreadable,
         DownloadFails
    <2>8. CASE ApplyVerify \/ ApplyConflict
      BY <2>8 DEF ApplyVerify, VerifyFetch, VerifyUnreadable, VerifyFails,
         VerifyCompare, ApplyConflict, ConflictReadable, ConflictUnreadable,
         ConflictProbeFails, ConflictBackupRemote, ConflictBackupUnreadable,
         ConflictBackupFails
    <2> QED
      BY <2>1, <2>2, <2>3, <2>4, <2>5, <2>6, <2>7, <2>8 DEF Next, User, Engine
  <1> QED BY <1>3, <1>4, <1>5, <1>6, <1>7, <1>8, <1>9, <1>10

\* The start has lost nothing.
LEMMA LossInit == TypeOK /\ Init => LossInv
  <1> SUFFICES ASSUME TypeOK, Init, Guarded
               PROVE  /\ ClockAhead /\ OwedAreBorn /\ BaselineIsBacked
                      /\ RecordIsUnmoved /\ ReplacedIsBacked
                      /\ FetchedIsBacked /\ UploadIsVault /\ NoSilentLoss
    BY DEF LossInv
  <1>1. pc = "idle" /\ le = None /\ re = None /\ buf = None
    BY DEF Init
  <1>3. PICK s1 \in Sizes, s2 \in Sizes, t2 \in {1, 1 + MTimeTol} :
           /\ InitPlace([size |-> s1, mtime |-> 1], [size |-> s2, mtime |-> t2])
           /\ now = t2
    BY DEF Init
  <1>4. s1 \in Nat /\ s2 \in Nat /\ t2 \in Nat /\ 1 <= t2
    BY <1>3, DecideAssumption, FileSyncAssumption
  <1>5. /\ local # None => local.mtime = 1 /\ local.body.mtime = 1
        /\ remote # None => /\ remote.mtime \in {1, t2} /\ remote.stage = "full"
                            /\ remote.body.mtime \in {1, t2}
        /\ base # None => /\ base.lmtime = 1 /\ remote # None /\ local # None
                          /\ remote.body = local.body
    <2> DEFINE b1 == [size |-> s1, mtime |-> 1]
               b2 == [size |-> s2, mtime |-> t2]
               LF == [body |-> b1, mtime |-> 1]
               RF(b) == [body |-> b, mtime |-> b.mtime, etag |-> 1, stage |-> "full"]
    <2>1. LF # None /\ RF(b1) # None /\ RF(b2) # None
      BY <1>4, NoneAssumption DEF LocalFile, RemoteFile, Body
    <2>2. \/ local = LF /\ remote = RF(b1) /\ base = Row(Stat(LF), Listing(RF(b1)), 1)
          \/ local = LF /\ remote = RF(b2) /\ base = None
          \/ local = LF /\ remote = None /\ base = None
          \/ local = None /\ remote = RF(b1) /\ base = None
      BY <1>3 DEF InitPlace
    <2>3. Row(Stat(LF), Listing(RF(b1)), 1).lmtime = 1
      BY <2>1 DEF Row, Stat
    <2>4. b1.mtime = 1 /\ b2.mtime = t2
      OBVIOUS
    <2> HIDE DEF b1, b2
    <2> QED BY <2>1, <2>2, <2>3, <2>4
  <1>6. ClockAhead
    BY <1>1, <1>3, <1>4, <1>5 DEF ClockAhead
  <1>2. OwedAreBorn
    BY <1>3, <1>4, <1>5 DEF Init, OwedAreBorn, NonEmpty, BodyOf
  <1>7. BaselineIsBacked
    BY <1>5 DEF BaselineIsBacked, Backed, StoredBodies, RemoteBodies
  <1>8. NoSilentLoss
    <2> SUFFICES ASSUME NEW b, b \in owed
                 PROVE  b \in LocalBodies \/ b \in RemoteBodies
      BY DEF NoSilentLoss, StoredBodies
    <2>1. b \in BodyOf(local) \/ b \in BodyOf(remote)
      BY DEF Init, NonEmpty
    <2> QED BY <1>5, <2>1 DEF BodyOf, LocalBodies, RemoteBodies
  <1> QED
    BY <1>1, <1>2, <1>6, <1>7, <1>8 DEF RecordIsUnmoved, ReplacedIsBacked,
       FetchedIsBacked, UploadIsVault

\* LossInv is inductive: with Recently Deleted on and a policy that backs up
\* the losing side, every step of a pass knows why the bytes it destroys or
\* vouches for are safe.
THEOREM LossInductive == Spec => [](TypeOK /\ LossInv)
  <1>1. Init => TypeOK /\ LossInv
    BY TypeInit, LossInit
  <1>2. TypeOK /\ LossInv /\ [Next]_vars => TypeOK' /\ LossInv'
    <2> SUFFICES ASSUME TypeOK, LossInv, [Next]_vars PROVE TypeOK' /\ LossInv'
      OBVIOUS
    <2>1. TypeOK'
      BY TypeNext
    <2>2. Guarded' = Guarded
      BY DEF Guarded
    <2>3. CASE Guarded
      BY <2>1, <2>2, <2>3, ClockStays, OwedStay, BaselineStays,
         RecordStays, ReplacedStays, FetchedStays, UploadStays, LossStays DEF LossInv
    <2>4. CASE ~Guarded
      BY <2>1, <2>2, <2>4 DEF LossInv
    <2> QED BY <2>3, <2>4
  <1> QED BY <1>1, <1>2, PTL DEF Spec

\* No content is silently lost (NoSilentLoss), for any thresholds, sizes, number
\* of edits, faults and kills: a non-empty body no user replaced or deleted is
\* in the vault, in iCloud, in a trash or in a conflict copy, or slipped into
\* the window of a download (_do_download, _resolve_conflict, _do_upload).
THEOREM NothingLost == Spec => []NoSilentLoss
  <1>1. LossInv => NoSilentLoss
    BY DEF LossInv, NoSilentLoss, Guarded
  <1> QED BY <1>1, LossInductive, PTL
-----------------------------------------------------------------------------
(* TruthInv is inductive, for users who write apart.                       *)

\* What every step but the users' and the engine's own I/O leaves alone.
scene == <<local, remote, rev, now, owed, slipped, lgone, rgone>>

\* The path's turn is over, with or without its row.
Ends ==
    /\ pc' = "idle" /\ le' = None /\ re' = None /\ buf' = None
    /\ base' \in {base, None}
    /\ UNCHANGED scene

UserSteps ==
    \/ \E s \in Sizes, g \in Gaps : LocalEdit(s, g)
    \/ LocalDelete
    \/ \E s \in Sizes, g \in Gaps, t \in Stages : RemoteEdit(s, g, t)
    \/ RemoteDelete
    \/ Materialize

\* The steps that look, fetch or choose, and change neither side.
Looks ==
    \/ ScanLocal
    \/ ScanRemote /\ pc' # "idle"
    \/ SnapshotForUpload /\ local # None
    \/ UploadMissesExisting
    \/ DownloadFetch
    \/ VerifyFetch
    \/ VerifyFails
    \/ VerifyCompare /\ ~Identical
    \/ ConflictReadable
    \/ ConflictUnreadable /\ Escalated(re)
    \/ ConflictBackupRemote

\* The steps that change a side.
Acts ==
    \/ DeleteLocalFile \/ DeleteRemoteFile \/ UploadRemove \/ UploadSend
    \/ DownloadInstall \/ ConflictMoveAside

\* The steps that write a row.
Records ==
    \/ ApplyRecord \/ UploadCommit
    \/ DownloadStamp /\ local # None
    \/ VerifyCompare /\ Identical

\* No operation starts at rest.
LEMMA FirstStepsRun == \A o : FirstStep(o) # None => FirstStep(o) # "idle"
  BY DEF FirstStep

\* Every step is one of these.
LEMMA StepKinds ==
    ASSUME [Next]_vars
    PROVE  Ends \/ UserSteps \/ Looks \/ Acts \/ Records \/ UNCHANGED vars
  <1> USE DEF Ends, EndPass, scene, disk, cloud, meta, world, gone, Fetching
  <1>1. CASE User \/ Materialize
    BY <1>1 DEF User, UserSteps
  <1>2. CASE Scan
    <2>1. CASE ScanRemote /\ pc' = "idle"
      <3>1. \A o : FirstStep(o) # None => FirstStep(o) # "idle"
        BY FirstStepsRun
      <3> QED BY <2>1, <3>1 DEF ScanRemote
    <2> QED BY <1>2, <2>1 DEF Scan, ScanNothing, AbortScan, Looks
  <1>3. CASE ApplyBaseline \/ ApplyDelete
    BY <1>3 DEF ApplyBaseline, ApplyDropBaseline, ApplyDelete, DeleteFails,
       CommitDelete, Acts, Records
  <1>4. CASE ApplyUpload
    BY <1>4 DEF ApplyUpload, SnapshotForUpload, UploadFails, Looks, Acts, Records
  <1>5. CASE ApplyDownload
    <2>1. CASE DownloadStamp /\ local = None
      BY <2>1 DEF DownloadStamp, LocalBodies
    <2> QED
      BY <1>5, <2>1 DEF ApplyDownload, DownloadSkip, DownloadUnreadable, DownloadFails,
         DeferUnreadable, Looks, Acts, Records
  <1>6. CASE ApplyVerify
    BY <1>6 DEF ApplyVerify, VerifyUnreadable, DeferUnreadable, Looks, Records
  <1>7. CASE ApplyConflict
    BY <1>7 DEF ApplyConflict, ConflictUnreadable, ConflictProbeFails,
       ConflictBackupUnreadable, ConflictBackupFails, DeferUnreadable, Looks, Acts
  <1>8. CASE \E d \in BOOLEAN : Crash(d)
    BY <1>8 DEF Crash
  <1> QED BY <1>1, <1>2, <1>3, <1>4, <1>5, <1>6, <1>7, <1>8 DEF Next, Engine

\* What moved means, in numbers.
LEMMA LocalMovedIs ==
    ASSUME NEW l, NEW b, l.mtime \in Nat, b.lmtime \in Nat
    PROVE  LocalMoved(l, b) <=> l.size # b.lsize \/ l.mtime # b.lmtime
  BY DEF LocalMoved, Changed, Distance, MTimeTolLocal

\* Likewise for the remote side, up to its tolerance.
LEMMA RemoteMovedIs ==
    ASSUME NEW r, NEW b, r.mtime \in Nat, b.rmtime \in Nat
    PROVE  RemoteMoved(r, b) <=> \/ r.size # b.rsize
                                 \/ r.mtime > b.rmtime + MTimeTol
                                 \/ b.rmtime > r.mtime + MTimeTol
  BY DecideAssumption DEF RemoteMoved, Changed, Distance

\* The numbers of well-typed files, entries and rows.
LEMMA Numbers ==
    ASSUME TypeOK
    PROVE  /\ now \in Nat /\ rev \in Nat
           /\ local # None => /\ local.mtime \in Nat
                              /\ local.body.size \in Nat /\ local.body.mtime \in Nat
           /\ remote # None => /\ remote.mtime \in Nat /\ remote.etag \in Nat
                               /\ remote.body.size \in Nat /\ remote.body.mtime \in Nat
                               /\ remote.stage \in {"full", "unready", "husk"}
           /\ base # None => /\ base.lsize \in Nat /\ base.lmtime \in Nat
                             /\ base.rsize \in Nat /\ base.rmtime \in Nat
                             /\ base.etag \in Nat
           /\ le # None => le.size \in Nat /\ le.mtime \in Nat
           /\ re # None => re.size \in Nat /\ re.mtime \in Nat /\ re.etag \in Nat
           /\ buf # None => /\ buf.mtime \in Nat
                            /\ buf.body.size \in Nat /\ buf.body.mtime \in Nat
  BY DEF TypeOK, Body, LocalFile, RemoteFile, BaseRow, LocalEntry, RemoteEntry

\* The signatures of the files that are there.
LEMMA Signatures ==
    ASSUME TypeOK
    PROVE  /\ local # None => /\ Stat(local) \in LocalEntry /\ Stat(local) # None
                              /\ Stat(local).size = local.body.size
                              /\ Stat(local).mtime = local.mtime
           /\ remote # None => /\ Listing(remote) \in RemoteEntry /\ Listing(remote) # None
                               /\ Listing(remote).size = ListedSize(remote)
                               /\ Listing(remote).mtime = remote.mtime
                               /\ Listing(remote).etag = remote.etag
  <1>1. local # None => local \in LocalFile
    BY DEF TypeOK
  <1>2. remote # None => remote \in RemoteFile
    BY DEF TypeOK
  <1> QED BY <1>1, <1>2, EntryShapes, StatTimes, DecideAssumption DEF Listing

\* A row's halves are the entries it was made from.
LEMMA RowIs ==
    \A l, r, e : /\ Row(l, r, e).lsize = l.size /\ Row(l, r, e).lmtime = l.mtime
                 /\ Row(l, r, e).rsize = r.size /\ Row(l, r, e).rmtime = r.mtime
                 /\ Row(l, r, e).etag = e
  BY DEF Row

\* A user's step on one side puts the body it leaves there in the place of the
\* one it found.
VaultOwes  == owed' \subseteq (owed \ LocalBodies) \cup BodyOf(local')
RemoteOwes == owed' \subseteq (owed \ BodyOf(remote)) \cup RemoteBodies'

\* What the users' steps do to the two sides.
LEMMA UsersDo ==
    ASSUME TypeOK, UserSteps
    PROVE  /\ UNCHANGED <<base, pc, op, le, re, buf, unread, slipped>>
           /\ \/ \E s \in Sizes, g \in Gaps :
                   /\ local' = [body |-> [size |-> s, mtime |-> now + g], mtime |-> now + g]
                   /\ local' # None /\ local'.mtime = now + g
                   /\ local'.body = [size |-> s, mtime |-> now + g]
                   /\ now' = now + g /\ VaultOwes
                   /\ UNCHANGED <<remote, rev, lgone, rgone>>
              \/ /\ local' = None /\ lgone' = "user" /\ VaultOwes
                 /\ UNCHANGED <<remote, rev, now, rgone>>
              \/ \E s \in Sizes, g \in Gaps :
                   /\ remote' # None
                   /\ remote'.mtime = now + g /\ remote'.etag = rev + 1 /\ rev' = rev + 1
                   /\ remote'.body = [size |-> s, mtime |-> now + g]
                   /\ remote'.stage # "full" => s > 0
                   /\ now' = now + g /\ RemoteOwes
                   /\ UNCHANGED <<local, lgone, rgone>>
              \/ /\ remote' = None /\ rgone' = "user" /\ RemoteOwes
                 /\ UNCHANGED <<local, rev, now, lgone>>
              \/ Materialize
  <1>1. ASSUME NEW s \in Sizes, NEW g \in Gaps, LocalEdit(s, g)
        PROVE  [body |-> [size |-> s, mtime |-> now + g], mtime |-> now + g] # None
    BY NoneAssumption, FileSyncAssumption DEF LocalFile, Body, TypeOK
  <1>2. ASSUME NEW s \in Sizes, NEW g \in Gaps, NEW t \in Stages
        PROVE  [body |-> [size |-> s, mtime |-> now + g], mtime |-> now + g,
                etag |-> rev + 1, stage |-> t] # None
    BY NoneAssumption, FileSyncAssumption DEF RemoteFile, Body, TypeOK
  <1> USE DEF disk, cloud, meta, gone, world
  <1>3. ASSUME NEW s \in Sizes, NEW g \in Gaps, LocalEdit(s, g)
        PROVE  /\ UNCHANGED <<base, pc, op, le, re, buf, unread, slipped>>
               /\ local' = [body |-> [size |-> s, mtime |-> now + g], mtime |-> now + g]
               /\ now' = now + g
               /\ owed' \subseteq (owed \ LocalBodies) \cup {local'.body}
               /\ UNCHANGED <<remote, rev, lgone, rgone>>
    BY <1>3 DEF LocalEdit, NonEmpty
  <1>4. ASSUME NEW s \in Sizes, NEW g \in Gaps, NEW t \in Stages, RemoteEdit(s, g, t)
        PROVE  /\ UNCHANGED <<base, pc, op, le, re, buf, unread, slipped>>
               /\ remote' = [body |-> [size |-> s, mtime |-> now + g], mtime |-> now + g,
                             etag |-> rev + 1, stage |-> t]
               /\ t # "full" => s > 0
               /\ now' = now + g /\ rev' = rev + 1
               /\ owed' \subseteq (owed \ BodyOf(remote)) \cup
                               (IF t = "full" THEN {remote'.body} ELSE {})
               /\ UNCHANGED <<local, lgone, rgone>>
    BY <1>4 DEF RemoteEdit, NonEmpty
  <1>5. CASE LocalDelete
    BY <1>5 DEF LocalDelete, VaultOwes, BodyOf
  <1>6. CASE RemoteDelete
    BY <1>6 DEF RemoteDelete, RemoteOwes
  <1>7. CASE Materialize
    BY <1>7 DEF Materialize
  <1>8. ASSUME NEW s \in Sizes, NEW g \in Gaps, LocalEdit(s, g) PROVE VaultOwes
    BY <1>1, <1>3, <1>8 DEF VaultOwes, BodyOf
  <1>9. ASSUME NEW s \in Sizes, NEW g \in Gaps, NEW t \in Stages, RemoteEdit(s, g, t)
        PROVE  RemoteOwes
    BY <1>2, <1>4, <1>9 DEF RemoteOwes, RemoteBodies
  <1> QED
    BY <1>1, <1>2, <1>3, <1>4, <1>5, <1>6, <1>7, <1>8, <1>9 DEF UserSteps

\* Arriving content changes the stage and, for a husk, the etag.
LEMMA Arrives ==
    ASSUME TypeOK, LastWrites, Materialize
    PROVE  /\ remote # None /\ remote.stage # "full"
           /\ remote' # None /\ remote'.stage = "full" /\ remote'.etag = rev'
           /\ remote'.body = remote.body /\ remote'.mtime = remote.mtime
           /\ remote.stage = "unready" => rev' = rev /\ Listing(remote') = Listing(remote)
           /\ owed' = owed \cup NonEmpty(remote.body)
           /\ UNCHANGED <<local, now, lgone, rgone>>
  <1>1. remote \in RemoteFile /\ rev' \in Nat /\ remote # None /\ remote.stage # "full"
    BY DEF Materialize, TypeOK
  <1>2. remote' = [remote EXCEPT !.stage = "full", !.etag = rev']
    BY DEF Materialize
  <1>3. /\ remote' # None /\ remote' \in RemoteFile /\ remote'.stage = "full"
        /\ remote'.etag = rev' /\ remote'.body = remote.body
        /\ remote'.mtime = remote.mtime
    <2>1. remote' \in RemoteFile
      BY <1>1, <1>2 DEF RemoteFile
    <2>2. /\ remote'.stage = "full" /\ remote'.etag = rev'
          /\ remote'.body = remote.body /\ remote'.mtime = remote.mtime
      BY <1>1, <1>2 DEF RemoteFile
    <2> QED BY <2>1, <2>2, NoneAssumption
  <1>4. remote.stage = "unready" => rev' = rev /\ remote.etag = rev
    BY <1>1 DEF Materialize, LastWrites
  <1>5. remote.stage = "unready" => Listing(remote') = Listing(remote)
    BY <1>1, <1>3, <1>4 DEF Listing, ListedSize
  <1>6. owed' = owed \cup NonEmpty(remote.body) /\ UNCHANGED <<local, now, lgone, rgone>>
    BY DEF Materialize, gone, disk
  <1> QED BY <1>1, <1>3, <1>4, <1>5, <1>6

\* What the looking steps do.
LEMMA LooksDo ==
    ASSUME Looks
    PROVE  /\ UNCHANGED scene /\ base' = base
           /\ \/ ScanLocal
              \/ ScanRemote /\ pc' # "idle"
              \/ /\ le' = le /\ re' = re
                 /\ \/ /\ pc = "up_snap" /\ pc' = "up_remove" /\ local # None
                       /\ buf' = local /\ op' = op /\ unread' = unread
                    \/ /\ pc = "up_remove" /\ pc' = "up_send" /\ buf' = buf
                       /\ re = None
                    \/ /\ <<pc, pc'>> \in {<<"dn_fetch", "dn_install">>,
                                          <<"vf_fetch", "vf_compare">>}
                       /\ FetchGood
                       /\ buf' = [body |-> Served, mtime |-> re.mtime]
                    \/ /\ pc \in {"vf_fetch", "vf_compare"} /\ pc' = "cf_probe"
                       /\ buf' = buf /\ op' = "conflict"
                    \/ /\ pc = "cf_probe" /\ pc' = ResolveStep /\ buf' = buf /\ op' = op
                       /\ re.size = 0 \/ FetchGood
                    \/ /\ pc = "cf_probe" /\ pc' = "up_snap" /\ buf' = buf /\ op' = op
                       /\ unread' = unread /\ re.size # 0
                       /\ FetchUnreadable /\ Escalated(re)
                    \/ /\ pc = "cf_backup" /\ pc' = "up_snap" /\ buf' = buf /\ op' = op
                       /\ FetchGood
  <1> USE DEF scene, disk, cloud, meta, world, gone, Fetching, Goto
  <1>1. CASE ScanLocal
    BY <1>1 DEF ScanLocal
  <1>2. CASE ScanRemote /\ pc' # "idle"
    BY <1>2 DEF ScanRemote
  <1>3. CASE SnapshotForUpload /\ local # None
    BY <1>3 DEF SnapshotForUpload
  <1>4. CASE UploadMissesExisting
    BY <1>4 DEF UploadMissesExisting
  <1>5. CASE DownloadFetch
    BY <1>5 DEF DownloadFetch
  <1>6. CASE VerifyFetch
    BY <1>6 DEF VerifyFetch
  <1>7. CASE VerifyFails
    BY <1>7 DEF VerifyFails
  <1>8. CASE VerifyCompare /\ ~Identical
    BY <1>8 DEF VerifyCompare
  <1>9. CASE ConflictReadable
    BY <1>9 DEF ConflictReadable
  <1>10. CASE ConflictUnreadable /\ Escalated(re)
    BY <1>10 DEF ConflictUnreadable
  <1>11. CASE ConflictBackupRemote
    BY <1>11 DEF ConflictBackupRemote
  <1> QED BY <1>1, <1>2, <1>3, <1>4, <1>5, <1>6, <1>7, <1>8, <1>9, <1>10, <1>11 DEF Looks

\* What the acting steps do.
LEMMA ActsDo ==
    ASSUME TypeOK, Acts
    PROVE  /\ le' = le /\ re' = re /\ buf' = buf /\ base' = base /\ op' = op
           /\ unread' = unread /\ owed' = owed
           /\ \/ /\ pc = "del_local" /\ pc' = "del_commit" /\ local' = None
                 /\ UNCHANGED <<remote, rev, now, rgone, slipped>>
              \/ /\ pc = "del_remote" /\ pc' = "del_commit" /\ remote' = None
                 /\ UNCHANGED <<local, rev, now, lgone, slipped>>
                 /\ rgone' = IF remote # None THEN "engine" ELSE rgone
              \/ /\ pc = "up_remove" /\ pc' = "up_send" /\ remote' = None
                 /\ UNCHANGED <<local, rev, now, lgone, slipped>>
                 /\ rgone' = IF remote = None THEN rgone
                             ELSE IF LocalUnmoved THEN "valve" ELSE "engine"
              \/ /\ pc = "up_send" /\ pc' = "up_commit"
                 /\ remote' # None /\ remote'.body = buf.body
                 /\ remote'.mtime = buf.mtime /\ remote'.etag = rev + 1
                 /\ remote'.stage = "full" /\ rev' = rev + 1
                 /\ UNCHANGED <<local, now, lgone, rgone, slipped>>
              \/ /\ pc = "dn_install" /\ pc' = "dn_stamp"
                 /\ local' # None /\ local'.body = buf.body /\ local'.mtime = now + 1
                 /\ now' = now + 1
                 /\ slipped \subseteq slipped'
                 /\ slipped' = {} => local = None \/ Stat(local) = le
                 /\ UNCHANGED <<remote, rev, lgone, rgone>>
              \/ /\ pc = "cf_aside" /\ pc' = "dn_fetch" /\ local' = None
                 /\ UNCHANGED <<remote, rev, now, rgone, slipped>>
  <1> USE DEF disk, cloud, meta, world, gone, Goto
  <1>1. CASE DeleteLocalFile
    BY <1>1 DEF DeleteLocalFile
  <1>2. CASE DeleteRemoteFile
    BY <1>2 DEF DeleteRemoteFile
  <1>3. CASE UploadRemove
    BY <1>3 DEF UploadRemove
  <1>4. CASE UploadSend
    <2> DEFINE r == [body |-> buf.body, mtime |-> buf.mtime, etag |-> rev + 1,
                     stage |-> "full"]
    <2>1. buf \in LocalFile /\ rev + 1 \in Nat
      BY <1>4 DEF UploadSend, TypeOK, Registers
    <2>2. r \in RemoteFile
      BY <2>1 DEF LocalFile, RemoteFile, Body
    <2>3. r # None
      BY <2>2, NoneAssumption
    <2> QED BY <1>4, <2>3 DEF UploadSend
  <1>5. CASE DownloadInstall
    <2> DEFINE l == [body |-> buf.body, mtime |-> now + 1]
    <2>1. buf.body \in Body /\ now + 1 \in Nat
      BY <1>5 DEF DownloadInstall, TypeOK, Registers, LocalFile
    <2>2. l \in LocalFile
      BY <2>1 DEF LocalFile
    <2>3. l # None
      BY <2>2, NoneAssumption
    <2>4. slipped' = {} => local = None \/ Stat(local) = le
      BY <1>5 DEF DownloadInstall, LocalBodies
    <2> QED BY <1>5, <2>3, <2>4 DEF DownloadInstall
  <1>6. CASE ConflictMoveAside
    BY <1>6 DEF ConflictMoveAside
  <1> QED BY <1>1, <1>2, <1>3, <1>4, <1>5, <1>6 DEF Acts

\* What the recording steps do.
LEMMA RecordsDo ==
    ASSUME TypeOK, Records
    PROVE  /\ pc' = "idle" /\ le' = None /\ re' = None /\ buf' = None
           /\ UNCHANGED <<remote, rev, now, owed, lgone, rgone>>
           /\ slipped \subseteq slipped'
           /\ base' # None
           /\ \/ /\ pc = "record" /\ base' = Row(le, re, re.etag)
                 /\ le # None /\ re # None /\ local' = local /\ slipped' = slipped
              \/ /\ pc = "up_commit" /\ base' = Row(Stat(buf), Stat(buf), 0)
                 /\ buf # None /\ Stat(buf).size = buf.body.size /\ Stat(buf).mtime = buf.mtime
                 /\ local' = local /\ slipped' = slipped
              \/ /\ pc = "dn_stamp" /\ local # None /\ re # None /\ buf # None
                 /\ base'.lsize = local.body.size /\ base'.lmtime = re.mtime
                 /\ base'.rsize = re.size /\ base'.rmtime = re.mtime /\ base'.etag = re.etag
                 /\ local' # None /\ local'.body = local.body /\ local'.mtime = re.mtime
                 /\ local.body = buf.body \/ local.body \in slipped'
              \/ /\ pc = "vf_compare" /\ base' = Row(le, re, re.etag)
                 /\ le # None /\ re # None /\ local # None /\ local.body = buf.body
                 /\ local' = local /\ slipped' = slipped
  <1> USE DEF disk, cloud, meta, world, gone, EndPass
  <1>1. CASE ApplyRecord
    <2>1. base' = Row(le, re, re.etag) /\ le # None /\ re # None
      BY <1>1 DEF ApplyRecord, TypeOK, Registers
    <2>2. base' # None
      BY <2>1, EntryShapes, DecideAssumption DEF TypeOK, RemoteEntry
    <2> QED BY <1>1, <2>1, <2>2 DEF ApplyRecord
  <1>2. CASE UploadCommit
    <2>1. base' = Row(Stat(buf), Stat(buf), 0) /\ buf \in LocalFile
      BY <1>2 DEF UploadCommit, TypeOK, Registers
    <2>2. base' # None
      BY <2>1, EntryShapes, DecideAssumption
    <2>3. buf # None /\ Stat(buf).size = buf.body.size /\ Stat(buf).mtime = buf.mtime
      BY <2>1, StatTimes, EntryShapes
    <2> QED BY <1>2, <2>1, <2>2, <2>3 DEF UploadCommit
  <1>3. CASE DownloadStamp /\ local # None
    <2>1. /\ re # None /\ buf # None /\ local \in LocalFile /\ re \in RemoteEntry
          /\ re.mtime \in Nat /\ re.etag \in Nat
      BY <1>3, Numbers DEF DownloadStamp, TypeOK, Registers
    <2>2. /\ local' = [local EXCEPT !.mtime = re.mtime]
          /\ base' = Row(Stat(local'), re, re.etag)
          /\ slipped' = slipped \cup (LocalBodies \ {buf.body})
      BY <1>3 DEF DownloadStamp
    <2>3. /\ local' \in LocalFile /\ local' # None
          /\ local'.body = local.body /\ local'.mtime = re.mtime
      BY <2>1, <2>2, FileUpdates, EntryShapes
    <2>4. Stat(local').size = local.body.size /\ Stat(local').mtime = re.mtime
      BY <2>3, StatTimes
    <2>5. base' # None
      BY <2>1, <2>2, <2>3, EntryShapes, DecideAssumption
    <2>6. local.body = buf.body \/ local.body \in slipped'
      BY <1>3, <2>2 DEF LocalBodies
    <2> QED BY <1>3, <2>1, <2>2, <2>3, <2>4, <2>5, <2>6, RowIs DEF DownloadStamp
  <1>4. CASE VerifyCompare /\ Identical
    <2>1. base' = Row(le, re, re.etag) /\ le # None /\ re # None
      BY <1>4 DEF VerifyCompare, TypeOK, Registers
    <2>2. base' # None
      BY <2>1, EntryShapes, DecideAssumption DEF TypeOK, RemoteEntry
    <2> QED BY <1>4, <2>1, <2>2 DEF VerifyCompare, Identical
  <1> QED BY <1>1, <1>2, <1>3, <1>4 DEF Records

\* What each decision goes by: the two entries, the row, and whether they moved.
LEMMA DecisionMeans ==
    ASSUME NEW l, NEW r, NEW b, NEW c, c => l.size > 0,
           NEW o, o = DecideFile(l, r, b, c)
    PROVE  /\ o = "record" => /\ l # None /\ r # None /\ b # None
                              /\ ~LocalMoved(l, b) /\ ~RemoteMoved(r, b)
           /\ o = "verify_adopt" => /\ b = None /\ l # None /\ r # None
                                    /\ Distance(l.mtime, r.mtime) <= MTimeTol
           /\ o = "delete_local" => /\ l # None /\ r = None /\ b # None
                                    /\ ~LocalMoved(l, b)
           /\ o = "delete_remote" => /\ l = None /\ r # None /\ b # None
                                     /\ ~RemoteMoved(r, b)
           /\ o \in {"conflict", "settle_wait"} =>
                 /\ l # None /\ r # None
                 /\ b # None => \/ LocalMoved(l, b) /\ RemoteMoved(r, b)
                                \/ /\ ~LocalMoved(l, b) /\ l.size > 0
                                   /\ RemoteMoved(r, b) \/ EtagMoved(r, b)
           /\ o = "upload" => /\ l # None
                              /\ r # None => /\ b # None /\ LocalMoved(l, b)
                                             /\ ~RemoteMoved(r, b)
           /\ o = "rescue_upload" => l # None /\ r = None
           /\ o \in {"download", "rescue_download"} =>
                 r # None /\ (b # None => RemoteMoved(r, b) \/ EtagMoved(r, b))
  <1>1. CASE l # None /\ r # None
    <2>1. o = DecideBothPresent(l, r, b, c)
      BY <1>1 DEF DecideFile
    <2>2. b = None => /\ o \in {"verify_adopt", "settle_wait", "conflict"}
                      /\ o = "verify_adopt" => Distance(l.mtime, r.mtime) <= MTimeTol
      BY <1>1, <2>1 DEF DecideBothPresent, DecideFirstSight, LocalChanged, RemoteChanged
    <2>3. CASE b # None /\ LocalMoved(l, b) /\ RemoteMoved(r, b)
      BY <1>1, <2>1, <2>3 DEF DecideBothPresent, LocalChanged, RemoteChanged
    <2>4. CASE b # None /\ LocalMoved(l, b) /\ ~RemoteMoved(r, b)
      BY <1>1, <2>1, <2>4 DEF DecideBothPresent, LocalChanged, RemoteChanged
    <2>5. CASE b # None /\ ~LocalMoved(l, b) /\ RemoteMoved(r, b)
      BY <1>1, <2>1, <2>5
         DEF DecideBothPresent, LocalChanged, RemoteChanged, DecideRemoteOnlyMoved
    <2>6. CASE b # None /\ ~LocalMoved(l, b) /\ ~RemoteMoved(r, b)
      BY <1>1, <2>1, <2>6 DEF DecideBothPresent, LocalChanged, RemoteChanged
    <2> QED BY <1>1, <2>2, <2>3, <2>4, <2>5, <2>6
  <1>2. CASE l # None /\ r = None
    BY <1>2 DEF DecideFile, DecideLocalOnly
  <1>3. CASE l = None /\ r # None
    BY <1>3 DEF DecideFile, DecideRemoteOnly
  <1>4. CASE l = None /\ r = None
    BY <1>4 DEF DecideFile
  <1> QED BY <1>1, <1>2, <1>3, <1>4

\* What a scan that goes on to an operation has seen.
LEMMA ScanSees ==
    ASSUME TypeOK, ScanRemote, pc' # "idle"
    PROVE  /\ pc = "scanned" /\ re' = Listing(remote)
           /\ le' = le /\ buf' = buf /\ unread' = unread
           /\ pc' \in {"record", "drop", "vf_fetch", "cf_probe", "del_local",
                       "del_remote", "up_snap", "dn_fetch"}
           /\ pc' = "record" => /\ le # None /\ remote # None /\ base # None
                                /\ ~LocalMoved(le, base)
                                /\ ~RemoteMoved(Listing(remote), base)
           /\ pc' = "vf_fetch" =>
                 /\ base = None /\ le # None /\ remote # None
                 /\ Distance(le.mtime, Listing(remote).mtime) <= MTimeTol
           /\ pc' = "del_local" => /\ le # None /\ remote = None /\ base # None
                                   /\ ~LocalMoved(le, base)
           /\ pc' = "del_remote" => /\ le = None /\ remote # None /\ base # None
                                    /\ ~RemoteMoved(Listing(remote), base)
           /\ pc' = "cf_probe" =>
                 /\ op' = "conflict" /\ le # None /\ remote # None
                 /\ base # None =>
                       \/ LocalMoved(le, base) /\ RemoteMoved(Listing(remote), base)
                       \/ /\ ~LocalMoved(le, base) /\ le.size > 0
                          /\ \/ RemoteMoved(Listing(remote), base)
                             \/ EtagMoved(Listing(remote), base)
           /\ pc' = "up_snap" =>
                 /\ op' \in {"upload", "rescue_upload"} /\ le # None
                 /\ op' = "rescue_upload" => remote = None
                 /\ remote # None => /\ base # None /\ LocalMoved(le, base)
                                     /\ ~RemoteMoved(Listing(remote), base)
           /\ pc' = "dn_fetch" =>
                 /\ remote # None
                 /\ base # None => \/ RemoteMoved(Listing(remote), base)
                                   \/ EtagMoved(Listing(remote), base)
  <1> DEFINE r == Listing(remote)
             c == Converges(le, r)
             d == DecideFile(le, r, base, c)
             o == EscalateSettle(d)
  <1>1. /\ pc = "scanned" /\ unread' = unread
        /\ FirstStep(o) # None
        /\ op' = o /\ re' = r /\ pc' = FirstStep(o) /\ UNCHANGED <<le, buf, boot>>
    BY DEF ScanRemote, EndPass
  <1>2. d \in FileOps /\ o \in FileOps
    BY ScanDecides DEF Decision, EscalateSettle, FileOps
  <1>3. o = d \/ (o = "conflict" /\ d = "settle_wait")
    BY DEF EscalateSettle
  <1>4. c => le.size > 0
    BY DEF Converges
  <1>5. r # None <=> remote # None
    BY Signatures, EntryShapes DEF TypeOK, Listing
  <1> HIDE DEF o, d, c
  <1>6. /\ o = "record" => /\ le # None /\ r # None /\ base # None
                           /\ ~LocalMoved(le, base) /\ ~RemoteMoved(r, base)
        /\ o = "verify_adopt" => /\ base = None /\ le # None /\ r # None
                                 /\ Distance(le.mtime, r.mtime) <= MTimeTol
        /\ o = "delete_local" => /\ le # None /\ r = None /\ base # None
                                 /\ ~LocalMoved(le, base)
        /\ o = "delete_remote" => /\ le = None /\ r # None /\ base # None
                                  /\ ~RemoteMoved(r, base)
        /\ o = "conflict" =>
                 /\ le # None /\ r # None
                 /\ base # None => \/ LocalMoved(le, base) /\ RemoteMoved(r, base)
                                   \/ /\ ~LocalMoved(le, base) /\ le.size > 0
                                      /\ RemoteMoved(r, base) \/ EtagMoved(r, base)
        /\ o = "upload" => /\ le # None
                           /\ r # None => /\ base # None /\ LocalMoved(le, base)
                                          /\ ~RemoteMoved(r, base)
        /\ o = "rescue_upload" => le # None /\ r = None
        /\ o \in {"download", "rescue_download"} =>
              r # None /\ (base # None => RemoteMoved(r, base) \/ EtagMoved(r, base))
    BY <1>3, <1>4, DecisionMeans DEF d
  <1> HIDE DEF r
  <1>7. /\ pc' \in {"record", "drop", "vf_fetch", "cf_probe", "del_local",
                    "del_remote", "up_snap", "dn_fetch"}
        /\ pc' = "record" => o = "record"
        /\ pc' = "vf_fetch" => o = "verify_adopt"
        /\ pc' = "del_local" => o = "delete_local"
        /\ pc' = "del_remote" => o = "delete_remote"
        /\ pc' = "cf_probe" => o = "conflict"
        /\ pc' = "up_snap" => o \in {"upload", "rescue_upload"}
        /\ pc' = "dn_fetch" => o \in {"download", "rescue_download"}
    BY <1>1, <1>2 DEF FirstStep
  <1> QED BY <1>1, <1>5, <1>6, <1>7 DEF r

\* The users' steps, apart in time from all the engine has seen.
LEMMA GapsApart ==
    ASSUME Apart
    PROVE  MTimeTol \in Nat /\ \A g \in Gaps : g \in Nat /\ g > MTimeTol
  BY DecideAssumption, FileSyncAssumption DEF Apart

\* A user's write of the vault's file: it wears no signature the engine knows.
VaultWritten ==
    /\ UNCHANGED <<remote, rev, lgone, rgone>>
    /\ local' # None /\ local'.mtime \in Nat
    /\ now' = local'.mtime /\ local'.mtime > now /\ local'.body.mtime = local'.mtime
    /\ Stat(local').mtime = local'.mtime
    /\ local'.mtime > now + MTimeTol
    /\ base # None => /\ local'.mtime > base.lmtime /\ LocalMoved(Stat(local'), base)
                      /\ RemoteMoved(Stat(local'), base)
    /\ buf # None => local'.mtime > buf.mtime + MTimeTol
    /\ re # None => local'.mtime > re.mtime + MTimeTol
    /\ remote # None => local'.mtime > remote.mtime + MTimeTol
    /\ le # None => local'.mtime > le.mtime

\* A user's write of the remote file: so does it.
RemoteWritten ==
    /\ UNCHANGED <<local, lgone, rgone>>
    /\ remote' # None /\ remote'.mtime \in Nat /\ remote'.etag = rev' /\ rev' = rev + 1
    /\ now' = remote'.mtime /\ remote'.mtime > now + MTimeTol
    /\ remote'.body.mtime = remote'.mtime
    /\ remote'.stage # "full" => remote'.body.size > 0
    /\ re # None => remote'.mtime > re.mtime + MTimeTol /\ re # Listing(remote')
    /\ buf # None => remote'.mtime > buf.mtime + MTimeTol
    /\ base # None =>
          /\ remote'.mtime > base.rmtime + MTimeTol
          /\ \A z : RemoteMoved([size |-> z, mtime |-> remote'.mtime], base)
          /\ RemoteMoved(Listing(remote'), base)

\* The users' steps, where they write apart.
LEMMA UsersApart ==
    ASSUME TypeOK, TypeOK', Apart, ClockAhead, LastWrites, UserSteps
    PROVE  /\ UNCHANGED <<base, pc, op, le, re, buf, unread, slipped>>
           /\ \/ VaultWritten /\ VaultOwes
              \/ /\ local' = None /\ lgone' = "user" /\ VaultOwes
                 /\ UNCHANGED <<remote, rev, now, rgone>>
              \/ RemoteWritten /\ RemoteOwes
              \/ /\ remote' = None /\ rgone' = "user" /\ RemoteOwes
                 /\ UNCHANGED <<local, rev, now, lgone>>
              \/ Materialize
  <1>1. ASSUME NEW s \in Sizes, NEW g \in Gaps,
               local' # None, local'.mtime = now + g,
               local'.body = [size |-> s, mtime |-> now + g],
               now' = now + g, UNCHANGED <<remote, rev, lgone, rgone>>
        PROVE  VaultWritten
    <2>1. /\ now + g \in Nat /\ g \in Nat /\ g > MTimeTol /\ now \in Nat
          /\ MTimeTol \in Nat
      BY Numbers, GapsApart
    <2>2. Stat(local').mtime = now + g
      BY <1>1, StatTimes DEF TypeOK
    <2>3. base # None => base.lmtime \in Nat /\ now + g > base.lmtime
      BY <2>1, Numbers DEF ClockAhead
    <2>4. base # None => LocalMoved(Stat(local'), base)
      BY <2>1, <2>2, <2>3, LocalMovedIs
    <2>5. /\ buf # None => now + g > buf.mtime + MTimeTol
          /\ re # None => now + g > re.mtime + MTimeTol
          /\ remote # None => now + g > remote.mtime + MTimeTol
          /\ le # None => now + g > le.mtime
      BY <2>1, Numbers DEF ClockAhead
    <2>7. base # None => RemoteMoved(Stat(local'), base)
      <3>1. base # None => base.rmtime \in Nat /\ now + g > base.rmtime + MTimeTol
        BY <2>1, Numbers DEF LastWrites
      <3> QED BY <2>1, <2>2, <3>1, RemoteMovedIs
    <2>6. local'.body.mtime = now + g
      BY <1>1
    <2> QED BY <1>1, <2>1, <2>2, <2>3, <2>4, <2>5, <2>6, <2>7 DEF VaultWritten
  <1>2. ASSUME NEW s \in Sizes, NEW g \in Gaps,
               remote' # None, remote'.mtime = now + g, remote'.etag = rev + 1,
               rev' = rev + 1, remote'.body = [size |-> s, mtime |-> now + g],
               remote'.stage # "full" => s > 0,
               now' = now + g, UNCHANGED <<local, lgone, rgone>>
        PROVE  RemoteWritten
    <2>1. /\ now + g \in Nat /\ g > MTimeTol /\ now \in Nat /\ MTimeTol \in Nat
          /\ g \in Nat
      BY Numbers, GapsApart
    <2>2. Listing(remote').mtime = now + g
      BY <1>2, StatTimes, EntryShapes DEF TypeOK, Listing
    <2>3. base # None => base.rmtime \in Nat /\ now + g > base.rmtime + MTimeTol
      BY <2>1, Numbers DEF LastWrites
    <2>4. base # None => /\ RemoteMoved(Listing(remote'), base)
                         /\ \A z : RemoteMoved([size |-> z, mtime |-> now + g], base)
      BY <2>1, <2>2, <2>3, RemoteMovedIs
    <2>5. re # None => now + g > re.mtime + MTimeTol /\ re # Listing(remote')
      BY <2>1, <2>2, Numbers DEF ClockAhead
    <2>6. buf # None => now + g > buf.mtime + MTimeTol
      BY <2>1, Numbers DEF ClockAhead
    <2>7. remote'.body.mtime = now + g /\ (remote'.stage # "full" => remote'.body.size > 0)
      BY <1>2
    <2> QED BY <1>2, <2>1, <2>3, <2>4, <2>5, <2>6, <2>7 DEF RemoteWritten
  <1> QED BY <1>1, <1>2, UsersDo

\* The last etag, and the row's age.
LEMMA WritesStay ==
    ASSUME TypeOK, TypeOK', Apart, ClockAhead, LastWrites, [Next]_vars
    PROVE  LastWrites'
  <1> USE DEF LastWrites
  <1>1. CASE Ends
    BY <1>1 DEF Ends, scene
  <1>2. CASE UserSteps
    <2>1. CASE Materialize
      BY <1>2, <2>1, Arrives, UsersDo
    <2>2. CASE ~Materialize
      BY <1>2, <2>2, UsersApart, Numbers, GapsApart DEF VaultWritten, RemoteWritten
    <2> QED BY <2>1, <2>2
  <1>3. CASE Looks
    BY <1>3, LooksDo DEF scene
  <1>4. CASE Acts
    BY <1>4, ActsDo, Numbers
  <1>5. CASE Records
    <2>1. base'.rmtime <= now
      BY <1>5, RecordsDo, RowIs DEF ClockAhead
    <2> QED BY <1>5, <2>1, RecordsDo
  <1>6. CASE UNCHANGED vars
    BY <1>6 DEF vars, cloud, world
  <1> QED BY <1>1, <1>2, <1>3, <1>4, <1>5, <1>6, StepKinds

\* The remote side, as listed or written since.
LEMMA RemoteSinceStays ==
    ASSUME TypeOK, TypeOK', Apart, ClockAhead, LastWrites, PendingIsNews, RemoteSince,
           [Next]_vars
    PROVE  RemoteSince'
  <1> USE DEF RemoteSince, WrittenSince, AsListed
  <1>1. CASE Ends
    BY <1>1 DEF Ends
  <1>2. CASE UserSteps
    <2>1. CASE Materialize
      <3>1. CASE remote.stage = "unready"
        BY <1>2, <2>1, <3>1, Arrives, UsersDo
      <3>2. CASE remote.stage = "husk"
        <4> SUFFICES ASSUME re # None, pc # "up_commit", AsListed
                     PROVE  re.size = 0 /\ re.mtime = remote'.mtime
          BY <1>2, <2>1, <3>2, Arrives, UsersDo DEF PendingIsNews
        <4> QED BY <2>1, <3>2, Arrives, Signatures DEF ListedSize
      <3> QED BY <2>1, <3>1, <3>2, Arrives, Numbers
    <2>2. CASE ~Materialize
      BY <1>2, <2>2, UsersApart DEF VaultWritten, RemoteWritten
    <2> QED BY <2>1, <2>2
  <1>3. CASE Looks
    BY <1>3, LooksDo, ScanSees DEF scene, ScanLocal
  <1>4. CASE Acts
    BY <1>4, ActsDo
  <1>5. CASE Records
    BY <1>5, RecordsDo
  <1>6. CASE UNCHANGED vars
    BY <1>6 DEF vars, cloud
  <1> QED BY <1>1, <1>2, <1>3, <1>4, <1>5, <1>6, StepKinds

\* The vault, as scanned or written since.
LEMMA LocalSinceStays ==
    ASSUME TypeOK, TypeOK', Apart, ClockAhead, LastWrites, LocalSince, [Next]_vars
    PROVE  LocalSince'
  <1> USE DEF LocalSince
  <1>1. CASE Ends
    BY <1>1 DEF Ends
  <1>2. CASE UserSteps
    BY <1>2, UsersApart DEF VaultWritten, RemoteWritten, Materialize, disk
  <1>3. CASE Looks
    BY <1>3, LooksDo, ScanSees DEF scene, ScanLocal
  <1>4. CASE Acts
    <2>1. CASE local' \in {local, None}
      BY <1>4, <2>1, ActsDo
    <2>2. CASE local' \notin {local, None}
      <3>1. local' # None /\ local'.mtime = now + 1 /\ base' = base
        BY <1>4, <2>2, ActsDo
      <3>2. base # None => now + 1 > base.lmtime
        BY Numbers DEF ClockAhead
      <3>3. /\ Stat(local').mtime = now + 1 /\ now + 1 \in Nat
            /\ base # None => base.lmtime \in Nat
        BY <3>1, Numbers, StatTimes DEF TypeOK
      <3>4. base # None => LocalMoved(Stat(local'), base)
        BY <3>2, <3>3, LocalMovedIs
      <3> QED BY <3>1, <3>4
    <2> QED BY <2>1, <2>2
  <1>5. CASE Records
    BY <1>5, RecordsDo
  <1>6. CASE UNCHANGED vars
    BY <1>6 DEF vars, disk
  <1> QED BY <1>1, <1>2, <1>3, <1>4, <1>5, <1>6, StepKinds

\* Content that arrives is news to a row, as that row lists it.
LEMMA ArrivalIsNews ==
    ASSUME TypeOK, TypeOK', LastWrites, PendingIsNews, Materialize
    PROVE  /\ remote' # None /\ remote'.stage = "full"
           /\ base # None => RemoteMoved(Listing(remote'), base)
           /\ re # None /\ remote.stage = "husk" /\ RemoteSince /\ pc # "up_commit" =>
                 re # Listing(remote')
  <1>1. /\ remote # None /\ remote.stage # "full" /\ remote'.mtime = remote.mtime
        /\ remote' # None /\ remote'.stage = "full" /\ remote'.body = remote.body
        /\ remote'.etag = rev' /\ remote.etag = rev
        /\ remote.stage = "husk" => rev' = rev + 1
    BY Arrives DEF LastWrites, Materialize
  <1>2. remote \in RemoteFile /\ remote' \in RemoteFile
    BY <1>1 DEF TypeOK
  <1>3. /\ Listing(remote').size = remote.body.size
        /\ Listing(remote').mtime = remote.mtime /\ Listing(remote').etag = rev'
    BY <1>1, <1>2 DEF Listing, ListedSize
  <1>4. base # None => RemoteMoved(Listing(remote'), base)
    <2> SUFFICES ASSUME base # None
                 PROVE  RemoteMoved(Listing(remote'), base)
      OBVIOUS
    <2> DEFINE r == [size |-> remote.body.size, mtime |-> remote.mtime]
    <2>1. RemoteMoved(r, base) /\ r.size = remote.body.size /\ r.mtime = remote.mtime
      BY <1>1 DEF PendingIsNews
    <2>2. remote.mtime \in Nat /\ base.rmtime \in Nat
      BY <1>1, Numbers
    <2> HIDE DEF r
    <2> QED BY <1>3, <2>1, <2>2, RemoteMovedIs
  <1>5. ASSUME re # None, remote.stage = "husk", RemoteSince, pc # "up_commit",
               re = Listing(remote')
        PROVE  FALSE
    <2>1. re.mtime = remote.mtime /\ re.etag = rev + 1 /\ rev \in Nat /\ re.mtime \in Nat
      BY <1>1, <1>3, <1>5, Numbers
    <2>2. Listing(remote).etag = rev
      BY <1>1, Signatures
    <2>3. ~WrittenSince(re.mtime)
      BY <2>1, DecideAssumption DEF WrittenSince
    <2> QED BY <1>1, <1>5, <2>1, <2>2, <2>3 DEF RemoteSince, AsListed
  <1> QED BY <1>1, <1>4, <1>5

\* A remote file that changed since a row was taken has moved from it.
LEMMA WrittenMoved ==
    ASSUME TypeOK, remote # None, NEW b, b.rmtime \in Nat, WrittenSince(b.rmtime)
    PROVE  /\ RemoteMoved(Listing(remote), b)
           /\ \A z : RemoteMoved([size |-> z, mtime |-> remote.mtime], b)
  <1>1. remote.mtime \in Nat /\ Listing(remote).mtime = remote.mtime
    BY Numbers, Signatures
  <1> QED BY <1>1, RemoteMovedIs DEF WrittenSince

\* The row a pass takes from its listing finds the remote file unmoved only
\* while the listing stands.
LEMMA ListedRow ==
    ASSUME TypeOK, RemoteSince, re # None, remote # None, pc # "up_commit",
           NEW b, b.rsize = re.size, b.rmtime = re.mtime
    PROVE  /\ AsListed \/ RemoteMoved(Listing(remote), b)
           /\ remote.stage # "full" /\ remote.body.size > 0 =>
                 \/ AsListed /\ remote.stage = "unready"
                 \/ RemoteMoved([size |-> remote.body.size, mtime |-> remote.mtime], b)
  <1>1. re.mtime \in Nat /\ remote.mtime \in Nat /\ b.rmtime \in Nat
    BY Numbers
  <1>2. CASE WrittenSince(re.mtime)
    BY <1>1, <1>2, WrittenMoved
  <1>3. CASE AsListed
    <2>1. CASE remote.stage = "husk"
      <3>1. re.size = 0
        BY <1>3, <2>1, Signatures DEF AsListed, ListedSize
      <3> QED BY <1>1, <1>3, <3>1, RemoteMovedIs
    <2>2. remote.stage \in {"full", "unready", "husk"}
      BY Numbers
    <2> QED BY <1>3, <2>1, <2>2
  <1>4. CASE /\ re.mtime = remote.mtime /\ re.size = 0
             /\ remote.stage = "full" /\ remote.body.size > 0
    <2>1. Listing(remote).size = remote.body.size /\ Listing(remote).mtime = remote.mtime
      BY <1>4, Signatures DEF ListedSize
    <2>2. Listing(remote).size # b.rsize
      BY <1>1, <1>4, <2>1
    <2> QED BY <1>1, <1>4, <2>1, <2>2, RemoteMovedIs
  <1> QED BY <1>2, <1>3, <1>4 DEF RemoteSince

\* A fetch that comes back good is not of content that has not arrived.
LEMMA GoodIsThere ==
    ASSUME TypeOK, PendingIsNews, FetchGood, re # None, AsListed
    PROVE  remote # None /\ remote.stage # "unready"
  <1> SUFFICES ASSUME remote # None, remote.stage = "unready"
               PROVE  FALSE
    BY DEF FetchGood
  <1>1. ListedSize(remote) = remote.body.size /\ re.size = remote.body.size
    BY Signatures DEF AsListed, ListedSize
  <1>2. Served.size = 0
    BY Numbers DEF Served, TypeOK, RemoteFile, Body
  <1>3. remote.body.size > 0 /\ remote.body.size \in Nat
    BY Numbers DEF PendingIsNews
  <1> QED BY <1>1, <1>2, <1>3 DEF FetchGood, Expected

\* Content that has not arrived stays news to every row that is written.
LEMMA PendingStays ==
    ASSUME TypeOK, TypeOK', Apart, TruthInv, [Next]_vars
    PROVE  PendingIsNews'
  <1> USE DEF TruthInv
  <1>1. CASE Ends
    BY <1>1 DEF Ends, scene, PendingIsNews
  <1>2. CASE UserSteps
    <2>1. CASE Materialize
      BY <2>1, ArrivalIsNews DEF PendingIsNews
    <2>2. CASE ~Materialize
      BY <1>2, <2>2, UsersApart DEF VaultWritten, RemoteWritten, PendingIsNews
    <2> QED BY <2>1, <2>2
  <1>3. CASE Looks
    BY <1>3, LooksDo DEF scene, PendingIsNews
  <1>4. CASE Acts
    BY <1>4, ActsDo DEF PendingIsNews
  <1>5. CASE Records
    <2> SUFFICES ASSUME remote # None, remote.stage # "full"
                 PROVE  /\ remote.body.size > 0
                        /\ RemoteMoved([size |-> remote.body.size, mtime |-> remote.mtime],
                                       base')
      BY <1>5, RecordsDo DEF PendingIsNews
    <2>1. remote.body.size > 0
      BY DEF PendingIsNews
    <2>2. CASE pc = "up_commit"
      <3>1. WrittenSince(buf.mtime)
        BY <2>2 DEF SnapshotHolds
      <3>2. base'.rmtime = buf.mtime /\ buf.mtime \in Nat
        BY <1>5, <2>2, RecordsDo, RowIs, Numbers
      <3> QED BY <2>1, <3>1, <3>2, WrittenMoved
    <2>3. CASE pc # "up_commit"
      <3>1. /\ re # None /\ base'.rsize = re.size /\ base'.rmtime = re.mtime
            /\ pc \in {"record", "dn_stamp", "vf_compare"}
        BY <1>5, <2>3, RecordsDo, RowIs
      <3>2. ASSUME AsListed, remote.stage = "unready"
            PROVE  FALSE
        <4>1. pc = "record"
          BY <3>1, <3>2 DEF FetchedIsServed
        <4>2. base # None /\ ~RemoteMoved(re, base)
          BY <4>1 DEF DecisionHolds
        <4> DEFINE r == [size |-> remote.body.size, mtime |-> remote.mtime]
        <4>3. RemoteMoved(r, base) /\ r.size = re.size /\ r.mtime = re.mtime
          BY <3>2, <4>2, Signatures DEF PendingIsNews, AsListed, ListedSize
        <4>4. re.mtime \in Nat /\ base.rmtime \in Nat
          BY <3>1, <4>2, Numbers
        <4> HIDE DEF r
        <4> QED BY <4>2, <4>3, <4>4, RemoteMovedIs
      <3> QED BY <2>1, <2>3, <3>1, <3>2, ListedRow
    <2> QED BY <2>1, <2>2, <2>3
  <1>6. CASE UNCHANGED vars
    BY <1>6 DEF vars, cloud, PendingIsNews
  <1> QED BY <1>1, <1>2, <1>3, <1>4, <1>5, <1>6, StepKinds

\* What a resolved conflict goes on to.
LEMMA Resolves ==
    /\ ResolveStep \in {"dn_fetch", "up_snap", "cf_aside", "cf_backup"}
    /\ ResolveStep \in {"cf_aside", "cf_backup"} =>
          ~(re.size > 0 /\ LocalUnmoved) /\ ~(re.size = 0 /\ le.size > 0)
  BY DEF ResolveStep

\* What a step goes by stays true until it is taken.
LEMMA DecisionStays ==
    ASSUME TypeOK, TypeOK', Apart, TruthInv, [Next]_vars
    PROVE  DecisionHolds'
  <1> USE DEF TruthInv
  <1>1. CASE Ends
    BY <1>1 DEF Ends, DecisionHolds
  <1>2. CASE UserSteps
    <2>1. UNCHANGED <<base, pc, le, re>>
      BY <1>2, UsersDo
    <2>2. LocalUnmoved' = LocalUnmoved
      BY <2>1 DEF LocalUnmoved
    <2>3. base # None /\ remote' # None =>
             \/ remote # None /\ Listing(remote') = Listing(remote)
                              /\ remote'.mtime = remote.mtime
             \/ /\ RemoteMoved(Listing(remote'), base)
                /\ \/ remote'.mtime > base.rmtime + MTimeTol
                   \/ remote # None /\ remote'.mtime = remote.mtime
      <3>1. CASE Materialize
        BY <3>1, ArrivalIsNews, Arrives
      <3>2. CASE ~Materialize
        BY <1>2, <3>2, UsersApart DEF VaultWritten, RemoteWritten
      <3> QED BY <3>1, <3>2
    <2> QED BY <2>1, <2>2, <2>3 DEF DecisionHolds, WrittenSince
  <1>3. CASE Looks
    <2>1. CASE ScanRemote /\ pc' # "idle"
      <3>1. /\ remote' = remote /\ base' = base /\ le' = le /\ re' = Listing(remote)
        BY <1>3, <2>1, LooksDo, ScanSees DEF scene
      <3>2. le.size \in Nat \/ le = None
        BY Numbers
      <3> QED BY <2>1, <3>1, <3>2, ScanSees DEF DecisionHolds, LocalUnmoved
    <2>2. CASE ~(ScanRemote /\ pc' # "idle")
      <3>1. /\ remote' = remote /\ base' = base
            /\ ScanLocal \/ (le' = le /\ re' = re)
        BY <1>3, <2>2, LooksDo DEF scene
      <3>2. CASE ScanLocal
        BY <3>2 DEF ScanLocal, DecisionHolds
      <3>3. CASE pc' \in {"cf_aside", "cf_backup"}
        <4>1. pc = "cf_probe" /\ pc' = ResolveStep /\ le' = le /\ re' = re
          BY <1>3, <2>2, <3>3, LooksDo, Resolves DEF ScanLocal
        <4>2. ~LocalUnmoved
          <5>1. re # None /\ re.size \in Nat
            BY <4>1, Numbers DEF TypeOK, Registers
          <5> QED BY <3>3, <4>1, <5>1, Resolves DEF DecisionHolds
        <4> QED BY <3>1, <3>3, <4>1, <4>2 DEF DecisionHolds, LocalUnmoved
      <3>4. CASE ~ScanLocal /\ pc' \notin {"cf_aside", "cf_backup"}
        <4>1. /\ le' = le /\ re' = re
              /\ pc' \notin {"record", "vf_fetch", "del_remote", "del_local", "cf_aside",
                         "cf_backup"}
              /\ pc' = "vf_compare" => pc = "vf_fetch"
              /\ pc' = "cf_probe" => pc \in {"vf_fetch", "vf_compare"}
          BY <1>3, <2>2, <3>4, LooksDo, Resolves
        <4> QED BY <3>1, <4>1 DEF DecisionHolds, LocalUnmoved
      <3> QED BY <3>2, <3>3, <3>4
    <2> QED BY <2>1, <2>2
  <1>4. CASE Acts
    BY <1>4, ActsDo DEF DecisionHolds
  <1>5. CASE Records
    BY <1>5, RecordsDo DEF DecisionHolds
  <1>6. CASE UNCHANGED vars
    BY <1>6 DEF vars, cloud, DecisionHolds, LocalUnmoved, WrittenSince
  <1> QED BY <1>1, <1>2, <1>3, <1>4, <1>5, <1>6, StepKinds

\* A fetched body stays what iCloud serves while the listing stands.
LEMMA ServedStays ==
    ASSUME TypeOK, TypeOK', Apart, TruthInv, [Next]_vars
    PROVE  FetchedIsServed'
  <1> USE DEF TruthInv, FetchedIsServed, AsListed
  <1>1. CASE Ends
    BY <1>1 DEF Ends
  <1>2. CASE UserSteps
    <2>1. CASE Materialize
      <3>1. CASE remote.stage = "unready"
        BY <1>2, <2>1, <3>1, Arrives, UsersDo
      <3>2. CASE remote.stage = "husk"
        <4>1. pc \in {"dn_install", "dn_stamp", "vf_compare"} => re # None
          BY DEF TypeOK, Registers
        <4> QED BY <1>2, <2>1, <3>2, <4>1, ArrivalIsNews, UsersDo
      <3> QED BY <2>1, <3>1, <3>2, Arrives, Numbers
    <2>2. CASE ~Materialize
      <3>1. pc \in {"dn_install", "dn_stamp", "vf_compare"} => re # None
        BY DEF TypeOK, Registers
      <3> QED BY <1>2, <2>2, <3>1, UsersApart DEF VaultWritten, RemoteWritten, Served
    <2> QED BY <2>1, <2>2
  <1>3. CASE Looks
    <2>1. CASE pc' \in {"dn_install", "dn_stamp", "vf_compare"}
      <3>1. /\ re' = re /\ remote' = remote /\ FetchGood /\ re # None
            /\ buf' = [body |-> Served, mtime |-> re.mtime]
        <4>1. pc' # "scanned"
          BY <2>1
        <4>2. ~ScanLocal
          BY <4>1 DEF ScanLocal
        <4>3. ~(ScanRemote /\ pc' # "idle")
          BY <2>1, ScanSees
        <4>4. pc \in {"dn_fetch", "vf_fetch"} => re # None
          BY DEF TypeOK, Registers
        <4> QED BY <1>3, <2>1, <4>2, <4>3, <4>4, LooksDo, Resolves DEF scene
      <3> QED BY <3>1, GoodIsThere DEF Served
    <2> QED BY <2>1
  <1>4. CASE Acts
    BY <1>4, ActsDo DEF Served
  <1>5. CASE Records
    BY <1>5, RecordsDo
  <1>6. CASE UNCHANGED vars
    BY <1>6 DEF vars, cloud, Served
  <1> QED BY <1>1, <1>2, <1>3, <1>4, <1>5, <1>6, StepKinds

\* A frozen file stays the vault's, and once sent iCloud's.
LEMMA SnapshotStays ==
    ASSUME TypeOK, TypeOK', Apart, TruthInv, [Next]_vars
    PROVE  SnapshotHolds'
  <1> USE DEF TruthInv, SnapshotHolds
  <1>1. CASE Ends
    BY <1>1 DEF Ends
  <1>2. CASE UserSteps
    <2>1. CASE Materialize
      BY <1>2, <2>1, Arrives, UsersDo DEF WrittenSince
    <2>2. CASE ~Materialize
      <3>1. pc \in {"up_remove", "up_send", "up_commit"} => buf # None
        BY DEF TypeOK, Registers
      <3> QED BY <1>2, <2>2, <3>1, UsersApart DEF VaultWritten, RemoteWritten, WrittenSince
    <2> QED BY <2>1, <2>2
  <1>3. CASE Looks
    <2>1. CASE pc' \in {"up_remove", "up_send", "up_commit"}
      <3>1. ~ScanLocal /\ ~(ScanRemote /\ pc' # "idle")
        BY <2>1, ScanSees DEF ScanLocal
      <3> QED BY <1>3, <2>1, <3>1, LooksDo, Resolves DEF scene
    <2> QED BY <2>1
  <1>4. CASE Acts
    BY <1>4, ActsDo DEF WrittenSince
  <1>5. CASE Records
    BY <1>5, RecordsDo
  <1>6. CASE UNCHANGED vars
    BY <1>6 DEF vars, cloud, disk, WrittenSince
  <1> QED BY <1>1, <1>2, <1>3, <1>4, <1>5, <1>6, StepKinds

\* Every row that is written finds unmoved only sides that agree.
LEMMA AgreeStays ==
    ASSUME TypeOK, TypeOK', Apart, TruthInv, [Next]_vars
    PROVE  UnmovedAgree'
  <1> USE DEF TruthInv, UnmovedAgree
  <1>1. CASE Ends
    BY <1>1 DEF Ends, scene, Served
  <1>2. CASE UserSteps
    <2>1. CASE Materialize
      BY <1>2, <2>1, ArrivalIsNews, UsersDo
    <2>2. CASE ~Materialize
      BY <1>2, <2>2, UsersApart DEF VaultWritten, RemoteWritten, Served
    <2> QED BY <2>1, <2>2
  <1>3. CASE Looks
    BY <1>3, LooksDo DEF scene, Served
  <1>4. CASE Acts
    <2>1. CASE pc = "up_send"
      <3>1. /\ base' = base /\ local' = local /\ remote'.body = buf.body
            /\ remote'.stage = "full"
        BY <1>4, <2>1, ActsDo
      <3>2. CASE local = buf
        BY <3>1, <3>2 DEF Served
      <3>3. CASE local # None /\ base # None /\ local.mtime > base.lmtime
        <4>1. LocalMoved(Stat(local), base)
          BY <3>3, Numbers, Signatures, LocalMovedIs
        <4> QED BY <3>1, <4>1
      <3> QED BY <2>1, <3>1, <3>2, <3>3 DEF SnapshotHolds
    <2>2. CASE pc = "dn_install"
      <3>1. base' = base /\ local' # None /\ local'.mtime = now + 1
        BY <1>4, <2>2, ActsDo
      <3>2. base # None => /\ Stat(local').mtime = now + 1 /\ now \in Nat
                           /\ base.lmtime \in Nat /\ base.lmtime <= now
        BY <3>1, Numbers, StatTimes DEF TypeOK, ClockAhead
      <3>3. base # None => LocalMoved(Stat(local'), base)
        BY <3>2, LocalMovedIs
      <3> QED BY <3>1, <3>3
    <2> QED BY <1>4, <2>1, <2>2, ActsDo DEF Served
  <1>5. CASE Records
    <2> SUFFICES ASSUME local' # None, remote # None,
                        ~LocalMoved(Stat(local'), base'),
                        ~RemoteMoved(Listing(remote), base')
                 PROVE  local'.body = Served \/ local'.body \in slipped'
      BY <1>5, RecordsDo DEF Served
    <2>1. CASE pc = "up_commit"
      <3>1. /\ base'.rmtime = buf.mtime /\ base'.lmtime = buf.mtime
            /\ buf.mtime \in Nat /\ local' = local
        BY <1>5, <2>1, RecordsDo, RowIs, Numbers
      <3>2. ~WrittenSince(buf.mtime)
        BY <3>1, WrittenMoved
      <3>3. local.mtime = buf.mtime
        BY <3>1, LocalMovedIs, Signatures, Numbers
      <3>4. local = buf /\ remote.body = buf.body /\ remote.stage = "full"
        BY <2>1, <3>1, <3>2, <3>3, Numbers, DecideAssumption DEF SnapshotHolds
      <3> QED BY <3>1, <3>4 DEF Served
    <2>2. CASE pc # "up_commit"
      <3>1. /\ re # None /\ base'.rsize = re.size /\ base'.rmtime = re.mtime
            /\ pc \in {"record", "dn_stamp", "vf_compare"}
        BY <1>5, <2>2, RecordsDo, RowIs
      <3>2. AsListed
        BY <2>2, <3>1, ListedRow
      <3>3. CASE pc = "record"
        <4>1. /\ local' = local /\ slipped' = slipped /\ base # None
              /\ base'.lsize = le.size /\ base'.lmtime = le.mtime /\ le # None
              /\ ~LocalMoved(le, base) /\ ~RemoteMoved(re, base)
          BY <1>5, <3>3, RecordsDo, RowIs DEF DecisionHolds
        <4>2. Stat(local).size = le.size /\ Stat(local).mtime = le.mtime
          BY <4>1, LocalMovedIs, Signatures, Numbers
        <4>3. ~LocalMoved(Stat(local), base)
          BY <4>1, <4>2, LocalMovedIs, Numbers
        <4> QED BY <3>2, <4>1, <4>3 DEF AsListed
      <3>4. CASE pc # "record"
        <4>1. buf.body = Served
          BY <3>1, <3>2, <3>4 DEF FetchedIsServed
        <4> QED BY <1>5, <2>2, <3>4, <4>1, RecordsDo
      <3> QED BY <3>3, <3>4
    <2> QED BY <2>1, <2>2
  <1>6. CASE UNCHANGED vars
    BY <1>6 DEF vars, cloud, disk, world, Served
  <1> QED BY <1>1, <1>2, <1>3, <1>4, <1>5, <1>6, StepKinds

\* No step before the window has passed goes on to replace an unready remote.
LEMMA EscalatedStays ==
    ASSUME TypeOK, TypeOK', Apart, TruthInv, [Next]_vars
    PROVE  ReplacedIsEscalated'
  <1> USE DEF TruthInv, ReplacedIsEscalated, AsListed, Escalated, UnreadMatches
  <1>1. CASE Ends
    BY <1>1 DEF Ends
  <1>2. CASE UserSteps
    <2>1. CASE Materialize
      BY <2>1, ArrivalIsNews
    <2>2. CASE ~Materialize
      BY <1>2, <2>2, UsersApart DEF VaultWritten, RemoteWritten
    <2> QED BY <2>1, <2>2
  <1>3. CASE Looks
    <2> SUFFICES ASSUME pc' \in {"up_snap", "up_remove"}, re' # None, remote # None,
                        remote.stage = "unready", re' = Listing(remote)
                 PROVE  Escalated(re)'
      BY <1>3, LooksDo DEF scene
    <2>1. ~ScanLocal
      BY DEF ScanLocal
    <2>2. ListedSize(remote) = remote.body.size /\ remote.body.size > 0
      BY DEF ListedSize, PendingIsNews
    <2>3. ~(ScanRemote /\ pc' # "idle")
      <3> SUFFICES ASSUME ScanRemote
                   PROVE  FALSE
        OBVIOUS
      <3>1. base # None /\ ~RemoteMoved(Listing(remote), base)
        BY ScanSees
      <3> DEFINE r == [size |-> remote.body.size, mtime |-> remote.mtime]
      <3>2. /\ RemoteMoved(r, base) /\ r.size = Listing(remote).size
            /\ r.mtime = Listing(remote).mtime
        BY <2>2, <3>1, Signatures DEF PendingIsNews
      <3>3. r.mtime \in Nat /\ base.rmtime \in Nat
        BY <3>1, Numbers
      <3> HIDE DEF r
      <3> QED BY <3>1, <3>2, <3>3, RemoteMovedIs
    <2>4. re' = re /\ re # None /\ re = Listing(remote) /\ re.size # 0
      BY <1>3, <2>1, <2>2, <2>3, LooksDo, Signatures, Numbers
    <2>5. ~FetchGood
      BY <2>4, GoodIsThere
    <2> QED BY <1>3, <2>1, <2>3, <2>4, <2>5, LooksDo
  <1>4. CASE Acts
    BY <1>4, ActsDo
  <1>5. CASE Records
    BY <1>5, RecordsDo
  <1>6. CASE UNCHANGED vars
    BY <1>6 DEF vars, cloud, meta
  <1> QED BY <1>1, <1>2, <1>3, <1>4, <1>5, <1>6, StepKinds

\* A remote path the engine emptied is not read as a deletion.
LEMMA EmptiedRemoteStays ==
    ASSUME TypeOK, TypeOK', Apart, TruthInv, [Next]_vars
    PROVE  EngineEmptiedRemote'
  <1> USE DEF TruthInv, EngineEmptiedRemote
  <1>1. CASE Ends
    BY <1>1 DEF Ends, scene
  <1>2. CASE UserSteps
    <2>1. CASE Materialize
      BY <2>1, ArrivalIsNews
    <2>2. CASE ~Materialize
      BY <1>2, <2>2, UsersApart DEF VaultWritten, RemoteWritten
    <2> QED BY <2>1, <2>2
  <1>3. CASE Looks
    <2>1. UNCHANGED <<local, remote, base, rgone>>
      BY <1>3, LooksDo DEF scene
    <2>2. CASE ScanLocal
      BY <2>1, <2>2 DEF ScanLocal, Stat
    <2>3. CASE ScanRemote /\ pc' # "idle"
      BY <2>1, <2>3, ScanSees
    <2>4. CASE ~ScanLocal /\ ~(ScanRemote /\ pc' # "idle")
      BY <1>3, <2>1, <2>4, LooksDo, Resolves DEF FetchGood
    <2> QED BY <2>2, <2>3, <2>4
  <1>4. CASE Acts
    <2>1. local # None => Stat(local) # None
      BY Signatures
    <2>2. CASE pc = "del_remote"
      <3>1. /\ local' = local /\ base' = base /\ pc' = "del_commit" /\ remote' = None
        BY <1>4, <2>2, ActsDo
      <3>2. base # None /\ local # None => LocalMoved(Stat(local), base)
        BY <2>1, <2>2 DEF DecisionHolds, LocalSince
      <3> QED BY <3>1, <3>2
    <2>3. CASE pc = "up_remove"
      <3>1. /\ local' = local /\ base' = base /\ pc' = "up_send"
            /\ rgone' = IF remote = None THEN rgone
                        ELSE IF LocalUnmoved THEN "valve" ELSE "engine"
        BY <1>4, <2>3, ActsDo
      <3>2. ~LocalUnmoved /\ base # None /\ local # None => LocalMoved(Stat(local), base)
        BY <2>1, <2>3 DEF LocalSince, LocalUnmoved
      <3> QED BY <3>1, <3>2
    <2> QED BY <1>4, <2>2, <2>3, ActsDo
  <1>5. CASE Records
    BY <1>5, RecordsDo
  <1>6. CASE UNCHANGED vars
    BY <1>6 DEF vars, cloud, disk, gone
  <1> QED BY <1>1, <1>2, <1>3, <1>4, <1>5, <1>6, StepKinds

\* Neither is a vault path the engine emptied.
LEMMA EmptiedLocalStays ==
    ASSUME TypeOK, TypeOK', Apart, TruthInv, [Next]_vars
    PROVE  EngineEmptiedLocal'
  <1> USE DEF TruthInv, EngineEmptiedLocal, LocalSeenAbsent
  <1>1. CASE Ends
    BY <1>1 DEF Ends, scene
  <1>2. CASE UserSteps
    <2>1. CASE Materialize
      BY <1>2, <2>1, ArrivalIsNews, Arrives, UsersDo
    <2>2. CASE ~Materialize
      BY <1>2, <2>2, UsersApart DEF VaultWritten, RemoteWritten
    <2> QED BY <2>1, <2>2
  <1>3. CASE Looks
    <2>1. UNCHANGED <<local, remote, base, lgone>>
      BY <1>3, LooksDo DEF scene
    <2>2. CASE ScanLocal
      <3>1. Stat(local) = None <=> local = None
        BY Signatures, EntryShapes DEF TypeOK, Stat
      <3> QED BY <2>1, <2>2, <3>1 DEF ScanLocal
    <2>3. CASE ScanRemote /\ pc' # "idle"
      BY <2>1, <2>3, ScanSees
    <2>4. CASE ~ScanLocal /\ ~(ScanRemote /\ pc' # "idle")
      BY <1>3, <2>1, <2>4, LooksDo, Resolves
    <2> QED BY <2>2, <2>3, <2>4
  <1>4. CASE Acts
    <2>1. CASE pc = "del_local"
      <3>1. base # None /\ remote # None => RemoteMoved(Listing(remote), base)
        BY <2>1, WrittenMoved, Numbers DEF DecisionHolds
      <3> QED BY <1>4, <2>1, <3>1, ActsDo
    <2>2. CASE pc = "cf_aside"
      <3>1. base # None /\ remote # None => RemoteMoved(Listing(remote), base)
        BY <2>2 DEF DecisionHolds
      <3> QED BY <1>4, <2>2, <3>1, ActsDo
    <2> QED BY <1>4, <2>1, <2>2, ActsDo
  <1>5. CASE Records
    BY <1>5, RecordsDo
  <1>6. CASE UNCHANGED vars
    BY <1>6 DEF vars, cloud, disk, gone
  <1> QED BY <1>1, <1>2, <1>3, <1>4, <1>5, <1>6, StepKinds

\* The start: the sides agree, or there is no row.
LEMMA InitSides ==
    ASSUME Init
    PROVE  /\ now \in {1, 1 + MTimeTol} /\ rev = 1
           /\ local # None => local.mtime = 1 /\ local.body.mtime = 1
           /\ remote # None => /\ remote.mtime \in {1, now} /\ remote.body.mtime \in {1, now}
                               /\ remote.stage = "full" /\ remote.etag = 1
           /\ base # None => /\ base.lmtime = 1 /\ base.rmtime = 1
                             /\ base.lsize = local.body.size
                             /\ base.rsize = remote.body.size /\ base.etag = 1
                             /\ local # None /\ remote # None
                             /\ local.body = remote.body /\ remote.mtime = 1
  <1>1. PICK s1 \in Sizes, s2 \in Sizes, t2 \in {1, 1 + MTimeTol} :
           /\ InitPlace([size |-> s1, mtime |-> 1], [size |-> s2, mtime |-> t2])
           /\ now = t2
    BY DEF Init
  <1>2. s1 \in Nat /\ s2 \in Nat /\ t2 \in Nat
    BY <1>1, DecideAssumption, FileSyncAssumption
  <1> DEFINE b1 == [size |-> s1, mtime |-> 1]
             b2 == [size |-> s2, mtime |-> t2]
             LF == [body |-> b1, mtime |-> 1]
             RF(b) == [body |-> b, mtime |-> b.mtime, etag |-> 1, stage |-> "full"]
             row == Row(Stat(LF), Listing(RF(b1)), 1)
  <1>3. LF # None /\ RF(b1) # None /\ RF(b2) # None
    BY <1>2, NoneAssumption DEF LocalFile, RemoteFile, Body
  <1>4. \/ local = LF /\ remote = RF(b1) /\ base = row
        \/ local = LF /\ remote = RF(b2) /\ base = None
        \/ local = LF /\ remote = None /\ base = None
        \/ local = None /\ remote = RF(b1) /\ base = None
    BY <1>1 DEF InitPlace
  <1>5. /\ row.lmtime = 1 /\ row.rmtime = 1 /\ row.lsize = b1.size
        /\ row.rsize = b1.size /\ row.etag = 1
    BY <1>3 DEF Row, Stat, Listing, ListedSize
  <1>6. b1.mtime = 1 /\ b2.mtime = t2
    OBVIOUS
  <1> HIDE DEF b1, b2, row
  <1> QED BY <1>1, <1>3, <1>4, <1>5, <1>6 DEF Init

\* The start satisfies TruthInv.
LEMMA TruthInit == TypeOK /\ Init => TruthInv
  <1> SUFFICES ASSUME TypeOK, Init PROVE TruthInv
    OBVIOUS
  <1>1. /\ pc = "idle" /\ le = None /\ re = None /\ buf = None
        /\ lgone = "user" /\ rgone = "user"
    BY DEF Init
  <1>2. 1 <= now /\ now \in Nat
    BY InitSides, DecideAssumption
  <1>3. ClockAhead /\ LastWrites
    BY <1>1, <1>2, InitSides DEF ClockAhead, LastWrites
  <1>4. PendingIsNews /\ UnmovedAgree
    BY InitSides DEF PendingIsNews, UnmovedAgree, Served
  <1>5. /\ RemoteSince /\ LocalSince /\ DecisionHolds /\ FetchedIsServed
        /\ SnapshotHolds /\ ReplacedIsEscalated
        /\ EngineEmptiedRemote /\ EngineEmptiedLocal
    BY <1>1 DEF RemoteSince, LocalSince, DecisionHolds, FetchedIsServed, SnapshotHolds,
       ReplacedIsEscalated, EngineEmptiedRemote, EngineEmptiedLocal
  <1> QED BY <1>3, <1>4, <1>5 DEF TruthInv

\* TruthInv is inductive where users write apart: a signature, an absence or a
\* fetched body means at every step what the engine takes it to mean.
THEOREM TruthInductive == ASSUME Apart PROVE Spec => [](TypeOK /\ TruthInv)
  <1>1. Init => TypeOK /\ TruthInv
    BY TypeInit, TruthInit
  <1>2. TypeOK /\ TruthInv /\ [Next]_vars => TypeOK' /\ TruthInv'
    <2> SUFFICES ASSUME TypeOK, TruthInv, [Next]_vars PROVE TypeOK' /\ TruthInv'
      OBVIOUS
    <2>1. TypeOK'
      BY TypeNext
    <2>2. ClockAhead' /\ LastWrites' /\ RemoteSince' /\ LocalSince'
      BY <2>1, ClockStays, WritesStay, RemoteSinceStays, LocalSinceStays DEF TruthInv
    <2>3. /\ PendingIsNews' /\ DecisionHolds' /\ FetchedIsServed' /\ SnapshotHolds'
          /\ UnmovedAgree' /\ ReplacedIsEscalated'
          /\ EngineEmptiedRemote' /\ EngineEmptiedLocal'
      BY <2>1, PendingStays, DecisionStays, ServedStays, SnapshotStays, AgreeStays,
         EscalatedStays, EmptiedRemoteStays, EmptiedLocalStays
    <2> QED BY <2>1, <2>2, <2>3 DEF TruthInv
  <1> QED BY <1>1, <1>2, PTL DEF Spec

\* What the engine believes in sync is in sync (AgreementIsReal): where decide()
\* would only re-record the path, both sides hold the same bytes, or the
\* vault's slipped into the window of a download (_do_download).
THEOREM AgreementHolds == ASSUME Apart PROVE Spec => []AgreementIsReal
  <1>1. TypeOK /\ TruthInv => AgreementIsReal
    <2> SUFFICES ASSUME TypeOK, TruthInv, SeenInSync
                 PROVE  local.body = Served \/ local.body \in slipped
      BY DEF AgreementIsReal
    <2>1. DecideFile(Stat(local), Listing(remote), base, FALSE) = "record"
      BY DEF SeenInSync
    <2>2. /\ base # None /\ ~LocalMoved(Stat(local), base)
          /\ ~RemoteMoved(Listing(remote), base)
      BY <2>1, DecisionMeans
    <2> QED BY <2>2 DEF TruthInv, UnmovedAgree, SeenInSync
  <1> QED BY <1>1, TruthInductive, PTL

\* A pass deletes one side's file only because a user deleted the other side's
\* (DeletionsAreUsers): no absence the engine made is read as a deletion.
THEOREM DeletionsFollowUsers == ASSUME Apart PROVE Spec => DeletionsAreUsers
  <1>1. TypeOK /\ TruthInv /\ [Next]_vars =>
           [ /\ pc' = "del_local" => pc = "del_local" \/ rgone \in {"user", "valve"}
             /\ pc' = "del_remote" => pc = "del_remote" \/ lgone = "user" ]_vars
    <2> SUFFICES ASSUME TypeOK, TruthInv, [Next]_vars, ~UNCHANGED vars,
                        pc' \in {"del_local", "del_remote"}, pc' # pc
                 PROVE  /\ pc' = "del_local" => rgone \in {"user", "valve"}
                        /\ pc' = "del_remote" => lgone = "user"
      OBVIOUS
    <2>1. ScanRemote /\ pc' # "idle"
      <3>1. ~Ends /\ ~Records
        BY RecordsDo DEF Ends
      <3>2. ~UserSteps
        BY UsersDo
      <3>3. ~Acts
        BY ActsDo
      <3>4. Looks
        BY <3>1, <3>2, <3>3, StepKinds
      <3> QED BY <3>4, LooksDo, Resolves DEF ScanLocal
    <2>2. CASE pc' = "del_local"
      <3>1. /\ pc = "scanned" /\ le # None /\ remote = None /\ base # None
            /\ ~LocalMoved(le, base)
        BY <2>1, <2>2, ScanSees
      <3>2. rgone # "engine"
        BY <3>1 DEF TruthInv, EngineEmptiedRemote
      <3> QED BY <2>2, <3>2 DEF TypeOK
    <2>3. CASE pc' = "del_remote"
      <3>1. /\ pc = "scanned" /\ le = None /\ remote # None /\ base # None
            /\ ~RemoteMoved(Listing(remote), base)
        BY <2>1, <2>3, ScanSees
      <3>2. lgone # "engine"
        BY <3>1 DEF TruthInv, EngineEmptiedLocal, LocalSeenAbsent
      <3> QED BY <2>3, <3>2 DEF TypeOK
    <2> QED BY <2>2, <2>3
  <1> QED BY <1>1, TruthInductive, PTL DEF Spec, DeletionsAreUsers

\* A remote whose blob is not there yet is moved away by an upload only past
\* the window of one signature (UnreadableIsNotJudged).
THEOREM UnreadableWaits == ASSUME Apart PROVE Spec => UnreadableIsNotJudged
  <1>1. TypeOK /\ TruthInv /\ [Next]_vars =>
           [ pc = "up_remove" /\ pc' = "up_send" /\ remote # None /\ remote' = None
             /\ remote.stage = "unready" /\ re = Listing(remote)
             => Escalated(re) ]_vars
    BY Signatures DEF TruthInv, ReplacedIsEscalated, AsListed
  <1> QED BY <1>1, TruthInductive, PTL DEF Spec, UnreadableIsNotJudged

-----------------------------------------------------------------------------
(* OursInv is inductive, for users who write apart.                        *)

\* A vault write that slipped into a download's window stays on record.
LEMMA SlippedGrows ==
    ASSUME TypeOK, [Next]_vars
    PROVE  slipped \subseteq slipped'
  <1>1. CASE Ends
    BY <1>1 DEF Ends, scene
  <1>2. CASE UserSteps
    BY <1>2, UsersDo
  <1>3. CASE Looks
    BY <1>3, LooksDo DEF scene
  <1>4. CASE Acts
    BY <1>4, ActsDo
  <1>5. CASE Records
    BY <1>5, RecordsDo
  <1>6. CASE UNCHANGED vars
    BY <1>6 DEF vars, world
  <1> QED BY <1>1, <1>2, <1>3, <1>4, <1>5, <1>6, StepKinds

\* A body a user's step replaced is owed no more, and what is owed anew is like
\* nothing the engine has in hand.
VaultOwed ==
    /\ local # None => local.body \notin owed'
    /\ \A b \in owed' : b \in owed \/ (local' # None /\ b = local'.body)
    /\ local' # None =>
          /\ remote # None => remote.body # local'.body
          /\ buf # None => buf.body # local'.body

RemoteOwed ==
    /\ remote # None => remote.body \notin owed'
    /\ \A b \in owed' : b \in owed \/ (remote' # None /\ b = remote'.body)
    /\ remote' # None =>
          /\ remote'.stage # "full" => remote'.body \notin owed'
          /\ local # None => local.body # remote'.body
          /\ buf # None => buf.body # remote'.body

\* The users' steps and what they leave owed.
LEMMA UsersOwe ==
    ASSUME TypeOK, TypeOK', Apart, TruthInv, OwedAreBorn, UserSteps
    PROVE  /\ UNCHANGED <<base, pc, op, le, re, buf>>
           /\ \/ VaultWritten /\ VaultOwed
              \/ local' = None /\ VaultOwed /\ UNCHANGED <<remote, rev, now>>
              \/ RemoteWritten /\ RemoteOwed
              \/ remote' = None /\ RemoteOwed /\ UNCHANGED <<local, rev, now>>
              \/ Materialize
  <1>1. /\ now \in Nat
        /\ local # None => local.body.mtime \in Nat /\ local.body.mtime <= now
        /\ remote # None => remote.body.mtime \in Nat /\ remote.body.mtime <= now
        /\ buf # None => buf.body.mtime \in Nat /\ buf.body.mtime <= now
    BY Numbers DEF TruthInv, ClockAhead
  <1>2. \A b \in owed : b.mtime <= now
    BY DEF OwedAreBorn
  <1>7. /\ local # None => local.body \in LocalBodies
        /\ remote # None => remote.body \in BodyOf(remote)
    BY DEF LocalBodies, BodyOf
  <1>3. ASSUME VaultWritten, VaultOwes PROVE VaultOwed
    <2>1. local' # None /\ local'.body.mtime > now /\ local'.body.mtime \in Nat
      BY <1>3 DEF VaultWritten
    <2>2. local # None => local.body # local'.body
      BY <1>1, <2>1
    <2>3. /\ remote # None => remote.body # local'.body
          /\ buf # None => buf.body # local'.body
      BY <1>1, <2>1
    <2>4. \A b \in owed' : (b \in owed /\ b \notin LocalBodies) \/ b = local'.body
      BY <1>3, <2>1 DEF VaultOwes, BodyOf
    <2> QED BY <2>1, <2>2, <2>3, <2>4, <1>7 DEF VaultOwed
  <1>4. ASSUME local' = None, VaultOwes PROVE VaultOwed
    <2>1. \A b \in owed' : b \in owed /\ b \notin LocalBodies
      BY <1>4 DEF VaultOwes, BodyOf
    <2> QED BY <1>4, <1>7, <2>1 DEF VaultOwed
  <1>5. ASSUME RemoteWritten, RemoteOwes PROVE RemoteOwed
    <2>1. remote' # None /\ remote'.body.mtime > now /\ remote'.body.mtime \in Nat
      BY <1>1, <1>5, GapsApart DEF RemoteWritten
    <2>2. remote # None => remote.body # remote'.body
      BY <1>1, <2>1
    <2>3. /\ local # None => local.body # remote'.body
          /\ buf # None => buf.body # remote'.body
      BY <1>1, <2>1
    <2>4. remote'.body \notin owed
      BY <1>1, <1>2, <2>1
    <2>5. \A b \in RemoteBodies' : b = remote'.body /\ remote'.stage = "full"
      BY <2>1 DEF RemoteBodies
    <2>6. \A b \in owed' : \/ b \in owed /\ b \notin BodyOf(remote)
                           \/ b = remote'.body /\ remote'.stage = "full"
      BY <1>5, <2>5 DEF RemoteOwes
    <2> QED BY <2>1, <2>2, <2>3, <2>4, <2>6, <1>7 DEF RemoteOwed
  <1>6. ASSUME remote' = None, RemoteOwes PROVE RemoteOwed
    <2>1. \A b \in owed' : b \in owed /\ b \notin BodyOf(remote)
      BY <1>6 DEF RemoteOwes, RemoteBodies
    <2> QED BY <1>6, <1>7, <2>1 DEF RemoteOwed
  <1> QED BY <1>3, <1>4, <1>5, <1>6, UsersApart DEF TruthInv

\* Arriving content was owed nowhere, and is like nothing in hand.
LEMMA ArrivalIsOwn ==
    ASSUME TypeOK, TypeOK', TruthInv, PendingIsElsewhere, Materialize
    PROVE  /\ remote # None /\ remote.stage # "full" /\ remote.body \notin owed
           /\ remote' # None /\ remote'.stage = "full"
           /\ remote'.body = remote.body /\ remote'.mtime = remote.mtime
           /\ local # None => local.body # remote.body
           /\ buf # None => buf.body # remote.body
           /\ \A b \in owed' : b \in owed \/ b = remote.body
           /\ base # None => RemoteMoved(Listing(remote'), base)
           /\ UNCHANGED <<local, now, base, pc, op, le, re, buf>>
  <1>1. /\ remote # None /\ remote.stage # "full"
        /\ remote' # None /\ remote'.stage = "full"
        /\ remote'.body = remote.body /\ remote'.mtime = remote.mtime
        /\ owed' = owed \cup NonEmpty(remote.body)
    BY Arrives DEF TruthInv
  <1>2. UNCHANGED <<local, now, base, pc, op, le, re, buf>>
    BY DEF Materialize, disk
  <1>3. base # None => RemoteMoved(Listing(remote'), base)
    BY ArrivalIsNews DEF TruthInv
  <1> QED BY <1>1, <1>2, <1>3 DEF PendingIsElsewhere, NonEmpty

\* The times of the row, the vault and iCloud.
LEMMA TimesStay ==
    ASSUME TypeOK, TypeOK', Apart, TruthInv, Ours, slipped' = {}, [Next]_vars
    PROVE  TimesInOrder'
  <1> USE DEF TruthInv, Ours
  <1>1. CASE Ends
    BY <1>1 DEF Ends, scene, TimesInOrder
  <1>2. CASE UserSteps
    <2>1. CASE Materialize
      BY <2>1, ArrivalIsOwn DEF TimesInOrder
    <2>2. CASE VaultWritten
      <3>1. /\ UNCHANGED <<base, pc, le, re, remote>>
            /\ base # None => /\ local'.mtime > base.lmtime /\ local'.mtime \in Nat
                              /\ LocalMoved(Stat(local'), base)
        BY <1>2, <2>2, UsersDo DEF VaultWritten
      <3>2. base # None => base.lmtime <= local'.mtime
        BY <3>1, Numbers
      <3> QED BY <3>1, <3>2 DEF TimesInOrder
    <2>3. CASE RemoteWritten
      <3>1. /\ remote' # None /\ local' = local
            /\ base # None => /\ remote'.mtime > base.rmtime + MTimeTol
                              /\ RemoteMoved(Listing(remote'), base)
        BY <2>3 DEF RemoteWritten
      <3>2. base # None => base.rmtime \in Nat /\ remote'.mtime \in Nat
        BY <3>1, Numbers DEF TypeOK, RemoteFile
      <3>3. base # None => base.rmtime <= remote'.mtime + MTimeTol
        BY <3>1, <3>2, DecideAssumption
      <3> QED BY <1>2, <3>1, <3>3, UsersDo DEF TimesInOrder
    <2>4. CASE /\ local' \in {local, None} /\ remote' \in {remote, None}
      <3>1. UNCHANGED <<base, pc, le, re>>
        BY <1>2, UsersDo
      <3> QED BY <2>4, <3>1 DEF TimesInOrder
    <2> QED BY <1>2, <2>1, <2>2, <2>3, <2>4, UsersOwe
  <1>3. CASE Looks
    <2>1. CASE ScanLocal
      <3>1. /\ UNCHANGED <<local, remote, base>>
            /\ pc' = "scanned" /\ le' = Stat(local)
        BY <2>1 DEF ScanLocal, disk, cloud
      <3>2. le' # None => local # None
        BY <3>1 DEF Stat
      <3> QED BY <3>1, <3>2 DEF TimesInOrder
    <2>2. CASE ScanRemote /\ pc' # "idle"
      <3>1. UNCHANGED scene /\ base' = base /\ pc' # "scanned"
        BY <1>3, <2>2, LooksDo, ScanSees
      <3>2. pc' = "record" => re'.mtime <= base.lmtime + MTimeTol
        BY <2>2, ScanSees, Signatures DEF TimesInOrder
      <3> QED BY <3>1, <3>2 DEF scene, TimesInOrder
    <2>3. CASE ~ScanLocal /\ ~(ScanRemote /\ pc' # "idle")
      <3>1. UNCHANGED scene /\ base' = base /\ pc' \notin {"scanned", "record"}
        BY <1>3, <2>3, LooksDo, Resolves
      <3> QED BY <3>1 DEF scene, TimesInOrder
    <2> QED BY <1>3, <2>1, <2>2, <2>3, LooksDo
  <1>4. CASE Acts
    <2>1. CASE pc = "up_send"
      <3>1. /\ pc' = "up_commit" /\ base' = base /\ UNCHANGED local
            /\ remote'.mtime = buf.mtime
        BY <1>4, <2>1, ActsDo
      <3>2. ASSUME base # None
            PROVE  /\ base.rmtime <= base.lmtime + MTimeTol /\ base.lmtime <= buf.mtime
                   /\ local # None => base.lmtime <= local.mtime
        BY <2>1, <3>2 DEF TimesInOrder, ScanInOrder
      <3>3. buf # None
        BY <2>1 DEF TypeOK, Registers
      <3>4. base # None => base.rmtime <= buf.mtime + MTimeTol
        BY <3>2, <3>3, Numbers, DecideAssumption
      <3>5. ASSUME base # None, local # None, ~LocalMoved(Stat(local), base)
            PROVE  buf.mtime <= base.lmtime + MTimeTol
        <4>1. local.mtime = base.lmtime
          BY <3>5, Numbers, Signatures, LocalMovedIs
        <4>2. local = buf
          BY <2>1, <3>3, <3>5, <4>1, Numbers DEF SnapshotHolds
        <4> QED BY <3>3, <3>5, <4>1, <4>2, Numbers, DecideAssumption
      <3> QED BY <3>1, <3>2, <3>4, <3>5 DEF TimesInOrder
    <2>2. CASE pc = "dn_install"
      <3>1. /\ pc' = "dn_stamp" /\ base' = base /\ UNCHANGED remote
            /\ local' # None /\ local'.mtime = now + 1
        BY <1>4, <2>2, ActsDo
      <3>2. base # None => base.lmtime < now + 1 /\ now + 1 \in Nat
        BY Numbers DEF ClockAhead
      <3>3. base # None => LocalMoved(Stat(local'), base)
        <4>1. Stat(local').mtime = now + 1
          BY <3>1, StatTimes DEF TypeOK
        <4> QED BY <3>2, <4>1, Numbers, LocalMovedIs
      <3>4. base # None => base.lmtime <= local'.mtime
        BY <3>1, <3>2, Numbers
      <3> QED BY <3>1, <3>3, <3>4 DEF TimesInOrder
    <2>3. CASE pc \notin {"up_send", "dn_install"}
      <3>1. /\ pc' \in {"del_commit", "up_send", "dn_fetch"} /\ base' = base
            /\ local' \in {local, None} /\ remote' \in {remote, None}
        BY <1>4, <2>3, ActsDo
      <3> QED BY <3>1 DEF TimesInOrder
    <2> QED BY <2>1, <2>2, <2>3
  <1>5. CASE Records
    <2>1. /\ pc' = "idle" /\ UNCHANGED remote /\ base' # None
      BY <1>5, RecordsDo
    <2>2. CASE pc = "up_commit"
      <3>1. /\ base'.lmtime = buf.mtime /\ base'.rmtime = buf.mtime /\ buf # None
            /\ UNCHANGED local
        BY <1>5, <2>2, RecordsDo, RowIs
      <3>2. buf.mtime \in Nat
        BY <3>1, Numbers
      <3>3. local # None => buf.mtime <= local.mtime
        BY <2>2, <3>1, <3>2, Numbers, DecideAssumption DEF SnapshotHolds
      <3>4. remote # None => buf.mtime <= remote.mtime + MTimeTol
        BY <2>2, <3>1, <3>2, Numbers, DecideAssumption DEF SnapshotHolds, WrittenSince
      <3>5. remote # None /\ ~RemoteMoved(Listing(remote), base') =>
                remote.mtime <= buf.mtime + MTimeTol
        BY <3>1, <3>2, Numbers, Signatures, RemoteMovedIs, DecideAssumption
      <3> QED BY <2>1, <3>1, <3>2, <3>3, <3>4, <3>5, DecideAssumption DEF TimesInOrder
    <2>3. CASE pc # "up_commit"
      <3>1. re # None /\ base'.rmtime = re.mtime /\ base'.rsize = re.size
        BY <1>5, <2>3, RecordsDo, RowIs
      <3>2. re.mtime \in Nat
        BY <3>1, Numbers
      <3>3. remote # None => re.mtime <= remote.mtime + MTimeTol
        BY <2>3, <3>1, <3>2, Numbers, Signatures, DecideAssumption
           DEF RemoteSince, WrittenSince, AsListed
      <3>4. remote # None /\ ~RemoteMoved(Listing(remote), base') => remote.mtime = re.mtime
        <4>1. remote # None /\ AsListed => remote.mtime = re.mtime
          BY Signatures DEF AsListed
        <4> QED BY <2>3, <3>1, <4>1, ListedRow
      <3>5. CASE pc = "dn_stamp"
        <4>1. base'.lmtime = re.mtime /\ local'.mtime = re.mtime
          BY <1>5, <3>5, RecordsDo
        <4> QED BY <2>1, <3>1, <3>2, <3>3, <3>4, <4>1, DecideAssumption DEF TimesInOrder
      <3>6. CASE pc \in {"record", "vf_compare"}
        <4>1. base'.lmtime = le.mtime /\ le # None /\ UNCHANGED local
          BY <1>5, <3>6, RecordsDo, RowIs
        <4>2. re.mtime <= le.mtime + MTimeTol
          <5>1. CASE pc = "record"
            <6>1. base # None /\ le.mtime = base.lmtime
              BY <4>1, <5>1, Numbers, LocalMovedIs DEF DecisionHolds
            <6> QED BY <5>1, <6>1 DEF TimesInOrder
          <5> QED BY <3>6, <5>1 DEF ScanInOrder
        <4>3. local # None => le.mtime <= local.mtime
          BY <3>6, <4>1 DEF ScanInOrder
        <4> QED BY <2>1, <3>1, <3>3, <3>4, <4>1, <4>2, <4>3 DEF TimesInOrder
      <3> QED BY <1>5, <2>3, <3>5, <3>6, RecordsDo
    <2> QED BY <2>2, <2>3
  <1>6. CASE UNCHANGED vars
    BY <1>6 DEF vars, cloud, disk, TimesInOrder
  <1> QED BY <1>1, <1>2, <1>3, <1>4, <1>5, <1>6, StepKinds

\* The times of what a step of the pass holds.
LEMMA ScanTimesStay ==
    ASSUME TypeOK, TypeOK', Apart, TruthInv, Ours, slipped' = {}, [Next]_vars
    PROVE  ScanInOrder'
  <1> USE DEF TruthInv, Ours
  <1>1. CASE Ends
    BY <1>1 DEF Ends, ScanInOrder
  <1>2. CASE UserSteps
    <2>1. UNCHANGED <<base, pc, le, re, buf>>
      BY <1>2, UsersDo
    <2>2. CASE local' \in {local, None}
      BY <2>1, <2>2 DEF ScanInOrder
    <2>3. CASE VaultWritten
      <3>1. le # None => le.mtime <= local'.mtime
        BY <2>3, Numbers DEF VaultWritten
      <3> QED BY <2>1, <3>1 DEF ScanInOrder
    <2> QED BY <1>2, <2>2, <2>3, UsersOwe, ArrivalIsOwn DEF RemoteWritten
  <1>3. CASE Looks
    <2>1. CASE ScanLocal
      <3>1. UNCHANGED local /\ pc' = "scanned" /\ le' = Stat(local)
        BY <2>1 DEF ScanLocal, disk
      <3>2. local # None => le'.mtime <= local.mtime
        BY <3>1, Numbers, Signatures
      <3> QED BY <3>1, <3>2 DEF ScanInOrder
    <2>2. CASE ScanRemote /\ pc' # "idle"
      <3>1. /\ UNCHANGED scene /\ pc = "scanned" /\ le' = le
            /\ pc' \notin {"vf_compare", "up_remove", "up_send"}
        BY <1>3, <2>2, LooksDo, ScanSees
      <3>2. ASSUME pc' = "vf_fetch" PROVE re'.mtime <= le.mtime + MTimeTol
        <4>1. /\ le # None /\ remote # None /\ re' = Listing(remote)
              /\ Distance(le.mtime, re'.mtime) <= MTimeTol
          BY <2>2, <3>2, ScanSees
        <4>2. re'.mtime \in Nat /\ le.mtime \in Nat
          BY <4>1, Numbers, Signatures
        <4> QED BY <4>1, <4>2, DecideAssumption DEF Distance
      <3> QED BY <3>1, <3>2 DEF scene, ScanInOrder
    <2>3. CASE ~ScanLocal /\ ~(ScanRemote /\ pc' # "idle")
      <3>1. /\ UNCHANGED scene /\ base' = base /\ le' = le /\ re' = re /\ pc # "idle"
            /\ pc' # "vf_fetch" /\ (pc' = "vf_compare" => pc = "vf_fetch")
            /\ pc' \in {"up_remove", "up_send"} =>
                  \/ pc = "up_snap" /\ local # None /\ buf' = local
                  \/ pc = "up_remove" /\ buf' = buf
        BY <1>3, <2>3, LooksDo, Resolves
      <3> QED BY <3>1 DEF scene, ScanInOrder, TimesInOrder
    <2> QED BY <1>3, <2>1, <2>2, <2>3
  <1>4. CASE Acts
    <2>1. /\ le' = le /\ re' = re /\ buf' = buf /\ base' = base /\ pc # "idle"
          /\ pc' \notin {"vf_fetch", "vf_compare", "up_remove"}
          /\ pc' = "up_send" => pc = "up_remove"
          /\ local' \in {local, None} \/ local'.mtime = now + 1
      BY <1>4, ActsDo
    <2>2. le # None => le.mtime <= now + 1
      BY Numbers DEF ClockAhead
    <2> QED BY <2>1, <2>2 DEF ScanInOrder
  <1>5. CASE Records
    BY <1>5, RecordsDo DEF ScanInOrder
  <1>6. CASE UNCHANGED vars
    BY <1>6 DEF vars, disk, ScanInOrder
  <1> QED BY <1>1, <1>2, <1>3, <1>4, <1>5, <1>6, StepKinds

\* A user's write that races the scan shows as one.
LEMMA RaceStays ==
    ASSUME TypeOK, TypeOK', Apart, TruthInv, Ours, slipped' = {}, [Next]_vars
    PROVE  RaceShows'
  <1> USE DEF TruthInv, Ours
  <1>1. CASE Ends
    BY <1>1 DEF Ends, RaceShows
  <1>2. CASE UserSteps
    <2>1. UNCHANGED <<pc, le, re>>
      BY <1>2, UsersDo
    <2>2. CASE VaultWritten /\ VaultOwed
      <3>1. /\ local' # None /\ UNCHANGED remote
            /\ remote # None => /\ local'.mtime > remote.mtime + MTimeTol
                                /\ remote.body # local'.body
            /\ re # None => local'.mtime > re.mtime + MTimeTol
        BY <2>2 DEF VaultWritten, VaultOwed
      <3>2. pc \in {"record", "vf_fetch", "vf_compare"} => re # None
        BY DEF TypeOK, Registers
      <3> QED BY <2>1, <3>1, <3>2 DEF RaceShows
    <2>3. CASE RemoteWritten /\ RemoteOwed
      <3>1. /\ remote' # None /\ UNCHANGED local
            /\ local # None => local.body # remote'.body
            /\ remote'.mtime > now + MTimeTol
        BY <2>3 DEF RemoteWritten, RemoteOwed
      <3>2. le # None => ~(remote'.mtime <= le.mtime + MTimeTol)
        BY <3>1, Numbers, DecideAssumption DEF ClockAhead, TypeOK, RemoteFile
      <3> QED BY <2>1, <3>1, <3>2 DEF RaceShows
    <2>4. CASE local' \in {local, None} /\ remote' \in {remote, None}
      BY <2>1, <2>4 DEF RaceShows
    <2>5. CASE Materialize
      BY <2>5, ArrivalIsOwn DEF RaceShows
    <2> QED BY <1>2, <2>2, <2>3, <2>4, <2>5, UsersOwe
  <1>3. CASE Looks
    <2>1. CASE ScanLocal
      BY <2>1 DEF ScanLocal, disk, RaceShows
    <2>2. CASE ScanRemote /\ pc' # "idle"
      <3>1. /\ UNCHANGED scene /\ pc = "scanned" /\ le' = le /\ re' = Listing(remote)
            /\ pc' \notin {"scanned", "vf_compare"}
        BY <1>3, <2>2, LooksDo, ScanSees
      <3>2. ASSUME pc' \in {"record", "vf_fetch"}
            PROVE  /\ le # None /\ remote # None /\ re'.mtime = remote.mtime
                   /\ remote.mtime <= le.mtime + MTimeTol
        <4>1. le # None /\ remote # None
          BY <2>2, <3>2, ScanSees
        <4>2. re'.mtime = remote.mtime
          BY <3>1, <4>1, Signatures
        <4>3. CASE pc' = "record"
          <5>1. base # None /\ ~LocalMoved(le, base) /\ ~RemoteMoved(Listing(remote), base)
            BY <2>2, <4>3, ScanSees
          <5>2. le.mtime = base.lmtime
            BY <4>1, <5>1, Numbers, LocalMovedIs
          <5> QED BY <3>1, <4>1, <4>2, <5>1, <5>2 DEF TimesInOrder
        <4>4. CASE pc' = "vf_fetch"
          <5>1. Distance(le.mtime, remote.mtime) <= MTimeTol
            BY <2>2, <4>4, <4>1, Signatures, ScanSees
          <5> QED BY <4>1, <4>2, <5>1, Numbers, DecideAssumption DEF Distance
        <4> QED BY <3>2, <4>3, <4>4
      <3> QED BY <3>1, <3>2 DEF scene, RaceShows
    <2>3. CASE ~ScanLocal /\ ~(ScanRemote /\ pc' # "idle")
      <3>1. /\ UNCHANGED scene /\ le' = le /\ re' = re
            /\ pc' \notin {"scanned", "record", "vf_fetch"}
            /\ pc' = "vf_compare" => pc = "vf_fetch"
        BY <1>3, <2>3, LooksDo, Resolves
      <3> QED BY <3>1 DEF scene, RaceShows
    <2> QED BY <1>3, <2>1, <2>2, <2>3
  <1>4. CASE Acts
    <2>1. pc' \notin {"scanned", "record", "vf_fetch", "vf_compare"}
      BY <1>4, ActsDo
    <2> QED BY <2>1 DEF RaceShows
  <1>5. CASE Records
    BY <1>5, RecordsDo DEF RaceShows
  <1>6. CASE UNCHANGED vars
    BY <1>6 DEF vars, disk, cloud, RaceShows
  <1> QED BY <1>1, <1>2, <1>3, <1>4, <1>5, <1>6, StepKinds

\* What a fetch serves of content that has not arrived is empty.
LEMMA ServedPending ==
    ASSUME TypeOK, TruthInv, remote # None, remote.stage # "full"
    PROVE  Served # remote.body /\ Served.size = 0
  <1>1. Served.size = 0
    BY Numbers DEF Served, TypeOK, RemoteFile, Body
  <1>2. remote.body.size > 0 /\ remote.body.size \in Nat
    BY Numbers DEF TruthInv, PendingIsNews
  <1> QED BY <1>1, <1>2

\* Content that has not arrived stays elsewhere.
LEMMA PendingOwedStays ==
    ASSUME TypeOK, TypeOK', Apart, TruthInv, Ours, slipped' = {}, [Next]_vars
    PROVE  PendingIsElsewhere'
  <1> USE DEF TruthInv, Ours
  <1>1. CASE Ends
    BY <1>1 DEF Ends, scene, PendingIsElsewhere
  <1>2. CASE UserSteps
    <2>1. UNCHANGED buf
      BY <1>2, UsersDo
    <2>2. CASE VaultWritten /\ VaultOwed
      BY <2>1, <2>2 DEF VaultWritten, VaultOwed, PendingIsElsewhere
    <2>3. CASE local' = None /\ VaultOwed /\ UNCHANGED <<remote, rev, now>>
      BY <2>1, <2>3 DEF VaultOwed, PendingIsElsewhere
    <2>4. CASE RemoteWritten /\ RemoteOwed
      BY <2>1, <2>4 DEF RemoteWritten, RemoteOwed, PendingIsElsewhere
    <2>5. CASE remote' = None
      BY <2>5 DEF PendingIsElsewhere
    <2>6. CASE Materialize
      BY <2>6, ArrivalIsOwn DEF PendingIsElsewhere
    <2> QED BY <1>2, <2>2, <2>3, <2>4, <2>5, <2>6, UsersOwe
  <1>3. CASE Looks
    <2>1. UNCHANGED scene
      BY <1>3, LooksDo
    <2>2. buf' = buf \/ (local # None /\ buf' = local) \/ buf'.body = Served
      BY <1>3, LooksDo, ScanSees DEF ScanLocal
    <2> QED BY <2>1, <2>2, ServedPending DEF scene, PendingIsElsewhere
  <1>4. CASE Acts
    <2>1. /\ buf' = buf /\ owed' = owed
          /\ remote' \in {remote, None} \/ remote'.stage = "full"
          /\ local' \in {local, None} \/ (buf # None /\ local'.body = buf.body)
      BY <1>4, ActsDo DEF TypeOK, Registers
    <2> QED BY <2>1 DEF PendingIsElsewhere
  <1>5. CASE Records
    <2>1. /\ UNCHANGED <<remote, owed>> /\ buf' = None
          /\ local' = local \/ (local # None /\ local'.body = local.body)
      BY <1>5, RecordsDo
    <2> QED BY <2>1 DEF PendingIsElsewhere
  <1>6. CASE UNCHANGED vars
    BY <1>6 DEF vars, disk, cloud, world, PendingIsElsewhere
  <1> QED BY <1>1, <1>2, <1>3, <1>4, <1>5, <1>6, StepKinds

\* What the pass fetched or sent is in iCloud while it is owed.
LEMMA CarriedStays ==
    ASSUME TypeOK, TypeOK', Apart, TruthInv, Ours, slipped' = {}, [Next]_vars
    PROVE  CarriedIsThere'
  <1> USE DEF TruthInv, Ours
  <1>1. CASE Ends
    BY <1>1 DEF Ends, CarriedIsThere
  <1>2. CASE UserSteps
    <2> SUFFICES ASSUME pc \in {"dn_install", "dn_stamp", "vf_compare", "up_commit"},
                        buf' = buf, buf # None, buf.body \in owed'
                 PROVE  remote' # None /\ remote'.body = buf.body
      BY <1>2, UsersDo DEF CarriedIsThere, TypeOK, Registers
    <2>1. CASE VaultOwed /\ UNCHANGED remote
      BY <2>1 DEF VaultOwed, CarriedIsThere
    <2>2. CASE RemoteOwed
      BY <2>2 DEF RemoteOwed, CarriedIsThere
    <2>3. CASE Materialize
      BY <2>3, ArrivalIsOwn DEF CarriedIsThere
    <2> QED BY <1>2, <2>1, <2>2, <2>3, UsersOwe DEF VaultWritten
  <1>3. CASE Looks
    <2>1. UNCHANGED scene
      BY <1>3, LooksDo
    <2>2. pc' \in {"dn_install", "dn_stamp", "vf_compare", "up_commit"} =>
              remote # None /\ buf'.body = Served
      BY <1>3, LooksDo, ScanSees, Resolves DEF ScanLocal, FetchGood
    <2>3. remote # None /\ Served \in owed => remote.body = Served
      <3>1. CASE remote # None /\ remote.stage # "full"
        BY <3>1, ServedPending DEF OwedAreBorn
      <3>2. CASE remote.stage = "full"
        BY <3>2 DEF Served
      <3> QED BY <3>1, <3>2
    <2> QED BY <2>1, <2>2, <2>3 DEF scene, CarriedIsThere
  <1>4. CASE Acts
    <2>1. /\ buf' = buf /\ owed' = owed
          /\ pc' \in {"dn_install", "dn_stamp", "vf_compare", "up_commit"} =>
                \/ pc = "dn_install" /\ UNCHANGED remote
                \/ remote' # None /\ remote'.body = buf.body
      BY <1>4, ActsDo
    <2> QED BY <2>1 DEF CarriedIsThere
  <1>5. CASE Records
    BY <1>5, RecordsDo DEF CarriedIsThere
  <1>6. CASE UNCHANGED vars
    BY <1>6 DEF vars, cloud, world, CarriedIsThere
  <1> QED BY <1>1, <1>2, <1>3, <1>4, <1>5, <1>6, StepKinds

\* A vault file the row finds unmoved is the one that was scanned.
LEMMA UnmovedIsScanned ==
    ASSUME TypeOK, LocalSince, pc # "idle", base # None, local # None,
           ~LocalMoved(Stat(local), base)
    PROVE  le = Stat(local) /\ LocalUnmoved
  BY Signatures DEF LocalSince, LocalUnmoved

\* Nor does a fresh write, or a download's install, leave it unmoved.
LEMMA InstallMoves ==
    ASSUME TypeOK, TypeOK', ClockAhead, base # None, local' # None,
           local'.mtime = now + 1
    PROVE  LocalMoved(Stat(local'), base)
  <1>1. Stat(local').mtime = now + 1 /\ now + 1 \in Nat /\ now \in Nat
    BY Numbers, StatTimes DEF TypeOK
  <1>2. base.lmtime \in Nat /\ base.lmtime < now + 1
    BY Numbers DEF ClockAhead
  <1> QED BY <1>1, <1>2, LocalMovedIs

\* Two signatures one row finds unmoved are the same.
LEMMA UnmovedAlike ==
    ASSUME NEW l, NEW k, NEW b, l.mtime \in Nat, k.mtime \in Nat, b.lmtime \in Nat,
           ~LocalMoved(l, b)
    PROVE  ~LocalMoved(k, b) <=> k.size = l.size /\ k.mtime = l.mtime
  BY LocalMovedIs

\* An owed body in a vault file the row finds unmoved stays in iCloud.
LEMMA VouchedStays ==
    ASSUME TypeOK, TypeOK', Apart, TruthInv, Ours, slipped' = {}, [Next]_vars
    PROVE  VouchedIsThere'
  <1> USE DEF TruthInv, Ours
  <1>1. CASE Ends
    BY <1>1 DEF Ends, scene, VouchedIsThere
  <1>2. CASE UserSteps
    <2>1. UNCHANGED base
      BY <1>2, UsersDo
    <2>2. CASE VaultWritten \/ local' = None
      BY <2>1, <2>2 DEF VaultWritten, VouchedIsThere
    <2>3. CASE RemoteOwed /\ UNCHANGED local
      BY <2>1, <2>3 DEF RemoteOwed, VouchedIsThere
    <2>4. CASE Materialize
      BY <2>4, ArrivalIsOwn DEF VouchedIsThere
    <2> QED BY <1>2, <2>2, <2>3, <2>4, UsersOwe DEF RemoteWritten
  <1>3. CASE Looks
    BY <1>3, LooksDo DEF scene, VouchedIsThere
  <1>4. CASE Acts
    <2> SUFFICES ASSUME base # None, local' # None, ~LocalMoved(Stat(local'), base),
                        local'.body \in owed
                 PROVE  remote' # None /\ remote'.body = local'.body
      BY <1>4, ActsDo DEF VouchedIsThere
    <2>1. pc # "dn_install" /\ local' = local /\ pc # "idle"
      BY <1>4, ActsDo, InstallMoves
    <2>2. le = Stat(local) /\ LocalUnmoved /\ le # None
      BY <2>1, UnmovedIsScanned, Signatures
    <2>3. pc \notin {"del_remote", "up_remove", "up_send"}
      BY <2>1, <2>2 DEF DecisionHolds, ValveIsNotOwed
    <2>4. UNCHANGED remote
      BY <1>4, <2>3, ActsDo
    <2> QED BY <2>1, <2>4 DEF VouchedIsThere
  <1>5. CASE Records
    <2>1. UNCHANGED <<remote, owed>>
      BY <1>5, RecordsDo
    <2> SUFFICES ASSUME local' # None, ~LocalMoved(Stat(local'), base'),
                        local'.body \in owed
                 PROVE  remote # None /\ remote.body = local'.body
      BY <2>1 DEF VouchedIsThere
    <2>2. CASE pc = "record"
      <3>1. /\ base' = Row(le, re, re.etag) /\ le # None /\ UNCHANGED local
            /\ base # None /\ ~LocalMoved(le, base)
        BY <1>5, <2>2, RecordsDo DEF DecisionHolds
      <3>2. Stat(local).size = le.size /\ Stat(local).mtime = le.mtime
        BY <3>1, Numbers, Signatures, RowIs, LocalMovedIs
      <3>3. ~LocalMoved(Stat(local), base)
        BY <3>1, <3>2, Numbers, UnmovedAlike
      <3> QED BY <3>1, <3>3 DEF VouchedIsThere
    <2>3. CASE pc = "up_commit"
      <3>1. /\ base'.lmtime = buf.mtime /\ buf # None /\ UNCHANGED local
        BY <1>5, <2>3, RecordsDo, RowIs
      <3>2. local.mtime = buf.mtime
        BY <3>1, Numbers, Signatures, LocalMovedIs
      <3>3. local = buf
        BY <2>3, <3>1, <3>2, Numbers, DecideAssumption DEF SnapshotHolds
      <3> QED BY <2>3, <3>1, <3>3 DEF CarriedIsThere
    <2>4. CASE pc \in {"dn_stamp", "vf_compare"}
      <3>1. local'.body = buf.body
        BY <1>5, <2>4, RecordsDo
      <3> QED BY <2>4, <3>1 DEF CarriedIsThere
    <2> QED BY <1>5, <2>2, <2>3, <2>4, RecordsDo
  <1>6. CASE UNCHANGED vars
    BY <1>6 DEF vars, cloud, disk, world, VouchedIsThere
  <1> QED BY <1>1, <1>2, <1>3, <1>4, <1>5, <1>6, StepKinds

\* A remote file listed empty, or served empty, holds no owed body.
LEMMA EmptyIsNotOwed ==
    ASSUME TypeOK, TruthInv, Ours, remote # None,
           ListedSize(remote) = 0 \/ Served.size = 0
    PROVE  remote.body \notin owed
  <1> SUFFICES ASSUME remote.body \in owed PROVE FALSE
    OBVIOUS
  <1>1. remote.stage = "full" /\ remote.body.size > 0 /\ remote.body.size \in Nat
    BY Numbers DEF Ours, PendingIsElsewhere, OwedAreBorn
  <1>2. ListedSize(remote) = remote.body.size /\ Served = remote.body
    BY <1>1 DEF ListedSize, Served
  <1> QED BY <1>1, <1>2

\* The valves keep off what is owed.
LEMMA ValveStays ==
    ASSUME TypeOK, TypeOK', Apart, TruthInv, Ours, slipped' = {}, [Next]_vars
    PROVE  ValveIsNotOwed'
  <1> USE DEF TruthInv, Ours
  <1>1. CASE Ends
    BY <1>1 DEF Ends, ValveIsNotOwed
  <1>2. CASE UserSteps
    <2>1. UNCHANGED <<base, pc, le, re>>
      BY <1>2, UsersDo
    <2>2. LocalUnmoved' = LocalUnmoved
      BY <2>1 DEF LocalUnmoved
    <2>3. CASE VaultWritten
      <3>1. le # None => Stat(local') # le
        BY <2>3, Numbers DEF VaultWritten
      <3> QED BY <2>1, <2>2, <3>1 DEF ValveIsNotOwed, LocalUnmoved
    <2>4. CASE local' = None
      BY <2>4 DEF ValveIsNotOwed
    <2>5. CASE RemoteOwed /\ UNCHANGED local
      BY <2>1, <2>2, <2>5 DEF RemoteOwed, ValveIsNotOwed
    <2>6. CASE Materialize
      BY <2>1, <2>2, <2>6, ArrivalIsOwn DEF ValveIsNotOwed
    <2> QED BY <1>2, <2>3, <2>4, <2>5, <2>6, UsersOwe DEF RemoteWritten
  <1>3. CASE Looks
    <2> SUFFICES ASSUME \/ pc' = "cf_probe" /\ re'.size = 0
                        \/ pc' \in {"up_snap", "up_remove", "up_send"},
                        base # None, le' # None, ~LocalMoved(le', base),
                        local # None, Stat(local) = le', local.body \in owed
                 PROVE  FALSE
      BY <1>3, LooksDo DEF scene, ValveIsNotOwed, LocalUnmoved
    <2>1. remote # None /\ remote.body = local.body
      BY DEF VouchedIsThere
    <2>2. ListedSize(remote) # 0 /\ Served.size # 0
      BY <2>1, EmptyIsNotOwed
    <2>3. CASE ScanLocal
      BY <2>3 DEF ScanLocal
    <2>4. CASE ScanRemote /\ pc' # "idle"
      <3>1. le' = le /\ re'.size # 0
        BY <2>1, <2>2, <2>4, ScanSees, Signatures
      <3> QED BY <2>1, <2>4, <3>1, ScanSees
    <2>5. CASE ~ScanLocal /\ ~(ScanRemote /\ pc' # "idle")
      <3>1. le' = le /\ re' = re /\ LocalUnmoved
        BY <1>3, <2>5, LooksDo DEF LocalUnmoved
      <3>2. pc \notin {"vf_fetch", "vf_compare", "cf_backup", "up_snap", "up_remove"}
        BY <3>1 DEF DecisionHolds, ValveIsNotOwed
      <3>3. pc = "cf_probe" /\ pc' = "up_snap" /\ (pc' = ResolveStep \/ FetchUnreadable)
        BY <1>3, <2>5, <3>2, LooksDo, Resolves
      <3>4. pc' = ResolveStep /\ re # None
        BY <2>2, <3>3 DEF FetchUnreadable, TypeOK, Registers
      <3>5. re.size = 0
        BY <3>1, <3>3, <3>4, Numbers DEF ResolveStep
      <3> QED BY <3>1, <3>3, <3>5 DEF ValveIsNotOwed
    <2> QED BY <1>3, <2>3, <2>4, <2>5
  <1>4. CASE Acts
    <2>1. /\ le' = le /\ base' = base /\ owed' = owed
          /\ pc' \notin {"cf_probe", "up_snap", "up_remove"}
          /\ pc' = "up_send" => pc = "up_remove" /\ UNCHANGED local
      BY <1>4, ActsDo
    <2> QED BY <2>1 DEF ValveIsNotOwed, LocalUnmoved
  <1>5. CASE Records
    BY <1>5, RecordsDo DEF ValveIsNotOwed
  <1>6. CASE UNCHANGED vars
    BY <1>6 DEF vars, cloud, disk, world, ValveIsNotOwed, LocalUnmoved
  <1> QED BY <1>1, <1>2, <1>3, <1>4, <1>5, <1>6, StepKinds

\* A vault file with a time of its own shows as a remote move.
LEMMA MovedStays ==
    ASSUME TypeOK, TypeOK', Apart, TruthInv, Ours, slipped' = {}, [Next]_vars
    PROVE  MovedShows'
  <1> USE DEF TruthInv, Ours
  <1>1. CASE Ends
    BY <1>1 DEF Ends, scene, MovedShows
  <1>2. CASE UserSteps
    <2>1. UNCHANGED base
      BY <1>2, UsersDo
    <2>2. CASE VaultWritten \/ local' = None
      BY <2>1, <2>2 DEF VaultWritten, MovedShows
    <2>3. CASE RemoteOwed /\ UNCHANGED local
      BY <2>1, <2>3 DEF RemoteOwed, MovedShows
    <2>4. CASE Materialize
      BY <2>4, ArrivalIsOwn DEF MovedShows
    <2> QED BY <1>2, <2>2, <2>3, <2>4, UsersOwe DEF RemoteWritten
  <1>3. CASE Looks
    BY <1>3, LooksDo DEF scene, MovedShows
  <1>4. CASE Acts
    <2>1. CASE pc = "dn_install"
      <3> SUFFICES ASSUME base # None, local'.body \in owed
                   PROVE  RemoteMoved(Stat(local'), base)
        BY <1>4, ActsDo DEF MovedShows
      <3>1. local' # None /\ local'.body = buf.body /\ local'.mtime = now + 1
        BY <1>4, <2>1, ActsDo
      <3>2. remote # None /\ remote.body = buf.body
        BY <2>1, <3>1 DEF CarriedIsThere
      <3>3. Listing(remote).size = buf.body.size /\ Listing(remote).mtime = remote.mtime
        BY <3>1, <3>2, Signatures, Numbers DEF PendingIsElsewhere, ListedSize
      <3>4. RemoteMoved(Listing(remote), base)
        BY <2>1, <3>1, <3>2 DEF FetchedIsNews
      <3>5. /\ remote.mtime \in Nat /\ base.rmtime \in Nat /\ now \in Nat
            /\ remote.mtime <= now /\ base.rmtime <= remote.mtime + MTimeTol
        BY <3>2, Numbers DEF ClockAhead, TimesInOrder
      <3>6. buf.body.size # base.rsize \/ remote.mtime > base.rmtime + MTimeTol
        BY <3>3, <3>4, <3>5, RemoteMovedIs, DecideAssumption
      <3>7. /\ Stat(local').size = buf.body.size /\ Stat(local').mtime = now + 1
            /\ now + 1 \in Nat
        BY <3>1, <3>5, StatTimes DEF TypeOK
      <3>8. now + 1 > base.rmtime + MTimeTol \/ buf.body.size # base.rsize
        BY <3>5, <3>6, DecideAssumption
      <3> QED BY <3>5, <3>7, <3>8, RemoteMovedIs
    <2>2. CASE pc # "dn_install"
      BY <1>4, <2>2, ActsDo DEF MovedShows
    <2> QED BY <2>1, <2>2
  <1>5. CASE Records
    <2>1. CASE pc \in {"record", "vf_compare"}
      <3> SUFFICES ASSUME local # None, LocalMoved(Stat(local), base')
                   PROVE  RemoteMoved(Stat(local), base')
        BY <1>5, <2>1, RecordsDo DEF MovedShows
      <3>1. /\ le # None /\ re # None /\ base'.rmtime = re.mtime
            /\ base'.lsize = le.size /\ base'.lmtime = le.mtime
        BY <1>5, <2>1, RecordsDo, RowIs
      <3>2. Stat(local) # le
        BY <3>1, Numbers, LocalMovedIs
      <3>3. local.mtime > re.mtime + MTimeTol
        BY <2>1, <3>2 DEF RaceShows
      <3> QED BY <3>1, <3>3, Numbers, Signatures, RemoteMovedIs
    <2>2. CASE pc = "up_commit"
      <3> SUFFICES ASSUME local # None, LocalMoved(Stat(local), base')
                   PROVE  RemoteMoved(Stat(local), base')
        BY <1>5, <2>2, RecordsDo DEF MovedShows
      <3>1. /\ buf # None /\ base'.rmtime = buf.mtime
            /\ base'.lsize = buf.body.size /\ base'.lmtime = buf.mtime
        BY <1>5, <2>2, RecordsDo, RowIs
      <3>2. local # buf
        BY <3>1, Numbers, Signatures, LocalMovedIs
      <3>3. local.mtime > buf.mtime + MTimeTol
        BY <2>2, <3>2 DEF SnapshotHolds
      <3> QED BY <3>1, <3>3, Numbers, Signatures, RemoteMovedIs
    <2>3. CASE pc = "dn_stamp"
      <3>1. /\ local # None /\ re # None
            /\ base'.lsize = local.body.size /\ base'.lmtime = re.mtime
            /\ local' # None /\ local'.body = local.body /\ local'.mtime = re.mtime
        BY <1>5, <2>3, RecordsDo
      <3>2. Stat(local').size = local.body.size /\ Stat(local').mtime = re.mtime
        BY <3>1, StatTimes DEF TypeOK
      <3>3. ~LocalMoved(Stat(local'), base')
        BY <3>1, <3>2, Numbers, LocalMovedIs
      <3> QED BY <3>3 DEF MovedShows
    <2> QED BY <1>5, <2>1, <2>2, <2>3, RecordsDo
  <1>6. CASE UNCHANGED vars
    BY <1>6 DEF vars, disk, world, MovedShows
  <1> QED BY <1>1, <1>2, <1>3, <1>4, <1>5, <1>6, StepKinds

\* So does what an upload froze.
LEMMA SentStays ==
    ASSUME TypeOK, TypeOK', Apart, TruthInv, Ours, slipped' = {}, [Next]_vars
    PROVE  SentShows'
  <1> USE DEF TruthInv, Ours
  <1>1. CASE Ends
    BY <1>1 DEF Ends, SentShows
  <1>2. CASE UserSteps
    <2> SUFFICES ASSUME pc \in {"up_remove", "up_send"}, buf # None,
                        base # None, buf.body \in owed'
                 PROVE  RemoteMoved(Stat(buf), base)
      BY <1>2, UsersDo DEF SentShows, TypeOK, Registers
    <2>1. CASE VaultOwed \/ RemoteOwed
      BY <2>1 DEF VaultOwed, RemoteOwed, SentShows
    <2>2. CASE Materialize
      BY <2>2, ArrivalIsOwn DEF SentShows
    <2> QED BY <1>2, <2>1, <2>2, UsersOwe
  <1>3. CASE Looks
    <2>1. CASE pc = "up_snap"
      <3> SUFFICES ASSUME buf' = local, local # None, base # None, local.body \in owed
                   PROVE  RemoteMoved(Stat(local), base)
        BY <1>3, <2>1, LooksDo, ScanSees DEF ScanLocal, scene, SentShows
      <3>1. CASE LocalMoved(Stat(local), base)
        BY <3>1 DEF MovedShows
      <3>2. CASE ~LocalMoved(Stat(local), base)
        BY <2>1, <3>2, UnmovedIsScanned DEF ValveIsNotOwed
      <3> QED BY <3>1, <3>2
    <2>2. CASE pc # "up_snap"
      <3>1. /\ UNCHANGED scene /\ base' = base
            /\ pc' \in {"up_remove", "up_send"} => pc = "up_remove" /\ buf' = buf
        BY <1>3, <2>2, LooksDo, ScanSees, Resolves DEF ScanLocal
      <3> QED BY <3>1 DEF scene, SentShows
    <2> QED BY <2>1, <2>2
  <1>4. CASE Acts
    <2>1. /\ buf' = buf /\ base' = base /\ owed' = owed /\ pc' # "up_remove"
          /\ pc' = "up_send" => pc = "up_remove"
      BY <1>4, ActsDo
    <2> QED BY <2>1 DEF SentShows
  <1>5. CASE Records
    BY <1>5, RecordsDo DEF SentShows
  <1>6. CASE UNCHANGED vars
    BY <1>6 DEF vars, world, SentShows
  <1> QED BY <1>1, <1>2, <1>3, <1>4, <1>5, <1>6, StepKinds

\* An owed snapshot is the vault's file.
LEMMA SnapshotOwnStays ==
    ASSUME TypeOK, TypeOK', Apart, TruthInv, Ours, slipped' = {}, [Next]_vars
    PROVE  SnapshotIsOwn'
  <1> USE DEF TruthInv, Ours
  <1>1. CASE Ends
    BY <1>1 DEF Ends, SnapshotIsOwn
  <1>2. CASE UserSteps
    <2> SUFFICES ASSUME pc \in {"up_remove", "up_send", "up_commit"}, buf # None,
                        local' # buf, buf.body \in owed'
                 PROVE  FALSE
      BY <1>2, UsersDo DEF SnapshotIsOwn, TypeOK, Registers
    <2>1. CASE VaultOwed
      BY <2>1 DEF VaultOwed, SnapshotIsOwn
    <2>2. CASE RemoteOwed /\ UNCHANGED local
      BY <2>2 DEF RemoteOwed, SnapshotIsOwn
    <2>3. CASE Materialize
      BY <2>3, ArrivalIsOwn DEF SnapshotIsOwn
    <2> QED BY <1>2, <2>1, <2>2, <2>3, UsersOwe DEF RemoteWritten
  <1>3. CASE Looks
    <2>1. /\ UNCHANGED scene
          /\ pc' \in {"up_remove", "up_send", "up_commit"} =>
                buf' = local \/ (pc = "up_remove" /\ buf' = buf)
      BY <1>3, LooksDo, ScanSees, Resolves DEF ScanLocal
    <2> QED BY <2>1 DEF scene, SnapshotIsOwn
  <1>4. CASE Acts
    <2>1. /\ buf' = buf /\ owed' = owed
          /\ pc' \in {"up_remove", "up_send", "up_commit"} =>
                pc \in {"up_remove", "up_send"} /\ UNCHANGED local
      BY <1>4, ActsDo
    <2> QED BY <2>1 DEF SnapshotIsOwn
  <1>5. CASE Records
    BY <1>5, RecordsDo DEF SnapshotIsOwn
  <1>6. CASE UNCHANGED vars
    BY <1>6 DEF vars, disk, world, SnapshotIsOwn
  <1> QED BY <1>1, <1>2, <1>3, <1>4, <1>5, <1>6, StepKinds

\* What a record lists under the size of its content, a fetch serves in full.
LEMMA OwedIsServed ==
    ASSUME TypeOK, Ours, remote # None, remote.body \in owed
    PROVE  remote.stage = "full" /\ Served = remote.body
  BY DEF Ours, PendingIsElsewhere, Served

\* An owed body in a remote file the row finds unmoved is the vault's.
LEMMA KnownStays ==
    ASSUME TypeOK, TypeOK', Apart, TruthInv, Ours, slipped' = {}, [Next]_vars
    PROVE  KnownIsOurs'
  <1> USE DEF TruthInv, Ours
  <1>1. CASE Ends
    BY <1>1 DEF Ends, scene, KnownIsOurs
  <1>2. CASE UserSteps
    <2>1. UNCHANGED base
      BY <1>2, UsersDo
    <2>2. CASE VaultOwed /\ UNCHANGED remote
      <3>1. base # None /\ remote # None /\ remote.body \in owed' => remote.body \in owed
        BY <2>2 DEF VaultOwed
      <3> QED BY <2>1, <2>2, <3>1 DEF VaultOwed, KnownIsOurs
    <2>3. CASE RemoteWritten
      BY <2>1, <2>3 DEF RemoteWritten, KnownIsOurs
    <2>4. CASE remote' = None
      BY <2>4 DEF KnownIsOurs
    <2>5. CASE Materialize
      BY <2>5, ArrivalIsOwn DEF KnownIsOurs
    <2> QED BY <1>2, <2>2, <2>3, <2>4, <2>5, UsersOwe DEF VaultWritten
  <1>3. CASE Looks
    BY <1>3, LooksDo DEF scene, KnownIsOurs
  <1>4. CASE Acts
    <2> SUFFICES ASSUME base # None, remote' # None, remote'.body \in owed,
                        ~RemoteMoved(Listing(remote'), base)
                 PROVE  UNCHANGED <<local, remote>>
      BY <1>4, ActsDo DEF KnownIsOurs
    <2>1. CASE pc = "up_send"
      <3>1. /\ remote'.body = buf.body /\ remote'.mtime = buf.mtime
            /\ remote'.stage = "full" /\ buf # None
        BY <1>4, <2>1, ActsDo DEF TypeOK, Registers
      <3>2. RemoteMoved(Stat(buf), base)
        BY <2>1, <3>1 DEF SentShows
      <3>3. Listing(remote').size = buf.body.size /\ Listing(remote').mtime = buf.mtime
        BY <3>1 DEF Listing, ListedSize
      <3>4. Stat(buf).size = buf.body.size /\ Stat(buf).mtime = buf.mtime
        BY <3>1, StatTimes DEF TypeOK
      <3>5. buf.mtime \in Nat /\ base.rmtime \in Nat
        BY <3>1, Numbers
      <3> QED BY <3>2, <3>3, <3>4, <3>5, RemoteMovedIs
    <2>2. CASE pc \in {"del_local", "dn_install", "cf_aside"}
      <3>1. remote' = remote /\ remote # None
        BY <1>4, <2>2, ActsDo
      <3>2. RemoteMoved(Listing(remote), base)
        BY <2>2, <3>1, Numbers, WrittenMoved DEF DecisionHolds, FetchedIsNews
      <3> QED BY <3>1, <3>2
    <2>3. CASE pc \in {"del_remote", "up_remove"}
      BY <1>4, <2>3, ActsDo
    <2> QED BY <1>4, <2>1, <2>2, <2>3, ActsDo
  <1>5. CASE Records
    <2>1. UNCHANGED <<remote, owed>> /\ base' # None
      BY <1>5, RecordsDo
    <2> SUFFICES ASSUME remote # None, remote.body \in owed,
                        ~RemoteMoved(Listing(remote), base')
                 PROVE  /\ local' # None /\ local'.body = remote.body
                        /\ ~LocalMoved(Stat(local'), base')
                        /\ ~EtagMoved(Listing(remote), base')
      BY <2>1 DEF KnownIsOurs
    <2>2. remote.stage = "full" /\ Served = remote.body
      BY OwedIsServed
    <2>3. CASE pc = "up_commit"
      <3>1. /\ buf # None /\ UNCHANGED local /\ base'.etag = 0
            /\ base'.rmtime = buf.mtime
            /\ base'.lsize = buf.body.size /\ base'.lmtime = buf.mtime
        BY <1>5, <2>3, RecordsDo, RowIs
      <3>2. ~WrittenSince(buf.mtime)
        BY <3>1, Numbers, WrittenMoved
      <3>3. remote.body = buf.body
        BY <2>3, <3>2 DEF SnapshotHolds
      <3>4. local = buf
        BY <2>3, <3>3 DEF SnapshotIsOwn
      <3>5. ~LocalMoved(Stat(local), base')
        BY <3>1, <3>4, Numbers, Signatures, LocalMovedIs
      <3> QED BY <3>1, <3>3, <3>4, <3>5 DEF EtagMoved
    <2>4. CASE pc \in {"record", "dn_stamp", "vf_compare"}
      <3>1. /\ re # None /\ base'.rsize = re.size /\ base'.rmtime = re.mtime
            /\ base'.etag = re.etag
        BY <1>5, <2>4, RecordsDo, RowIs
      <3>2. re = Listing(remote)
        BY <2>4, <3>1, ListedRow DEF AsListed
      <3>3. ~EtagMoved(Listing(remote), base')
        BY <3>1, <3>2 DEF EtagMoved
      <3>4. CASE pc = "record"
        <4>1. /\ le # None /\ UNCHANGED local
              /\ base'.lsize = le.size /\ base'.lmtime = le.mtime
              /\ base # None /\ ~LocalMoved(le, base) /\ ~RemoteMoved(re, base)
          BY <1>5, <3>4, RecordsDo, RowIs DEF DecisionHolds
        <4>2. local # None /\ local.body = remote.body /\ ~LocalMoved(Stat(local), base)
          BY <3>2, <4>1 DEF KnownIsOurs
        <4>3. Stat(local).size = le.size /\ Stat(local).mtime = le.mtime
          BY <4>1, <4>2, Numbers, Signatures, UnmovedAlike
        <4>4. ~LocalMoved(Stat(local), base')
          BY <4>1, <4>3, Numbers, LocalMovedIs
        <4> QED BY <3>3, <4>1, <4>2, <4>4
      <3>5. CASE pc \in {"dn_stamp", "vf_compare"}
        <4>1. buf.body = remote.body
          BY <2>2, <3>2, <3>5 DEF FetchedIsServed, AsListed
        <4>2. local # None /\ local' # None /\ local'.body = remote.body
          BY <1>5, <3>5, <4>1, RecordsDo
        <4>3. CASE pc = "dn_stamp"
          <5>1. /\ base'.lsize = local'.body.size /\ base'.lmtime = re.mtime
                /\ local'.mtime = re.mtime
            BY <1>5, <4>3, RecordsDo
          <5>2. Stat(local').size = local'.body.size /\ Stat(local').mtime = re.mtime
            BY <4>2, <5>1, StatTimes DEF TypeOK
          <5>3. ~LocalMoved(Stat(local'), base')
            BY <3>1, <5>1, <5>2, Numbers, LocalMovedIs
          <5> QED BY <3>3, <4>2, <5>3
        <4>4. CASE pc = "vf_compare"
          <5>1. /\ base'.lsize = le.size /\ base'.lmtime = le.mtime /\ UNCHANGED local
                /\ le # None
            BY <1>5, <4>4, RecordsDo, RowIs
          <5>2. Stat(local) = le
            BY <4>2, <4>4, <5>1 DEF RaceShows
          <5>3. ~LocalMoved(Stat(local'), base')
            BY <5>1, <5>2, Numbers, LocalMovedIs
          <5> QED BY <3>3, <4>2, <5>3
        <4> QED BY <3>5, <4>3, <4>4
      <3> QED BY <2>4, <3>4, <3>5
    <2> QED BY <1>5, <2>3, <2>4, RecordsDo
  <1>6. CASE UNCHANGED vars
    BY <1>6 DEF vars, cloud, disk, world, KnownIsOurs
  <1> QED BY <1>1, <1>2, <1>3, <1>4, <1>5, <1>6, StepKinds

\* A conflict or a download is about news.
LEMMA NewsStays ==
    ASSUME TypeOK, TypeOK', Apart, TruthInv, Ours, slipped' = {}, [Next]_vars
    PROVE  FetchedIsNews'
  <1> USE DEF TruthInv, Ours
  <1>1. CASE Ends
    BY <1>1 DEF Ends, FetchedIsNews
  <1>2. CASE UserSteps
    <2>1. UNCHANGED <<base, pc>>
      BY <1>2, UsersDo
    <2>2. CASE VaultOwed /\ UNCHANGED remote
      <3>1. remote # None /\ remote.body \in owed' =>
                remote.body \in owed \/ (local' # None /\ remote.body = local'.body)
        BY <2>2 DEF VaultOwed
      <3> QED BY <2>1, <2>2, <3>1 DEF VaultOwed, FetchedIsNews
    <2>3. CASE RemoteWritten
      BY <2>1, <2>3 DEF RemoteWritten, FetchedIsNews
    <2>4. CASE remote' = None
      BY <2>4 DEF FetchedIsNews
    <2>5. CASE Materialize
      BY <2>5, ArrivalIsOwn DEF FetchedIsNews
    <2> QED BY <1>2, <2>2, <2>3, <2>4, <2>5, UsersOwe DEF VaultWritten
  <1>3. CASE Looks
    <2>1. UNCHANGED scene /\ base' = base
      BY <1>3, LooksDo
    <2>2. CASE ScanRemote /\ pc' # "idle"
      <3>1. pc' \in {"cf_probe", "cf_aside", "dn_fetch", "dn_install"} /\ base # None =>
                \/ RemoteMoved(Listing(remote), base)
                \/ EtagMoved(Listing(remote), base)
        BY <2>2, ScanSees
      <3> QED BY <2>1, <3>1 DEF scene, FetchedIsNews, KnownIsOurs
    <2>3. CASE ~(ScanRemote /\ pc' # "idle")
      <3>1. pc' \in {"cf_probe", "cf_aside", "dn_fetch", "dn_install"} =>
                pc \in {"cf_probe", "dn_fetch"} \/ base = None
        BY <1>3, <2>3, LooksDo, Resolves DEF ScanLocal, DecisionHolds
      <3> QED BY <2>1, <3>1 DEF scene, FetchedIsNews
    <2> QED BY <2>2, <2>3
  <1>4. CASE Acts
    <2>1. /\ base' = base /\ owed' = owed
          /\ pc' \in {"cf_probe", "cf_aside", "dn_fetch", "dn_install"} =>
                pc = "cf_aside" /\ UNCHANGED remote
      BY <1>4, ActsDo
    <2> QED BY <2>1 DEF FetchedIsNews
  <1>5. CASE Records
    BY <1>5, RecordsDo DEF FetchedIsNews
  <1>6. CASE UNCHANGED vars
    BY <1>6 DEF vars, cloud, world, FetchedIsNews
  <1> QED BY <1>1, <1>2, <1>3, <1>4, <1>5, <1>6, StepKinds

\* A plain upload replaces nothing that is owed.
LEMMA ReplacedOursStays ==
    ASSUME TypeOK, TypeOK', Apart, TruthInv, Ours, slipped' = {}, [Next]_vars
    PROVE  ReplacedIsOurs'
  <1> USE DEF TruthInv, Ours
  <1>1. CASE Ends
    BY <1>1 DEF Ends, ReplacedIsOurs
  <1>2. CASE UserSteps
    <2>1. UNCHANGED <<base, pc, op, re>>
      BY <1>2, UsersDo
    <2>2. CASE VaultOwed /\ UNCHANGED remote
      <3>1. remote # None /\ remote.body \in owed' =>
                remote.body \in owed \/ (local' # None /\ remote.body = local'.body)
        BY <2>2 DEF VaultOwed
      <3> QED BY <2>1, <2>2, <3>1 DEF VaultOwed, ReplacedIsOurs, AsListed
    <2>3. CASE RemoteWritten
      BY <2>1, <2>3 DEF RemoteWritten, ReplacedIsOurs, AsListed
    <2>4. CASE remote' = None
      BY <2>1, <2>4 DEF ReplacedIsOurs
    <2>5. CASE Materialize
      BY <2>1, <2>5, ArrivalIsOwn DEF ReplacedIsOurs, AsListed
    <2> QED BY <1>2, <2>2, <2>3, <2>4, <2>5, UsersOwe DEF VaultWritten
  <1>3. CASE Looks
    <2>1. UNCHANGED scene /\ base' = base
      BY <1>3, LooksDo
    <2>2. CASE ScanRemote /\ pc' # "idle"
      <3>1. /\ pc' \notin {"cf_backup", "up_remove"} /\ (pc' = "cf_probe" => op' = "conflict")
            /\ re' = Listing(remote)
            /\ pc' = "up_snap" /\ remote # None =>
                  base # None /\ LocalMoved(le, base) /\ ~RemoteMoved(Listing(remote), base)
            /\ pc # "idle"
        BY <2>2, ScanSees
      <3>2. re' # None => remote # None
        BY <3>1 DEF Listing
      <3>3. pc' = "up_snap" /\ remote # None => remote.body \notin owed
        BY <3>1, UnmovedIsScanned DEF KnownIsOurs
      <3> QED BY <2>1, <3>1, <3>2, <3>3 DEF scene, ReplacedIsOurs
    <2>3. CASE ~(ScanRemote /\ pc' # "idle")
      <3>1. /\ pc' \in {"cf_probe", "cf_backup"} =>
                  op' = "conflict" \/ (pc = "cf_probe" /\ op' = op)
            /\ pc' \in {"up_snap", "up_remove"} =>
                  /\ op' = op /\ re' = re
                  /\ pc \in {"cf_probe", "cf_backup", "up_snap"}
        BY <1>3, <2>3, LooksDo, Resolves DEF ScanLocal
      <3> QED BY <2>1, <3>1 DEF scene, ReplacedIsOurs, AsListed
    <2> QED BY <2>2, <2>3
  <1>4. CASE Acts
    <2>1. pc' \notin {"cf_probe", "cf_backup", "up_snap", "up_remove"}
      BY <1>4, ActsDo
    <2> QED BY <2>1 DEF ReplacedIsOurs
  <1>5. CASE Records
    BY <1>5, RecordsDo DEF ReplacedIsOurs
  <1>6. CASE UNCHANGED vars
    BY <1>6 DEF vars, cloud, world, ReplacedIsOurs, AsListed
  <1> QED BY <1>1, <1>2, <1>3, <1>4, <1>5, <1>6, StepKinds

\* The start satisfies OursInv.
LEMMA OursInit == TypeOK /\ Init => OursInv
  <1> SUFFICES ASSUME TypeOK, Init PROVE Ours
    BY DEF OursInv
  <1>1. /\ pc = "idle" /\ le = None /\ re = None /\ buf = None
        /\ owed = UNION { NonEmpty(b) : b \in BodyOf(local) \cup BodyOf(remote) }
    BY DEF Init
  <1>2. /\ MTimeTol \in Nat /\ now \in Nat /\ 1 <= now
    BY InitSides, DecideAssumption
  <1>3. OwedAreBorn
    <2> SUFFICES ASSUME NEW b \in BodyOf(local) \cup BodyOf(remote), NonEmpty(b) # {}
                 PROVE  b.size > 0 /\ b.mtime <= now
      BY <1>1 DEF OwedAreBorn, NonEmpty
    <2>1. b.size > 0
      BY DEF NonEmpty
    <2>2. b.mtime \in {1, now}
      BY InitSides DEF BodyOf
    <2> QED BY <1>2, <2>1, <2>2
  <1>4. base # None =>
           /\ ~LocalMoved(Stat(local), base) /\ ~EtagMoved(Listing(remote), base)
           /\ local # None /\ remote # None /\ local.body = remote.body
           /\ local.mtime = 1 /\ remote.mtime = 1 /\ base.lmtime = 1 /\ base.rmtime = 1
    <2> SUFFICES ASSUME base # None
                 PROVE  /\ ~LocalMoved(Stat(local), base)
                        /\ ~EtagMoved(Listing(remote), base)
      BY InitSides
    <2>1. ~LocalMoved(Stat(local), base)
      BY InitSides, Numbers, Signatures, LocalMovedIs
    <2>2. ~EtagMoved(Listing(remote), base)
      BY InitSides, Signatures DEF EtagMoved
    <2> QED BY <2>1, <2>2
  <1>5. TimesInOrder
    BY <1>1, <1>2, <1>4 DEF TimesInOrder
  <1>6. VouchedIsThere /\ MovedShows /\ KnownIsOurs
    BY <1>4 DEF VouchedIsThere, MovedShows, KnownIsOurs
  <1>7. PendingIsElsewhere
    BY InitSides DEF PendingIsElsewhere
  <1>8. /\ ScanInOrder /\ RaceShows /\ CarriedIsThere /\ ValveIsNotOwed /\ SentShows
        /\ SnapshotIsOwn /\ FetchedIsNews /\ ReplacedIsOurs
    BY <1>1 DEF ScanInOrder, RaceShows, CarriedIsThere, ValveIsNotOwed, SentShows,
       SnapshotIsOwn, FetchedIsNews, ReplacedIsOurs
  <1> QED BY <1>3, <1>5, <1>6, <1>7, <1>8 DEF Ours

\* OursInv is inductive together with TruthInv, where users write apart: the row,
\* the listing and the snapshot say where an owed body of the remote side is.
THEOREM OursInductive == ASSUME Apart PROVE Spec => [](TypeOK /\ TruthInv /\ OursInv)
  <1>1. Init => OursInv
    BY TypeInit, OursInit
  <1>2. TypeOK /\ TypeOK' /\ TruthInv /\ TruthInv' /\ OursInv /\ [Next]_vars => OursInv'
    <2> SUFFICES ASSUME TypeOK, TypeOK', TruthInv, TruthInv', OursInv, [Next]_vars,
                        slipped' = {}
                 PROVE  Ours'
      BY DEF OursInv
    <2>1. Ours
      BY SlippedGrows DEF OursInv
    <2>2. OwedAreBorn'
      BY <2>1, OwedStay DEF TruthInv, Ours
    <2>3. /\ TimesInOrder' /\ ScanInOrder' /\ RaceShows' /\ PendingIsElsewhere'
      BY <2>1, TimesStay, ScanTimesStay, RaceStays, PendingOwedStays
    <2>4. /\ CarriedIsThere' /\ VouchedIsThere' /\ ValveIsNotOwed'
          /\ MovedShows' /\ SentShows' /\ SnapshotIsOwn'
      BY <2>1, CarriedStays, VouchedStays, ValveStays, MovedStays, SentStays,
         SnapshotOwnStays
    <2>5. KnownIsOurs' /\ FetchedIsNews' /\ ReplacedIsOurs'
      BY <2>1, KnownStays, NewsStays, ReplacedOursStays
    <2> QED BY <2>2, <2>3, <2>4, <2>5 DEF Ours
  <1> QED BY <1>1, <1>2, TruthInductive, PTL DEF Spec

\* A plain upload (_do_upload outside a conflict) takes no body out of iCloud that
\* a user wrote there and nobody has replaced since (NoBlindUpload).
THEOREM NoEditOverwritten == ASSUME Apart PROVE Spec => NoBlindUpload
  <1>1. TypeOK /\ OursInv /\ [Next]_vars =>
           [ pc = "up_remove" /\ pc' = "up_send" /\ op = "upload"
             /\ remote # None /\ remote' = None /\ re = Listing(remote) /\ slipped = {}
             => remote.body \notin owed ]_vars
    <2> SUFFICES ASSUME TypeOK, OursInv, pc = "up_remove", op = "upload",
                        remote # None, re = Listing(remote), slipped = {}
                 PROVE  remote.body \notin owed
      OBVIOUS
    <2>1. re # None
      BY Signatures
    <2> QED BY <2>1 DEF OursInv, Ours, ReplacedIsOurs, AsListed
  <1> QED BY <1>1, OursInductive, PTL DEF Spec, NoBlindUpload
=============================================================================
