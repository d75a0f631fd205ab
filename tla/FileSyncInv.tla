---------------------------- MODULE FileSyncInv ----------------------------
(***************************************************************************)
(* The inductive invariants of FileSync: LossInv (behind NoSilentLoss),    *)
(* TruthInv (DeletionsAreUsers, UnreadableIsNotJudged, AgreementIsReal)    *)
(* and OursInv (NoBlindUpload).                                            *)
(*                                                                         *)
(* Why FileSync loses nothing silently: the only step that destroys a      *)
(* vault body is os.replace in _do_download; the parts below follow the    *)
(* body from the moment the baseline or the pass's snapshot vouches for it *)
(* up to that step.                                                        *)
(***************************************************************************)
EXTENDS FileSync

\* The body is not needed at the vault path.
Backed(b) == b \notin owed \/ b \in slipped \/ b \in StoredBodies

\* The clock is ahead of every mtime the engine has seen and of every body's
\* birth, so a user's next write wears no recorded signature.
ClockAhead ==
    /\ local # None => local.mtime <= now /\ local.body.mtime <= now
    /\ remote # None => remote.mtime <= now /\ remote.body.mtime <= now
    /\ base # None => base.lmtime <= now
    /\ le # None => le.mtime <= now
    /\ re # None => re.mtime <= now
    /\ buf # None => buf.mtime <= now /\ buf.body.mtime <= now

OwedAreBorn == \A b \in owed : b.size > 0 /\ b.mtime <= now

\* A vault file that still wears the baseline's local signature holds bytes
\* that are safe elsewhere.
BaselineIsBacked ==
    base # None /\ local # None /\ ~LocalMoved(Stat(local), base)
        => Backed(local.body)

\* A row is re-recorded only over an unmoved vault file.
RecordIsUnmoved == pc = "record" => base # None /\ le # None /\ ~LocalMoved(le, base)

\* What a download is about to replace is the scanned file only if that file
\* is safe elsewhere.
ReplacedIsBacked ==
    pc \in {"dn_fetch", "dn_install"} =>
        local = None \/ Stat(local) # le \/ Backed(local.body)

\* What a download or a comparison fetched is safe elsewhere.
FetchedIsBacked ==
    pc \in {"vf_compare", "dn_install", "dn_stamp"} => Backed(buf.body)

\* What an upload sends is what the vault holds under that mtime, and once
\* sent it is safe.
UploadIsVault ==
    /\ pc \in {"up_remove", "up_send", "up_commit"} =>
           local = None \/ local.mtime # buf.mtime \/ local.body = buf.body
    /\ pc = "up_commit" => Backed(buf.body)

\* The settings under which the code promises that nothing is lost: replaced
\* remote files go to Recently Deleted, and no policy gives up the vault's side.
Guarded == RemoteTrash /\ Policy # "remote"

\* The inductive invariant: in every state where nothing was lost, each step
\* of a pass knows why the bytes it may destroy or vouch for are safe.
LossInv ==
    Guarded =>
        /\ ClockAhead
        /\ OwedAreBorn
        /\ BaselineIsBacked
        /\ RecordIsUnmoved
        /\ ReplacedIsBacked
        /\ FetchedIsBacked
        /\ UploadIsVault
        /\ NoSilentLoss

-----------------------------------------------------------------------------
(* Why a signature, an absence or an agreement the engine reads means what *)
(* it takes it to mean: the inductive invariant behind DeletionsAreUsers,  *)
(* UnreadableIsNotJudged and AgreementIsReal.                              *)

\* Users write farther apart than the tolerance of the remote mtime: closer
\* writes of one size are one signature to the engine, by design.
Apart == \A gap \in Gaps : gap > MTimeTol

\* Every write of the remote file hands out an etag, and no row is younger
\* than the clock.
LastWrites ==
    /\ remote # None => remote.etag = rev
    /\ base # None => base.rmtime <= now

\* The remote file is the one the pass listed, or was written since.
AsListed == re = Listing(remote)

WrittenSince(t) == remote.mtime > t + MTimeTol

RemoteSince ==
    re # None /\ remote # None /\ pc # "up_commit" =>
        \/ WrittenSince(re.mtime)
        \/ AsListed
        \/ /\ re.mtime = remote.mtime /\ re.size = 0
           /\ remote.stage = "full" /\ remote.body.size > 0

\* The vault's file is the one the pass scanned, or was written since.
LocalSince ==
    pc # "idle" /\ base # None /\ local # None =>
        Stat(local) = le \/ LocalMoved(Stat(local), base)

\* Content that has not arrived is news to the baseline once it has.
PendingIsNews ==
    remote # None /\ remote.stage # "full" =>
        /\ remote.body.size > 0
        /\ base # None =>
              RemoteMoved([size |-> remote.body.size, mtime |-> remote.mtime], base)

\* What each step of an operation goes by.
DecisionHolds ==
    /\ pc = "record" => base # None /\ ~LocalMoved(le, base) /\ ~RemoteMoved(re, base)
    /\ pc \in {"vf_fetch", "vf_compare"} => base = None
    /\ pc = "del_remote" => le = None
    /\ pc = "del_local" /\ remote # None /\ base # None => WrittenSince(base.rmtime)
    /\ pc = "cf_probe" /\ LocalUnmoved => le.size > 0
    /\ pc \in {"cf_backup", "cf_aside"} => ~LocalUnmoved
    /\ pc \in {"cf_probe", "cf_aside"} /\ base # None /\ remote # None =>
          LocalUnmoved \/ RemoteMoved(Listing(remote), base)

\* What was fetched is what iCloud serves while the listing stands.
FetchedIsServed ==
    /\ pc \in {"dn_install", "dn_stamp", "vf_compare"}
    /\ remote # None /\ AsListed
    => remote.stage # "unready" /\ buf.body = Served

\* What an upload froze is in the vault unless a user wrote there since, and
\* once sent it is in iCloud unless another device did.
SnapshotHolds ==
    /\ pc \in {"up_remove", "up_send", "up_commit"} /\ local # None =>
          \/ local = buf
          \/ /\ local.mtime > buf.mtime + MTimeTol
             /\ base # None => local.mtime > base.lmtime
    /\ pc = "up_commit" /\ remote # None =>
          \/ remote.body = buf.body /\ remote.mtime = buf.mtime /\ remote.stage = "full"
          \/ WrittenSince(buf.mtime)

\* Two files the baseline finds unmoved hold the same bytes.
UnmovedAgree ==
    base # None /\ local # None /\ remote # None
    /\ ~LocalMoved(Stat(local), base) /\ ~RemoteMoved(Listing(remote), base) =>
        local.body = Served \/ local.body \in slipped

\* A remote listed without its content is replaced only past the window.
ReplacedIsEscalated ==
    pc \in {"up_snap", "up_remove"} /\ re # None /\ remote # None
    /\ remote.stage = "unready" /\ AsListed => Escalated(re)

\* Where the engine itself emptied the remote path, the vault's file has moved,
\* and no step is under way that would record the remote.
EngineEmptiedRemote ==
    remote = None /\ rgone = "engine" =>
        /\ pc \notin {"record", "dn_install", "dn_stamp", "vf_compare", "up_commit"}
        /\ base # None /\ local # None => LocalMoved(Stat(local), base)
        /\ base # None /\ pc = "scanned" /\ le # None => LocalMoved(le, base)

\* Where the engine itself emptied the vault path, the remote file has moved,
\* and no step is under way that would record the vault's.
LocalSeenAbsent == local = None \/ (pc = "scanned" /\ le = None)

EngineEmptiedLocal ==
    lgone = "engine" =>
        /\ local = None => pc \notin {"record", "up_remove", "up_send", "up_commit"}
        /\ local = None /\ pc = "scanned" => le = None
        /\ base # None /\ remote # None /\ LocalSeenAbsent =>
              RemoteMoved(Listing(remote), base)

\* The inductive invariant, for users who write apart.
TruthInv ==
    /\ ClockAhead /\ LastWrites
    /\ RemoteSince /\ LocalSince
    /\ PendingIsNews
    /\ DecisionHolds
    /\ FetchedIsServed /\ SnapshotHolds
    /\ UnmovedAgree
    /\ ReplacedIsEscalated
    /\ EngineEmptiedRemote /\ EngineEmptiedLocal

-----------------------------------------------------------------------------
(* Why a plain upload takes no body from iCloud that is still owed: the    *)
(* inductive invariant behind NoBlindUpload.  It is about the runs in      *)
(* which no vault write slipped into the window of a download.             *)

\* Times in the row, the vault and iCloud do not run backwards by more than
\* the tolerance.
TimesInOrder ==
    base # None =>
        /\ base.rmtime <= base.lmtime + MTimeTol
        /\ local # None => base.lmtime <= local.mtime
        /\ remote # None => base.rmtime <= remote.mtime + MTimeTol
        /\ remote # None /\ ~RemoteMoved(Listing(remote), base) =>
              /\ local # None /\ ~LocalMoved(Stat(local), base) =>
                    remote.mtime <= base.lmtime + MTimeTol
              /\ pc = "scanned" /\ le # None /\ ~LocalMoved(le, base) =>
                    remote.mtime <= base.lmtime + MTimeTol
        /\ pc = "record" => re.mtime <= base.lmtime + MTimeTol

\* Nor do the times of what a step of the pass holds.
ScanInOrder ==
    /\ pc # "idle" /\ le # None /\ local # None => le.mtime <= local.mtime
    /\ pc \in {"vf_fetch", "vf_compare"} => re.mtime <= le.mtime + MTimeTol
    /\ pc \in {"up_remove", "up_send"} /\ base # None => base.lmtime <= buf.mtime

\* A user's write that races the scan is newer than the remote file the scan
\* took for unmoved, and other content.
RaceShows ==
    local # None /\ Stat(local) # le =>
        /\ pc = "scanned" /\ le # None /\ remote # None
           /\ remote.mtime <= le.mtime + MTimeTol =>
              local.mtime > remote.mtime + MTimeTol
        /\ pc \in {"record", "vf_fetch", "vf_compare"} =>
              local.mtime > re.mtime + MTimeTol
        /\ pc \in {"scanned", "vf_fetch", "vf_compare"} /\ remote # None =>
              local.body # remote.body

\* Content that has not arrived is on this machine nowhere, and not owed yet.
PendingIsElsewhere ==
    remote # None /\ remote.stage # "full" =>
        /\ remote.body \notin owed
        /\ local # None => local.body # remote.body
        /\ buf # None => buf.body # remote.body

\* An owed body the pass fetched or sent is in iCloud.
CarriedIsThere ==
    pc \in {"dn_install", "dn_stamp", "vf_compare", "up_commit"} /\ buf.body \in owed =>
        remote # None /\ remote.body = buf.body

\* So is an owed body in a vault file the baseline finds unmoved.
VouchedIsThere ==
    base # None /\ local # None /\ ~LocalMoved(Stat(local), base)
    /\ local.body \in owed => remote # None /\ remote.body = local.body

\* The valves send no vault body that is still owed there.
ValveIsNotOwed ==
    \/ pc = "cf_probe" /\ re.size = 0
    \/ pc \in {"up_snap", "up_remove", "up_send"}
    => (LocalUnmoved /\ local # None /\ Stat(local) = le => local.body \notin owed)

\* A vault file with a time of its own shows as a remote move once sent.
MovedShows ==
    base # None /\ local # None /\ LocalMoved(Stat(local), base)
    /\ local.body \in owed => RemoteMoved(Stat(local), base)

SentShows ==
    pc \in {"up_remove", "up_send"} /\ base # None /\ buf.body \in owed =>
        RemoteMoved(Stat(buf), base)

SnapshotIsOwn ==
    pc \in {"up_remove", "up_send", "up_commit"} => local = buf \/ buf.body \notin owed

\* An owed body in a remote file the baseline finds unmoved is the vault's.
KnownIsOurs ==
    base # None /\ remote # None /\ ~RemoteMoved(Listing(remote), base)
    /\ remote.body \in owed =>
        /\ local # None /\ local.body = remote.body /\ ~LocalMoved(Stat(local), base)
        /\ ~EtagMoved(Listing(remote), base)

\* No conflict or download is about it.
FetchedIsNews ==
    pc \in {"cf_probe", "cf_aside", "dn_fetch", "dn_install"} /\ base # None
    /\ remote # None /\ remote.body \in owed => RemoteMoved(Listing(remote), base)

\* And no upload replaces it.
ReplacedIsOurs ==
    /\ pc \in {"cf_probe", "cf_backup"} => op = "conflict"
    /\ pc \in {"up_snap", "up_remove"} /\ op = "upload" /\ re # None =>
          /\ base # None /\ ~RemoteMoved(re, base)
          /\ remote # None /\ AsListed => remote.body \notin owed

\* Where an owed body of the remote side is, the row or the listing says.
Ours ==
    /\ OwedAreBorn
    /\ TimesInOrder /\ ScanInOrder /\ RaceShows
    /\ PendingIsElsewhere
    /\ CarriedIsThere /\ VouchedIsThere
    /\ ValveIsNotOwed
    /\ MovedShows /\ SentShows /\ SnapshotIsOwn
    /\ KnownIsOurs
    /\ FetchedIsNews
    /\ ReplacedIsOurs

\* The inductive invariant, with TruthInv.
OursInv == slipped = {} => Ours
=============================================================================
