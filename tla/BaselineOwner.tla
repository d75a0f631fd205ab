---------------------------- MODULE BaselineOwner ----------------------------
(***************************************************************************)
(* What the instance lock (ifolder_sync/locking.py) promises to everyone   *)
(* who shares a profile: sessions on the baseline come one at a time, each *)
(* ends before the next begins, and the baseline file is taken away only   *)
(* inside a session.  Who probes the lock, what the lock file says and     *)
(* which processes die on the way is not said here: InstanceLock           *)
(* implements this specification.                                          *)
(***************************************************************************)
EXTENDS Naturals

CONSTANTS
    Procs,   \* the processes of the profile
    Nobody   \* no process

VARIABLES
    owner,   \* the process whose session is open, or Nobody
    file     \* the baseline at the path, 0 when there is none

owned == <<owner, file>>

OwnerInit == owner = Nobody /\ file \in {0, 1}

Begin(p) ==
    /\ owner = Nobody
    /\ owner' = p
    /\ UNCHANGED file

\* A session that ends, or dies, leaves the file as it is.
End ==
    /\ owner # Nobody
    /\ owner' = Nobody
    /\ UNCHANGED file

\* Whoever opens a store that is not there creates it, with a session or
\* without.
Create ==
    /\ file = 0
    /\ file' \in Nat \ {0}
    /\ UNCHANGED owner

Remove ==
    /\ owner # Nobody
    /\ file' = 0
    /\ UNCHANGED owner

OwnerNext == (\E p \in Procs : Begin(p)) \/ End \/ Create \/ Remove

OwnerSpec == OwnerInit /\ [][OwnerNext]_owned
=============================================================================
