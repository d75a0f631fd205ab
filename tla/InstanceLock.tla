----------------------------- MODULE InstanceLock -----------------------------
(***************************************************************************)
(* The processes that share one profile's baseline and the kernel lock     *)
(* that keeps them apart: SingleInstanceLock and holder_pid                *)
(* (ifolder_sync/locking.py), the commands that hold the lock (daemon.py   *)
(* run and _shutdown; cli.py _daemon_lock with sync, doctor --fix-orphans  *)
(* and rebaseline), the observers that only probe it (cli.py               *)
(* _observe_daemon) and the readers that open the baseline without it      *)
(* (sync --dry-run, doctor).                                               *)
(*                                                                         *)
(* A process is named by its pid.  The lock file holds the last pid label  *)
(* written, "empty" between truncation and write or when the write failed, *)
(* and "nofile" before the first acquire.  The baseline file is an inode   *)
(* number: unlinking it leaves the open handles of others on the old one.  *)
(***************************************************************************)
EXTENDS Naturals

CONSTANTS
    Procs,       \* pids
    Nobody,      \* no process
    MaxInodes    \* bound on baseline files created

ASSUME InstanceLockAssumption ==
    /\ Nobody \notin Procs
    /\ {"nofile", "empty"} \cap Procs = {}
    /\ MaxInodes \in Nat \ {0}

VARIABLES
    lock,     \* the process whose open file description holds the flock
    label,    \* the body of the lock file
    db,       \* the inode at the baseline path, 0 when there is none
    inodes,   \* inodes handed out
    pc, kind, \* per process: its step and its command
    handle    \* per process: the inode its StateStore has open, or 0

vars == <<lock, label, db, inodes, pc, kind, handle>>

\* "writer" is sync or doctor --fix-orphans, "observer" is status, stop or the
\* dashboard.
Kinds == {"daemon", "writer", "rebaseline", "observer", "reader"}

Steps == { "off", "probe", "probe_unlock", "probe_label", "acquire", "truncate",
           "label", "open", "work", "remove", "release", "read" }

\* The steps taken with the flock in hand.
Holding == { "probe_unlock", "truncate", "label", "open", "work", "remove", "release" }

Init ==
    /\ lock = Nobody /\ label = "nofile"
    /\ db \in {0, 1} /\ inodes = 1
    /\ pc = [p \in Procs |-> "off"]
    /\ kind = [p \in Procs |-> "observer"]
    /\ handle = [p \in Procs |-> 0]

-----------------------------------------------------------------------------
At(p, step) == pc[p] = step

Goto(p, step) == pc' = [pc EXCEPT ![p] = step]

\* What a command does once it holds the lock.
FirstStep(p) == IF kind[p] = "daemon" THEN "work"
                ELSE IF kind[p] = "rebaseline" THEN "remove"
                ELSE "open"

\* The process ends or is killed: the kernel drops its lock and its handles.
\* A label it wrote stays.
Exit(p) ==
    /\ pc' = [pc EXCEPT ![p] = "off"]
    /\ handle' = [handle EXCEPT ![p] = 0]
    /\ lock' = IF lock = p THEN Nobody ELSE lock

\* sqlite3.connect: the file at the path, created when there is none.
OpenStore(p) ==
    \/ /\ db # 0
       /\ handle' = [handle EXCEPT ![p] = db]
       /\ UNCHANGED <<db, inodes>>
    \/ /\ db = 0 /\ inodes < MaxInodes
       /\ db' = inodes + 1 /\ inodes' = inodes + 1
       /\ handle' = [handle EXCEPT ![p] = inodes + 1]

-----------------------------------------------------------------------------
\* Daemon.__init__ opens the store, run then asks for the lock.
StartDaemon(p) ==
    /\ At(p, "off")
    /\ kind' = [kind EXCEPT ![p] = "daemon"]
    /\ OpenStore(p)
    /\ Goto(p, "acquire")
    /\ UNCHANGED <<lock, label>>

\* A reader takes no lock.
StartReader(p) ==
    /\ At(p, "off")
    /\ kind' = [kind EXCEPT ![p] = "reader"]
    /\ OpenStore(p)
    /\ Goto(p, "read")
    /\ UNCHANGED <<lock, label>>

\* The other commands probe first.
StartCommand(p, k) ==
    /\ At(p, "off")
    /\ kind' = [kind EXCEPT ![p] = k]
    /\ Goto(p, "probe")
    /\ UNCHANGED <<lock, label, db, inodes, handle>>

-----------------------------------------------------------------------------
\* holder_pid.  An observer reports the answer; a command goes on to acquire
\* only if the answer is None.
Answer(p, pid) ==
    IF kind[p] # "observer" /\ pid = Nobody
    THEN Goto(p, "acquire")
    ELSE Goto(p, "off")

\* The lock file can be probed only once it exists.
ProbeFindsNoFile(p) ==
    /\ At(p, "probe")
    /\ label = "nofile"
    /\ Answer(p, Nobody)
    /\ UNCHANGED <<lock, label, db, inodes, kind, handle>>

ProbeTakes(p) ==
    /\ At(p, "probe")
    /\ label # "nofile" /\ lock = Nobody
    /\ lock' = p
    /\ Goto(p, "probe_unlock")
    /\ UNCHANGED <<label, db, inodes, kind, handle>>

\* Refused, or the file could not be opened at all.
ProbeRefused(p) ==
    /\ At(p, "probe")
    /\ label # "nofile"
    /\ Goto(p, "probe_label")
    /\ UNCHANGED <<lock, label, db, inodes, kind, handle>>

\* Mutant of ProbeUnlock: a free probe is taken for the lock itself.
ProbeUnlockTrusted(p) ==
    /\ At(p, "probe_unlock")
    /\ lock' = Nobody
    /\ Goto(p, IF kind[p] = "observer" THEN "off" ELSE FirstStep(p))
    /\ UNCHANGED <<label, db, inodes, kind, handle>>

ProbeUnlock(p) ==
    /\ At(p, "probe_unlock")
    /\ lock' = Nobody
    /\ Answer(p, Nobody)
    /\ UNCHANGED <<label, db, inodes, kind, handle>>

\* An empty label parses to None.
ProbeReadsLabel(p) ==
    /\ At(p, "probe_label")
    /\ Answer(p, IF label = "empty" THEN Nobody ELSE label)
    /\ UNCHANGED <<lock, label, db, inodes, kind, handle>>

-----------------------------------------------------------------------------
\* acquire: open with O_CREAT, then a non-blocking flock.
AcquireTakes(p) ==
    /\ At(p, "acquire")
    /\ lock = Nobody
    /\ lock' = p
    /\ label' = IF label = "nofile" THEN "empty" ELSE label
    /\ Goto(p, "truncate")
    /\ UNCHANGED <<db, inodes, kind, handle>>

\* AlreadyRunning: whoever holds the flock at that instant, the start is over.
AcquireRefused(p) ==
    /\ At(p, "acquire")
    /\ lock # Nobody
    /\ Exit(p)
    /\ UNCHANGED <<label, db, inodes, kind>>

Truncate(p) ==
    /\ At(p, "truncate")
    /\ label' = "empty"
    /\ Goto(p, "label")
    /\ UNCHANGED <<lock, db, inodes, kind, handle>>

\* The label is cosmetic: a failed write is ignored.
WriteLabel(p) ==
    /\ At(p, "label")
    /\ label' \in {p, "empty"}
    /\ Goto(p, FirstStep(p))
    /\ UNCHANGED <<lock, db, inodes, kind, handle>>

-----------------------------------------------------------------------------
\* sync and doctor open the store once they hold the lock.
WriterOpens(p) ==
    /\ At(p, "open")
    /\ OpenStore(p)
    /\ Goto(p, "work")
    /\ UNCHANGED <<lock, label, kind>>

\* rebaseline backs the baseline up and unlinks it with its WAL files.
RemoveBaseline(p) ==
    /\ At(p, "remove")
    /\ db' = 0
    /\ Goto(p, "release")
    /\ UNCHANGED <<lock, label, inodes, kind, handle>>

\* Mutant of CloseStore: the lock is released before the store is closed.
ReleaseFirst(p) ==
    /\ At(p, "work")
    /\ lock' = Nobody
    /\ UNCHANGED <<label, db, inodes, pc, kind, handle>>

\* The daemon's passes, or a command's, are over: the store is closed first.
CloseStore(p) ==
    /\ At(p, "work")
    /\ handle' = [handle EXCEPT ![p] = 0]
    /\ Goto(p, "release")
    /\ UNCHANGED <<lock, label, db, inodes, kind>>

Release(p) ==
    /\ At(p, "release")
    /\ lock' = Nobody
    /\ Goto(p, "off")
    /\ UNCHANGED <<label, db, inodes, kind, handle>>

\* Killed at any step, or a reader that is done.
Kill(p) ==
    /\ ~At(p, "off")
    /\ Exit(p)
    /\ UNCHANGED <<label, db, inodes, kind>>

-----------------------------------------------------------------------------
Probe(p) == \/ ProbeFindsNoFile(p) \/ ProbeTakes(p) \/ ProbeRefused(p)
            \/ ProbeUnlock(p) \/ ProbeReadsLabel(p)

Acquire(p) == AcquireTakes(p) \/ AcquireRefused(p) \/ Truncate(p) \/ WriteLabel(p)

Session(p) == WriterOpens(p) \/ RemoveBaseline(p) \/ CloseStore(p) \/ Release(p)

Next == \E p \in Procs :
            \/ StartDaemon(p) \/ StartReader(p)
            \/ \E k \in {"writer", "rebaseline", "observer"} : StartCommand(p, k)
            \/ Probe(p) \/ Acquire(p) \/ Session(p) \/ Kill(p)

Spec == Init /\ [][Next]_vars

-----------------------------------------------------------------------------
\* Every variable holds a value of its kind, and a process past the flock holds
\* it.
TypeOK ==
    /\ \A p \in Procs : pc[p] \in Holding => lock = p
    /\ lock \in Procs \cup {Nobody}
    /\ label \in Procs \cup {"nofile", "empty"}
    /\ db \in 0..MaxInodes /\ inodes \in 1..MaxInodes
    /\ pc \in [Procs -> Steps]
    /\ kind \in [Procs -> Kinds]
    /\ handle \in [Procs -> 0..MaxInodes]

\* The process may write rows of, or remove, the baseline.
Writing(p) == pc[p] \in {"work", "remove"}

\* Two processes never write, or remove and write, the baseline at once,
\* whatever probes, kills and restarts happen around them.
OneWriter == \A p, q \in Procs : Writing(p) /\ Writing(q) => p = q

\* A command other than the daemon writes the baseline the next pass will read.
\* The daemon opens its store before it takes the lock (daemon.py:61), and may
\* work on a file a rebaseline has unlinked in between.
CommandSeesBaseline ==
    \A p \in Procs : pc[p] = "work" /\ kind[p] = "writer" => handle[p] = db

\* While a process works, the label names it or is empty: nobody is told the
\* pid of a process that is gone.
LabelIsHolders ==
    \A p \in Procs : Writing(p) => label \in {p, "empty"}

-----------------------------------------------------------------------------
\* The steps of a session: from the label to the release of the lock.
InSession == { "open", "work", "remove", "release" }

Owner == IF lock # Nobody /\ pc[lock] \in InSession THEN lock ELSE Nobody

Sessions == INSTANCE BaselineOwner WITH owner <- Owner, file <- db

\* The flock, the probe and the label together implement sessions that come one
\* at a time (BaselineOwner): whatever is probed, refused or killed on the way,
\* a session begins only when none is open, and only inside one does the
\* baseline file go away.
OneSessionAtATime == Sessions!OwnerSpec
=============================================================================
