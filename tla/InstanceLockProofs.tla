-------------------------- MODULE InstanceLockProofs --------------------------
(***************************************************************************)
(* For any number of processes: the kernel lock keeps the writers of a     *)
(* baseline apart (OneWriter), keeps the label honest (LabelIsHolders) and *)
(* gives every command the baseline at the path (CommandSeesBaseline).     *)
(*                                                                         *)
(* TypeOK carries the argument: it says that a process past the flock      *)
(* holds it, and the lock has one holder.  The other two need one fact     *)
(* more each, for the steps between the flock and the work.                *)
(***************************************************************************)
EXTENDS InstanceLock, TLAPS

\* A session past its label has written it.
LabelFits ==
    \A p \in Procs :
        pc[p] \in {"open", "work", "remove", "release"} => label \in {p, "empty"}

\* A working command has the file at the path open, and there is one.
StoreFits ==
    \A p \in Procs :
        pc[p] = "work" /\ kind[p] = "writer" => handle[p] = db /\ db # 0

LockInv == TypeOK /\ LabelFits /\ StoreFits

-----------------------------------------------------------------------------
LEMMA LockInit == Init => LockInv
  BY InstanceLockAssumption
     DEF Init, LockInv, TypeOK, LabelFits, StoreFits, Holding, Kinds, Steps

\* Type correctness and lock ownership survive every step of every process.
LEMMA LockTypeStep ==
  ASSUME TypeOK, [Next]_vars
  PROVE  TypeOK'
<1> USE InstanceLockAssumption
<1> USE DEF TypeOK, Holding, Kinds, Steps, At, Goto
<1>1. CASE UNCHANGED vars
  BY <1>1 DEF vars
<1>2. ASSUME NEW p \in Procs, StartDaemon(p)
      PROVE  TypeOK'
  BY <1>2 DEF StartDaemon, OpenStore
<1>3. ASSUME NEW p \in Procs, StartReader(p)
      PROVE  TypeOK'
  BY <1>3 DEF StartReader, OpenStore
<1>4. ASSUME NEW p \in Procs, NEW k \in {"writer", "rebaseline", "observer"},
             StartCommand(p, k)
      PROVE  TypeOK'
  BY <1>4 DEF StartCommand
<1>5. ASSUME NEW p \in Procs, Probe(p)
      PROVE  TypeOK'
  BY <1>5 DEF Probe, ProbeFindsNoFile, ProbeTakes, ProbeRefused, ProbeUnlock,
              ProbeReadsLabel, Answer
<1>6. ASSUME NEW p \in Procs, Acquire(p)
      PROVE  TypeOK'
  BY <1>6 DEF Acquire, AcquireTakes, AcquireRefused, Truncate, WriteLabel,
              FirstStep, Exit
<1>7. ASSUME NEW p \in Procs, Session(p)
      PROVE  TypeOK'
  <2>1. CASE WriterOpens(p)
    BY <2>1 DEF WriterOpens, OpenStore
  <2>2. CASE RemoveBaseline(p)
    BY <2>2 DEF RemoveBaseline
  <2>3. CASE CloseStore(p)
    BY <2>3 DEF CloseStore
  <2>4. CASE Release(p)
    BY <2>4 DEF Release
  <2>5. QED
    BY <1>7, <2>1, <2>2, <2>3, <2>4 DEF Session
<1>8. ASSUME NEW p \in Procs, Kill(p)
      PROVE  TypeOK'
  BY <1>8 DEF Kill, Exit
<1>9. QED
  BY <1>1, <1>2, <1>3, <1>4, <1>5, <1>6, <1>7, <1>8 DEF Next

\* Only the holder of the lock changes the label, and it writes its own.
LEMMA LabelStep ==
  ASSUME TypeOK, LabelFits, [Next]_vars
  PROVE  LabelFits'
<1> USE InstanceLockAssumption
<1> USE DEF TypeOK, LabelFits, Holding, Kinds, Steps, At, Goto
<1>1. CASE UNCHANGED vars
  BY <1>1 DEF vars
<1>2. ASSUME NEW p \in Procs,
             StartDaemon(p) \/ StartReader(p)
             \/ \E k \in {"writer", "rebaseline", "observer"} : StartCommand(p, k)
      PROVE  LabelFits'
  BY <1>2 DEF StartDaemon, StartReader, StartCommand
<1>3. ASSUME NEW p \in Procs, Probe(p)
      PROVE  LabelFits'
  BY <1>3 DEF Probe, ProbeFindsNoFile, ProbeTakes, ProbeRefused, ProbeUnlock,
              ProbeReadsLabel, Answer
<1>4. ASSUME NEW p \in Procs, Acquire(p)
      PROVE  LabelFits'
  BY <1>4 DEF Acquire, AcquireTakes, AcquireRefused, Truncate, WriteLabel,
              FirstStep, Exit
<1>5. ASSUME NEW p \in Procs, Session(p)
      PROVE  LabelFits'
  BY <1>5 DEF Session, WriterOpens, RemoveBaseline, CloseStore, Release
<1>6. ASSUME NEW p \in Procs, Kill(p)
      PROVE  LabelFits'
  BY <1>6 DEF Kill, Exit
<1>7. QED
  BY <1>1, <1>2, <1>3, <1>4, <1>5, <1>6 DEF Next

\* While a command works, nobody unlinks the file it has open, and a daemon or
\* reader that opens the store without the lock finds that file.
LEMMA StoreStep ==
  ASSUME TypeOK, StoreFits, [Next]_vars
  PROVE  StoreFits'
<1> USE InstanceLockAssumption
<1> USE DEF TypeOK, StoreFits, Holding, Kinds, Steps, At, Goto
<1>1. CASE UNCHANGED vars
  BY <1>1 DEF vars
<1>2. ASSUME NEW p \in Procs, StartDaemon(p) \/ StartReader(p)
      PROVE  StoreFits'
  BY <1>2 DEF StartDaemon, StartReader, OpenStore
<1>3. ASSUME NEW p \in Procs, NEW k \in {"writer", "rebaseline", "observer"},
             StartCommand(p, k)
      PROVE  StoreFits'
  BY <1>3 DEF StartCommand
<1>4. ASSUME NEW p \in Procs, Probe(p)
      PROVE  StoreFits'
  BY <1>4 DEF Probe, ProbeFindsNoFile, ProbeTakes, ProbeRefused, ProbeUnlock,
              ProbeReadsLabel, Answer
<1>5. ASSUME NEW p \in Procs, Acquire(p)
      PROVE  StoreFits'
  BY <1>5 DEF Acquire, AcquireTakes, AcquireRefused, Truncate, WriteLabel,
              FirstStep, Exit
<1>6. ASSUME NEW p \in Procs, Session(p)
      PROVE  StoreFits'
  <2>1. CASE WriterOpens(p)
    BY <2>1 DEF WriterOpens, OpenStore
  <2>2. CASE RemoveBaseline(p)
    BY <2>2 DEF RemoveBaseline
  <2>3. CASE CloseStore(p)
    BY <2>3 DEF CloseStore
  <2>4. CASE Release(p)
    BY <2>4 DEF Release
  <2>5. QED
    BY <1>6, <2>1, <2>2, <2>3, <2>4 DEF Session
<1>7. ASSUME NEW p \in Procs, Kill(p)
      PROVE  StoreFits'
  BY <1>7 DEF Kill, Exit
<1>8. QED
  BY <1>1, <1>2, <1>3, <1>4, <1>5, <1>6, <1>7 DEF Next

-----------------------------------------------------------------------------
\* The conjunction of the three is an invariant of the specification.
THEOREM LockInductive == Spec => []LockInv
<1>1. LockInv /\ [Next]_vars => LockInv'
  BY LockTypeStep, LabelStep, StoreStep DEF LockInv
<1>2. QED
  BY LockInit, <1>1, PTL DEF Spec

\* locking.py, whatever probes, kills and restarts happen: two processes never
\* write, or remove and write, one baseline at once.
THEOREM WritersApart == Spec => []OneWriter
<1>1. LockInv => OneWriter
  BY InstanceLockAssumption DEF LockInv, TypeOK, OneWriter, Writing, Holding
<1>2. QED
  BY LockInductive, <1>1, PTL

\* sync and doctor --fix-orphans write the baseline the next pass reads.
THEOREM CommandsShareBaseline == Spec => []CommandSeesBaseline
<1>1. LockInv => CommandSeesBaseline
  BY DEF LockInv, StoreFits, CommandSeesBaseline
<1>2. QED
  BY LockInductive, <1>1, PTL

\* The label of a working process is its own pid, or empty.
THEOREM LabelHonest == Spec => []LabelIsHolders
<1>1. LockInv => LabelIsHolders
  BY DEF LockInv, LabelFits, LabelIsHolders, Writing
<1>2. QED
  BY LockInductive, <1>1, PTL

\* Every variable keeps its type, and a process past the flock holds it.
THEOREM LockTypes == Spec => []TypeOK
<1>1. LockInv => TypeOK
  BY DEF LockInv
<1>2. QED
  BY LockInductive, <1>1, PTL

-----------------------------------------------------------------------------
\* The session open in a state, and what a step may do to it and to the file.
LEMMA SessionStep ==
  ASSUME TypeOK, [Next]_vars
  PROVE  [Sessions!OwnerNext]_(Sessions!owned)
<1> USE InstanceLockAssumption
<1> USE DEF TypeOK, Holding, Kinds, Steps, At, Goto, Owner, InSession,
            Sessions!OwnerNext, Sessions!owned
<1>1. CASE UNCHANGED vars
  BY <1>1 DEF vars
<1>2. ASSUME NEW p \in Procs, StartDaemon(p) \/ StartReader(p)
      PROVE  [Sessions!OwnerNext]_(Sessions!owned)
  <2>1. UNCHANGED Owner
    BY <1>2 DEF StartDaemon, StartReader
  <2>2. UNCHANGED db \/ (db = 0 /\ db' \in Nat \ {0})
    BY <1>2 DEF StartDaemon, StartReader, OpenStore
  <2>3. QED
    BY <2>1, <2>2 DEF Sessions!Create
<1>3. ASSUME NEW p \in Procs, NEW k \in {"writer", "rebaseline", "observer"},
             StartCommand(p, k)
      PROVE  [Sessions!OwnerNext]_(Sessions!owned)
  BY <1>3 DEF StartCommand
<1>4. ASSUME NEW p \in Procs, Probe(p)
      PROVE  [Sessions!OwnerNext]_(Sessions!owned)
  BY <1>4 DEF Probe, ProbeFindsNoFile, ProbeTakes, ProbeRefused, ProbeUnlock,
              ProbeReadsLabel, Answer
<1>5. ASSUME NEW p \in Procs, Acquire(p)
      PROVE  [Sessions!OwnerNext]_(Sessions!owned)
  <2>1. CASE AcquireTakes(p) \/ AcquireRefused(p) \/ Truncate(p)
    BY <2>1 DEF AcquireTakes, AcquireRefused, Truncate, Exit
  <2>2. CASE WriteLabel(p)
    BY <2>2 DEF WriteLabel, FirstStep, Sessions!Begin
  <2>3. QED
    BY <1>5, <2>1, <2>2 DEF Acquire
<1>6. ASSUME NEW p \in Procs, Session(p)
      PROVE  [Sessions!OwnerNext]_(Sessions!owned)
  <2>1. CASE WriterOpens(p)
    <3>1. UNCHANGED Owner
      BY <2>1 DEF WriterOpens
    <3>2. UNCHANGED db \/ (db = 0 /\ db' \in Nat \ {0})
      BY <2>1 DEF WriterOpens, OpenStore
    <3>3. QED
      BY <3>1, <3>2 DEF Sessions!Create
  <2>2. CASE RemoveBaseline(p)
    BY <2>2 DEF RemoveBaseline, Sessions!Remove
  <2>3. CASE CloseStore(p)
    BY <2>3 DEF CloseStore
  <2>4. CASE Release(p)
    BY <2>4 DEF Release, Sessions!End
  <2>5. QED
    BY <1>6, <2>1, <2>2, <2>3, <2>4 DEF Session
<1>7. ASSUME NEW p \in Procs, Kill(p)
      PROVE  [Sessions!OwnerNext]_(Sessions!owned)
  BY <1>7 DEF Kill, Exit, Sessions!End
<1>8. QED
  BY <1>1, <1>2, <1>3, <1>4, <1>5, <1>6, <1>7 DEF Next

\* The lock implements sessions one at a time: for any number of processes,
\* whatever they probe and wherever they are killed, a session on the baseline
\* begins only when none is open, and the file at the path goes away only
\* inside one (locking.py; cli.py _daemon_lock and cmd_rebaseline).
THEOREM SessionsApart == Spec => OneSessionAtATime
<1>1. Init => Sessions!OwnerInit
  BY InstanceLockAssumption DEF Init, Sessions!OwnerInit, Owner
<1>2. TypeOK /\ [Next]_vars => [Sessions!OwnerNext]_(Sessions!owned)
  BY SessionStep
<1>3. QED
  BY <1>1, <1>2, LockTypes, PTL DEF Spec, OneSessionAtATime, Sessions!OwnerSpec
=============================================================================
