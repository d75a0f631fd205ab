----------------------------- MODULE DaemonProofs -----------------------------
(***************************************************************************)
(* Proofs about Daemon, for every number of reconnects, trips, edits and   *)
(* faults.  DaemonInv strengthens the properties of the run to be kept by  *)
(* each step: the reconnect counter equals the logins it stands for, an    *)
(* edit that is being scanned is not waiting to be noticed, and after a    *)
(* refused login, or a stop nobody asked for, the process is on its way    *)
(* out.  Flags and Counts do the same for the types and the slow polling;  *)
(* they are two because Zenon proves the first and SMT the second.         *)
(***************************************************************************)
EXTENDS Daemon, TLAPS

\* The refused login was the last thing this process, or the one before it,
\* asked of iCloud.
OnItsWayOut ==
    \/ pc = "off" /\ exit # "crash"
    \/ pc \in {"loop", "shutdown"} /\ stop

BudgetInv == relapses = logins /\ relapses \in 0..MaxSessionReconnects

WakeInv == NoLostWakeup /\ (vault = "scanned" => ~noticed)

RefusalInv ==
    /\ refused \in Nat /\ kills \in Nat
    /\ refused <= kills \/ (refused = kills + 1 /\ OnItsWayOut)

\* Until the watcher and the handlers are installed nothing sets an event.
AtRest == pc \in {"off"} \cup Starting => ~stop /\ ~wake /\ ~armed

\* A stop nobody asked for has left its cause, and the loop is being left.
ReasonInv ==
    /\ StoppedForAReason
    /\ pc = "shutdown" => stop
    /\ stop /\ ~signalled /\ ~corrupt
          => pc \in {"loop", "shutdown"} /\ lastError \in Repairable

DaemonInv == BudgetInv /\ WakeInv /\ StopIsPrompt /\ RefusalInv /\ AtRest
             /\ ReasonInv

-----------------------------------------------------------------------------
(* The initial states satisfy the invariant. *)
LEMMA InitInv == Init => DaemonInv
  BY DaemonAssumption
  DEF Init, DaemonInv, BudgetInv, WakeInv, NoLostWakeup, StopIsPrompt,
      RefusalInv, OnItsWayOut, AtRest, Starting,
        ReasonInv, StoppedForAReason, Repairable
(* What launchd and the operator do keeps the invariant. *)
LEMMA OperatorKeeps == DaemonInv /\ Operator => DaemonInv'
  <1> SUFFICES ASSUME DaemonInv, Operator
      PROVE  DaemonInv'
    OBVIOUS
  <1> USE DaemonAssumption DEF DaemonInv, BudgetInv, WakeInv, NoLostWakeup,
        StopIsPrompt, RefusalInv, OnItsWayOut, AtRest, Starting,
        ReasonInv, StoppedForAReason, Repairable
  <1>1. CASE Load
    BY <1>1 DEF Load, SpawnProcess, launchd, events, heal, drift, store, local,
         bounds
  <1>2. CASE Signal(loaded)
    BY <1>2 DEF Signal, Fault, launchd, events, heal, drift, store,
         local, bounds
  <1>3. CASE BootOut
    BY <1>3 DEF BootOut, Signal, Fault, launchd, events, heal, drift,
         store, local, bounds
  <1>4. CASE Authenticate
    BY <1>4 DEF Authenticate, launchd, events, heal, drift, store, local, bounds
  <1>5. CASE Rebaseline
    BY <1>5 DEF Rebaseline, launchd, events, heal, drift, store, local, bounds
  <1> QED BY <1>1, <1>2, <1>3, <1>4, <1>5 DEF Operator

(* Edits, the timer, the session, damage, kills and restarts keep it. *)
LEMMA WorldKeeps == DaemonInv /\ (World \/ Debounced \/ Respawn) => DaemonInv'
  <1> SUFFICES ASSUME DaemonInv, World \/ Debounced \/ Respawn
      PROVE  DaemonInv'
    OBVIOUS
  <1> USE DaemonAssumption DEF DaemonInv, BudgetInv, WakeInv, NoLostWakeup,
        StopIsPrompt, RefusalInv, OnItsWayOut, AtRest, Starting,
        ReasonInv, StoppedForAReason, Repairable
  <1>1. CASE Edit
    BY <1>1 DEF Edit, Running, Starting, launchd, events, heal, drift, store,
         local, bounds
  <1>2. CASE SessionEnds
    BY <1>2 DEF SessionEnds, Fault, launchd, events, heal, drift, store, local,
         bounds
  <1>3. CASE BaselineDamaged
    BY <1>3 DEF BaselineDamaged, Fault, launchd, events, heal, drift, store,
         local, bounds
  <1>4. CASE IntervalElapses
    BY <1>4 DEF IntervalElapses, launchd, events, heal, drift, store, local,
         bounds
  <1>5. CASE Kill
    BY <1>5 DEF Kill, Die, Unscanned, launchd, events, heal, drift, store,
         local, bounds
  <1>6. CASE Debounced
    BY <1>6 DEF Debounced, launchd, events, heal, drift, store, local, bounds
  <1>7. CASE Respawn
    BY <1>7 DEF Respawn, SpawnProcess, launchd, events, heal, drift, store,
         local, bounds
  <1> QED BY <1>1, <1>2, <1>3, <1>4, <1>5, <1>6, <1>7 DEF World

(* A start keeps it, whichever gate it fails. *)
LEMMA StartupKeeps == DaemonInv /\ Startup => DaemonInv'
  <1> SUFFICES ASSUME DaemonInv, Startup
      PROVE  DaemonInv'
    OBVIOUS
  <1> USE DaemonAssumption DEF DaemonInv, BudgetInv, WakeInv, NoLostWakeup,
        StopIsPrompt, RefusalInv, OnItsWayOut, AtRest, Starting,
        ReasonInv, StoppedForAReason, Repairable
  <1>1. CASE LockBusy
    BY <1>1 DEF LockBusy, Die, Unscanned, Fault, launchd, events, heal, drift,
         store, local, bounds
  <1>2. CASE QuickCheckFails
    BY <1>2 DEF QuickCheckFails, Die, Unscanned, launchd, events, heal, drift,
         store, local, bounds
  <1>3. CASE PreflightFails
    BY <1>3 DEF PreflightFails, Die, Unscanned, Fault, launchd, events, heal,
         drift, store, local, bounds
  <1>4. CASE GatesPass
    BY <1>4 DEF GatesPass, Goto, launchd, events, heal, drift, store, local,
         bounds
  <1>5. CASE ConnectSucceeds
    BY <1>5 DEF ConnectSucceeds, Goto, launchd, events, heal, drift, store,
         local, bounds
  <1>6. CASE ConnectRefused
    BY <1>6 DEF ConnectRefused, Die, Unscanned, launchd, events, heal, drift,
         store, local, bounds
  <1>7. CASE ConnectFails
    BY <1>7 DEF ConnectFails, Die, Unscanned, Fault, launchd, events, heal,
         drift, store, local, bounds
  <1> QED BY <1>1, <1>2, <1>3, <1>4, <1>5, <1>6, <1>7 DEF Startup

(* A pass keeps it, whatever its outcome. *)
LEMMA RunSyncKeeps == DaemonInv /\ RunSync => DaemonInv'
  <1> SUFFICES ASSUME DaemonInv, RunSync
      PROVE  DaemonInv'
    OBVIOUS
  <1> USE DaemonAssumption DEF DaemonInv, BudgetInv, WakeInv, NoLostWakeup,
        StopIsPrompt, RefusalInv, OnItsWayOut, AtRest, Starting,
        ReasonInv, StoppedForAReason, Repairable
  <1>1. CASE BeginPass
    BY <1>1 DEF BeginPass, Goto, launchd, events, heal, drift, store, local,
         bounds
  <1>2. CASE \E suppressed \in BOOLEAN : PassCompletes(suppressed)
    BY <1>2 DEF PassCompletes, EndPass, Goto, Unscanned, launchd, events, heal,
         drift, store, local, bounds
  <1>3. CASE PassFails
    BY <1>3 DEF PassFails, Fault, EndPass, Goto, Unscanned, launchd, events,
         heal, drift, store, local, bounds
  <1>4. CASE VaultMismatch
    BY <1>4 DEF VaultMismatch, Fault, EndPassStopped, CleanStop, Goto,
         Unscanned, launchd, events, heal, drift, store, local, bounds
  <1>5. CASE PassRefused
    BY <1>5 DEF PassRefused, Fault, EndPassStopped, CleanStop, Goto, Unscanned,
         launchd, events, heal, drift, store, local, bounds
  <1>6. CASE BaselineUnreadable
    BY <1>6 DEF BaselineUnreadable, EndPassStopped, CleanStop, Goto, Unscanned,
         launchd, events, heal, drift, store, local, bounds
  <1>7. CASE PassLapses
    BY <1>7 DEF PassLapses, Goto, Unscanned, launchd, events, heal, drift,
         store, local, bounds
  <1> QED BY <1>1, <1>2, <1>3, <1>4, <1>5, <1>6, <1>7 DEF RunSync

(* The handling of a lapsed session keeps it: a login is counted before it
   is made, and a refused one sets both events. *)
LEMMA RelapseKeeps == DaemonInv /\ SessionRelapse => DaemonInv'
  <1> SUFFICES ASSUME DaemonInv, SessionRelapse
      PROVE  DaemonInv'
    OBVIOUS
  <1> USE DaemonAssumption DEF DaemonInv, BudgetInv, WakeInv, NoLostWakeup,
        StopIsPrompt, RefusalInv, OnItsWayOut, AtRest, Starting,
        ReasonInv, StoppedForAReason, Repairable
  <1>1. CASE RelapseThrottled
    BY <1>1 DEF RelapseThrottled, EndPass, Goto, launchd, events, heal, drift,
         store, local, bounds
  <1>2. CASE RelapseGivesUp
    BY <1>2 DEF RelapseGivesUp, MayReconnect, EndPassStopped, CleanStop, Goto,
         launchd, events, heal, drift, store, local, bounds
  <1>3. CASE Reconnect
    BY <1>3 DEF Reconnect, MayReconnect, Goto, launchd, events, heal, drift,
         store, local, bounds
  <1>4. CASE ReconnectSucceeds
    BY <1>4 DEF ReconnectSucceeds, EndPass, Goto, launchd, events, heal, drift,
         store, local, bounds
  <1>5. CASE ReconnectRefused
    BY <1>5 DEF ReconnectRefused, EndPassStopped, CleanStop, Goto, launchd,
         events, heal, drift, store, local, bounds
  <1>6. CASE ReconnectFails
    BY <1>6 DEF ReconnectFails, Fault, EndPass, Goto, Die, Unscanned, launchd,
         events, heal, drift, store, local, bounds
  <1> QED BY <1>1, <1>2, <1>3, <1>4, <1>5, <1>6 DEF SessionRelapse

(* The loop keeps it: it waits only after it has seen that no stop is asked. *)
LEMMA LoopKeeps == DaemonInv /\ Loop => DaemonInv'
  <1> SUFFICES ASSUME DaemonInv, Loop
      PROVE  DaemonInv'
    OBVIOUS
  <1> USE DaemonAssumption DEF DaemonInv, BudgetInv, WakeInv, NoLostWakeup,
        StopIsPrompt, RefusalInv, OnItsWayOut, AtRest, Starting,
        ReasonInv, StoppedForAReason, Repairable
  <1>1. CASE LoopTest
    BY <1>1 DEF LoopTest, Goto, launchd, events, heal, drift, store, local,
         bounds
  <1>2. CASE WaitReturns
    BY <1>2 DEF WaitReturns, Goto, launchd, events, heal, drift, store, local,
         bounds
  <1>3. CASE TestStop
    BY <1>3 DEF TestStop, Goto, launchd, events, heal, drift, store, local,
         bounds
  <1>4. CASE ClearWake
    BY <1>4 DEF ClearWake, Goto, launchd, events, heal, drift, store, local,
         bounds
  <1>5. CASE Shutdown
    BY <1>5 DEF Shutdown, Die, Unscanned, launchd, events, heal, drift, store,
         local, bounds
  <1> QED BY <1>1, <1>2, <1>3, <1>4, <1>5 DEF Loop

(* So every step does. *)
LEMMA StepKeeps == DaemonInv /\ [Next]_vars => DaemonInv'
  <1> SUFFICES ASSUME DaemonInv, [Next]_vars
      PROVE  DaemonInv'
    OBVIOUS
  <1>1. CASE Operator
    BY <1>1, OperatorKeeps
  <1>2. CASE World \/ Debounced \/ Respawn
    BY <1>2, WorldKeeps
  <1>3. CASE Startup
    BY <1>3, StartupKeeps
  <1>4. CASE RunSync
    BY <1>4, RunSyncKeeps
  <1>5. CASE SessionRelapse
    BY <1>5, RelapseKeeps
  <1>6. CASE Loop
    BY <1>6, LoopKeeps
  <1>7. CASE UNCHANGED vars
    BY <1>7 DEF vars, launchd, events, heal, drift, store, local, bounds,
       DaemonInv, BudgetInv, WakeInv, NoLostWakeup, StopIsPrompt, RefusalInv,
       OnItsWayOut, AtRest, Starting,
        ReasonInv, StoppedForAReason, Repairable
  <1> QED BY <1>1, <1>2, <1>3, <1>4, <1>5, <1>6, <1>7 DEF Next

(* The invariant holds in every reachable state. *)
THEOREM DaemonInductive == Spec => []DaemonInv
  BY InitInv, StepKeeps, PTL DEF Spec

(* A process never logs in again more than max_session_reconnects times      *)
(* between two completed passes, for every budget and throttle.              *)
THEOREM LoginsBounded == Spec => []LoginBudget
  <1>1. DaemonInv => LoginBudget
    BY DaemonAssumption DEF DaemonInv, BudgetInv, LoginBudget
  <1> QED BY <1>1, DaemonInductive, PTL

(* A login iCloud refused is not repeated, kills aside: exit 0 and launchd's *)
(* SuccessfulExit=false together.                                            *)
THEOREM RefusedLoginNotRepeated == Spec => []NoLoginReplay
  <1>1. DaemonInv => NoLoginReplay
    BY DEF DaemonInv, RefusalInv, NoLoginReplay
  <1> QED BY <1>1, DaemonInductive, PTL

(* The wake event of a vault edit no pass has scanned survives until the     *)
(* loop waits.                                                               *)
THEOREM WakeupsKept == Spec => []NoLostWakeup
  <1>1. DaemonInv => NoLostWakeup
    BY DEF DaemonInv, WakeInv
  <1> QED BY <1>1, DaemonInductive, PTL

(* A stop wakes the loop, whoever asked for it and whenever.                 *)
THEOREM StopsPromptly == Spec => []StopIsPrompt
  <1>1. DaemonInv => StopIsPrompt
    BY DEF DaemonInv
  <1> QED BY <1>1, DaemonInductive, PTL

(* A daemon that went down cleanly by itself left a cause the operator can   *)
(* repair in last_error, whatever happened on the way out.                   *)
THEOREM CauseIsShown == Spec => []StoppedForAReason
  <1>1. DaemonInv => StoppedForAReason
    BY DEF DaemonInv, ReasonInv
  <1> QED BY <1>1, DaemonInductive, PTL

-----------------------------------------------------------------------------
\* The flags are flags.
Flags ==
    /\ loaded \in BOOLEAN
    /\ stop \in BOOLEAN /\ wake \in BOOLEAN /\ armed \in BOOLEAN
    /\ defer \in BOOLEAN /\ recent \in BOOLEAN /\ backoff \in BOOLEAN
    /\ corrupt \in BOOLEAN
    /\ watch \in BOOLEAN /\ noticed \in BOOLEAN /\ signalled \in BOOLEAN

\* The states and counters are of their kinds; a kill is one of the faults, the
\* trips the daemon counts are the passes that suppressed deletions, one after
\* the other, and it backs off only at the limit.
Counts ==
    /\ exit \in {"none", "clean", "crash", "busy", "corrupt"}
    /\ pc \in Steps
    /\ lastError \in {"none", "auth", "identity", "baseline", "preflight",
                      "retry", "lapsed", "healed", "drift"}
    /\ session \in {"valid", "lapsed", "refused"}
    /\ vault \in {"clean", "edited", "scanned"}
    /\ relapses \in 0..MaxSessionReconnects
    /\ applied \in 0..2 /\ trips \in 0..MaxTrips
    /\ logins \in Nat /\ refused \in Nat
    /\ edits \in 0..MaxEdits /\ faults \in 0..MaxFaults
    /\ kills \in 0..MaxFaults /\ kills <= faults
    /\ backoff => trips = MaxTrips

KindInv == Flags /\ Counts

(* The initial states are of their kinds. *)
LEMMA InitKinds == Init => KindInv
  <1>1. Init => Flags
    BY Zenon DEF Init, Flags
  <1>2. Init => Counts
    BY DaemonAssumption DEF Init, Counts, Steps
  <1> QED BY <1>1, <1>2 DEF KindInv

(* The operator's and launchd's steps keep the flags, *)
LEMMA OperatorFlags == Flags /\ Operator => Flags'
  <1> SUFFICES ASSUME Flags, Operator
      PROVE  Flags'
    OBVIOUS
  <1> USE DEF Flags, launchd, events, heal, drift, store, local, bounds
  <1>1. CASE Load
    BY <1>1, Zenon DEF Load, SpawnProcess
  <1>2. CASE Signal(loaded)
    BY <1>2, Zenon DEF Signal, Fault
  <1>3. CASE BootOut
    BY <1>3, ZenonT(60) DEF BootOut, Signal, Fault
  <1>4. CASE Authenticate
    BY <1>4, Zenon DEF Authenticate
  <1>5. CASE Rebaseline
    BY <1>5, Zenon DEF Rebaseline
  <1> QED BY <1>1, <1>2, <1>3, <1>4, <1>5 DEF Operator

(* and so do the environment's, *)
LEMMA WorldFlags == Flags /\ (World \/ Debounced \/ Respawn) => Flags'
  <1> SUFFICES ASSUME Flags, World \/ Debounced \/ Respawn
      PROVE  Flags'
    OBVIOUS
  <1> USE DEF Flags, launchd, events, heal, drift, store, local, bounds
  <1>1. CASE Edit
    BY <1>1, Zenon DEF Edit, Running, Starting
  <1>2. CASE SessionEnds
    BY <1>2, Zenon DEF SessionEnds, Fault
  <1>3. CASE BaselineDamaged
    BY <1>3, Zenon DEF BaselineDamaged, Fault
  <1>4. CASE IntervalElapses
    BY <1>4, Zenon DEF IntervalElapses
  <1>5. CASE Kill
    BY <1>5, Zenon DEF Kill, Die, Unscanned
  <1>6. CASE Debounced
    BY <1>6, Zenon DEF Debounced
  <1>7. CASE Respawn
    BY <1>7, Zenon DEF Respawn, SpawnProcess
  <1> QED BY <1>1, <1>2, <1>3, <1>4, <1>5, <1>6, <1>7 DEF World

(* a start's, *)
LEMMA StartupFlags == Flags /\ Startup => Flags'
  <1> SUFFICES ASSUME Flags, Startup
      PROVE  Flags'
    OBVIOUS
  <1> USE DEF Flags, launchd, events, heal, drift, store, local, bounds
  <1>1. CASE LockBusy
    BY <1>1, Zenon DEF LockBusy, Die, Unscanned, Fault
  <1>2. CASE QuickCheckFails
    BY <1>2, Zenon DEF QuickCheckFails, Die, Unscanned
  <1>3. CASE PreflightFails
    BY <1>3, Zenon DEF PreflightFails, Die, Unscanned, Fault
  <1>4. CASE GatesPass
    BY <1>4, Zenon DEF GatesPass, Goto
  <1>5. CASE ConnectSucceeds
    BY <1>5, Zenon DEF ConnectSucceeds, Goto
  <1>6. CASE ConnectRefused
    BY <1>6, Zenon DEF ConnectRefused, Die, Unscanned
  <1>7. CASE ConnectFails
    BY <1>7, Zenon DEF ConnectFails, Die, Unscanned, Fault
  <1> QED BY <1>1, <1>2, <1>3, <1>4, <1>5, <1>6, <1>7 DEF Startup

(* a pass's, *)
LEMMA RunSyncFlags == Flags /\ RunSync => Flags'
  <1> SUFFICES ASSUME Flags, RunSync
      PROVE  Flags'
    OBVIOUS
  <1> USE DEF Flags, launchd, events, heal, drift, store, local, bounds
  <1>1. CASE BeginPass
    BY <1>1, Zenon DEF BeginPass, Goto
  <1>2. CASE \E suppressed \in BOOLEAN : PassCompletes(suppressed)
    BY <1>2, Zenon DEF PassCompletes, TrackDrift, EndPass, Goto, Unscanned
  <1>3. CASE PassFails
    BY <1>3, Zenon DEF PassFails, Fault, EndPass, Goto, Unscanned
  <1>4. CASE VaultMismatch
    BY <1>4, Zenon DEF VaultMismatch, Fault, EndPassStopped, CleanStop, Goto,
       Unscanned
  <1>5. CASE PassRefused
    BY <1>5, Zenon DEF PassRefused, EndPassStopped, CleanStop, Goto, Unscanned
  <1>6. CASE BaselineUnreadable
    BY <1>6, Zenon DEF BaselineUnreadable, EndPassStopped, CleanStop, Goto,
       Unscanned
  <1>7. CASE PassLapses
    BY <1>7, Zenon DEF PassLapses, Goto, Unscanned
  <1> QED BY <1>1, <1>2, <1>3, <1>4, <1>5, <1>6, <1>7 DEF RunSync

(* a reconnect's, *)
LEMMA RelapseFlags == Flags /\ SessionRelapse => Flags'
  <1> SUFFICES ASSUME Flags, SessionRelapse
      PROVE  Flags'
    OBVIOUS
  <1> USE DEF Flags, launchd, events, heal, drift, store, local, bounds
  <1>1. CASE RelapseThrottled
    BY <1>1, Zenon DEF RelapseThrottled, EndPass, Goto
  <1>2. CASE RelapseGivesUp
    BY <1>2, Zenon DEF RelapseGivesUp, MayReconnect, EndPassStopped,
       CleanStop, Goto
  <1>3. CASE Reconnect
    BY <1>3, DaemonAssumption, Zenon
       DEF DaemonAssumption, Reconnect, MayReconnect, Goto
  <1>4. CASE ReconnectSucceeds
    BY <1>4, Zenon DEF ReconnectSucceeds, EndPass, Goto
  <1>5. CASE ReconnectRefused
    BY <1>5, Zenon DEF ReconnectRefused, EndPassStopped, CleanStop, Goto
  <1>6. CASE ReconnectFails
    BY <1>6, Zenon DEF ReconnectFails, Fault, EndPass, Goto, Die, Unscanned
  <1> QED BY <1>1, <1>2, <1>3, <1>4, <1>5, <1>6 DEF SessionRelapse

(* and the loop's. *)
LEMMA LoopFlags == Flags /\ Loop => Flags'
  <1> SUFFICES ASSUME Flags, Loop
      PROVE  Flags'
    OBVIOUS
  <1> USE DEF Flags, launchd, events, heal, drift, store, local, bounds
  <1>1. CASE LoopTest
    BY <1>1, Zenon DEF LoopTest, Goto
  <1>2. CASE WaitReturns
    BY <1>2, Zenon DEF WaitReturns, Goto
  <1>3. CASE TestStop
    BY <1>3, Zenon DEF TestStop, Goto
  <1>4. CASE ClearWake
    BY <1>4, Zenon DEF ClearWake, Goto
  <1>5. CASE Shutdown
    BY <1>5, Zenon DEF Shutdown, Die, Unscanned
  <1> QED BY <1>1, <1>2, <1>3, <1>4, <1>5 DEF Loop

(* So every step does. *)
LEMMA StepFlags == Flags /\ [Next]_vars => Flags'
  <1> SUFFICES ASSUME Flags, [Next]_vars
      PROVE  Flags'
    OBVIOUS
  <1>1. CASE Operator
    BY <1>1, OperatorFlags
  <1>2. CASE World \/ Debounced \/ Respawn
    BY <1>2, WorldFlags
  <1>3. CASE Startup
    BY <1>3, StartupFlags
  <1>4. CASE RunSync
    BY <1>4, RunSyncFlags
  <1>5. CASE SessionRelapse
    BY <1>5, RelapseFlags
  <1>6. CASE Loop
    BY <1>6, LoopFlags
  <1>7. CASE UNCHANGED vars
    BY <1>7, Zenon DEF vars, launchd, events, heal, drift, store, local, bounds,
       Flags
  <1> QED BY <1>1, <1>2, <1>3, <1>4, <1>5, <1>6, <1>7 DEF Next

(* The operator's and launchd's steps keep the counts, *)
LEMMA OperatorCounts == Counts /\ Operator => Counts'
  <1> SUFFICES ASSUME Counts, Operator
      PROVE  Counts'
    OBVIOUS
  <1> USE DaemonAssumption DEF Counts, CountTo, Steps, launchd, events, heal,
        drift, store, local, bounds
  <1>1. CASE Load
    BY <1>1 DEF Load, SpawnProcess
  <1>2. CASE Signal(loaded)
    BY <1>2 DEF Signal, Fault
  <1>3. CASE BootOut
    BY <1>3 DEF BootOut, Signal, Fault
  <1>4. CASE Authenticate
    BY <1>4 DEF Authenticate
  <1>5. CASE Rebaseline
    BY <1>5 DEF Rebaseline
  <1> QED BY <1>1, <1>2, <1>3, <1>4, <1>5 DEF Operator

(* and so do the environment's, *)
LEMMA WorldCounts == Counts /\ (World \/ Debounced \/ Respawn) => Counts'
  <1> SUFFICES ASSUME Counts, World \/ Debounced \/ Respawn
      PROVE  Counts'
    OBVIOUS
  <1> USE DaemonAssumption DEF Counts, CountTo, Steps, launchd, events, heal,
        drift, store, local, bounds
  <1>1. CASE Edit
    BY <1>1 DEF Edit, Running, Starting
  <1>2. CASE SessionEnds
    BY <1>2 DEF SessionEnds, Fault
  <1>3. CASE BaselineDamaged
    BY <1>3 DEF BaselineDamaged, Fault
  <1>4. CASE IntervalElapses
    BY <1>4 DEF IntervalElapses
  <1>5. CASE Kill
    BY <1>5 DEF Kill, Die, Unscanned
  <1>6. CASE Debounced
    BY <1>6 DEF Debounced
  <1>7. CASE Respawn
    BY <1>7 DEF Respawn, SpawnProcess
  <1> QED BY <1>1, <1>2, <1>3, <1>4, <1>5, <1>6, <1>7 DEF World

(* a start's, *)
LEMMA StartupCounts == Counts /\ Startup => Counts'
  <1> SUFFICES ASSUME Counts, Startup
      PROVE  Counts'
    OBVIOUS
  <1> USE DaemonAssumption DEF Counts, CountTo, Steps, launchd, events, heal,
        drift, store, local, bounds
  <1>1. CASE LockBusy
    BY <1>1 DEF LockBusy, Die, Unscanned, Fault
  <1>2. CASE QuickCheckFails
    BY <1>2 DEF QuickCheckFails, Die, Unscanned
  <1>3. CASE PreflightFails
    BY <1>3 DEF PreflightFails, Die, Unscanned, Fault
  <1>4. CASE GatesPass
    BY <1>4 DEF GatesPass, Goto
  <1>5. CASE ConnectSucceeds
    BY <1>5 DEF ConnectSucceeds, Goto
  <1>6. CASE ConnectRefused
    BY <1>6 DEF ConnectRefused, Die, Unscanned
  <1>7. CASE ConnectFails
    BY <1>7 DEF ConnectFails, Die, Unscanned, Fault
  <1> QED BY <1>1, <1>2, <1>3, <1>4, <1>5, <1>6, <1>7 DEF Startup

(* a pass's, *)
LEMMA RunSyncCounts == Counts /\ RunSync => Counts'
  <1> SUFFICES ASSUME Counts, RunSync
      PROVE  Counts'
    OBVIOUS
  <1> USE DaemonAssumption DEF Counts, CountTo, Steps, launchd, events, heal,
        drift, store, local, bounds
  <1>1. CASE BeginPass
    BY <1>1 DEF BeginPass, Goto
  <1>2. ASSUME NEW suppressed \in BOOLEAN, PassCompletes(suppressed)
        PROVE  Counts'
    <2>1. trips' \in 0..MaxTrips
      BY <1>2 DEF PassCompletes, TrackDrift
    <2>2. backoff' => suppressed /\ (backoff \/ trips' >= MaxTrips)
      BY <1>2, Zenon DEF PassCompletes, TrackDrift
    <2>3. backoff /\ suppressed => trips' = MaxTrips
      BY <1>2 DEF PassCompletes, TrackDrift
    <2>4. backoff' => trips' = MaxTrips
      BY <2>1, <2>2, <2>3
    <2> QED BY <1>2, <2>1, <2>4 DEF PassCompletes, EndPass, Goto, Unscanned
  <1>3. CASE PassFails
    BY <1>3 DEF PassFails, Fault, EndPass, Goto, Unscanned
  <1>4. CASE VaultMismatch
    BY <1>4 DEF VaultMismatch, Fault, EndPassStopped, CleanStop, Goto,
       Unscanned
  <1>5. CASE PassRefused
    BY <1>5 DEF PassRefused, Fault, EndPassStopped, CleanStop, Goto, Unscanned
  <1>6. CASE BaselineUnreadable
    BY <1>6 DEF BaselineUnreadable, EndPassStopped, CleanStop, Goto, Unscanned
  <1>7. CASE PassLapses
    BY <1>7 DEF PassLapses, Goto, Unscanned
  <1> QED BY <1>1, <1>2, <1>3, <1>4, <1>5, <1>6, <1>7 DEF RunSync

(* a reconnect's, *)
LEMMA RelapseCounts == Counts /\ SessionRelapse => Counts'
  <1> SUFFICES ASSUME Counts, SessionRelapse
      PROVE  Counts'
    OBVIOUS
  <1> USE DaemonAssumption DEF Counts, CountTo, Steps, launchd, events, heal,
        drift, store, local, bounds
  <1>1. CASE RelapseThrottled
    BY <1>1 DEF RelapseThrottled, EndPass, Goto
  <1>2. CASE RelapseGivesUp
    BY <1>2 DEF RelapseGivesUp, MayReconnect, EndPassStopped, CleanStop, Goto
  <1>3. CASE Reconnect
    BY <1>3 DEF Reconnect, MayReconnect, Goto
  <1>4. CASE ReconnectSucceeds
    BY <1>4 DEF ReconnectSucceeds, EndPass, Goto
  <1>5. CASE ReconnectRefused
    BY <1>5 DEF ReconnectRefused, EndPassStopped, CleanStop, Goto
  <1>6. CASE ReconnectFails
    BY <1>6 DEF ReconnectFails, Fault, EndPass, Goto, Die, Unscanned
  <1> QED BY <1>1, <1>2, <1>3, <1>4, <1>5, <1>6 DEF SessionRelapse

(* and the loop's. *)
LEMMA LoopCounts == Counts /\ Loop => Counts'
  <1> SUFFICES ASSUME Counts, Loop
      PROVE  Counts'
    OBVIOUS
  <1> USE DaemonAssumption DEF Counts, CountTo, Steps, launchd, events, heal,
        drift, store, local, bounds
  <1>1. CASE LoopTest
    BY <1>1 DEF LoopTest, Goto
  <1>2. CASE WaitReturns
    BY <1>2 DEF WaitReturns, Goto
  <1>3. CASE TestStop
    BY <1>3 DEF TestStop, Goto
  <1>4. CASE ClearWake
    BY <1>4 DEF ClearWake, Goto
  <1>5. CASE Shutdown
    BY <1>5 DEF Shutdown, Die, Unscanned
  <1> QED BY <1>1, <1>2, <1>3, <1>4, <1>5 DEF Loop

(* So every step does. *)
LEMMA StepCounts == Counts /\ [Next]_vars => Counts'
  <1> SUFFICES ASSUME Counts, [Next]_vars
      PROVE  Counts'
    OBVIOUS
  <1>1. CASE Operator
    BY <1>1, OperatorCounts
  <1>2. CASE World \/ Debounced \/ Respawn
    BY <1>2, WorldCounts
  <1>3. CASE Startup
    BY <1>3, StartupCounts
  <1>4. CASE RunSync
    BY <1>4, RunSyncCounts
  <1>5. CASE SessionRelapse
    BY <1>5, RelapseCounts
  <1>6. CASE Loop
    BY <1>6, LoopCounts
  <1>7. CASE UNCHANGED vars
    BY <1>7 DEF vars, launchd, events, heal, drift, store, local, bounds, Counts
  <1> QED BY <1>1, <1>2, <1>3, <1>4, <1>5, <1>6, <1>7 DEF Next

(* Every variable keeps its type, in every reachable state. *)
THEOREM KindsInductive == Spec => []KindInv
  BY InitKinds, StepFlags, StepCounts, PTL DEF Spec, KindInv

(* Type correctness (daemon.py Daemon.__init__ and run): the counters stay   *)
(* within the budgets and limits of the configuration.                       *)
THEOREM DaemonTypes == Spec => []TypeOK
  <1>1. KindInv => TypeOK
    BY DEF KindInv, Flags, Counts, TypeOK
  <1> QED BY <1>1, KindsInductive, PTL
=============================================================================
