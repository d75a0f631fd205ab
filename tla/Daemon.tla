-------------------------------- MODULE Daemon --------------------------------
(***************************************************************************)
(* The daemon of one profile (ifolder_sync/daemon.py) under launchd: its   *)
(* startup gates, the wait-and-sync loop, the debounced wake from the      *)
(* vault watcher (watcher.py), the way each outcome of a pass ends or      *)
(* continues the run, the bounded reconnects after a lapsed session, the   *)
(* slow polling after repeated threshold trips, and the restart of a       *)
(* process that did not exit cleanly (KeepAlive SuccessfulExit=false, the  *)
(* agent cli.py writes).                                                   *)
(*                                                                         *)
(* A pass is one step with the outcomes sync_once can have; FileSync and   *)
(* TreeSync open it.  Time is not counted: a poll timeout may elapse at    *)
(* any moment of a wait, and recent is TRUE until the minimum interval     *)
(* since the last reconnect has passed.                                    *)
(***************************************************************************)
EXTENDS Naturals

CONSTANTS
    MaxSessionReconnects, \* config.max_session_reconnects
    ThrottleReconnects,   \* config.min_reconnect_interval_seconds > 0
    MaxTrips,             \* trips that start the backoff: 3 in the code
    MaxEdits,             \* bound on vault edits
    MaxFaults             \* bound on failures, lapses, signals and kills

ASSUME DaemonAssumption ==
    /\ MaxSessionReconnects \in Nat
    /\ ThrottleReconnects \in BOOLEAN
    /\ MaxTrips \in Nat \ {0}
    /\ MaxEdits \in Nat /\ MaxFaults \in Nat

VARIABLES
    \* launchd
    loaded,    \* the job is bootstrapped
    exit,      \* how the last process ended
    \* the process
    pc,
    stop, wake,          \* the two threading.Events
    armed,               \* the debounce timer runs
    defer,               \* this is the initial pass
    relapses, recent,    \* _relapse_count, _last_reconnect_at
    applied,             \* _apply_passes, counted to 2
    trips, backoff,      \* _trips, _backoff
    \* the state store
    lastError,           \* meta last_error, by cause
    corrupt,             \* the baseline file is damaged
    \* iCloud
    session,   \* "valid", "lapsed" (a login heals it) or "refused" (an operator must)
    \* the environment and history
    watch,     \* config.watch_local
    vault,     \* "clean", "edited" since the last scan, "scanned" by this pass
    noticed,   \* the edit's debounce has fired
    signalled, \* this process was asked to stop
    logins,    \* reconnects since a pass completed or the process began
    refused,   \* logins iCloud refused since the operator last acted
    edits, faults, kills

launchd == <<loaded, exit>>
events  == <<stop, wake>>
heal    == <<relapses, recent, logins>>
drift   == <<applied, trips, backoff>>
store   == <<lastError, corrupt>>
local   == <<watch, vault, noticed, armed, edits>>
bounds  == <<faults, kills>>
vars    == <<launchd, pc, events, defer, heal, drift, store, session, local,
             signalled, refused, bounds>>

Steps == { "off", "gates", "connect", "begin", "pass", "relapse", "reconnect",
           "loop", "wait", "woken", "clear", "shutdown" }

\* The steps before the signal handlers are installed.
Starting == { "gates", "connect" }

Running == pc \notin Starting \cup {"off"}

Init ==
    /\ loaded = FALSE /\ exit = "none" /\ pc = "off"
    /\ stop = FALSE /\ wake = FALSE /\ armed = FALSE /\ defer = FALSE
    /\ relapses = 0 /\ recent = FALSE
    /\ applied = 0 /\ trips = 0 /\ backoff = FALSE
    /\ lastError = "none" /\ corrupt = FALSE
    /\ session \in {"valid", "lapsed", "refused"}
    /\ watch \in BOOLEAN /\ vault = "edited" /\ noticed = FALSE
    /\ signalled = FALSE /\ logins = 0 /\ refused = 0
    /\ edits = 0 /\ faults = 0 /\ kills = 0

-----------------------------------------------------------------------------
CountTo(max, n) == IF n < max THEN n + 1 ELSE max

Goto(step) == pc' = step

Fault == faults < MaxFaults /\ faults' = faults + 1 /\ UNCHANGED kills

\* A failing pass leaves the edit it scanned to a later one.
Unscanned == IF vault = "scanned" THEN "edited" ELSE vault

\* The process is gone, and with it everything it held in memory.
Die(how) ==
    /\ pc' = "off" /\ exit' = how
    /\ stop' = FALSE /\ wake' = FALSE /\ armed' = FALSE /\ defer' = FALSE
    /\ relapses' = 0 /\ recent' = FALSE /\ logins' = 0
    /\ applied' = 0 /\ trips' = 0 /\ backoff' = FALSE
    /\ vault' = Unscanned /\ noticed' = FALSE
    /\ UNCHANGED <<loaded, session, watch, edits>>

\* Mutant of CleanStop: nothing is left for status to show.
CleanStopSilent(cause) ==
    /\ UNCHANGED lastError
    /\ stop' = TRUE /\ wake' = TRUE

\* A clean stop from inside the run: an error for status to show, both events.
CleanStop(cause) ==
    /\ lastError' = cause
    /\ stop' = TRUE /\ wake' = TRUE

-----------------------------------------------------------------------------
\* launchd and the operator.
SpawnProcess == pc' = "gates" /\ signalled' = FALSE

\* start, restart, or a login with RunAtLoad.
Load ==
    /\ pc = "off"
    /\ loaded' = TRUE /\ refused' = 0 /\ exit' = "none" /\ kills' = 0
    /\ SpawnProcess
    /\ UNCHANGED <<events, defer, heal, drift, store, session, local, faults>>

\* KeepAlive with SuccessfulExit=false.
Respawn ==
    /\ pc = "off" /\ loaded /\ exit = "crash"
    /\ SpawnProcess
    /\ UNCHANGED <<launchd, events, defer, heal, drift, store, session, local,
                   refused, bounds>>

\* SIGTERM or SIGINT: before the handlers are installed it ends the process.
Signal(job) ==
    /\ pc # "off"
    /\ Fault
    /\ loaded' = job
    /\ signalled' = TRUE
    /\ IF pc \in Starting
       THEN /\ pc' = "off" /\ exit' = "crash"
            /\ UNCHANGED events
       ELSE /\ stop' = TRUE /\ wake' = TRUE
            /\ UNCHANGED <<pc, exit>>
    /\ UNCHANGED <<defer, heal, drift, store, session, local, refused>>

\* bootout unloads the job and signals its process.
BootOut ==
    \/ Signal(FALSE)
    \/ /\ pc = "off" /\ loaded
       /\ loaded' = FALSE
       /\ UNCHANGED <<exit, pc, events, defer, heal, drift, store, session,
                      local, signalled, refused, bounds>>

Kill ==
    /\ pc # "off"
    /\ faults < MaxFaults /\ faults' = faults + 1 /\ kills' = kills + 1
    /\ Die("crash")
    /\ UNCHANGED <<store, signalled, refused>>

\* auth: a trusted session again.
Authenticate ==
    /\ pc = "off"
    /\ session' = "valid" /\ refused' = 0
    /\ UNCHANGED <<launchd, pc, events, defer, heal, drift, store, local,
                   signalled, bounds>>

\* rebaseline: a new store without the old note; a clean exit is answered.
Rebaseline ==
    /\ pc = "off"
    /\ corrupt' = FALSE /\ lastError' = "none"
    /\ exit' = IF exit = "crash" THEN exit ELSE "none"
    /\ UNCHANGED <<loaded, pc, events, defer, heal, drift, session, local,
                   signalled, refused, bounds>>

-----------------------------------------------------------------------------
\* A user writes the vault; every event restarts the debounce timer.
Edit ==
    /\ edits < MaxEdits
    /\ edits' = edits + 1
    /\ vault' = "edited" /\ noticed' = FALSE
    /\ armed' = IF watch /\ Running THEN TRUE ELSE armed
    /\ UNCHANGED <<launchd, pc, events, defer, heal, drift, store, session,
                   watch, signalled, refused, bounds>>

\* The timer thread calls _on_local_change.
Debounced ==
    /\ armed
    /\ armed' = FALSE
    /\ wake' = TRUE
    /\ noticed' = (vault = "edited")
    /\ UNCHANGED <<launchd, pc, stop, defer, heal, drift, store, session,
                   watch, vault, edits, signalled, refused, bounds>>

\* Apple expires the login token, or revokes the trust behind it.
SessionEnds ==
    /\ session # "refused"
    /\ Fault
    /\ session' \in {"lapsed", "refused"} \ {session}
    /\ UNCHANGED <<launchd, pc, events, defer, heal, drift, store, local,
                   signalled, refused>>

BaselineDamaged ==
    /\ ~corrupt
    /\ Fault
    /\ corrupt' = TRUE
    /\ UNCHANGED <<launchd, pc, events, defer, heal, drift, lastError, session,
                   local, signalled, refused>>

IntervalElapses ==
    /\ recent
    /\ recent' = FALSE
    /\ UNCHANGED <<launchd, pc, events, defer, relapses, logins, drift, store,
                   session, local, signalled, refused, bounds>>

-----------------------------------------------------------------------------
\* run, up to the login: the lock, quick_check and _preflight, in that order.
\* cmd_start turns AlreadyRunning and CorruptBaselineError into exit 0.
LockBusy ==
    /\ pc = "gates"
    /\ Fault
    /\ Die("busy")
    /\ UNCHANGED <<store, signalled, refused>>

\* The note that it happened goes to the damaged store and may be lost.
QuickCheckFails ==
    /\ pc = "gates"
    /\ corrupt
    /\ Die("corrupt")
    /\ lastError' \in {lastError, "baseline"}
    /\ UNCHANGED <<corrupt, signalled, refused, bounds>>

PreflightFails ==
    /\ pc = "gates"
    /\ ~corrupt
    /\ Fault
    /\ Die("clean")
    /\ lastError' = "preflight"
    /\ UNCHANGED <<corrupt, signalled, refused>>

GatesPass ==
    /\ pc = "gates"
    /\ ~corrupt
    /\ Goto("connect")
    /\ UNCHANGED <<launchd, events, defer, heal, drift, store, session, local,
                   signalled, refused, bounds>>

\* A login heals a lapsed session.  The walk cache is imported, the watcher
\* and the signal handlers are installed, and the initial pass is next.
ConnectSucceeds ==
    /\ pc = "connect"
    /\ session # "refused"
    /\ session' = "valid"
    /\ defer' = TRUE
    /\ Goto("begin")
    /\ UNCHANGED <<launchd, events, heal, drift, store, local, signalled,
                   refused, bounds>>

\* Mutant of ConnectRefused: the error is left to end the process.
ConnectRefusedEscapes ==
    /\ pc = "connect"
    /\ session = "refused"
    /\ refused' = refused + 1
    /\ Die("crash")
    /\ lastError' = "auth"
    /\ UNCHANGED <<corrupt, signalled, bounds>>

ConnectRefused ==
    /\ pc = "connect"
    /\ session = "refused"
    /\ refused' = refused + 1
    /\ Die("clean")
    /\ lastError' = "auth"
    /\ UNCHANGED <<corrupt, signalled, bounds>>

\* Only RuntimeError is caught: a network or API error ends the process.
ConnectFails ==
    /\ pc = "connect"
    /\ Fault
    /\ Die("crash")
    /\ UNCHANGED <<store, signalled, refused>>

-----------------------------------------------------------------------------
\* _run_sync, from the lock to sync_once.  The main thread is its only caller.
BeginPass ==
    /\ pc = "begin"
    /\ vault' = IF vault = "edited" THEN "scanned" ELSE vault
    /\ noticed' = FALSE
    /\ applied' = IF defer THEN applied ELSE CountTo(2, applied)
    /\ Goto("pass")
    /\ UNCHANGED <<launchd, events, defer, heal, trips, backoff, store,
                   session, watch, armed, edits, signalled, refused, bounds>>

\* Mutant of EndPass: the wake that started the pass is cleared after it.
EndPassClearing ==
    /\ Goto("loop")
    /\ defer' = FALSE
    /\ wake' = FALSE /\ UNCHANGED stop

\* The finally clause: whatever the outcome, the loop goes on to its test.
EndPass ==
    /\ Goto("loop")
    /\ defer' = FALSE
    /\ UNCHANGED events

EndPassStopped(cause) ==
    /\ Goto("loop")
    /\ defer' = FALSE
    /\ CleanStop(cause)

TrackDrift(suppressed) ==
    IF suppressed
    THEN /\ trips' = CountTo(MaxTrips, trips)
         /\ backoff' = (backoff \/ trips' >= MaxTrips)
    ELSE trips' = 0 /\ backoff' = FALSE

\* sync_once returned: it listed iCloud, so the session is good.  A stopped
\* pass returns early and may have left the edit; a deferring one suppresses
\* nothing.  The first applying pass to trip the threshold says DRIFT.
PassCompletes(suppressed) ==
    /\ pc = "pass"
    /\ session = "valid" /\ ~corrupt
    /\ suppressed => ~defer
    /\ relapses' = 0 /\ logins' = 0 /\ UNCHANGED recent
    /\ lastError' = IF suppressed /\ applied <= 1 THEN "drift" ELSE "none"
    /\ TrackDrift(suppressed) /\ UNCHANGED applied
    /\ vault' = IF vault = "scanned" /\ ~stop THEN "clean" ELSE Unscanned
    /\ EndPass
    /\ UNCHANGED <<launchd, corrupt, session, watch, noticed, armed, edits,
                   signalled, refused, bounds>>

\* LocalScanError, or any other error that is not a lapse: the next poll
\* tries again.
PassFails ==
    /\ pc = "pass"
    /\ Fault
    /\ lastError' = "retry"
    /\ vault' = Unscanned
    /\ EndPass
    /\ UNCHANGED <<launchd, heal, drift, corrupt, session, watch, noticed,
                   armed, edits, signalled, refused>>

\* VaultIdentityError: only a rebaseline can help.
VaultMismatch ==
    /\ pc = "pass"
    /\ Fault
    /\ vault' = Unscanned
    /\ EndPassStopped("identity")
    /\ UNCHANGED <<launchd, heal, drift, corrupt, session, watch, noticed,
                   armed, edits, signalled, refused>>

\* One of the typed authentication errors, or a RuntimeError: the engine takes
\* for one a listing too short for strict_child_count, whatever the session.
PassRefused ==
    /\ pc = "pass"
    /\ \/ session = "refused" /\ UNCHANGED bounds
       \/ session = "valid" /\ Fault
    /\ vault' = Unscanned
    /\ EndPassStopped("auth")
    /\ UNCHANGED <<launchd, heal, drift, corrupt, session, watch, noticed,
                   armed, edits, signalled, refused>>

BaselineUnreadable ==
    /\ pc = "pass"
    /\ corrupt
    /\ vault' = Unscanned
    /\ \E cause \in {lastError, "baseline"} : EndPassStopped(cause)
    /\ UNCHANGED <<launchd, heal, drift, corrupt, session, watch, noticed,
                   armed, edits, signalled, refused, bounds>>

\* Mutant of PassLapses: a lapse is retried like any other failure.
PassLapsesRetries ==
    /\ pc = "pass"
    /\ session = "lapsed"
    /\ vault' = Unscanned
    /\ lastError' = "retry"
    /\ EndPass
    /\ UNCHANGED <<launchd, heal, drift, corrupt, session, watch, noticed,
                   armed, edits, signalled, refused, bounds>>

\* is_session_relapse: the login token lapsed.
PassLapses ==
    /\ pc = "pass"
    /\ session = "lapsed"
    /\ vault' = Unscanned
    /\ Goto("relapse")
    /\ UNCHANGED <<launchd, events, defer, heal, drift, store, session, watch,
                   noticed, armed, edits, signalled, refused, bounds>>

-----------------------------------------------------------------------------
\* _handle_session_relapse: too soon, once too often, or a login in place.
RelapseThrottled ==
    /\ pc = "relapse"
    /\ ThrottleReconnects /\ recent
    /\ lastError' = "lapsed"
    /\ EndPass
    /\ UNCHANGED <<launchd, heal, drift, corrupt, session, local, signalled,
                   refused, bounds>>

\* Mutant of MayReconnect: no budget.
MayAlwaysReconnect == ~(ThrottleReconnects /\ recent)

MayReconnect ==
    /\ ~(ThrottleReconnects /\ recent)
    /\ relapses < MaxSessionReconnects

\* The count that passed the budget is not kept: the process is stopping.
RelapseGivesUp ==
    /\ pc = "relapse"
    /\ ~(ThrottleReconnects /\ recent)
    /\ ~MayReconnect
    /\ EndPassStopped("auth")
    /\ UNCHANGED <<launchd, heal, drift, corrupt, session, local, signalled,
                   refused, bounds>>

Reconnect ==
    /\ pc = "relapse"
    /\ MayReconnect
    /\ relapses' = relapses + 1 /\ recent' = ThrottleReconnects
    /\ logins' = logins + 1
    /\ Goto("reconnect")
    /\ UNCHANGED <<launchd, events, defer, drift, store, session, local,
                   signalled, refused, bounds>>

\* Mutant of ReconnectSucceeds: the login itself refills the budget.
ReconnectRefills ==
    /\ pc = "reconnect"
    /\ session # "refused"
    /\ session' = "valid"
    /\ relapses' = 0
    /\ lastError' = "healed"
    /\ EndPass
    /\ UNCHANGED <<launchd, recent, logins, drift, corrupt, local, signalled,
                   refused, bounds>>

ReconnectSucceeds ==
    /\ pc = "reconnect"
    /\ session # "refused"
    /\ session' = "valid"
    /\ lastError' = "healed"
    /\ EndPass
    /\ UNCHANGED <<launchd, heal, drift, corrupt, local, signalled, refused,
                   bounds>>

ReconnectRefused ==
    /\ pc = "reconnect"
    /\ session = "refused"
    /\ refused' = refused + 1
    /\ EndPassStopped("auth")
    /\ UNCHANGED <<launchd, heal, drift, corrupt, session, local, signalled,
                   bounds>>

\* An API error is retried at the next poll.  A network error is no pyicloud
\* exception: it leaves the handler, the loop and the process.
ReconnectFails ==
    /\ pc = "reconnect"
    /\ Fault
    /\ \/ /\ lastError' = "retry"
          /\ EndPass
          /\ UNCHANGED <<launchd, heal, drift, session, local>>
       \/ /\ Die("crash")
          /\ UNCHANGED lastError
    /\ UNCHANGED <<corrupt, signalled, refused>>

-----------------------------------------------------------------------------
\* Mutant of LoopTest: the loop is left only from the wait.
LoopForever ==
    /\ pc = "loop"
    /\ Goto("wait")
    /\ UNCHANGED <<launchd, events, defer, heal, drift, store, session, local,
                   signalled, refused, bounds>>

LoopTest ==
    /\ pc = "loop"
    /\ Goto(IF stop THEN "shutdown" ELSE "wait")
    /\ UNCHANGED <<launchd, events, defer, heal, drift, store, session, local,
                   signalled, refused, bounds>>

\* The event is set, or the poll timeout elapsed.
WaitReturns ==
    /\ pc = "wait"
    /\ Goto("woken")
    /\ UNCHANGED <<launchd, events, defer, heal, drift, store, session, local,
                   signalled, refused, bounds>>

TestStop ==
    /\ pc = "woken"
    /\ Goto(IF stop THEN "shutdown" ELSE "clear")
    /\ UNCHANGED <<launchd, events, defer, heal, drift, store, session, local,
                   signalled, refused, bounds>>

ClearWake ==
    /\ pc = "clear"
    /\ wake' = FALSE
    /\ Goto("begin")
    /\ UNCHANGED <<launchd, stop, defer, heal, drift, store, session, local,
                   signalled, refused, bounds>>

\* The finally clause of run: the walk cache is saved, store and lock go.
Shutdown ==
    /\ pc = "shutdown"
    /\ Die("clean")
    /\ UNCHANGED <<store, signalled, refused, bounds>>

-----------------------------------------------------------------------------
Operator == Load \/ Signal(loaded) \/ BootOut \/ Authenticate \/ Rebaseline

World == Edit \/ SessionEnds \/ BaselineDamaged \/ IntervalElapses \/ Kill

Startup == LockBusy \/ QuickCheckFails \/ PreflightFails \/ GatesPass
           \/ ConnectSucceeds \/ ConnectRefused \/ ConnectFails

RunSync == BeginPass \/ (\E suppressed \in BOOLEAN : PassCompletes(suppressed))
           \/ PassFails \/ VaultMismatch \/ PassRefused \/ BaselineUnreadable
           \/ PassLapses

SessionRelapse == RelapseThrottled \/ RelapseGivesUp \/ Reconnect
                  \/ ReconnectSucceeds \/ ReconnectRefused \/ ReconnectFails

Loop == LoopTest \/ WaitReturns \/ TestStop \/ ClearWake \/ Shutdown

Next == Operator \/ World \/ Debounced \/ Respawn
        \/ Startup \/ RunSync \/ SessionRelapse \/ Loop

Spec == Init /\ [][Next]_vars

\* The process runs: every call returns or times out (the request timeout),
\* a wait returns after its poll timeout at the latest.  Threads of the timer
\* run, time passes, and launchd restarts a job that crashed.
Fairness ==
    /\ WF_vars(Startup) /\ WF_vars(RunSync) /\ WF_vars(SessionRelapse)
    /\ WF_vars(Loop)
    /\ WF_vars(Debounced) /\ WF_vars(IntervalElapses) /\ WF_vars(Respawn)

FairSpec == Spec /\ Fairness

-----------------------------------------------------------------------------
(* Type correctness. *)
TypeOK ==
    /\ loaded \in BOOLEAN
    /\ exit \in {"none", "clean", "crash", "busy", "corrupt"}
    /\ pc \in Steps
    /\ stop \in BOOLEAN /\ wake \in BOOLEAN /\ armed \in BOOLEAN
    /\ defer \in BOOLEAN
    /\ relapses \in 0..MaxSessionReconnects /\ recent \in BOOLEAN
    /\ applied \in 0..2 /\ trips \in 0..MaxTrips /\ backoff \in BOOLEAN
    /\ lastError \in {"none", "auth", "identity", "baseline", "preflight",
                      "retry", "lapsed", "healed", "drift"}
    /\ corrupt \in BOOLEAN
    /\ session \in {"valid", "lapsed", "refused"}
    /\ watch \in BOOLEAN /\ vault \in {"clean", "edited", "scanned"}
    /\ noticed \in BOOLEAN /\ signalled \in BOOLEAN
    /\ logins \in Nat /\ refused \in Nat
    /\ edits \in 0..MaxEdits /\ faults \in 0..MaxFaults
    /\ kills \in 0..MaxFaults

(* No wakeup is lost: once the debounce of a vault edit has fired and no     *)
(* pass has scanned the vault since, the loop either is on its way into a    *)
(* pass or will find the wake event set when it next waits (daemon.py run:   *)
(* the event is cleared before the pass, never after it).                    *)
NoLostWakeup ==
    noticed /\ vault = "edited"
        => wake \/ pc \in {"clear", "begin"}

(* A stop is prompt: whoever asked, a signal at any point of a pass or a     *)
(* pass that met an error only the operator can repair, the loop never       *)
(* sleeps a poll timeout on it (launchd would kill the process after         *)
(* ExitTimeOut and the walk cache would be lost).                            *)
StopIsPrompt == stop /\ pc = "wait" => wake

(* Reconnects are bounded: between two completed passes a process logs in    *)
(* again at most max_session_reconnects times, however often the session     *)
(* lapses, heals and lapses again (_handle_session_relapse).                 *)
LoginBudget == logins <= MaxSessionReconnects

(* A refused login is not repeated: once iCloud has refused it, the process  *)
(* exits 0 and launchd leaves it down until the operator acts.  Only a kill  *)
(* between the refusal and that exit costs one more login.                   *)
NoLoginReplay == refused <= 1 + kills

Repairable == {"auth", "identity", "preflight", "baseline"}

(* A daemon that went down by itself says why: after a clean exit nobody     *)
(* asked for, last_error names a cause the operator can repair; no later     *)
(* pass has cleared it.  A damaged store may be unable to keep the note.     *)
StoppedForAReason ==
    pc = "off" /\ exit = "clean" /\ ~signalled /\ ~corrupt
        => lastError \in Repairable

DownForGood == pc = "off" /\ ~(loaded /\ exit = "crash")

(* A vault edit is synced or the daemon is down for good: through failing    *)
(* passes, lapsed sessions, throttled and failed reconnects and crashes,     *)
(* with the watcher or without it.                                           *)
EditsAreSynced == vault # "clean" ~> vault = "clean" \/ DownForGood
=============================================================================
