------------------------------- MODULE Lifecycle -------------------------------
(***************************************************************************)
(* The commands that start, restart, stop and uninstall a profile's        *)
(* background daemon (cli.py cmd_start --background, cmd_restart,          *)
(* cmd_stop, cmd_uninstall, cmd_install_agent and the launchctl calls they *)
(* are made of), run by several terminals at once against launchd, with    *)
(* the daemon it supervises, an interrupted command and a new login.       *)
(*                                                                         *)
(* launchd is external: it is what the commands take it to be.  bootout    *)
(* sends SIGTERM and unloads the job once the process is gone; bootstrap   *)
(* of a label that is still loaded, or disabled, fails with EIO; kickstart *)
(* -k kills and respawns, after at most ThrottleInterval; a process that   *)
(* ends with an error is respawned, one that exits 0 is not; a login       *)
(* loads every agent whose plist is there and not disabled.                *)
(*                                                                         *)
(* Time is counted in units of _BOOTOUT_SETTLE_SECONDS.  A command's timer *)
(* is its deadline, and a poll is the chance of its step between two ticks *)
(* or after the last one.                                                  *)
(***************************************************************************)
EXTENDS Naturals

CONSTANTS
    Clients,        \* the terminals a command may be run in
    Settle,         \* _BOOTOUT_SETTLE_SECONDS
    Retry,          \* _BOOTSTRAP_RETRY_SECONDS
    Verify,         \* lifecycle_verify_timeout_seconds
    Throttle,       \* ThrottleInterval
    Buffer,         \* _VERIFY_BUFFER_SECONDS
    MaxDrain        \* the longest a daemon takes to end after SIGTERM, at most
                    \* ExitTimeOut

ASSUME LifecycleAssumption ==
    /\ {Settle, Retry, Verify, Buffer} \subseteq Nat \ {0}
    /\ {Throttle, MaxDrain} \subseteq Nat

VARIABLES
    job, proc,        \* the job in launchd, and its process
    due, left,        \* time until a throttled spawn, and until a drain is over
    plist, disabled,  \* the file in LaunchAgents, and launchd's override
    lock,             \* who holds the profile's instance lock
    pc, timer,        \* per client: the step of its command, its deadline
    report,           \* per client: what its last command told the user
    met               \* history, per client: what happened since it began

launchd == <<job, proc, due, left, disabled>>
client == <<pc, timer, report>>
vars == <<job, proc, due, left, plist, disabled, lock, pc, timer, report, met>>

StartSteps == { "plist", "start_bootout", "settle", "enable", "bootstrap", "check",
                "kickstart", "start_verify", "start_holder" }
StopSteps == { "observe", "holder", "stop_bootout", "stop_verify", "stop_holder" }
UninstallSteps == { "uninstall_bootout", "uninstall_verify", "uninstall_holder", "unlink" }

Steps == StartSteps \cup StopSteps \cup UninstallSteps \cup {"off"}

Reports == { "none", "started", "failed", "stopped", "still_running",
             "foreground", "error", "uninstalled" }

\* Mutant of StartVerify: a throttled spawn is not waited for.
ShortVerify == Verify

\* _start_verify_timeout
StartVerify == IF Verify > Throttle + Buffer THEN Verify ELSE Throttle + Buffer

\* A legacy user may have disabled the label with `unload -w`.
Init ==
    /\ plist \in BOOLEAN /\ disabled \in BOOLEAN
    /\ job \in {"absent", "loaded"}
    /\ job = "loaded" => plist /\ ~disabled
    /\ proc = IF job = "loaded" THEN "starting" ELSE "none"
    /\ due = 0 /\ left = 0
    /\ lock \in {"free", "other"}
    /\ pc = [c \in Clients |-> "off"]
    /\ timer = [c \in Clients |-> 0]
    /\ report = [c \in Clients |-> "none"]
    /\ met = [c \in Clients |-> {}]

-----------------------------------------------------------------------------
At(c, step) == pc[c] = step

Goto(c, step) == pc' = [pc EXCEPT ![c] = step]

Arm(c, t) == timer' = [timer EXCEPT ![c] = t]

\* A command that runs, or whose report still counts.
Watched(c) == ~At(c, "off") \/ report[c] \in {"started", "stopped", "uninstalled"}

Meet(S, what) ==
    met' = [d \in Clients |-> IF d \in S /\ Watched(d) THEN met[d] \cup {what} ELSE met[d]]

\* Every other command meets what c does.
Meets(c, what) == Meet(Clients \ {c}, what)

EveryoneMeets(what) == Meet(Clients, what)

Tell(c, said) ==
    /\ report' = [report EXCEPT ![c] = said]
    /\ Goto(c, "off")
    /\ Arm(c, 0)

\* What the others meet in a command at this step.
What(step) == IF step \in StartSteps THEN "start" ELSE "other"

Begin(c, step) ==
    /\ At(c, "off")
    /\ report' = [report EXCEPT ![c] = "none"]
    /\ Goto(c, step)
    /\ met' = [d \in Clients |->
                 IF d = c THEN {What(pc[e]) : e \in {e \in Clients \ {c} : ~At(e, "off")}}
                 ELSE IF Watched(d) THEN met[d] \cup {What(step)}
                 ELSE met[d]]
    /\ UNCHANGED <<launchd, plist, lock, timer>>

-----------------------------------------------------------------------------
\* _observe_daemon: what `launchctl print` shows of a job that is there.  A
\* process that was sent SIGTERM may show as running or in another state.
Printed ==
    CASE job = "absent" -> {"not_found"}
      [] proc \in {"starting", "up"} -> {"running"}
      [] proc = "draining" -> {"running", "unknown"}
      [] OTHER -> {"unknown"}

\* _write_agent_plist
WritePlist(c) ==
    /\ At(c, "plist")
    /\ plist' = TRUE
    /\ Goto(c, "start_bootout")
    /\ Meets(c, "start")
    /\ UNCHANGED <<launchd, lock, timer, report>>

\* What bootout does to the job: a process drains first, a job without one is
\* gone at once.
Unload ==
    \/ /\ job = "loaded" /\ proc \in {"starting", "up"}
       /\ job' = "unloading" /\ proc' = "draining"
       /\ left' \in 0..MaxDrain
       /\ UNCHANGED due
    \/ /\ job = "loaded" /\ proc \in {"none", "spawning"}
       /\ job' = "absent" /\ proc' = "none" /\ due' = 0
       /\ UNCHANGED left
    \/ /\ job # "loaded"
       /\ UNCHANGED <<job, proc, due, left>>

\* _converge_start ignores how bootout ends.
StartBootout(c) ==
    /\ At(c, "start_bootout")
    /\ Unload
    /\ Goto(c, "settle") /\ Arm(c, Settle)
    /\ Meets(c, "start")
    /\ UNCHANGED <<plist, disabled, lock, report>>

\* Mutant of AwaitNotLoaded: bootstrap follows bootout at once.
AwaitNothing(c) ==
    /\ At(c, "settle")
    /\ Goto(c, "enable") /\ Arm(c, 0)
    /\ Meets(c, "start")
    /\ UNCHANGED <<launchd, plist, lock, report>>

\* _await_not_loaded: until print finds no job, or the deadline, which a drain
\* outlasts when the daemon is slow to end.
AwaitNotLoaded(c) ==
    /\ At(c, "settle")
    /\ \/ job = "absent" /\ Meets(c, "start")
       \/ job # "absent" /\ timer[c] = 0 /\ EveryoneMeets("other")
    /\ Goto(c, "enable") /\ Arm(c, 0)
    /\ UNCHANGED <<launchd, plist, lock, report>>

\* A legacy `unload -w` is undone.
Enable(c) ==
    /\ At(c, "enable")
    /\ disabled' = FALSE
    /\ Goto(c, "bootstrap") /\ Arm(c, Retry)
    /\ Meets(c, "start")
    /\ UNCHANGED <<job, proc, due, left, plist, lock, report>>

\* RunAtLoad spawns the process of a job that is loaded.
Bootstrap(c) ==
    /\ At(c, "bootstrap")
    /\ \/ /\ job = "absent" /\ plist /\ ~disabled
          /\ job' = "loaded" /\ proc' = "spawning" /\ due' = 0
          /\ Goto(c, "kickstart")
       \/ /\ ~(job = "absent" /\ plist /\ ~disabled)
          /\ Goto(c, "check")
          /\ UNCHANGED <<job, proc, due>>
    /\ Meets(c, "start")
    /\ UNCHANGED <<left, plist, disabled, lock, timer, report>>

\* _bootstrap_with_retry after an error: a label that is there counts as loaded,
\* otherwise again until the deadline, then Exit.ERROR.
BootstrapCheck(c) ==
    /\ At(c, "check")
    /\ \/ job # "absent" /\ Goto(c, "kickstart") /\ UNCHANGED <<timer, report>>
       \/ job = "absent" /\ timer[c] # 0 /\ Goto(c, "bootstrap") /\ UNCHANGED <<timer, report>>
       \/ job = "absent" /\ timer[c] = 0 /\ Tell(c, "failed")
    /\ Meets(c, "start")
    /\ UNCHANGED <<launchd, plist, lock>>

\* Mutant of Kickstart: the old process keeps the instance lock.
KickstartOnly(c) ==
    /\ At(c, "kickstart")
    /\ IF job = "loaded"
       THEN proc' = "spawning" /\ due' \in 0..Throttle
       ELSE UNCHANGED <<proc, due>>
    /\ Goto(c, "start_verify") /\ Arm(c, StartVerify)
    /\ Meets(c, "start")
    /\ UNCHANGED <<job, left, plist, disabled, lock, report>>

\* The result of kickstart is not looked at.
Kickstart(c) ==
    /\ At(c, "kickstart")
    /\ IF job = "loaded"
       THEN /\ proc' = "spawning" /\ due' \in 0..Throttle
            /\ lock' = IF lock = "job" THEN "free" ELSE lock
       ELSE UNCHANGED <<proc, due, lock>>
    /\ Goto(c, "start_verify") /\ Arm(c, StartVerify)
    /\ Meets(c, "start")
    /\ UNCHANGED <<job, left, plist, disabled, report>>

-----------------------------------------------------------------------------
\* cmd_stop looks at the daemon before it does anything: without a job, a lock
\* holder is a foreground daemon that bootout cannot reach.
StopObserves(c) ==
    /\ At(c, "observe")
    /\ \E shown \in Printed : Goto(c, IF shown = "not_found" THEN "holder" ELSE "stop_bootout")
    /\ UNCHANGED <<launchd, plist, lock, timer, report, met>>

StopProbesHolder(c) ==
    /\ At(c, "holder")
    /\ IF lock = "free"
       THEN Goto(c, "stop_bootout") /\ UNCHANGED <<timer, report>>
       ELSE Tell(c, "foreground")
    /\ UNCHANGED <<launchd, plist, lock, met>>

\* Mutant of ConvergeStop: the process is ended, the job stays.
SignalOnly(c, next) ==
    /\ IF job = "loaded" /\ proc \in {"starting", "up"}
       THEN /\ proc' = "spawning" /\ due' \in 0..Throttle
            /\ lock' = IF lock = "job" THEN "free" ELSE lock
       ELSE UNCHANGED <<proc, due, lock>>
    /\ Goto(c, next) /\ Arm(c, Verify)
    /\ Meets(c, "other")
    /\ UNCHANGED <<job, left, plist, disabled, report>>

\* _converge_stop: bootout of a job that is already unloading may be refused.
ConvergeStop(c, next) ==
    /\ Unload
    /\ \/ Goto(c, next) /\ Arm(c, Verify) /\ UNCHANGED report
       \/ job = "unloading" /\ Tell(c, "error")
    /\ Meets(c, "other")
    /\ UNCHANGED <<plist, disabled, lock>>

StopBootout(c) == At(c, "stop_bootout") /\ ConvergeStop(c, "stop_verify")

UninstallBootout(c) == At(c, "uninstall_bootout") /\ ConvergeStop(c, "uninstall_verify")

-----------------------------------------------------------------------------
\* The steps of the _verify of each command, and the observation it waits for.
Verifying == {"start_verify", "stop_verify", "uninstall_verify"}

ProbingHolder == {"start_holder", "stop_holder", "uninstall_holder"}

HolderStep(step) == CASE step = "start_verify" -> "start_holder"
                      [] step = "stop_verify" -> "stop_holder"
                      [] step = "uninstall_verify" -> "uninstall_holder"

VerifyStep(step) == CHOOSE v \in Verifying : v = step \/ HolderStep(v) = step

\* The outcome of _verify: is_running is what was observed last.
Verified(c, is_running) ==
    CASE pc[c] \in StartSteps -> Tell(c, IF is_running THEN "started" ELSE "failed")
      [] pc[c] \in StopSteps -> Tell(c, IF is_running THEN "still_running" ELSE "stopped")
      [] pc[c] \in UninstallSteps -> Goto(c, "unlink") /\ Arm(c, 0) /\ UNCHANGED report

\* Mutant of Judge: _verify has no deadline.
JudgeForever(c, is_running) ==
    IF is_running = (pc[c] \in StartSteps)
    THEN Verified(c, is_running)
    ELSE Goto(c, VerifyStep(pc[c])) /\ UNCHANGED <<timer, report>>

\* One poll of _verify.  It ends when the daemon is as wanted, or at the
\* deadline with what it saw.
Judge(c, is_running) ==
    IF is_running = (pc[c] \in StartSteps) \/ timer[c] = 0
    THEN Verified(c, is_running)
    ELSE Goto(c, VerifyStep(pc[c])) /\ UNCHANGED <<timer, report>>

Poll(c) ==
    /\ pc[c] \in Verifying
    /\ \E shown \in Printed :
          IF shown = "not_found"
          THEN Goto(c, HolderStep(pc[c])) /\ UNCHANGED <<timer, report>>
          ELSE Judge(c, shown = "running")
    /\ Meets(c, What(pc[c]))
    /\ UNCHANGED <<launchd, plist, lock>>

\* Without a job, any holder of the lock counts as a foreground daemon.
PollHolder(c) ==
    /\ pc[c] \in ProbingHolder
    /\ Judge(c, lock # "free")
    /\ Meets(c, What(pc[c]))
    /\ UNCHANGED <<launchd, plist, lock>>

\* Mutant of Unlink: the job definition is left in LaunchAgents.
UnlinkNothing(c) ==
    /\ At(c, "unlink")
    /\ Tell(c, "uninstalled")
    /\ Meets(c, "other")
    /\ UNCHANGED <<launchd, plist, lock>>

\* cmd_uninstall removes the plist whatever _verify returned.
Unlink(c) ==
    /\ At(c, "unlink")
    /\ plist' = FALSE
    /\ Tell(c, "uninstalled")
    /\ Meets(c, "other")
    /\ UNCHANGED <<launchd, lock>>

\* cmd_install_agent writes the plist and loads nothing; one that is there already
\* stays what it is.
InstallAgent ==
    /\ ~plist
    /\ plist' = TRUE
    /\ EveryoneMeets("start")
    /\ UNCHANGED <<launchd, lock, client>>

\* A command is interrupted between two of its calls.
Interrupt(c) ==
    /\ ~At(c, "off")
    /\ Tell(c, "none")
    /\ Meets(c, "other")
    /\ UNCHANGED <<launchd, plist, lock>>

-----------------------------------------------------------------------------
Spawn ==
    /\ proc = "spawning" /\ due = 0
    /\ proc' = "starting"
    /\ UNCHANGED <<job, due, left, plist, disabled, lock, client, met>>

\* The daemon takes the lock and passes preflight and sign-in.
ComesUp ==
    /\ proc = "starting" /\ lock = "free"
    /\ proc' = "up" /\ lock' = "job"
    /\ UNCHANGED <<job, due, left, plist, disabled, client, met>>

\* A deliberate stop is exit 0 under launchd: the lock is held by another
\* process, preflight or sign-in failed, or the baseline is corrupt.
ExitsClean ==
    /\ proc \in {"starting", "up"}
    /\ proc' = "none"
    /\ lock' = IF lock = "job" THEN "free" ELSE lock
    /\ EveryoneMeets("other")
    /\ UNCHANGED <<job, due, left, plist, disabled, client>>

\* KeepAlive respawns a process that ends with an error.
Crashes ==
    /\ proc \in {"starting", "up"}
    /\ proc' = "spawning" /\ due' \in 0..Throttle
    /\ lock' = IF lock = "job" THEN "free" ELSE lock
    /\ EveryoneMeets("crash")
    /\ UNCHANGED <<job, left, plist, disabled, client>>

\* The process booted out is gone, by itself or by SIGKILL at ExitTimeOut.
DrainEnds ==
    /\ proc = "draining"
    /\ proc' = "none" /\ job' = "absent" /\ left' = 0
    /\ lock' = IF lock = "job" THEN "free" ELSE lock
    /\ UNCHANGED <<due, plist, disabled, client, met>>

\* A foreground daemon, a sync, a doctor --fix-orphans or a rebaseline takes the
\* lock, and gives it back.
OtherTakesLock ==
    /\ lock = "free"
    /\ lock' = "other"
    /\ EveryoneMeets("other")
    /\ UNCHANGED <<launchd, plist, client>>

OtherReleases ==
    /\ lock = "other"
    /\ lock' = "free"
    /\ UNCHANGED <<launchd, plist, client, met>>

\* Logout and login: nothing runs any more, the agents are loaded anew.  A stop
\* lasts until then.
Login ==
    /\ IF plist /\ ~disabled
       THEN job' = "loaded" /\ proc' = "spawning"
       ELSE job' = "absent" /\ proc' = "none"
    /\ due' = 0 /\ left' = 0
    /\ lock' = "free"
    /\ pc' = [c \in Clients |-> "off"]
    /\ timer' = [c \in Clients |-> 0]
    /\ report' = [c \in Clients |-> IF report[c] = "stopped" THEN "none" ELSE report[c]]
    /\ met' = [c \in Clients |->
                 IF \E d \in Clients \ {c} : ~At(d, "off") THEN met[c] \cup {"other"} ELSE met[c]]
    /\ UNCHANGED <<plist, disabled>>

\* launchd is prompt: no time passes over a spawn or a drain that is due.
Tick ==
    /\ due > 0 \/ left > 0 \/ \E c \in Clients : timer[c] > 0
    /\ ~(proc = "spawning" /\ due = 0)
    /\ ~(proc = "draining" /\ left = 0)
    /\ due' = IF due > 0 THEN due - 1 ELSE 0
    /\ left' = IF left > 0 THEN left - 1 ELSE 0
    /\ timer' = [c \in Clients |-> IF timer[c] > 0 THEN timer[c] - 1 ELSE 0]
    /\ UNCHANGED <<job, proc, plist, disabled, lock, pc, report, met>>

-----------------------------------------------------------------------------
Start(c) == \/ WritePlist(c) \/ StartBootout(c) \/ AwaitNotLoaded(c) \/ Enable(c)
            \/ Bootstrap(c) \/ BootstrapCheck(c) \/ Kickstart(c)

Stop(c) == StopObserves(c) \/ StopProbesHolder(c) \/ StopBootout(c)

Uninstall(c) == UninstallBootout(c) \/ Unlink(c)

Command(c) == Start(c) \/ Stop(c) \/ Uninstall(c) \/ Poll(c) \/ PollHolder(c)

Launchd == Spawn \/ DrainEnds \/ Tick

Next ==
    \/ \E c \in Clients :
          \/ Begin(c, "plist") \/ Begin(c, "observe") \/ Begin(c, "uninstall_bootout")
          \/ Command(c) \/ Interrupt(c)
    \/ InstallAgent
    \/ Launchd
    \/ ComesUp \/ ExitsClean \/ Crashes
    \/ OtherTakesLock \/ OtherReleases
    \/ Login

Spec == Init /\ [][Next]_vars

\* A command that is scheduled goes on, launchd does what is due, and time passes
\* even past a daemon that keeps crashing.
Fairness == /\ \A c \in Clients : WF_vars(Command(c))
            /\ WF_vars(Spawn \/ DrainEnds) /\ SF_vars(Tick)

FairSpec == Spec /\ Fairness

-----------------------------------------------------------------------------
\* Every variable holds a value of its kind; a job that is absent has no
\* process, one that is unloading has a draining one.
TypeOK ==
    /\ job \in {"absent", "loaded", "unloading"}
    /\ proc \in {"none", "spawning", "starting", "up", "draining"}
    /\ job = "absent" => proc = "none"
    /\ job = "unloading" <=> proc = "draining"
    /\ due \in 0..Throttle /\ left \in 0..MaxDrain
    /\ plist \in BOOLEAN /\ disabled \in BOOLEAN
    /\ lock \in {"free", "job", "other"}
    /\ lock = "job" => proc \in {"up", "draining"}
    /\ pc \in [Clients -> Steps]
    /\ timer \in [Clients -> Nat]
    /\ report \in [Clients -> Reports]
    /\ met \in [Clients -> SUBSET {"start", "other", "crash"}]

\* "It runs now, restarts on crash, and starts again at each login"
\* (cli.py:597): once every command is over, a start that reported success and
\* met no stop, uninstall or interruption leaves the job loaded with a process
\* alive or about to be, and enabled for the next login, whatever other starts,
\* crashes and logins came since.  A drain that outlasts the wait after bootout is
\* the exception.
StartedStays ==
    (\A c \in Clients : At(c, "off")) =>
        \A c \in Clients :
            report[c] = "started" /\ met[c] \subseteq {"start", "crash"} =>
                /\ job = "loaded" /\ proc # "none"
                /\ plist /\ ~disabled

\* A start reports failure only if the daemon stopped on purpose or crashed,
\* another command came in between, or the drain outlasted the wait: a throttled
\* spawn, a shorter drain or a disabled label is waited for or repaired.
FailedForAReason ==
    \A c \in Clients : report[c] = "failed" => met[c] # {}

\* After a stop reported success launchd does not bring the daemon back before
\* the next login, unless a start was run.
StoppedStays ==
    \A c \in Clients :
        report[c] = "stopped" /\ "start" \notin met[c] => job # "loaded"

\* After an uninstall the job is gone for good, at every later login too, unless
\* a start or an install-agent was run.
UninstalledStays ==
    \A c \in Clients :
        report[c] = "uninstalled" /\ "start" \notin met[c] => job # "loaded" /\ ~plist

\* Every command comes to its end, whatever launchd shows it.
CommandsEnd == \A c \in Clients : []<>At(c, "off")

=============================================================================
