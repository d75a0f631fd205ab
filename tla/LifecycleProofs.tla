---------------------------- MODULE LifecycleProofs ----------------------------
(***************************************************************************)
(* For any number of terminals, any timeouts and any drain: what cmd_stop  *)
(* and cmd_uninstall report stays true until a start, or, for a stop, the  *)
(* next login; and a start that reported success and met no stop,          *)
(* uninstall, interruption, deliberate exit or outlasting drain leaves the *)
(* job running and enabled; and a start fails only if it met something.    *)
(*                                                                         *)
(* Only two steps load the job, Bootstrap and Login, and only WritePlist   *)
(* and InstallAgent bring the plist back.  Bootstrap and WritePlist belong *)
(* to a command every other watched client has met (StartIsMet), as it has *)
(* met an InstallAgent, so a client that met none knows that the job it    *)
(* unloaded is still unloaded (StopHolds, UninstallHolds).  A login ends   *)
(* every command and every promise of a stop.                              *)
(*                                                                         *)
(* Several starts boot each other's job out, so while one of them runs the *)
(* job may well be gone.  What every start past its bootout can rely on is *)
(* Carried: the job has a process, or another start will bootstrap it.     *)
(*                                                                         *)
(* A start that has met nothing is alone (Alone): the job it bootstraps is *)
(* absent, the plist is there, the label enabled, and a throttled spawn is *)
(* due before the deadline of the verification that waits for it.          *)
(***************************************************************************)
EXTENDS Lifecycle, TLAPS

\* A running command has reported nothing yet.
RunningIsSilent == \A c \in Clients : ~At(c, "off") => report[c] = "none"

\* Whoever runs a start has been met by every other command that is watched.
StartIsMet ==
    \A c, d \in Clients :
        c # d /\ pc[d] \in StartSteps /\ Watched(c) => "start" \in met[c]

\* A stop past its bootout.
StopHolds ==
    \A c \in Clients :
        /\ pc[c] \in {"stop_verify", "stop_holder"} \/ report[c] = "stopped"
        /\ "start" \notin met[c]
        => job # "loaded"

\* An uninstall past its bootout, and one that is over.
UninstallHolds ==
    \A c \in Clients : "start" \notin met[c] =>
        /\ pc[c] \in {"uninstall_verify", "uninstall_holder", "unlink"} => job # "loaded"
        /\ report[c] = "uninstalled" => job # "loaded" /\ ~plist

LifeInv == TypeOK /\ RunningIsSilent /\ StartIsMet /\ StopHolds /\ UninstallHolds

-----------------------------------------------------------------------------
\* A poll of the lock goes back to the verification of its own command.
LEMMA VerifyStepFits ==
  ASSUME NEW step \in Verifying \cup ProbingHolder
  PROVE  VerifyStep(step) = IF step \in StartSteps THEN "start_verify"
                            ELSE IF step \in StopSteps THEN "stop_verify"
                            ELSE "uninstall_verify"
<1> DEFINE v == IF step \in StartSteps THEN "start_verify"
                ELSE IF step \in StopSteps THEN "stop_verify"
                ELSE "uninstall_verify"
<1>1. v \in Verifying /\ (v = step \/ HolderStep(v) = step)
  BY DEF Verifying, ProbingHolder, HolderStep, StartSteps, StopSteps
<1>2. \A w \in Verifying : w = step \/ HolderStep(w) = step => w = v
  BY DEF Verifying, ProbingHolder, HolderStep, StartSteps, StopSteps
<1>3. QED
  BY <1>1, <1>2, Zenon DEF VerifyStep

\* What a poll of _verify may do: verify on, or end as its command ends.
LEMMA JudgeCases ==
  ASSUME NEW c \in Clients, NEW seen \in BOOLEAN,
         pc[c] \in Verifying \cup ProbingHolder,
         Judge(c, seen)
  PROVE  \/ /\ pc[c] \in StartSteps
            /\ \/ Goto(c, "start_verify") /\ UNCHANGED <<timer, report>>
               \/ \E said \in {"started", "failed"} : Tell(c, said)
         \/ /\ pc[c] \in StopSteps
            /\ \/ Goto(c, "stop_verify") /\ UNCHANGED <<timer, report>>
               \/ \E said \in {"stopped", "still_running"} : Tell(c, said)
         \/ /\ pc[c] \in UninstallSteps
            /\ \/ Goto(c, "uninstall_verify") /\ UNCHANGED <<timer, report>>
               \/ Goto(c, "unlink") /\ Arm(c, 0) /\ UNCHANGED report
<1> USE VerifyStepFits
    DEF Judge, Verified, Verifying, ProbingHolder, StartSteps, StopSteps, UninstallSteps
<1>1. CASE pc[c] \in {"start_verify", "start_holder"}
  BY <1>1
<1>2. CASE pc[c] \in {"stop_verify", "stop_holder"}
  BY <1>2
<1>3. CASE pc[c] \in {"uninstall_verify", "uninstall_holder"}
  BY <1>3
<1>4. QED
  BY <1>1, <1>2, <1>3

\* What is met is kept, and every watched client of the set meets it.
LEMMA MeetGrows ==
  ASSUME TypeOK, NEW S \in SUBSET Clients, NEW what \in {"start", "other", "crash"},
         Meet(S, what)
  PROVE  /\ met' \in [Clients -> SUBSET {"start", "other", "crash"}]
         /\ \A d \in Clients : met[d] \subseteq met'[d]
         /\ \A d \in S : Watched(d) => what \in met'[d]
  BY DEF TypeOK, Meet

LEMMA UnloadTypes ==
  ASSUME TypeOK, Unload
  PROVE  /\ job' \in {"absent", "unloading"}
         /\ proc' \in {"none", "draining"}
         /\ job' = "absent" => proc' = "none"
         /\ job' = "unloading" <=> proc' = "draining"
         /\ due' \in 0..Throttle /\ left' \in 0..MaxDrain
         /\ lock = "job" => proc' = "draining"
  BY LifecycleAssumption DEF TypeOK, Unload

-----------------------------------------------------------------------------
\* Type correctness, and with it the states of job, process and lock.
LEMMA LifeTypeStep ==
  ASSUME TypeOK, [Next]_vars
  PROVE  TypeOK'
<1> USE LifecycleAssumption DEF TypeOK, launchd, client, At, Goto, Arm, Steps
<1>1. CASE UNCHANGED vars
  BY <1>1 DEF vars
<1>2. ASSUME NEW c \in Clients, NEW step \in {"plist", "observe", "uninstall_bootout"},
             Begin(c, step)
      PROVE  TypeOK'
  <2>1. met' \in [Clients -> SUBSET {"start", "other", "crash"}]
    BY <1>2 DEF Begin, What
  <2>2. QED
    BY <1>2, <2>1 DEF Begin, StartSteps, StopSteps, UninstallSteps, Reports
<1>3. ASSUME NEW c \in Clients, Start(c)
      PROVE  TypeOK'
  <2>1. met' \in [Clients -> SUBSET {"start", "other", "crash"}]
    BY <1>3, MeetGrows
       DEF Start, WritePlist, StartBootout, AwaitNotLoaded, Enable, Bootstrap, BootstrapCheck,
           Kickstart, Meets, EveryoneMeets
  <2>2. CASE WritePlist(c) \/ Enable(c)
    <3>1. CASE WritePlist(c)
      BY <2>1, <3>1 DEF WritePlist, StartSteps
    <3>2. CASE Enable(c)
      BY <2>1, <3>2 DEF Enable, StartSteps
    <3>3. QED
      BY <2>2, <3>1, <3>2
  <2>3. CASE StartBootout(c)
    BY <2>1, <2>3, UnloadTypes DEF StartBootout, StartSteps
  <2>4. CASE AwaitNotLoaded(c)
    BY <2>1, <2>4 DEF AwaitNotLoaded, StartSteps
  <2>5. CASE Bootstrap(c)
    BY <2>1, <2>5 DEF Bootstrap, StartSteps
  <2>6. CASE BootstrapCheck(c)
    BY <2>1, <2>6 DEF BootstrapCheck, Tell, StartSteps, Reports
  <2>7. CASE Kickstart(c)
    BY <2>1, <2>7 DEF Kickstart, StartVerify, StartSteps
  <2>8. QED
    BY <1>3, <2>2, <2>3, <2>4, <2>5, <2>6, <2>7 DEF Start
<1>4. ASSUME NEW c \in Clients, StopObserves(c) \/ StopProbesHolder(c)
      PROVE  TypeOK'
  BY <1>4 DEF StopObserves, StopProbesHolder, Tell, StopSteps, Reports
<1>5. ASSUME NEW c \in Clients, NEW step \in {"stop_verify", "uninstall_verify"},
             ConvergeStop(c, step)
      PROVE  TypeOK'
  <2>1. met' \in [Clients -> SUBSET {"start", "other", "crash"}]
    BY <1>5, MeetGrows DEF ConvergeStop, Meets
  <2>2. QED
    BY <1>5, <2>1, UnloadTypes
       DEF ConvergeStop, Tell, StopSteps, UninstallSteps, Reports
<1>6. ASSUME NEW c \in Clients, Poll(c) \/ PollHolder(c)
      PROVE  TypeOK'
  <2>1. met' \in [Clients -> SUBSET {"start", "other", "crash"}]
    BY <1>6, MeetGrows DEF Poll, PollHolder, Meets, What
  <2>2. /\ pc' \in [Clients -> Steps] /\ timer' \in [Clients -> Nat]
        /\ report' \in [Clients -> Reports]
    <3>1. ASSUME NEW seen \in BOOLEAN, pc[c] \in Verifying \cup ProbingHolder, Judge(c, seen)
          PROVE  <2>2
      BY <3>1, JudgeCases DEF Tell, StartSteps, StopSteps, UninstallSteps, Reports
    <3>2. ASSUME pc[c] \in Verifying, Goto(c, HolderStep(pc[c])), UNCHANGED <<timer, report>>
          PROVE  <2>2
      BY <3>2 DEF HolderStep, Verifying, StartSteps, StopSteps, UninstallSteps
    <3>3. QED
      BY <1>6, <3>1, <3>2 DEF Poll, PollHolder
  <2>3. UNCHANGED <<launchd, plist, lock>>
    BY <1>6 DEF Poll, PollHolder
  <2>4. QED
    BY <2>1, <2>2, <2>3
<1>7. ASSUME NEW c \in Clients, Unlink(c) \/ Interrupt(c)
      PROVE  TypeOK'
  <2>1. met' \in [Clients -> SUBSET {"start", "other", "crash"}]
    BY <1>7, MeetGrows DEF Unlink, Interrupt, Meets
  <2>2. CASE Unlink(c)
    BY <2>1, <2>2 DEF Unlink, Tell, Reports
  <2>3. CASE Interrupt(c)
    BY <2>1, <2>3 DEF Interrupt, Tell, Reports
  <2>4. QED
    BY <1>7, <2>2, <2>3
<1>8. CASE Spawn \/ ComesUp \/ DrainEnds
  BY <1>8 DEF Spawn, ComesUp, DrainEnds
<1>9. CASE Tick
  BY <1>9 DEF Tick
<1>10. CASE ExitsClean \/ Crashes \/ OtherTakesLock
  <2>1. met' \in [Clients -> SUBSET {"start", "other", "crash"}]
    BY <1>10, MeetGrows DEF ExitsClean, Crashes, OtherTakesLock, EveryoneMeets
  <2>2. QED
    BY <1>10, <2>1 DEF ExitsClean, Crashes, OtherTakesLock
<1>11. CASE OtherReleases \/ InstallAgent
  <2>1. met' \in [Clients -> SUBSET {"start", "other", "crash"}]
    BY <1>11, MeetGrows DEF OtherReleases, InstallAgent, EveryoneMeets
  <2>2. QED
    BY <1>11, <2>1 DEF OtherReleases, InstallAgent
<1>12. CASE Login
  BY <1>12 DEF Login, Reports
<1>13. QED
  BY <1>1, <1>2, <1>3, <1>4, <1>5, <1>6, <1>7, <1>8, <1>9, <1>10, <1>11, <1>12
     DEF Next, Command, Stop, StopBootout, Uninstall, UninstallBootout, Launchd

-----------------------------------------------------------------------------
Stopping == {"stop_verify", "stop_holder"}

Uninstalling == {"uninstall_verify", "uninstall_holder", "unlink"}

\* What a step of c's command may do: nothing to the other clients; it loads the job
\* or brings the plist back only as a start; and it comes to the promise of a stop or
\* an uninstall with the job unloaded.
StepFrame(c) ==
    /\ \A d \in Clients \ {c} : pc'[d] = pc[d] /\ report'[d] = report[d]
    /\ \A d \in Clients : met[d] \subseteq met'[d]
    /\ pc[c] # "off"
    /\ pc'[c] # "off" => report'[c] = "none"
    /\ pc'[c] \in StartSteps => pc[c] \in StartSteps
    /\ job' = "loaded" => job = "loaded" \/ pc[c] \in StartSteps
    /\ plist' => plist \/ pc[c] \in StartSteps
    /\ pc'[c] \in Stopping \/ report'[c] = "stopped" => job' # "loaded" \/ pc[c] \in Stopping
    /\ pc'[c] \in Uninstalling \/ report'[c] = "uninstalled" =>
          job' # "loaded" \/ pc[c] \in Uninstalling
    /\ report'[c] = "uninstalled" => ~plist'
    /\ pc[c] \in Stopping \cup Uninstalling => job' = job

LEMMA CommandFrame ==
  ASSUME TypeOK, RunningIsSilent, NEW c \in Clients, Command(c) \/ Interrupt(c)
  PROVE  StepFrame(c)
<1> USE DEF At, Goto, Arm, launchd, Stopping, Uninstalling, StartSteps, StopSteps,
            UninstallSteps
<1>1. \A d \in Clients : met[d] \subseteq met'[d]
  BY MeetGrows
     DEF Command, Start, WritePlist, StartBootout, AwaitNotLoaded, Enable, Bootstrap,
         BootstrapCheck, Kickstart, Stop, StopObserves, StopProbesHolder, StopBootout,
         ConvergeStop, Uninstall, UninstallBootout, Unlink, Poll, PollHolder, Interrupt,
         Meets, EveryoneMeets, What
<1>2. pc \in [Clients -> Steps] /\ report \in [Clients -> Reports]
  BY DEF TypeOK
<1>3. pc[c] # "off" => report[c] = "none"
  BY DEF RunningIsSilent
<1>4. CASE Start(c)
  BY <1>1, <1>2, <1>3, <1>4, UnloadTypes
     DEF Start, WritePlist, StartBootout, AwaitNotLoaded, Enable, Bootstrap,
         BootstrapCheck, Kickstart, Tell, StepFrame
<1>5. CASE StopObserves(c) \/ StopProbesHolder(c)
  BY <1>1, <1>2, <1>3, <1>5 DEF StopObserves, StopProbesHolder, Tell, StepFrame
<1>6. CASE StopBootout(c) \/ UninstallBootout(c)
  BY <1>1, <1>2, <1>3, <1>6, UnloadTypes
     DEF StopBootout, UninstallBootout, ConvergeStop, Tell, StepFrame
<1>7. CASE Poll(c) \/ PollHolder(c)
  <2>1. UNCHANGED <<job, plist>> /\ pc[c] \in Verifying \cup ProbingHolder
    BY <1>7 DEF Poll, PollHolder
  <2>2. ASSUME NEW seen \in BOOLEAN, Judge(c, seen)
        PROVE  StepFrame(c)
    BY <1>1, <1>2, <1>3, <2>1, <2>2, JudgeCases DEF Tell, StepFrame, Verifying, ProbingHolder
  <2>3. ASSUME pc[c] \in Verifying, Goto(c, HolderStep(pc[c])), UNCHANGED <<timer, report>>
        PROVE  StepFrame(c)
    BY <1>1, <1>2, <1>3, <2>1, <2>3 DEF HolderStep, StepFrame, Verifying
  <2>4. QED
    BY <1>7, <2>2, <2>3 DEF Poll, PollHolder
<1>8. CASE Unlink(c) \/ Interrupt(c)
  BY <1>1, <1>2, <1>3, <1>8 DEF Unlink, Interrupt, Tell, StepFrame
<1>9. QED
  BY <1>4, <1>5, <1>6, <1>7, <1>8 DEF Command, Stop, Uninstall

-----------------------------------------------------------------------------
Promises == RunningIsSilent /\ StartIsMet /\ StopHolds /\ UninstallHolds

\* A command's step keeps every promise: the others know of a start that runs.
LEMMA CommandKeeps ==
  ASSUME LifeInv, NEW c \in Clients, StepFrame(c)
  PROVE  Promises'
<1> USE DEF LifeInv, StepFrame, At, Watched
<1>1. RunningIsSilent'
  BY DEF RunningIsSilent
<1>2. StartIsMet'
  BY DEF StartIsMet, RunningIsSilent, StartSteps
<1>3. \A d \in Clients \ {c} :
          Watched(d) /\ "start" \notin met'[d] => pc[c] \notin StartSteps
  BY DEF StartIsMet
<1>4. StopHolds'
  <2> SUFFICES ASSUME NEW d \in Clients, "start" \notin met'[d],
                      pc'[d] \in Stopping \/ report'[d] = "stopped"
               PROVE  job' # "loaded"
    BY DEF StopHolds, Stopping
  <2>1. CASE d = c
    BY <2>1 DEF StopHolds, Stopping, StartSteps, RunningIsSilent
  <2>2. CASE d # c
    BY <1>3, <2>2 DEF StopHolds, Stopping
  <2>3. QED
    BY <2>1, <2>2
<1>5. UninstallHolds'
  <2> SUFFICES ASSUME NEW d \in Clients, "start" \notin met'[d]
               PROVE  /\ pc'[d] \in Uninstalling => job' # "loaded"
                      /\ report'[d] = "uninstalled" => job' # "loaded" /\ ~plist'
    BY DEF UninstallHolds, Uninstalling
  <2>1. CASE d = c
    BY <2>1 DEF UninstallHolds, Uninstalling, StartSteps
  <2>2. CASE d # c
    BY <1>3, <2>2 DEF UninstallHolds, Uninstalling
  <2>3. QED
    BY <2>1, <2>2
<1>6. QED
  BY <1>1, <1>2, <1>4, <1>5 DEF Promises

\* A command that begins has promised nothing, and is met by the others.
LEMMA BeginKeeps ==
  ASSUME LifeInv, NEW c \in Clients, NEW step \in {"plist", "observe", "uninstall_bootout"},
         Begin(c, step)
  PROVE  Promises'
<1> USE DEF LifeInv, TypeOK, Begin, At, Goto, launchd
<1>1. \A d \in Clients \ {c} : pc'[d] = pc[d] /\ report'[d] = report[d]
  OBVIOUS
<1>2. pc'[c] = step /\ report'[c] = "none"
  OBVIOUS
<1>3. \A d \in Clients \ {c} :
         /\ met[d] \subseteq met'[d]
         /\ Watched(d) /\ step = "plist" => "start" \in met'[d]
  BY DEF What, StartSteps
<1>4. \A d \in Clients \ {c} : pc[d] \in StartSteps => "start" \in met'[c]
  BY DEF What, StartSteps
<1>5. RunningIsSilent'
  BY <1>1, <1>2 DEF RunningIsSilent
<1>6. StartIsMet'
  <2> SUFFICES ASSUME NEW d \in Clients, NEW e \in Clients, d # e,
                      pc'[e] \in StartSteps, Watched(d)'
               PROVE  "start" \in met'[d]
    BY DEF StartIsMet
  <2>1. CASE d = c
    BY <1>1, <1>4, <2>1
  <2>2. CASE e = c
    BY <1>1, <1>2, <1>3, <2>2 DEF StartSteps, Watched
  <2>3. CASE d # c /\ e # c
    BY <1>1, <1>3, <2>3 DEF StartIsMet, Watched
  <2>4. QED
    BY <2>1, <2>2, <2>3
<1>7. StopHolds'
  BY <1>1, <1>2, <1>3 DEF StopHolds
<1>8. UninstallHolds'
  BY <1>1, <1>2, <1>3 DEF UninstallHolds
<1>9. QED
  BY <1>5, <1>6, <1>7, <1>8 DEF Promises

\* An install-agent brings the plist back, and everyone who watches meets it.
LEMMA InstallKeeps ==
  ASSUME LifeInv, InstallAgent
  PROVE  Promises'
<1>1. UNCHANGED <<pc, report, job>>
  BY DEF InstallAgent, launchd, client
<1>2. \A d \in Clients : met[d] \subseteq met'[d] /\ (Watched(d) => "start" \in met'[d])
  BY MeetGrows DEF InstallAgent, EveryoneMeets, LifeInv
<1>3. QED
  BY <1>1, <1>2
     DEF LifeInv, Promises, RunningIsSilent, StartIsMet, StopHolds, UninstallHolds, At, Watched

\* launchd and the daemon by themselves load nothing.
LEMMA WorldKeeps ==
  ASSUME LifeInv, \/ Launchd \/ ComesUp \/ ExitsClean \/ Crashes
                  \/ OtherTakesLock \/ OtherReleases \/ UNCHANGED vars
  PROVE  Promises'
<1>1. UNCHANGED <<pc, report, plist>> /\ (job' = "loaded" => job = "loaded")
  BY DEF Launchd, Spawn, DrainEnds, Tick, ComesUp, ExitsClean, Crashes, OtherTakesLock,
         OtherReleases, vars, launchd, client
<1>2. \A d \in Clients : met[d] \subseteq met'[d]
  BY MeetGrows
     DEF Launchd, Spawn, DrainEnds, Tick, ComesUp, ExitsClean, Crashes, OtherTakesLock,
         OtherReleases, vars, EveryoneMeets, LifeInv
<1>3. QED
  BY <1>1, <1>2
     DEF Promises, LifeInv, RunningIsSilent, StartIsMet, StopHolds, UninstallHolds, At,
         Watched

\* A login loads the job only from its plist, and ends what a stop promised.
LEMMA LoginKeeps ==
  ASSUME LifeInv, Login
  PROVE  Promises'
<1>1. \A d \in Clients : /\ pc'[d] = "off" /\ met[d] \subseteq met'[d]
                         /\ report'[d] # "stopped"
                         /\ report'[d] = "uninstalled" => report[d] = "uninstalled"
  BY DEF Login, LifeInv, TypeOK
<1>2. job' = "loaded" => plist
  BY DEF Login
<1>3. QED
  BY <1>1, <1>2 DEF Promises, LifeInv, RunningIsSilent, StartIsMet, StopHolds,
                    UninstallHolds, At, StartSteps, Login

-----------------------------------------------------------------------------
\* The invariant is inductive.
THEOREM LifeInductive == Spec => []LifeInv
<1>1. Init => LifeInv
  BY LifecycleAssumption
     DEF Init, LifeInv, TypeOK, RunningIsSilent, StartIsMet, StopHolds, UninstallHolds, At,
         Steps, Reports, StartSteps
<1>2. LifeInv /\ [Next]_vars => LifeInv'
  <2> SUFFICES ASSUME LifeInv, [Next]_vars
               PROVE  LifeInv'
    OBVIOUS
  <2>1. TypeOK'
    BY LifeTypeStep DEF LifeInv
  <2>2. Promises'
    BY CommandFrame, CommandKeeps, BeginKeeps, InstallKeeps, WorldKeeps, LoginKeeps DEF Next, LifeInv
  <2>3. QED
    BY <2>1, <2>2 DEF LifeInv, Promises
<1>3. QED
  BY <1>1, <1>2, PTL DEF Spec

\* Job, process and lock fit together at every step of every command: a job that is
\* absent has no process, and only a process that is up or draining holds the lock.
THEOREM LifeTypes == Spec => []TypeOK
<1>1. LifeInv => TypeOK
  BY DEF LifeInv
<1>2. QED
  BY LifeInductive, <1>1, PTL

\* cmd_stop: after "stopped" launchd brings the daemon back only at the next login or
\* for a start, however many commands run and whatever the timeouts.
THEOREM StopIsKept == Spec => []StoppedStays
<1>1. LifeInv => StoppedStays
  BY DEF LifeInv, StopHolds, StoppedStays
<1>2. QED
  BY LifeInductive, <1>1, PTL

\* cmd_uninstall: the job is gone at every later login too, unless a start was run.
THEOREM UninstallIsKept == Spec => []UninstalledStays
<1>1. LifeInv => UninstalledStays
  BY DEF LifeInv, UninstallHolds, UninstalledStays
<1>2. QED
  BY LifeInductive, <1>1, PTL

-----------------------------------------------------------------------------
\* The job is loaded with a process, or a start on its way to bootstrap will see to
\* it: one that still waits for the drain, or one that found the job gone.
Carried ==
    \/ job = "loaded" /\ proc # "none"
    \/ job = "unloading" /\ \E d \in Clients : pc[d] = "settle"
    \/ job = "absent" /\ \E d \in Clients : pc[d] \in {"settle", "enable", "bootstrap"}

\* A start past its bootout, or one that reported success.
Past(c) ==
    \/ pc[c] \in { "settle", "enable", "bootstrap", "check", "kickstart", "start_verify",
                   "start_holder" }
    \/ report[c] = "started"

Undisturbed(c) == met[c] \subseteq {"start", "crash"}

StartHolds ==
    \A c \in Clients :
        /\ pc[c] = "start_bootout" /\ Undisturbed(c) => plist
        /\ Past(c) /\ Undisturbed(c) => Carried /\ plist

\* Once enabled, never disabled again.
EnabledStays ==
    \A c \in Clients :
        \/ pc[c] \in {"bootstrap", "check", "kickstart", "start_verify", "start_holder"}
        \/ report[c] = "started"
        => ~disabled

StartInv == LifeInv /\ StartHolds /\ EnabledStays

-----------------------------------------------------------------------------
\* Enable is the only step that writes launchd's override.
LEMMA EnabledStep ==
  ASSUME LifeInv, EnabledStays, [Next]_vars
  PROVE  EnabledStays'
<1> USE DEF LifeInv, TypeOK, EnabledStays, RunningIsSilent, At, Goto, Arm, launchd, client
<1>1. ASSUME NEW c \in Clients, NEW step \in {"plist", "observe", "uninstall_bootout"},
             Begin(c, step)
      PROVE  EnabledStays'
  BY <1>1 DEF Begin
<1>2. ASSUME NEW c \in Clients, Start(c)
      PROVE  EnabledStays'
  BY <1>2 DEF Start, WritePlist, StartBootout, AwaitNotLoaded, Enable, Bootstrap,
              BootstrapCheck, Kickstart, Tell
<1>3. ASSUME NEW c \in Clients, Stop(c) \/ Uninstall(c) \/ Interrupt(c)
      PROVE  EnabledStays'
  BY <1>3 DEF Stop, StopObserves, StopProbesHolder, StopBootout, ConvergeStop, Uninstall,
              UninstallBootout, Unlink, Interrupt, Tell
<1>4. ASSUME NEW c \in Clients, Poll(c) \/ PollHolder(c)
      PROVE  EnabledStays'
  <2>1. UNCHANGED disabled /\ pc[c] \in Verifying \cup ProbingHolder
    BY <1>4 DEF Poll, PollHolder
  <2>2. ASSUME NEW seen \in BOOLEAN, Judge(c, seen)
        PROVE  EnabledStays'
    BY <2>1, <2>2, JudgeCases
       DEF Tell, Verifying, ProbingHolder, StartSteps, StopSteps, UninstallSteps
  <2>3. ASSUME pc[c] \in Verifying, Goto(c, HolderStep(pc[c])), UNCHANGED <<timer, report>>
        PROVE  EnabledStays'
    BY <2>1, <2>3 DEF HolderStep, Verifying
  <2>4. QED
    BY <1>4, <2>2, <2>3 DEF Poll, PollHolder
<1>5. CASE Launchd \/ ComesUp \/ ExitsClean \/ Crashes \/ OtherTakesLock \/ OtherReleases
  BY <1>5 DEF Launchd, Spawn, DrainEnds, Tick, ComesUp, ExitsClean, Crashes, OtherTakesLock,
              OtherReleases
<1>6. CASE Login \/ InstallAgent \/ UNCHANGED vars
  BY <1>6 DEF Login, InstallAgent, vars
<1>7. QED
  BY <1>1, <1>2, <1>3, <1>4, <1>5, <1>6 DEF Next, Command

-----------------------------------------------------------------------------
\* A client a step leaves alone knew before what it knows after.
LEMMA StillUndisturbed ==
  ASSUME LifeInv, NEW e \in Clients, met[e] \subseteq met'[e], Undisturbed(e)'
  PROVE  Undisturbed(e)
  BY DEF Undisturbed

\* A step of a stop or an uninstall, an interruption: every watched client meets it,
\* or it changes nothing a start relies on.
LEMMA OthersDisturb ==
  ASSUME LifeInv, StartHolds, NEW c \in Clients, StepFrame(c),
         pc'[c] \notin StartSteps, report'[c] # "started",
         \/ \A e \in Clients \ {c} : Watched(e) => "other" \in met'[e]
         \/ UNCHANGED <<job, proc, plist>> /\ pc[c] \notin StartSteps
  PROVE  StartHolds'
<1> SUFFICES ASSUME NEW e \in Clients, pc'[e] = "start_bootout" \/ Past(e)', Undisturbed(e)'
             PROVE  plist' /\ (Past(e)' => Carried')
  BY DEF StartHolds
<1>1. e # c
  BY DEF Past, StartSteps
<1>2. pc'[e] = pc[e] /\ report'[e] = report[e] /\ Undisturbed(e)
  BY <1>1, StillUndisturbed DEF StepFrame
<1>3. Watched(e)
  BY <1>2 DEF Watched, Past, At
<1>4. UNCHANGED <<job, proc, plist>> /\ pc[c] \notin StartSteps
  BY <1>1, <1>3 DEF Undisturbed
<1>5. plist /\ (Past(e) => Carried)
  BY <1>2 DEF StartHolds, Past
<1>6. \A d \in Clients : pc[d] \in {"settle", "enable", "bootstrap"} => pc'[d] = pc[d]
  BY <1>4 DEF StepFrame, StartSteps
<1>7. QED
  BY <1>2, <1>4, <1>5, <1>6 DEF Past, Carried

LEMMA StopKeepsStarts ==
  ASSUME LifeInv, StartHolds, NEW c \in Clients, Stop(c) \/ Uninstall(c) \/ Interrupt(c)
  PROVE  StartHolds'
<1>1. StepFrame(c)
  BY CommandFrame DEF LifeInv, Command
<1>2. pc'[c] \notin StartSteps /\ report'[c] # "started"
  BY DEF LifeInv, TypeOK, RunningIsSilent, Stop, StopObserves, StopProbesHolder, StopBootout,
         ConvergeStop, Uninstall, UninstallBootout, Unlink, Interrupt, Tell, At, Goto, Arm,
         StartSteps
<1>3. \/ \A e \in Clients \ {c} : Watched(e) => "other" \in met'[e]
      \/ UNCHANGED <<job, proc, plist>> /\ pc[c] \notin StartSteps
  <2>1. CASE StopObserves(c) \/ StopProbesHolder(c)
    BY <2>1 DEF StopObserves, StopProbesHolder, At, launchd, StartSteps
  <2>2. CASE StopBootout(c) \/ Uninstall(c) \/ Interrupt(c)
    <3>1. Meet(Clients \ {c}, "other")
      BY <2>2 DEF StopBootout, ConvergeStop, Uninstall, UninstallBootout, Unlink, Interrupt,
                  Meets
    <3>2. QED
      BY <3>1, MeetGrows DEF LifeInv
  <2>3. QED
    BY <2>1, <2>2 DEF Stop
<1>4. QED
  BY <1>1, <1>2, <1>3, OthersDisturb

\* A poll changes nothing a start relies on.
LEMMA PollKeepsStarts ==
  ASSUME LifeInv, StartHolds, NEW c \in Clients, Poll(c) \/ PollHolder(c)
  PROVE  StartHolds'
<1>1. /\ StepFrame(c) /\ UNCHANGED <<job, proc, plist>>
      /\ pc[c] \in Verifying \cup ProbingHolder
  BY CommandFrame DEF LifeInv, Command, Poll, PollHolder, launchd
<1>2. \/ pc[c] \notin StartSteps /\ pc'[c] \notin StartSteps /\ report'[c] # "started"
      \/ /\ pc[c] \in {"start_verify", "start_holder"}
         /\ pc'[c] \in {"start_verify", "start_holder", "off"}
  <2> USE DEF LifeInv, TypeOK, Verifying, ProbingHolder, StartSteps, StopSteps,
              UninstallSteps, Goto, At
  <2>1. ASSUME NEW seen \in BOOLEAN, Judge(c, seen)
        PROVE  <1>2
    BY <1>1, <2>1, JudgeCases DEF Tell, RunningIsSilent
  <2>2. ASSUME Goto(c, HolderStep(pc[c])), UNCHANGED <<timer, report>>, pc[c] \in Verifying
        PROVE  <1>2
    BY <2>2 DEF HolderStep, RunningIsSilent
  <2>3. QED
    BY <2>1, <2>2 DEF Poll, PollHolder
<1>3. CASE pc[c] \notin StartSteps
  BY <1>1, <1>2, <1>3, OthersDisturb DEF StartSteps
<1>4. CASE pc[c] \in {"start_verify", "start_holder"}
  <2> SUFFICES ASSUME NEW e \in Clients, pc'[e] = "start_bootout" \/ Past(e)',
                      Undisturbed(e)'
               PROVE  plist' /\ (Past(e)' => Carried')
    BY DEF StartHolds
  <2>1. Undisturbed(e)
    BY <1>1, StillUndisturbed DEF StepFrame
  <2>2. /\ pc'[e] = "start_bootout" => pc[e] = "start_bootout"
        /\ Past(e)' => Past(e)
    BY <1>1, <1>2, <1>4 DEF StepFrame, Past, StartSteps
  <2>3. \A d \in Clients : pc[d] \in {"settle", "enable", "bootstrap"} => pc'[d] = pc[d]
    BY <1>1, <1>4 DEF StepFrame
  <2>4. QED
    BY <1>1, <2>1, <2>2, <2>3 DEF StartHolds, Carried
<1>5. QED
  BY <1>2, <1>3, <1>4

\* Each step of a start hands on what it was carried by.
LEMMA StartKeepsStarts ==
  ASSUME LifeInv, StartHolds, EnabledStays, NEW c \in Clients, Start(c)
  PROVE  StartHolds'
<1>1. StepFrame(c) /\ pc \in [Clients -> Steps]
  BY CommandFrame DEF LifeInv, TypeOK, Command
<1> SUFFICES ASSUME NEW e \in Clients, pc'[e] = "start_bootout" \/ Past(e)', Undisturbed(e)'
             PROVE  plist' /\ (Past(e)' => Carried')
  BY DEF StartHolds
<1>2. Undisturbed(e)
  BY <1>1, StillUndisturbed DEF StepFrame
<1>3. e # c => /\ pc'[e] = pc[e] /\ (Past(e)' <=> Past(e))
               /\ plist /\ (Past(e) => Carried)
  BY <1>1, <1>2 DEF StepFrame, Past, StartHolds
<1>4. \/ e # c
      \/ (pc[c] = "start_bootout" => plist) /\ (Past(c) => plist /\ Carried)
  BY <1>2 DEF StartHolds
<1> USE DEF At, Goto, Arm, launchd, Carried, Past
<1>5. CASE WritePlist(c)
  BY <1>1, <1>3, <1>5 DEF WritePlist, StepFrame
<1>6. CASE StartBootout(c)
  BY <1>1, <1>3, <1>4, <1>6, UnloadTypes DEF StartBootout, LifeInv
<1>7. CASE AwaitNotLoaded(c)
  <2>1. CASE job = "absent"
    BY <1>1, <1>3, <1>4, <1>7, <2>1 DEF AwaitNotLoaded
  <2>2. CASE EveryoneMeets("other")
    <3>1. Watched(e)
      BY <1>1, <1>7 DEF AwaitNotLoaded, Watched, StepFrame
    <3>2. "other" \in met'[e]
      BY <2>2, <3>1, MeetGrows DEF EveryoneMeets, LifeInv
    <3>3. QED
      BY <3>2 DEF Undisturbed
  <2>3. QED
    BY <1>7, <2>1, <2>2 DEF AwaitNotLoaded
<1>8. CASE Enable(c)
  BY <1>1, <1>3, <1>4, <1>8 DEF Enable
<1>9. CASE Bootstrap(c)
  <2>1. ~disabled
    BY <1>9 DEF EnabledStays, Bootstrap
  <2>2. QED
    BY <1>1, <1>3, <1>4, <1>9, <2>1 DEF Bootstrap
<1>10. CASE BootstrapCheck(c)
  BY <1>1, <1>3, <1>4, <1>10 DEF BootstrapCheck, Tell, StepFrame
<1>11. CASE Kickstart(c)
  BY <1>1, <1>3, <1>4, <1>11 DEF Kickstart
<1>12. QED
  BY <1>5, <1>6, <1>7, <1>8, <1>9, <1>10, <1>11 DEF Start

\* A start that begins is met by those it is about to disturb, and knows whom it met.
LEMMA BeginKeepsStarts ==
  ASSUME LifeInv, StartHolds, NEW c \in Clients,
         NEW step \in {"plist", "observe", "uninstall_bootout"}, Begin(c, step)
  PROVE  StartHolds'
<1>1. /\ \A d \in Clients \ {c} : /\ pc'[d] = pc[d] /\ report'[d] = report[d]
                                  /\ met[d] \subseteq met'[d]
      /\ pc'[c] = step /\ report'[c] = "none" /\ pc[c] = "off"
      /\ UNCHANGED <<job, proc, plist>>
  BY DEF LifeInv, TypeOK, Begin, At, Goto, launchd
<1> SUFFICES ASSUME NEW e \in Clients, pc'[e] = "start_bootout" \/ Past(e)', Undisturbed(e)'
             PROVE  plist' /\ (Past(e)' => Carried')
  BY DEF StartHolds
<1>2. e # c
  BY <1>1 DEF Past
<1>3. plist /\ (Past(e) => Carried) /\ (Past(e)' <=> Past(e))
  BY <1>1, <1>2, StillUndisturbed DEF StartHolds, Past
<1>4. QED
  BY <1>1, <1>3 DEF Carried

\* launchd and the daemon take the process away only from a client that meets it.
LEMMA WorldKeepsStarts ==
  ASSUME LifeInv, StartHolds, \/ Launchd \/ ComesUp \/ ExitsClean \/ Crashes
                              \/ OtherTakesLock \/ OtherReleases \/ UNCHANGED vars
  PROVE  StartHolds'
<1>1. UNCHANGED <<pc, report, plist>>
  BY DEF Launchd, Spawn, DrainEnds, Tick, ComesUp, ExitsClean, Crashes, OtherTakesLock,
         OtherReleases, vars, launchd, client
<1>2. \A d \in Clients : met[d] \subseteq met'[d]
  BY MeetGrows
     DEF Launchd, Spawn, DrainEnds, Tick, ComesUp, ExitsClean, Crashes, OtherTakesLock,
         OtherReleases, vars, EveryoneMeets, LifeInv
<1>3. Carried => Carried' \/ ExitsClean
  BY <1>1 DEF LifeInv, TypeOK, Carried, Launchd, Spawn, DrainEnds, Tick, ComesUp, Crashes,
              OtherTakesLock, OtherReleases, vars, launchd
<1> SUFFICES ASSUME NEW e \in Clients, pc'[e] = "start_bootout" \/ Past(e)', Undisturbed(e)'
             PROVE  plist' /\ (Past(e)' => Carried')
  BY DEF StartHolds
<1>4. Watched(e)
  BY <1>1 DEF Past, Watched, At
<1>5. ~ExitsClean
  BY <1>4, MeetGrows DEF ExitsClean, EveryoneMeets, Undisturbed, LifeInv
<1>6. plist /\ (Past(e) => Carried)
  BY <1>1, <1>2, StillUndisturbed DEF StartHolds, Past
<1>7. QED
  BY <1>1, <1>3, <1>5, <1>6 DEF Past

\* The plist an install-agent writes is the one a start relies on.
LEMMA InstallKeepsStarts ==
  ASSUME LifeInv, StartHolds, InstallAgent
  PROVE  StartHolds'
<1>1. UNCHANGED <<pc, report, job, proc>> /\ plist'
  BY DEF InstallAgent, launchd, client
<1>2. \A d \in Clients : met[d] \subseteq met'[d]
  BY MeetGrows DEF InstallAgent, EveryoneMeets, LifeInv
<1>3. QED
  BY <1>1, <1>2 DEF StartHolds, Undisturbed, Past, Carried

\* A login that interrupts another command is met; otherwise it loads the job.
LEMMA LoginKeepsStarts ==
  ASSUME LifeInv, StartHolds, EnabledStays, Login
  PROVE  StartHolds'
<1> USE DEF LifeInv, TypeOK, Login, At
<1> SUFFICES ASSUME NEW e \in Clients, pc'[e] = "start_bootout" \/ Past(e)', Undisturbed(e)'
             PROVE  plist' /\ (Past(e)' => Carried')
  BY DEF StartHolds
<1>1. report[e] = "started"
  BY DEF Past
<1>2. Undisturbed(e)
  BY DEF Undisturbed
<1>3. plist /\ ~disabled
  BY <1>1, <1>2 DEF StartHolds, Past, EnabledStays
<1>4. QED
  BY <1>3 DEF Carried

-----------------------------------------------------------------------------
\* What every start relies on is inductive.
THEOREM StartInductive == Spec => []StartInv
<1>1. Init => StartHolds /\ EnabledStays
  BY DEF Init, StartHolds, EnabledStays, Past
<1>2. LifeInv /\ StartHolds /\ EnabledStays /\ [Next]_vars => StartHolds'
  BY StopKeepsStarts, PollKeepsStarts, StartKeepsStarts, BeginKeepsStarts,
     InstallKeepsStarts, WorldKeepsStarts, LoginKeepsStarts
     DEF Next, Command
<1>3. LifeInv /\ EnabledStays /\ [Next]_vars => EnabledStays'
  BY EnabledStep
<1>4. QED
  BY <1>1, <1>2, <1>3, LifeInductive, PTL DEF Spec, StartInv

\* cmd_start --background, "It runs now, restarts on crash, and starts again at each
\* login" (cli.py:597), however many starts run at once and whatever the timeouts.
THEOREM StartIsKept == Spec => []StartedStays
<1>1. StartInv => StartedStays
  BY DEF StartInv, StartHolds, EnabledStays, StartedStays, Undisturbed, Past, Carried, At
<1>2. QED
  BY StartInductive, <1>1, PTL
-----------------------------------------------------------------------------
\* A start that has met nothing: what it finds is what it left itself, and launchd
\* does in time what it asked for.
Unmet(c) == pc[c] \in StartSteps /\ met[c] = {}

Alone(c) ==
    /\ \A d \in Clients \ {c} : At(d, "off")
    /\ pc[c] # "plist" => plist
    /\ pc[c] \in {"enable", "bootstrap"} => job = "absent"
    /\ pc[c] = "bootstrap" => ~disabled
    /\ pc[c] \in {"kickstart", "start_verify"} =>
          job = "loaded" /\ proc \in {"spawning", "starting", "up"}
    /\ pc[c] = "start_verify" /\ proc = "spawning" => due < timer[c]
    /\ pc[c] \notin {"check", "start_holder"}

UnmetIsAlone == \A c \in Clients : Unmet(c) => Alone(c)

FailInv == LifeInv /\ UnmetIsAlone /\ FailedForAReason

\* A step of a start that has met nothing leaves it alone, and fails nowhere: the job it
\* bootstraps is absent and enabled, and the spawn it verifies comes before its deadline.
LEMMA UnmetStarts ==
  ASSUME LifeInv, NEW c \in Clients, Alone(c), met[c] = {}, met'[c] = {},
         Start(c), StepFrame(c)
  PROVE  Alone(c)' /\ report'[c] # "failed"
<1> USE DEF LifeInv, TypeOK, At, Goto, Arm, launchd
<1>1. \A d \in Clients \ {c} : pc'[d] = "off"
  BY DEF Alone, StepFrame
<1>2. report[c] = "none"
  BY DEF StepFrame, RunningIsSilent
<1>3. CASE WritePlist(c)
  BY <1>1, <1>2, <1>3 DEF WritePlist, Alone
<1>4. CASE StartBootout(c)
  BY <1>1, <1>2, <1>4 DEF StartBootout, Alone
<1>5. CASE AwaitNotLoaded(c)
  <2>1. job = "absent"
    <3>1. Watched(c)
      BY <1>5 DEF AwaitNotLoaded, Watched
    <3>2. EveryoneMeets("other") => "other" \in met'[c]
      BY <3>1, MeetGrows DEF EveryoneMeets
    <3>3. QED
      BY <1>5, <3>2 DEF AwaitNotLoaded
  <2>2. QED
    BY <1>1, <1>2, <1>5, <2>1 DEF AwaitNotLoaded, Alone
<1>6. CASE Enable(c)
  BY <1>1, <1>2, <1>6 DEF Enable, Alone
<1>7. CASE Bootstrap(c)
  BY <1>1, <1>2, <1>7 DEF Bootstrap, Alone
<1>8. ~BootstrapCheck(c)
  BY DEF BootstrapCheck, Alone
<1>9. CASE Kickstart(c)
  <2>1. \A n \in 0..Throttle : n < StartVerify
    BY LifecycleAssumption DEF StartVerify
  <2>2. job = "loaded" /\ plist
    BY <1>9 DEF Kickstart, Alone
  <2>3. /\ proc' = "spawning" /\ due' \in 0..Throttle /\ UNCHANGED <<job, plist, report>>
        /\ pc'[c] = "start_verify" /\ timer'[c] = StartVerify
    BY <1>9, <2>2 DEF Kickstart
  <2>4. QED
    BY <1>1, <1>2, <2>1, <2>2, <2>3 DEF Alone
<1>10. QED
  BY <1>3, <1>4, <1>5, <1>6, <1>7, <1>8, <1>9 DEF Start

\* A poll of a start that has met nothing sees the daemon run, or a spawn to wait for.
LEMMA UnmetPolls ==
  ASSUME LifeInv, NEW c \in Clients, Alone(c), pc[c] \in StartSteps,
         Poll(c) \/ PollHolder(c), StepFrame(c)
  PROVE  /\ pc'[c] \in StartSteps => Alone(c)'
         /\ report'[c] # "failed"
<1> USE DEF LifeInv, TypeOK, At, Goto, Arm, launchd
<1>1. Poll(c) /\ pc[c] = "start_verify"
  BY DEF Poll, PollHolder, Alone, Verifying, ProbingHolder, StartSteps
<1>2. \A d \in Clients \ {c} : pc'[d] = "off"
  BY DEF Alone, StepFrame
<1>3. job = "loaded" /\ proc \in {"spawning", "starting", "up"} /\ report[c] = "none"
  BY <1>1 DEF Alone, RunningIsSilent
<1>4. PICK shown \in {"running", "unknown"} : shown \in Printed /\ Judge(c, shown = "running")
  BY <1>1, <1>3 DEF Poll, Printed
<1>5. shown = "unknown" => proc = "spawning" /\ timer[c] # 0
  BY <1>1, <1>3, <1>4 DEF Printed, Alone
<1>6. CASE shown = "running"
  <2>1. Judge(c, TRUE)
    BY <1>4, <1>6, Zenon
  <2>2. Tell(c, "started")
    BY <1>1, <2>1 DEF Judge, Verified, Tell, StartSteps, StopSteps, UninstallSteps
  <2>3. QED
    BY <2>2 DEF Tell, StartSteps
<1>7. CASE shown = "unknown"
  <2>1. VerifyStep(pc[c]) = "start_verify"
    BY <1>1, VerifyStepFits DEF Verifying, StartSteps
  <2>2. pc' = [pc EXCEPT ![c] = "start_verify"] /\ UNCHANGED <<timer, report>>
    BY <1>1, <1>4, <1>5, <1>7, <2>1 DEF Judge, StartSteps
  <2>3. UNCHANGED <<job, proc, due, plist, disabled>>
    BY <1>1 DEF Poll
  <2>4. QED
    BY <1>1, <1>2, <1>3, <2>2, <2>3 DEF Alone
<1>8. QED
  BY <1>4, <1>6, <1>7

\* A command only disturbs itself and those that meet it; a start that fails has met
\* something, and no other command reports failure.
LEMMA CommandKeepsReasons ==
  ASSUME FailInv, NEW c \in Clients, Command(c) \/ Interrupt(c)
  PROVE  UnmetIsAlone' /\ FailedForAReason'
<1> USE DEF FailInv
<1>1. StepFrame(c) /\ LifeInv
  BY CommandFrame DEF LifeInv
<1>2. ASSUME Unmet(c), met'[c] = {}
      PROVE  (pc'[c] \in StartSteps => Alone(c)') /\ report'[c] # "failed"
  <2>1. Alone(c) /\ met[c] = {} /\ pc[c] \in StartSteps
    BY <1>2 DEF UnmetIsAlone, Unmet
  <2>2. CASE Start(c)
    BY <1>1, <1>2, <2>1, <2>2, UnmetStarts
  <2>3. CASE Poll(c) \/ PollHolder(c)
    BY <1>1, <2>1, <2>3, UnmetPolls
  <2>4. CASE Interrupt(c)
    BY <1>1, <2>4 DEF Interrupt, Tell, Goto, LifeInv, TypeOK, StartSteps
  <2>5. ~Stop(c) /\ ~Uninstall(c)
    BY <2>1 DEF Stop, StopObserves, StopProbesHolder, StopBootout, Uninstall,
                UninstallBootout, Unlink, At, StartSteps
  <2>6. QED
    BY <2>2, <2>3, <2>4, <2>5 DEF Command
<1>3. ASSUME pc[c] \notin StartSteps
      PROVE  report'[c] # "failed"
  <2> USE DEF LifeInv, TypeOK, At, Goto, StartSteps
  <2>1. report[c] = "none"
    BY <1>1 DEF StepFrame, RunningIsSilent
  <2>2. CASE Poll(c) \/ PollHolder(c)
    <3>1. ASSUME NEW seen \in BOOLEAN, pc[c] \in Verifying \cup ProbingHolder, Judge(c, seen)
          PROVE  report'[c] # "failed"
      BY <1>1, <1>3, <2>1, <3>1, JudgeCases DEF Tell
    <3>2. QED
      BY <1>1, <2>1, <2>2, <3>1 DEF Poll, PollHolder
  <2>3. CASE Stop(c) \/ Uninstall(c) \/ Interrupt(c)
    BY <1>1, <2>1, <2>3
       DEF Stop, StopObserves, StopProbesHolder, StopBootout, ConvergeStop, Uninstall,
           UninstallBootout, Unlink, Interrupt, Tell
  <2>4. ~Start(c)
    BY <1>3 DEF Start, WritePlist, StartBootout, AwaitNotLoaded, Enable, Bootstrap,
                BootstrapCheck, Kickstart
  <2>5. QED
    BY <2>2, <2>3, <2>4 DEF Command
<1>4. \A d \in Clients \ {c} : pc[d] \in StartSteps => met'[d] # {}
  BY <1>1 DEF StepFrame, UnmetIsAlone, Unmet, Alone, At
<1>5. met[c] \subseteq met'[c]
  BY <1>1 DEF StepFrame
<1>6. UnmetIsAlone'
  BY <1>1, <1>2, <1>4, <1>5 DEF UnmetIsAlone, Unmet, StepFrame
<1>7. FailedForAReason'
  <2> SUFFICES ASSUME NEW d \in Clients, report'[d] = "failed"
               PROVE  met'[d] # {}
    BY DEF FailedForAReason
  <2>1. CASE d # c
    BY <1>1, <2>1 DEF StepFrame, FailedForAReason
  <2>2. CASE d = c
    BY <1>2, <1>3, <1>5, <2>2 DEF Unmet
  <2>3. QED
    BY <2>1, <2>2
<1>8. QED
  BY <1>6, <1>7

\* A start that begins among other commands has met them, and they meet it.
LEMMA BeginKeepsReasons ==
  ASSUME FailInv, NEW c \in Clients, NEW step \in {"plist", "observe", "uninstall_bootout"},
         Begin(c, step)
  PROVE  UnmetIsAlone' /\ FailedForAReason'
<1> USE DEF FailInv, LifeInv, TypeOK, Begin, At, Goto, launchd
<1>1. pc'[c] = step /\ report'[c] = "none"
  OBVIOUS
<1>2. \A d \in Clients \ {c} :
         /\ pc'[d] = pc[d] /\ report'[d] = report[d] /\ met[d] \subseteq met'[d]
         /\ pc[d] # "off" => met'[d] # {} /\ met'[c] # {}
  BY DEF Watched
<1>3. UnmetIsAlone'
  <2> SUFFICES ASSUME NEW d \in Clients, pc'[d] \in StartSteps, met'[d] = {}
               PROVE  Alone(d)'
    BY DEF UnmetIsAlone, Unmet
  <2>1. d = c
    BY <1>2 DEF StartSteps
  <2>2. pc'[c] = "plist"
    BY <1>1, <2>1 DEF StartSteps
  <2>3. QED
    BY <1>2, <2>1, <2>2 DEF Alone
<1>4. FailedForAReason'
  BY <1>1, <1>2 DEF FailedForAReason
<1>5. QED
  BY <1>3, <1>4

\* What a running command cannot rely on it meets: a deliberate exit, a crash, another
\* process on the lock, an install-agent.  A login ends it.
LEMMA WorldKeepsReasons ==
  ASSUME FailInv, \/ Launchd \/ ComesUp \/ ExitsClean \/ Crashes \/ OtherTakesLock
                  \/ OtherReleases \/ InstallAgent \/ Login \/ UNCHANGED vars
  PROVE  UnmetIsAlone' /\ FailedForAReason'
<1> USE DEF FailInv, LifeInv, TypeOK
<1>1. \A d \in Clients : met[d] \subseteq met'[d]
  BY MeetGrows
     DEF Launchd, Spawn, DrainEnds, Tick, ComesUp, ExitsClean, Crashes, OtherTakesLock,
         OtherReleases, InstallAgent, Login, vars, EveryoneMeets
<1>2. \A d \in Clients : report'[d] = "failed" => report[d] = "failed"
  BY DEF Launchd, Spawn, DrainEnds, Tick, ComesUp, ExitsClean, Crashes, OtherTakesLock,
         OtherReleases, InstallAgent, Login, vars, client
<1>3. FailedForAReason'
  BY <1>1, <1>2 DEF FailedForAReason
<1>4. CASE ExitsClean \/ Crashes \/ OtherTakesLock \/ InstallAgent
  <2>1. \E what \in {"start", "other", "crash"} : EveryoneMeets(what)
    BY <1>4 DEF ExitsClean, Crashes, OtherTakesLock, InstallAgent
  <2>2. UNCHANGED pc
    BY <1>4 DEF ExitsClean, Crashes, OtherTakesLock, InstallAgent, client
  <2>3. \A d \in Clients : pc[d] \in StartSteps => met'[d] # {}
    BY <2>1, MeetGrows DEF EveryoneMeets, Watched, At, StartSteps
  <2>4. QED
    BY <1>3, <2>2, <2>3 DEF UnmetIsAlone, Unmet
<1>5. CASE Login
  BY <1>3, <1>5 DEF Login, UnmetIsAlone, Unmet, StartSteps
<1>6. CASE Tick
  <2>1. /\ UNCHANGED <<job, proc, plist, disabled, pc, met>>
        /\ ~(proc = "spawning" /\ due = 0)
        /\ due' = IF due > 0 THEN due - 1 ELSE 0
        /\ \A d \in Clients : timer'[d] = IF timer[d] > 0 THEN timer[d] - 1 ELSE 0
    BY <1>6 DEF Tick
  <2>2. due \in Nat /\ \A d \in Clients : timer[d] \in Nat
    BY LifecycleAssumption
  <2>3. \A d \in Clients : proc = "spawning" /\ due < timer[d] => due' < timer'[d]
    BY <2>1, <2>2
  <2>4. QED
    BY <1>3, <2>1, <2>3 DEF UnmetIsAlone, Unmet, Alone, At
<1>7. CASE Spawn \/ DrainEnds \/ ComesUp \/ OtherReleases \/ UNCHANGED vars
  <2>1. UNCHANGED <<plist, disabled, pc, met, timer, due>>
    BY <1>7 DEF Spawn, DrainEnds, ComesUp, OtherReleases, vars, launchd, client
  <2>2. \/ UNCHANGED <<job, proc>>
        \/ job' = job /\ proc \in {"spawning", "starting"} /\ proc' \in {"starting", "up"}
        \/ proc = "draining" /\ job' = "absent"
    BY <1>7 DEF Spawn, DrainEnds, ComesUp, OtherReleases, vars, launchd
  <2>3. QED
    BY <1>3, <2>1, <2>2 DEF UnmetIsAlone, Unmet, Alone, At
<1>8. QED
  BY <1>4, <1>5, <1>6, <1>7 DEF Launchd

\* cmd_start --background reports failure only for a reason: whatever the timeouts, a
\* throttled spawn is waited for (_start_verify_timeout), a drain shorter than the wait
\* after bootout is waited out, and a disabled label is enabled before its bootstrap.
THEOREM FailuresHaveReasons == Spec => []FailedForAReason
<1>1. Init => UnmetIsAlone /\ FailedForAReason
  BY DEF Init, UnmetIsAlone, Unmet, FailedForAReason, StartSteps
<1>2. FailInv /\ [Next]_vars => UnmetIsAlone' /\ FailedForAReason'
  BY CommandKeepsReasons, BeginKeepsReasons, WorldKeepsReasons DEF Next
<1>3. QED
  BY <1>1, <1>2, LifeInductive, PTL DEF Spec, FailInv
=============================================================================
