------------------------------- MODULE Stages -------------------------------
(***************************************************************************)
(* `zygisk-ptrace stage <name>` and the monitors it starts and stops.      *)
(*                                                                         *)
(* A stage is a process of its own and several may run at once: a boot     *)
(* reaches the service stage by two init actions, a user may run late-load *)
(* from a shell, and a manager hot-installs whenever it likes.  Each       *)
(* starts at most one monitor, which bears the name of its run here.  All  *)
(* that keeps two monitors apart is a probe of the control socket and the  *)
(* rule of the kernel that init has one tracer.                            *)
(*                                                                         *)
(* InitTracer is about a monitor once it is in its event loop, ZygoteAbi   *)
(* about what a rearm does to zygote.  Of the first only the tracing state *)
(* is kept here, and of the second the outcomes.  The status readout and   *)
(* the scripts that a stage runs for other modules (fan_out) are left out. *)
(***************************************************************************)
EXTENDS Naturals, Sequences

CONSTANTS
  Run,          \* the stages that are ever run
  None,         \* no run
  StageNames,   \* which of Stage they are
  ZYGISK_DEBUG, \* a debug build
  Faults,       \* which of AllFaults the environment may inject
  MaxFaults     \* bound: how many of them it does inject

Stage == {"post-fs-data", "service", "hotinstall", "late-load", "late-load --stop"}

(***************************************************************************)
(*   "files"   the work directory or the status file cannot be written     *)
(*   "fork"    fork_dont_care fails at its first fork                      *)
(*   "exec"    its second fork, or the exec after it, fails                *)
(*   "handler" a descriptor a monitor needs cannot be had                  *)
(*   "slow"    a stage runs out of patience                                *)
(*   "proc"    /proc/1/status cannot be read                               *)
(*   "stop"    a crash loop, a dead daemon or `ctl stop` ends the tracing  *)
(*   "start"   `ctl start` resumes it                                      *)
(*   "kill"    a monitor or zygote is killed                               *)
(***************************************************************************)
AllFaults == {"files", "fork", "exec", "handler", "slow", "proc", "stop", "start",
              "kill"}

ASSUME NoneAssumption == None \notin Run
ASSUME StageNamesAssumption == StageNames \subseteq Stage
ASSUME DebugAssumption == ZYGISK_DEBUG \in BOOLEAN
ASSUME FaultsAssumption == Faults \subseteq AllFaults
ASSUME MaxFaultsAssumption == MaxFaults \in Nat

VARIABLES
  stage,       \* what each run is of
  pc,          \* the next step of each run, or how it ended
  mapped,      \* disarm's `mapped`
  retired,     \* the monitor this run sent EXIT to
  stopped,     \* stop_monitor saw init untraced after that
  reply,       \* the verdict on this run's REARM
  mon,         \* where the monitor that each run started is
  tracing,     \* its tracing_state_
  steady,      \* it has traced init ever since it began to
  inbox,       \* the runs whose datagram waits on its socket
  owner,       \* the monitor that holds the control socket's name
  initTracer,  \* the tracer of init
  zygote,      \* zygote, and our library in it
  faults       \* how many faults there were

runVars     == <<stage, pc, mapped, retired, stopped, reply>>
monitorVars == <<mon, tracing, steady, inbox, owner, initTracer>>
vars == <<runVars, monitorVars, zygote, faults>>

(***************************************************************************)
(* "standing_down" left at once, since another monitor was there.          *)
(* "closing" drains its socket, "leaving" has left its loop, "closed" has  *)
(* closed the socket and is still init's tracer, until it is "gone".       *)
(***************************************************************************)
Starting == {"probe", "seize", "bind"}
Ending   == {"closing", "leaving", "closed"}
Mon      == {"none", "standing_down", "loop", "gone"} \cup Starting \cup Ending

Ended        == {"success", "failure"}
PC           == {"idle", "stop", "exit", "poll", "install", "wait", "arm",
                 "answer", "restart"} \cup Ended
TracingState == {"TRACING", "STOPPING", "STOPPED", "EXITING"}
RearmResult  == {"Failed", "NoZygote", "Injected", "AlreadyHooked", "Injecting",
                 "NeedsRestart"}

(* A zygote that carries our library does so hooked or not. *)
Zygote == {"down", "bare", "mapped"}

Init ==
  /\ stage = [r \in Run |-> "none"]
  /\ pc = [r \in Run |-> "idle"]
  /\ mapped = [r \in Run |-> FALSE]
  /\ retired = [r \in Run |-> None]
  /\ stopped = [r \in Run |-> FALSE]
  /\ reply = [r \in Run |-> "none"]
  /\ mon = [r \in Run |-> "none"]
  /\ tracing = [r \in Run |-> "TRACING"]
  /\ steady = [r \in Run |-> FALSE]
  /\ inbox = [r \in Run |-> <<>>]
  /\ owner = None /\ initTracer = None
  /\ zygote \in {"down", "bare"}
  /\ faults = 0

(* One of these happens. *)
Fault(kinds) ==
  /\ Faults \cap kinds # {} /\ faults < MaxFaults
  /\ faults' = faults + 1

NoFault == UNCHANGED faults

-----------------------------------------------------------------------------
(***************************************************************************)
(* The stages.                                                             *)
(***************************************************************************)

Goto(r, p) == pc' = [pc EXCEPT ![r] = p]

FindZygotes      == zygote # "down"
ZygoteHasLibrary == zygote = "mapped"
MonitorIsRunning == owner # None

(* check_selinux: a late load may find the policy without our rules. *)
CheckSelinux(s) == IF s = "late-load" THEN {"failure"} ELSE {}

(* run_stage begins, and ends at once if Magisk's own Zygisk is on or, on  *)
(* a hot install, the module is marked disabled.                           *)
RunStage(r, s) ==
  /\ pc[r] = "idle"
  /\ stage' = [stage EXCEPT ![r] = s]
  /\ mapped' = [mapped EXCEPT ![r] = s = "late-load --stop" /\ ZygoteHasLibrary]
  /\ \/ \E result \in {"success"} \cup CheckSelinux(s) : Goto(r, result)
     \/ Goto(r, CASE s \in {"post-fs-data", "late-load"} -> "install"
                  [] s = "service" -> "arm"
                  [] s \in {"hotinstall", "late-load --stop"} -> "stop")
  /\ UNCHANGED <<retired, stopped, reply, monitorVars, zygote, faults>>

(* What a stage that stopped the old monitor does next. *)
AfterStop(r) == IF stage[r] = "hotinstall" THEN "install"
                ELSE IF mapped[r] THEN "restart" ELSE "success"

(* stop_monitor: nothing to stop if nobody answers. *)
StopMonitor(r) ==
  /\ pc[r] = "stop"
  /\ Goto(r, IF MonitorIsRunning THEN "exit" ELSE AfterStop(r))
  /\ UNCHANGED <<stage, mapped, retired, stopped, reply, monitorVars, zygote, faults>>

(* sendto reaches whoever holds the name by now. *)
SendExit(r) ==
  /\ pc[r] = "exit"
  /\ MonitorIsRunning
  /\ inbox' = [inbox EXCEPT ![owner] = Append(@, r)]
  /\ retired' = [retired EXCEPT ![r] = owner]
  /\ Goto(r, "poll")
  /\ UNCHANGED <<stage, mapped, stopped, reply, mon, tracing, steady, owner,
                 initTracer, zygote, faults>>

(* The retries are spent before a monitor holds the name again. *)
SendExitFails(r) ==
  /\ pc[r] = "exit"
  /\ ~MonitorIsRunning
  /\ Goto(r, AfterStop(r))
  /\ UNCHANGED <<stage, mapped, retired, stopped, reply, monitorVars, zygote, faults>>

(* get_tracer_pid(1) is 0 *)
Untraced == initTracer = None

(* Mutant: the socket's name is watched, which is given up first. *)
PollSocketClosed(r) ==
  /\ pc[r] = "poll"
  /\ ~MonitorIsRunning
  /\ stopped' = [stopped EXCEPT ![r] = TRUE]
  /\ Goto(r, AfterStop(r))
  /\ UNCHANGED <<stage, mapped, retired, reply, monitorVars, zygote, faults>>

(* stop_monitor, once it sees that nobody traces init. *)
PollUntraced(r) ==
  /\ pc[r] = "poll"
  /\ Untraced
  /\ stopped' = [stopped EXCEPT ![r] = TRUE]
  /\ Goto(r, AfterStop(r))
  /\ UNCHANGED <<stage, mapped, retired, reply, monitorVars, zygote, faults>>

(* The attempts are spent, or get_tracer_pid(1) is -1, which counts as     *)
(* untraced.  stop_monitor returns false or true, and neither a hot        *)
(* install nor a disarm looks at it.                                       *)
PollGivesUp(r) ==
  /\ Fault({"slow", "proc"})
  /\ pc[r] = "poll"
  /\ ~Untraced
  /\ Goto(r, AfterStop(r))
  /\ UNCHANGED <<stage, mapped, retired, stopped, reply, monitorVars, zygote>>

(* What a stage that started a monitor does next; with a framework behind  *)
(* it, a late load leaves the arming to the service stage.                 *)
AfterInstall(r) == CASE stage[r] = "hotinstall" -> {"wait"}
                     [] stage[r] = "late-load" -> {"success", "arm"}
                     [] OTHER -> {"success"}

(* install: stage_work_directory, then start_monitor, whose child may be   *)
(* lost without a word.                                                    *)
Install(r) ==
  /\ pc[r] = "install"
  /\ \E next \in AfterInstall(r) : Goto(r, next)
  /\ \/ NoFault /\ mon' = [mon EXCEPT ![r] = "probe"]
     \/ Fault({"exec"}) /\ UNCHANGED mon
  /\ UNCHANGED <<stage, mapped, retired, stopped, reply, tracing, steady, inbox,
                 owner, initTracer, zygote>>

InstallFails(r) ==
  /\ Fault({"files", "fork"})
  /\ pc[r] = "install"
  /\ Goto(r, "failure")
  /\ UNCHANGED <<stage, mapped, retired, stopped, reply, monitorVars, zygote>>

(* wait_for_monitor: some monitor answers.  A debug build then restarts    *)
(* zygote for it to catch.                                                 *)
WaitForMonitor(r) ==
  /\ pc[r] = "wait"
  /\ MonitorIsRunning
  /\ Goto(r, IF ZYGISK_DEBUG THEN "restart" ELSE "success")
  /\ UNCHANGED <<stage, mapped, retired, stopped, reply, monitorVars, zygote, faults>>

WaitGivesUp(r) ==
  /\ pc[r] = "wait"
  /\ ~MonitorIsRunning
  /\ Goto(r, "failure")
  /\ UNCHANGED <<stage, mapped, retired, stopped, reply, monitorVars, zygote, faults>>

(* arm_running_system, up to the sendto of its REARM. *)
Arm(r) ==
  /\ pc[r] = "arm"
  /\ IF FindZygotes
     THEN /\ MonitorIsRunning
          /\ inbox' = [inbox EXCEPT ![owner] = Append(@, r)]
          /\ Goto(r, "answer")
     ELSE Goto(r, "success") /\ UNCHANGED inbox
  /\ UNCHANGED <<stage, mapped, retired, stopped, reply, mon, tracing, steady,
                 owner, initTracer, zygote, faults>>

ArmUnsent(r) ==
  /\ pc[r] = "arm"
  /\ FindZygotes /\ ~MonitorIsRunning
  /\ Goto(r, "failure")
  /\ UNCHANGED <<stage, mapped, retired, stopped, reply, monitorVars, zygote, faults>>

ArmAnswered(r) ==
  /\ pc[r] = "answer"
  /\ reply[r] # "none"
  /\ Goto(r, CASE reply[r] = "Failed" -> "failure"
               [] reply[r] = "NeedsRestart" -> "restart"
               [] OTHER -> "success")
  /\ reply' = [reply EXCEPT ![r] = "none"]
  /\ UNCHANGED <<stage, mapped, retired, stopped, monitorVars, zygote, faults>>

(* Some monitor has yet to read this run's datagram. *)
Waiting(r) == \E m \in Run : \E i \in 1..Len(inbox[m]) : inbox[m][i] = r

(* kAnswerTimeoutSec; without "slow" only a lost datagram runs it out. *)
ArmTimesOut(r) ==
  /\ pc[r] = "answer"
  /\ reply[r] = "none"
  /\ IF Waiting(r) THEN Fault({"slow"}) ELSE NoFault
  /\ Goto(r, "failure")
  /\ UNCHANGED <<stage, mapped, retired, stopped, reply, monitorVars, zygote>>

(* restart_zygote: a process of its own runs `stop` and `start`, or fails  *)
(* to without anybody noticing.  The stage may be long over when zygote    *)
(* goes down; nothing waits for either.                                    *)
RestartZygote(r) ==
  /\ pc[r] = "restart"
  /\ Goto(r, "success")
  /\ \/ NoFault /\ zygote' = "down"
     \/ Fault({"fork", "exec"}) /\ UNCHANGED zygote
  /\ mapped' = [mapped EXCEPT ![r] = FALSE]
  /\ UNCHANGED <<stage, retired, stopped, reply, monitorVars>>

-----------------------------------------------------------------------------
(***************************************************************************)
(* The monitors.                                                           *)
(***************************************************************************)

Become(m, s) == mon' = [mon EXCEPT ![m] = s]

(* The kernel lets go of whatever a process held. *)
Released(m, holder) == IF holder = m THEN None ELSE holder

(* Mutant: the control socket comes before the handler that can lose. *)
AfterSwapped(s) ==
  CASE s = "probe" -> "bind" [] s = "bind" -> "seize" [] s = "seize" -> "loop"

(* The order in which run prepares its handlers.  It ignores that one may  *)
(* fail to be registered with the event loop: such a monitor keeps what it *)
(* holds, deaf to that handler's events, and is here one that never comes  *)
(* to take the steps that answer them.                                     *)
After(s) ==
  CASE s = "probe" -> "seize" [] s = "seize" -> "bind" [] s = "bind" -> "loop"

(* init_monitor stands down if the control socket is owned, and is ready   *)
(* to run once prepare_environment has read and written its files.         *)
InitMonitor(m) ==
  /\ mon[m] = "probe"
  /\ \/ /\ MonitorIsRunning
        /\ Become(m, "standing_down") /\ NoFault
     \/ /\ ~MonitorIsRunning
        /\ \/ Become(m, After("probe")) /\ NoFault
           \/ Become(m, "gone") /\ Fault({"files"})
  /\ UNCHANGED <<runVars, tracing, steady, inbox, owner, initTracer, zygote>>

(* Mutant: the result of PTRACE_SEIZE is not looked at. *)
PtraceHandlerInitUnchecked(m) ==
  /\ mon[m] = "seize"
  /\ Become(m, After("seize"))
  /\ initTracer' = IF Untraced THEN m ELSE initTracer
  /\ steady' = [steady EXCEPT ![m] = Untraced]
  /\ UNCHANGED <<runVars, tracing, inbox, owner, zygote, faults>>

(* SigChldHandler::Init: seizing init fails for whoever comes second. *)
PtraceHandlerInit(m) ==
  /\ mon[m] = "seize"
  /\ \/ /\ Untraced
        /\ Become(m, After("seize")) /\ NoFault
        /\ initTracer' = m
        /\ steady' = [steady EXCEPT ![m] = TRUE]
     \/ /\ ~Untraced
        /\ Become(m, "standing_down") /\ NoFault
        /\ UNCHANGED <<initTracer, steady>>
     \/ /\ Fault({"handler"})
        /\ Become(m, "gone")
        /\ UNCHANGED <<initTracer, steady>>
  /\ UNCHANGED <<runVars, tracing, inbox, owner, zygote>>

(* SocketHandler::Init takes the name from whoever has it.  A monitor that *)
(* cannot returns from run, and its process ends, with the name unlinked   *)
(* or not.                                                                 *)
SocketHandlerInit(m) ==
  /\ mon[m] = "bind"
  /\ \/ /\ Become(m, After("bind")) /\ NoFault
        /\ owner' = m
        /\ UNCHANGED initTracer
     \/ /\ Fault({"handler"})
        /\ Become(m, "gone")
        /\ initTracer' = Released(m, initTracer)
        /\ owner' \in {owner, None}
  /\ UNCHANGED <<runVars, tracing, steady, inbox, zygote>>

(* request_start, request_stop: the tracing state after them. *)
RequestStart(t) == IF t \in {"STOPPING", "STOPPED"} THEN "TRACING" ELSE t
RequestStop(t)  == IF t = "TRACING" THEN "STOPPING" ELSE t

(* The PTRACE_SEIZE in request_start, whose result is not looked at. *)
Reseize(m) == IF tracing[m] = "STOPPED" /\ Untraced THEN m ELSE initTracer

StopRequested(m) ==
  /\ Fault({"stop"})
  /\ mon[m] = "loop" /\ tracing[m] = "TRACING"
  /\ tracing' = [tracing EXCEPT ![m] = "STOPPING"]
  /\ steady' = [steady EXCEPT ![m] = FALSE]
  /\ UNCHANGED <<runVars, mon, inbox, owner, initTracer, zygote>>

(* notify_init_detached, at the trap that request_stop asked init for. *)
InitDetached(m) ==
  /\ mon[m] = "loop" /\ tracing[m] = "STOPPING" /\ initTracer = m
  /\ tracing' = [tracing EXCEPT ![m] = "STOPPED"]
  /\ initTracer' = None
  /\ UNCHANGED <<runVars, mon, steady, inbox, owner, zygote, faults>>

StartRequested(m) ==
  /\ Fault({"start"})
  /\ mon[m] = "loop" /\ owner = m /\ tracing[m] # "TRACING"
  /\ tracing' = [tracing EXCEPT ![m] = "TRACING"]
  /\ initTracer' = Reseize(m)
  /\ UNCHANGED <<runVars, mon, steady, inbox, owner, zygote>>

(* One datagram: HandleEvent goes on until the socket is empty, in a       *)
(* monitor that was told to exit as well.                                  *)
Receive(m) ==
  /\ mon[m] \in {"loop", "closing"}
  /\ inbox[m] # <<>>
  /\ inbox' = [inbox EXCEPT ![m] = Tail(@)]

HandleExit(m) ==
  /\ Receive(m)
  /\ stage[Head(inbox[m])] \in {"hotinstall", "late-load --stop"}
  /\ tracing' = [tracing EXCEPT ![m] = "EXITING"]
  /\ Become(m, "closing")
  /\ UNCHANGED <<runVars, steady, owner, initTracer, zygote, faults>>

(* What ZygoteAbiManager::rearm may answer, and leave behind. *)
RearmOutcomes ==
  {<<"Failed", zygote>>} \cup
  CASE zygote = "down"   -> {<<"NoZygote", "down">>}
    [] zygote = "bare"   -> {<<"Injected", "mapped">>, <<"NeedsRestart", "mapped">>,
                             <<"Failed", "mapped">>}
                            \cup ({"Injecting"} \X {"bare", "mapped"})
    [] zygote = "mapped" -> {"AlreadyHooked", "NeedsRestart"} \X {"mapped"}

(* request_rearm, and the answer to whoever still waits for it. *)
HandleRearm(m) ==
  /\ Receive(m)
  /\ LET r == Head(inbox[m]) IN
       /\ stage[r] \in {"service", "late-load"}
       /\ \E outcome \in RearmOutcomes :
            /\ zygote' = outcome[2]
            /\ reply' = IF pc[r] = "answer" THEN [reply EXCEPT ![r] = outcome[1]] ELSE reply
            /\ LET failed == outcome[1] = "Failed"
                   now == RequestStart(tracing[m])
               IN /\ tracing' = [tracing EXCEPT ![m] = IF failed THEN RequestStop(now) ELSE now]
                  /\ steady' = [steady EXCEPT ![m] = @ /\ ~(failed /\ now = "TRACING")]
  /\ initTracer' = Reseize(m)
  /\ UNCHANGED <<stage, pc, mapped, retired, stopped, mon, owner, faults>>

(* Loop ends. *)
LoopEnds(m) ==
  /\ mon[m] = "closing" /\ inbox[m] = <<>>
  /\ Become(m, "leaving")
  /\ UNCHANGED <<runVars, tracing, steady, inbox, owner, initTracer, zygote, faults>>

(* ~SocketHandler *)
SocketCloses(m) ==
  /\ mon[m] = "leaving"
  /\ Become(m, "closed")
  /\ owner' = Released(m, owner)
  /\ inbox' = [inbox EXCEPT ![m] = <<>>]
  /\ UNCHANGED <<runVars, tracing, steady, initTracer, zygote, faults>>

(* Only the end of the process lets init go. *)
MonitorExits(m) ==
  /\ mon[m] = "closed"
  /\ Become(m, "gone")
  /\ initTracer' = Released(m, initTracer)
  /\ UNCHANGED <<runVars, tracing, steady, inbox, owner, zygote, faults>>

MonitorKilled(m) ==
  /\ Fault({"kill"})
  /\ mon[m] \in Starting \cup Ending \cup {"loop"}
  /\ Become(m, "gone")
  /\ initTracer' = Released(m, initTracer)
  /\ owner' = Released(m, owner)
  /\ inbox' = [inbox EXCEPT ![m] = <<>>]
  /\ UNCHANGED <<runVars, tracing, steady, zygote>>

(* init starts zygote.  A tracer that reads no events holds it back until  *)
(* it does, or is gone; one that does may inject it, refuse to, or fail.   *)
ZygoteStarts ==
  /\ zygote = "down"
  /\ \/ Untraced /\ zygote' = "bare"
     \/ /\ ~Untraced
        /\ mon[initTracer] = "loop"
        /\ zygote' \in {"bare", "mapped"}
  /\ UNCHANGED <<runVars, monitorVars, faults>>

ZygoteDies ==
  /\ Fault({"kill"})
  /\ FindZygotes
  /\ zygote' = "down"
  /\ UNCHANGED <<runVars, monitorVars>>

-----------------------------------------------------------------------------

StageSteps(r) ==
  \/ \E s \in StageNames : RunStage(r, s)
  \/ StopMonitor(r) \/ SendExit(r) \/ SendExitFails(r)
  \/ PollUntraced(r) \/ PollGivesUp(r)
  \/ Install(r) \/ InstallFails(r) \/ WaitForMonitor(r) \/ WaitGivesUp(r)
  \/ Arm(r) \/ ArmUnsent(r) \/ ArmAnswered(r) \/ ArmTimesOut(r)
  \/ RestartZygote(r)

MonitorSteps(m) ==
  \/ InitMonitor(m) \/ PtraceHandlerInit(m) \/ SocketHandlerInit(m)
  \/ StopRequested(m) \/ InitDetached(m) \/ StartRequested(m)
  \/ HandleExit(m) \/ HandleRearm(m)
  \/ LoopEnds(m) \/ SocketCloses(m) \/ MonitorExits(m) \/ MonitorKilled(m)

Next == \/ \E r \in Run : StageSteps(r) \/ MonitorSteps(r)
        \/ ZygoteStarts \/ ZygoteDies

Spec == Init /\ [][Next]_vars

-----------------------------------------------------------------------------
(* The types of the variables, and who may hold what: a monitor becomes    *)
(* init's tracer before it takes the control socket's name, and has        *)
(* neither once it is gone.                                                *)
TypeOK ==
  /\ stage \in [Run -> Stage \cup {"none"}]
  /\ pc \in [Run -> PC]
  /\ mapped \in [Run -> BOOLEAN]
  /\ retired \in [Run -> Run \cup {None}]
  /\ stopped \in [Run -> BOOLEAN]
  /\ reply \in [Run -> RearmResult \cup {"none"}]
  /\ mon \in [Run -> Mon]
  /\ tracing \in [Run -> TracingState]
  /\ steady \in [Run -> BOOLEAN]
  /\ inbox \in [Run -> Seq(Run)]
  /\ owner \in {m \in Run : mon[m] \in {"loop", "closing", "leaving"}} \cup {None}
  /\ initTracer \in {m \in Run : mon[m] \in Ending \cup {"bind", "loop"}} \cup {None}
  /\ zygote \in Zygote
  /\ faults \in 0..MaxFaults

(***************************************************************************)
(* "Two monitors would both seize init and race over the socket": however  *)
(* many monitors start at once,                                            *)
(*  - one that serves its loop and has traced init ever since keeps the    *)
(*    control socket, so that every command reaches the tracer of init;    *)
(*  - they do not all step aside for one another: once no monitor is on    *)
(*    its way up or down, none died and none gave up tracing, whoever      *)
(*    stood down left one that serves                                      *)
(* (init_monitor's probe and the order of the handlers in run).            *)
(***************************************************************************)
OneMonitorServes ==
  LET Serves(m) == mon[m] = "loop" /\ owner = m /\ initTracer = m
      Steady(m) == mon[m] = "loop" /\ steady[m]
      stoodDown == {m \in Run : mon[m] = "standing_down"}
  IN /\ \A m \in Run : Steady(m) => Serves(m)
     /\ stoodDown # {} /\ (\A m \in Run \ stoodDown : mon[m] = "none" \/ Steady(m))
          => \E m \in Run : Serves(m)

(* "Only one process may trace init, and the old monitor's attachment      *)
(* outlives its control socket": once stop_monitor saw that nobody traces  *)
(* init, and so calls the previous monitor gone, the one that got its EXIT *)
(* is gone, unless it had let go of init before; the monitor that a hot    *)
(* install starts next is not turned away by it.  A status of init that    *)
(* could not be read is no such sight, though stop_monitor takes it for    *)
(* one.                                                                    *)
StopMeansGone ==
  \A r \in Run : stopped[r] /\ steady[retired[r]] => mon[retired[r]] = "gone"

=============================================================================
