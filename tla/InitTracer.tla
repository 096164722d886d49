----------------------------- MODULE InitTracer -----------------------------
(***************************************************************************)
(* The init monitor's tracing side: AppMonitor's tracing state, the        *)
(* control commands its SocketHandler serves, and the SigChldHandler that  *)
(* follows init's descendants with ptrace until one of them executes       *)
(* app_process and is handed, parked in SIGSTOP, to an injector.           *)
(*                                                                         *)
(* The monitor is one thread.  Its event loop picks a readable descriptor  *)
(* and the handler of that descriptor runs until the descriptor is         *)
(* drained; between two messages, or two wait statuses, the rest of the    *)
(* device moves on.  One datagram or one wait status is one step here.     *)
(*                                                                         *)
(* The kernel's ptrace rules, init, the processes it forks and the         *)
(* injector are the environment, modelled from how the code uses them.     *)
(* Of ZygoteAbiManager only what decides a hand-over is kept: the crash    *)
(* counter and whether a daemon is recorded and usable.  The rest of it    *)
(* (hooks, heartbeats, live attach) is the subject of ZygoteAbi.           *)
(***************************************************************************)
EXTENDS Naturals, Sequences

CONSTANTS
  Pid,          \* the pids init and its stubs can hand out
  RetryCount,   \* CRASH_LOOP_RETRY_COUNT
  MaxCommands,  \* bound: how many control commands are ever sent
  PidReuse,     \* whether the kernel hands a reaped pid out again
  Faults        \* which of AllFaults the environment may inject

(***************************************************************************)
(* What can go wrong under the monitor:                                    *)
(*   "daemon_fork"  the daemon cannot be forked                            *)
(*   "daemon_death" the daemon dies, or reports a fatal error              *)
(*   "fork"         the first fork of fork_dont_care fails                 *)
(*   "grandchild"   its second fork fails                                  *)
(*   "exec"         the injector's binary cannot be executed               *)
(*   "signal"       a signal reaches a process the monitor traces          *)
(*   "overtake"     a signal overtakes the SIGSTOP of a hand-over          *)
(*   "death"        a process dies at any time                             *)
(*   "midfork"      an interrupt reaches init once its fork is under way   *)
(*   "reseize"      another tracer took init while tracing was stopped     *)
(***************************************************************************)
AllFaults == {"daemon_fork", "daemon_death", "fork", "grandchild", "exec",
              "signal", "overtake", "death", "midfork", "reseize"}

ASSUME PidsAssumption == Pid # {}
ASSUME RetryCountAssumption == RetryCount \in Nat \ {0}
ASSUME MaxCommandsAssumption == MaxCommands \in Nat
ASSUME FaultsAssumption == Faults \subseteq AllFaults
ASSUME PidReuseAssumption == PidReuse \in BOOLEAN

VARIABLES
  tracing,        \* tracing_state_
  running,        \* EventLoop::running
  handler,        \* which handler the loop is in
  inbox,          \* datagrams queued on the control socket
  sent,           \* how many commands were ever sent
  process,        \* process_: candidates that have yet to execute a program
  stubs,          \* stub_processes_
  count,          \* counter.count
  daemon,         \* the daemon process this monitor forked last
  daemonRunning,  \* status_.daemon_running
  initTraced,     \* init is a tracee of the monitor
  initStop,       \* the ptrace stop init is in, or "none"
  initTrap,       \* a PTRACE_INTERRUPT that init has yet to take
  kind,           \* what each pid is
  stop,           \* the ptrace stop each pid is in, or "none"
  traced,         \* the tracees of the monitor besides init
  parked,         \* processes stopped by a SIGSTOP, waiting for a SIGCONT
  injector        \* processes an injector was launched for

monitorVars == <<tracing, running, handler, process, stubs, count>>
daemonVars  == <<daemon, daemonRunning>>
initVars    == <<initTraced, initStop, initTrap>>
procVars    == <<kind, stop, traced, parked, injector>>
socketVars  == <<inbox, sent>>
vars == <<monitorVars, daemonVars, initVars, procVars, socketVars>>

TracingState == {"TRACING", "STOPPING", "STOPPED", "EXITING"}
Command      == {"START", "STOP", "EXIT", "REARM"}
Datagram     == Command \cup {"DAEMON_SET_ERROR_INFO"}

(***************************************************************************)
(* "fresh" is forked and not yet executed, "zombie" dead with a wait       *)
(* status the monitor has yet to collect, "crashed" the same, by a SIGCHLD *)
(* the monitor let through to it, "gone" dead and reaped.                  *)
(***************************************************************************)
Program   == {"stub_zygote", "app_process", "other"}
Kind      == {"unused", "fresh", "zombie", "crashed", "gone"} \cup Program
PosixStop == {"SIGSTOP", "SIGCHLD", "SIGTERM"}
Stop      == {"EVENT_STOP", "EVENT_FORK", "EVENT_EXEC"} \cup PosixStop

Dead(p) == kind[p] \in {"zombie", "crashed"}
Live(p) == ~Dead(p) /\ kind[p] \notin {"unused", "gone"}

(***************************************************************************)
(* The wait statuses the kernel has for the monitor: tracees that stopped  *)
(* or died, and its own daemon.                                            *)
(***************************************************************************)
Waitable(p) == p \in traced /\ (stop[p] # "none" \/ Dead(p))
ChildEvents == (\E p \in Pid : Waitable(p)) \/ initStop # "none" \/ daemon = "zombie"

Init ==
  /\ tracing = "TRACING" /\ running = TRUE /\ handler = "poll"
  /\ inbox = <<>> /\ sent = 0
  /\ process = {} /\ stubs = {} /\ count = 0
  /\ daemon = "none" /\ daemonRunning = FALSE
  /\ initTraced = TRUE /\ initStop = "none" /\ initTrap = FALSE
  /\ kind = [p \in Pid |-> "unused"]
  /\ stop = [p \in Pid |-> "none"]
  /\ traced = {} /\ parked = {} /\ injector = {}

-----------------------------------------------------------------------------
(***************************************************************************)
(* The device: init, its descendants and whoever writes to the socket.     *)
(***************************************************************************)

(* A client queues a command: main.cpp's send_control_command and rearm. *)
SendCommand(c) ==
  /\ handler # "exited"
  /\ sent < MaxCommands
  /\ inbox' = Append(inbox, c)
  /\ sent' = sent + 1
  /\ UNCHANGED <<monitorVars, daemonVars, initVars, procVars>>

Unborn(p) == kind[p] = "unused" \/ (PidReuse /\ kind[p] = "gone")

(* With PTRACE_O_TRACEFORK a child is attached before it runs. *)
Born(p, attached) ==
  /\ kind' = [kind EXCEPT ![p] = "fresh"]
  /\ traced' = IF attached THEN traced \cup {p} ELSE traced
  /\ injector' = injector \ {p}
  /\ parked' = parked \ {p}

(***************************************************************************)
(* A fork that finds an interrupt due starts over once the trap is taken;  *)
(* one that is past that point drops it, since any ptrace stop, the        *)
(* EVENT_FORK one included, clears a trap that is due.                     *)
(***************************************************************************)
InitForks(p) ==
  /\ Unborn(p)
  /\ initStop = "none"
  /\ initTrap => "midfork" \in Faults
  /\ initTrap' = FALSE
  /\ Born(p, initTraced)
  /\ initStop' = IF initTraced THEN "EVENT_FORK" ELSE "none"
  /\ stop' = [stop EXCEPT ![p] = IF initTraced THEN "EVENT_STOP" ELSE "none"]
  /\ UNCHANGED <<monitorVars, daemonVars, initTraced, socketVars>>

(* Only a stub the monitor promoted carries PTRACE_O_TRACEFORK. *)
StubForks(s, p) ==
  /\ kind[s] = "stub_zygote" /\ stop[s] = "none" /\ s \notin parked
  /\ Unborn(p)
  /\ LET attached == s \in traced IN
       /\ Born(p, attached)
       /\ stop' = IF attached
                  THEN [stop EXCEPT ![s] = "EVENT_FORK", ![p] = "EVENT_STOP"]
                  ELSE [stop EXCEPT ![p] = "none"]
  /\ UNCHANGED <<monitorVars, daemonVars, initVars, socketVars>>

(* A traced child that executes a program stops: PTRACE_O_TRACEEXEC. *)
Executes(p, program) ==
  /\ kind[p] = "fresh" /\ stop[p] = "none" /\ p \notin parked
  /\ kind' = [kind EXCEPT ![p] = program]
  /\ stop' = [stop EXCEPT ![p] = IF p \in traced THEN "EVENT_EXEC" ELSE "none"]
  /\ UNCHANGED <<monitorVars, daemonVars, initVars, traced, parked, injector,
                 socketVars>>

(* init traps once it runs with an interrupt outstanding. *)
InitTraps ==
  /\ initTraced /\ initTrap /\ initStop = "none"
  /\ initStop' = "EVENT_STOP"
  /\ initTrap' = FALSE
  /\ UNCHANGED <<monitorVars, daemonVars, initTraced, procVars, socketVars>>

(* A tracee is stopped on its way to a signal. *)
Signalled(p, sig) ==
  /\ "signal" \in Faults
  /\ p \in traced /\ Live(p) /\ stop[p] = "none" /\ p \notin parked
  /\ stop' = [stop EXCEPT ![p] = sig]
  /\ UNCHANGED <<monitorVars, daemonVars, initVars, kind, traced, parked,
                 injector, socketVars>>

(* A trap that is due is taken before any signal. *)
InitSignalled(sig) ==
  /\ "signal" \in Faults
  /\ initTraced /\ initStop = "none" /\ ~initTrap
  /\ initStop' = sig
  /\ UNCHANGED <<monitorVars, daemonVars, initTraced, initTrap, procVars,
                 socketVars>>

(* SIGKILL ends a stopped process too; a tracee's status goes to its tracer. *)
Dies(p) ==
  /\ "death" \in Faults
  /\ Live(p)
  /\ kind' = [kind EXCEPT ![p] = IF p \in traced THEN "zombie" ELSE "gone"]
  /\ stop' = [stop EXCEPT ![p] = "none"]
  /\ parked' = parked \ {p}
  /\ UNCHANGED <<monitorVars, daemonVars, initVars, traced, injector, socketVars>>

(* The daemon found no usable root implementation: send_startup_info. *)
DaemonReportsError ==
  /\ "daemon_death" \in Faults
  /\ daemon = "alive" /\ sent < MaxCommands
  /\ inbox' = Append(inbox, "DAEMON_SET_ERROR_INFO")
  /\ sent' = sent + 1
  /\ UNCHANGED <<monitorVars, daemonVars, initVars, procVars>>

DaemonDies ==
  /\ "daemon_death" \in Faults
  /\ daemon = "alive"
  /\ daemon' = "zombie"
  /\ UNCHANGED <<monitorVars, daemonRunning, initVars, procVars, socketVars>>

(* The injector releases its target whatever it achieved: handle_trace. *)
InjectorFinishes(p) ==
  /\ p \in injector /\ p \in parked
  /\ parked' = parked \ {p}
  /\ UNCHANGED <<monitorVars, daemonVars, initVars, kind, stop, traced,
                 injector, socketVars>>

-----------------------------------------------------------------------------
(***************************************************************************)
(* EventLoop::Loop: pick a ready descriptor, drain it, look at running.    *)
(***************************************************************************)

Dispatch(h) ==
  /\ handler = "poll"
  /\ \/ h = "socket" /\ inbox # <<>>
     \/ h = "sigchld" /\ ChildEvents
  /\ handler' = h
  /\ UNCHANGED <<tracing, running, process, stubs, count, daemonVars, initVars,
                 procVars, socketVars>>

Drained ==
  \/ handler = "socket" /\ inbox = <<>>
  \/ handler = "sigchld" /\ ~ChildEvents

(* Mutant: the loop never looks at running. *)
HandlerReturnsAlways ==
  /\ Drained
  /\ handler' = "poll"
  /\ UNCHANGED <<tracing, running, process, stubs, count, daemonVars, initVars,
                 procVars, socketVars>>

HandlerReturns ==
  /\ Drained /\ running
  /\ handler' = "poll"
  /\ UNCHANGED <<tracing, running, process, stubs, count, daemonVars, initVars,
                 procVars, socketVars>>

(***************************************************************************)
(* The loop ends and the process with it: the kernel detaches every        *)
(* tracee, which resumes, and PDEATHSIG takes the daemon.                  *)
(***************************************************************************)
MonitorExits ==
  /\ Drained /\ ~running
  /\ handler' = "exited"
  /\ initTraced' = FALSE /\ initStop' = "none" /\ initTrap' = FALSE
  /\ traced' = {}
  /\ stop' = [p \in Pid |-> "none"]
  /\ parked' = parked \cup {p \in Pid : stop[p] = "SIGSTOP"}
  /\ kind' = [p \in Pid |-> IF Dead(p) THEN "gone" ELSE kind[p]]
  /\ daemon' = "none"
  /\ UNCHANGED <<tracing, running, process, stubs, count, daemonRunning,
                 injector, socketVars>>

-----------------------------------------------------------------------------
(***************************************************************************)
(* The control socket.                                                     *)
(***************************************************************************)

(* Mutant: a start from STOPPED does not take init back. *)
SeizeForgotten == UNCHANGED initTraced

(* PTRACE_SEIZE of init on the way out of STOPPED; its result is ignored. *)
Seize ==
  IF tracing = "STOPPED"
  THEN initTraced' = TRUE \/ ("reseize" \in Faults /\ initTraced' = FALSE)
  ELSE UNCHANGED initTraced

(* Mutant: a start overrides an exit too. *)
RequestStartAlways ==
  /\ tracing' = "TRACING"
  /\ Seize
  /\ UNCHANGED <<initStop, initTrap>>

(* AppMonitor::request_start. *)
RequestStart ==
  /\ tracing' = IF tracing \in {"STOPPING", "STOPPED"} THEN "TRACING" ELSE tracing
  /\ Seize
  /\ UNCHANGED <<initStop, initTrap>>

(* Mutant: the state changes and init is not interrupted. *)
RequestStopQuietly ==
  IF tracing = "TRACING"
  THEN tracing' = "STOPPING" /\ UNCHANGED initVars
  ELSE UNCHANGED <<tracing, initVars>>

(* AppMonitor::request_stop. *)
RequestStop ==
  IF tracing = "TRACING"
  THEN /\ tracing' = "STOPPING"
       /\ initTrap' = initTraced
       /\ UNCHANGED <<initTraced, initStop>>
  ELSE UNCHANGED <<tracing, initVars>>

(* AppMonitor::request_exit. *)
RequestExit ==
  /\ tracing' = "EXITING"
  /\ running' = FALSE
  /\ UNCHANGED initVars

(* ZygoteAbiManager::ensure_daemon_created, as far as a daemon is usable. *)
EnsureDaemon(usable) ==
  IF daemon # "none"
  THEN usable = daemonRunning /\ UNCHANGED daemonVars
  ELSE \/ /\ usable = TRUE
          /\ daemon' = "alive" /\ daemonRunning' = TRUE
       \/ /\ "daemon_fork" \in Faults
          /\ usable = FALSE
          /\ UNCHANGED daemonVars

Zygotes == {p \in Pid : kind[p] = "app_process"}

(***************************************************************************)
(* AppMonitor::request_rearm.  A rearm lifts a stop first and, when it     *)
(* finds a zygote and no usable daemon, asks for a stop again.             *)
(***************************************************************************)
RequestRearm ==
  \/ /\ Zygotes = {}
     /\ RequestStart
     /\ UNCHANGED daemonVars
  \/ /\ Zygotes # {}
     /\ EnsureDaemon(TRUE)
     /\ RequestStart
  \/ /\ Zygotes # {}
     /\ EnsureDaemon(FALSE)
     /\ IF tracing = "EXITING"
        THEN UNCHANGED <<tracing, initVars>>
        ELSE /\ tracing' = "STOPPING"
             /\ Seize
             /\ initTrap' = initTraced'
             /\ UNCHANGED initStop

(* One datagram: SocketHandler::HandleEvent. *)
HandleDatagram ==
  /\ handler = "socket" /\ inbox # <<>>
  /\ inbox' = Tail(inbox)
  /\ \/ Head(inbox) = "START" /\ RequestStart /\ UNCHANGED <<running, daemonVars>>
     \/ Head(inbox) = "STOP" /\ RequestStop /\ UNCHANGED <<running, daemonVars>>
     \/ Head(inbox) = "EXIT" /\ RequestExit /\ UNCHANGED daemonVars
     \/ Head(inbox) = "REARM" /\ RequestRearm /\ UNCHANGED running
     \/ /\ Head(inbox) = "DAEMON_SET_ERROR_INFO"
        /\ daemonRunning' = FALSE
        /\ UNCHANGED <<tracing, running, daemon, initVars>>
  /\ UNCHANGED <<handler, process, stubs, count, procVars, sent>>

-----------------------------------------------------------------------------
(***************************************************************************)
(* Wait statuses: SigChldHandler.                                          *)
(***************************************************************************)
Resume(p) == stop' = [stop EXCEPT ![p] = "none"]

(* Mutant: init is continued although a stop is due. *)
HandleInitEventContinues ==
  /\ handler = "sigchld" /\ initStop # "none"
  /\ initStop' = "none"
  /\ UNCHANGED <<monitorVars, daemonVars, initTraced, initTrap, procVars, socketVars>>

(* Mutant: init is detached and notify_init_detached forgotten. *)
HandleInitEventSilently ==
  /\ handler = "sigchld" /\ initStop # "none"
  /\ initStop' = "none"
  /\ initTraced' = (initTraced /\ ~(initStop = "EVENT_STOP" /\ tracing = "STOPPING"))
  /\ UNCHANGED <<monitorVars, daemonVars, initTrap, procVars, socketVars>>

(* handleParentEvent for init: a stop asked for is where tracing ends.     *)
(* Job-control signals are dropped; the others reach init and stop nothing. *)
HandleInitEvent ==
  /\ handler = "sigchld" /\ initStop # "none"
  /\ initStop' = "none"
  /\ IF initStop = "EVENT_STOP" /\ tracing = "STOPPING"
     THEN /\ tracing' = "STOPPED"
          /\ initTraced' = FALSE /\ initTrap' = FALSE
     ELSE UNCHANGED <<tracing, initTraced, initTrap>>
  /\ UNCHANGED <<running, handler, process, stubs, count, daemonVars, procVars,
                 socketVars>>

(* Mutant: a SIGCHLD goes through like any other signal. *)
SuppressedStopOnly == {"SIGSTOP"}

(* Which signals handleParentEvent keeps from a stub. *)
Suppressed == {"SIGSTOP", "SIGCHLD"}

(***************************************************************************)
(* handleParentEvent for a stub.  A SIGSTOP that reached it would park it, *)
(* a SIGCHLD crash it: that is why the monitor stays attached.             *)
(***************************************************************************)
HandleStubEvent(p) ==
  /\ handler = "sigchld" /\ p \in stubs /\ Waitable(p)
  /\ IF Dead(p)
     THEN /\ stubs' = stubs \ {p}
          /\ kind' = [kind EXCEPT ![p] = "gone"]
          /\ traced' = traced \ {p}
          /\ UNCHANGED <<stop, parked>>
     ELSE /\ Resume(p)
          /\ LET delivered == stop[p] \in PosixStop \ Suppressed IN
               /\ parked' = IF delivered /\ stop[p] = "SIGSTOP"
                            THEN parked \cup {p} ELSE parked
               /\ kind' = IF delivered /\ stop[p] = "SIGCHLD"
                          THEN [kind EXCEPT ![p] = "crashed"] ELSE kind
          /\ UNCHANGED <<stubs, traced>>
  /\ UNCHANGED <<tracing, running, handler, process, count, daemonVars, initVars,
                 injector, socketVars>>

(* handle_daemon_exit_if_match. *)
HandleDaemonExit ==
  /\ handler = "sigchld" /\ daemon = "zombie"
  /\ daemon' = "none" /\ daemonRunning' = FALSE
  /\ UNCHANGED <<monitorVars, initVars, procVars, socketVars>>

(* Mutant: the new process is resumed and not remembered. *)
HandleNewProcessUntracked(p) ==
  /\ handler = "sigchld" /\ Waitable(p) /\ p \notin process \cup stubs
  /\ Resume(p)
  /\ IF Dead(p)
     THEN kind' = [kind EXCEPT ![p] = "gone"] /\ traced' = traced \ {p}
     ELSE UNCHANGED <<kind, traced>>
  /\ UNCHANGED <<monitorVars, daemonVars, initVars, parked, injector, socketVars>>

(* handleNewProcess; a process that died first is entered all the same. *)
HandleNewProcess(p) ==
  /\ handler = "sigchld" /\ Waitable(p) /\ p \notin process \cup stubs
  /\ process' = process \cup {p}
  /\ Resume(p)
  /\ IF Dead(p)
     THEN kind' = [kind EXCEPT ![p] = "gone"] /\ traced' = traced \ {p}
     ELSE UNCHANGED <<kind, traced>>
  /\ UNCHANGED <<tracing, running, handler, stubs, count, daemonVars, initVars,
                 parked, injector, socketVars>>

(* handleTracedProcess before the exec: the auto-attach stop keeps the     *)
(* candidate, anything else drops it, signal and all.                      *)
HandleCandidate(p) ==
  /\ handler = "sigchld" /\ Waitable(p) /\ p \in process \ stubs
  /\ stop[p] # "EVENT_EXEC"
  /\ Resume(p)
  /\ IF stop[p] = "EVENT_STOP"
     THEN UNCHANGED <<process, kind, traced>>
     ELSE /\ process' = process \ {p}
          /\ traced' = traced \ {p}
          /\ kind' = IF Dead(p) THEN [kind EXCEPT ![p] = "gone"] ELSE kind
  /\ UNCHANGED <<tracing, running, handler, stubs, count, daemonVars, initVars,
                 parked, injector, socketVars>>

Executed(p) ==
  handler = "sigchld" /\ p \in process \ stubs /\ p \in traced /\ stop[p] = "EVENT_EXEC"

(* handleExecEvent, stub branch: promoted, whatever the tracing state. *)
PromoteStub(p) ==
  /\ Executed(p) /\ kind[p] = "stub_zygote"
  /\ stubs' = stubs \cup {p}
  /\ process' = process \ {p}
  /\ Resume(p)
  /\ UNCHANGED <<tracing, running, handler, count, daemonVars, initVars, kind,
                 traced, parked, injector, socketVars>>

(* Not a target: erased from process_ and detached. *)
Detach(p) ==
  /\ process' = process \ {p}
  /\ traced' = traced \ {p}
  /\ Resume(p)

IgnoreProgram(p) ==
  /\ Executed(p) /\ kind[p] # "stub_zygote"
  /\ tracing # "TRACING" \/ kind[p] # "app_process"
  /\ Detach(p)
  /\ UNCHANGED <<tracing, running, handler, stubs, count, daemonVars, initVars,
                 kind, parked, injector, socketVars>>

Target(p) == Executed(p) /\ kind[p] = "app_process" /\ tracing = "TRACING"

(* is_in_crash_loop: inWindow, the last start is less than a window old.   *)
(* The counter runs on past its limit as long as commands lift the stop.   *)
NextCount(inWindow) == IF inWindow THEN count + 1 ELSE 1

(* Mutant: the zygote is refused and tracing goes on. *)
RefuseInjectionOnly(p) ==
  /\ Target(p)
  /\ \E inWindow \in BOOLEAN :
       /\ count' = NextCount(inWindow)
       /\ \/ NextCount(inWindow) >= RetryCount /\ UNCHANGED daemonVars
          \/ NextCount(inWindow) < RetryCount /\ EnsureDaemon(FALSE)
  /\ Detach(p)
  /\ UNCHANGED <<tracing, running, handler, stubs, initVars, kind, parked,
                 injector, socketVars>>

(* check_and_prepare_injection fails: tracing stops, the zygote runs bare. *)
RefuseInjection(p) ==
  /\ Target(p)
  /\ \E inWindow \in BOOLEAN :
       /\ count' = NextCount(inWindow)
       /\ \/ NextCount(inWindow) >= RetryCount /\ UNCHANGED daemonVars
          \/ NextCount(inWindow) < RetryCount /\ EnsureDaemon(FALSE)
  /\ RequestStop
  /\ Detach(p)
  /\ UNCHANGED <<running, handler, stubs, kind, parked, injector, socketVars>>

Prepared ==
  \E inWindow \in BOOLEAN :
    /\ count' = NextCount(inWindow)
    /\ NextCount(inWindow) < RetryCount
    /\ EnsureDaemon(TRUE)

(* Mutant: an injector that could not be started releases nobody. *)
HandOverNoRelease(p) ==
  /\ Target(p) /\ Prepared
  /\ traced' = traced \ {p}
  /\ Resume(p)
  /\ parked' = parked \cup {p}
  /\ \/ injector' = injector \cup {p}
     \/ Faults \cap {"fork", "exec"} # {} /\ UNCHANGED injector
  /\ UNCHANGED <<tracing, running, handler, process, stubs, initVars, kind,
                 socketVars>>

(***************************************************************************)
(* The hand-over: SIGSTOP, continue, wait for the stop, detach leaving it  *)
(* stopped, fork the injector twice.  The wait wrote its own status over   *)
(* the exec event handleTracedProcess looks for next, so process_ keeps p. *)
(***************************************************************************)
HandOver(p) ==
  /\ Target(p) /\ Prepared
  /\ traced' = traced \ {p}
  /\ Resume(p)
  /\ \/ parked' = parked \cup {p} /\ injector' = injector \cup {p}
     \/ /\ Faults \cap {"fork", "exec"} # {}   \* released with SIGCONT
        /\ UNCHANGED <<parked, injector>>
     \/ /\ "grandchild" \in Faults             \* fork_dont_care hides it
        /\ parked' = parked \cup {p}
        /\ UNCHANGED injector
  /\ UNCHANGED <<tracing, running, handler, process, stubs, initVars, kind,
                 socketVars>>

(***************************************************************************)
(* The wait answers something else: a signal that was due first, dropped   *)
(* by the detach while the SIGSTOP stays pending, or the process's death.  *)
(***************************************************************************)
HandOverFails(p) ==
  /\ Target(p) /\ Prepared
  /\ Detach(p)
  /\ \/ /\ "overtake" \in Faults
        /\ parked' = parked \cup {p}
        /\ UNCHANGED kind
     \/ /\ "death" \in Faults
        /\ kind' = [kind EXCEPT ![p] = "gone"]
        /\ UNCHANGED parked
  /\ UNCHANGED <<tracing, running, handler, stubs, initVars, injector, socketVars>>

-----------------------------------------------------------------------------
Device ==
  \/ \E c \in Command : SendCommand(c)
  \/ \E p \in Pid : InitForks(p)
  \/ \E s, p \in Pid : StubForks(s, p)
  \/ \E p \in Pid, program \in Program : Executes(p, program)
  \/ \E p \in Pid, sig \in PosixStop : Signalled(p, sig)
  \/ \E sig \in PosixStop : InitSignalled(sig)
  \/ \E p \in Pid : Dies(p)
  \/ DaemonReportsError \/ DaemonDies

Kernel == InitTraps \/ \E p \in Pid : InjectorFinishes(p)

HandleChild(p) ==
  \/ HandleStubEvent(p) \/ HandleNewProcess(p) \/ HandleCandidate(p)
  \/ PromoteStub(p) \/ IgnoreProgram(p) \/ RefuseInjection(p)
  \/ HandOver(p) \/ HandOverFails(p)

Monitor ==
  \/ \E h \in {"socket", "sigchld"} : Dispatch(h)
  \/ HandlerReturns \/ MonitorExits
  \/ HandleDatagram
  \/ HandleInitEvent \/ HandleDaemonExit
  \/ \E p \in Pid : HandleChild(p)

Next == Device \/ Kernel \/ Monitor

Spec == Init /\ [][Next]_vars

(***************************************************************************)
(* The monitor's thread runs whenever its loop has something to do, init   *)
(* takes a trap that is due, and an injector gets done with its target.    *)
(* Nobody has to send a command, fork, execute, signal or die.             *)
(***************************************************************************)
FairSpec ==
  /\ Spec
  /\ WF_vars(Monitor)
  /\ WF_vars(InitTraps)
  /\ \A p \in Pid : WF_vars(InjectorFinishes(p))

-----------------------------------------------------------------------------
(***************************************************************************)
(* Every variable has its type, and the crash counter passes its limit     *)
(* once per command at most: in a crash loop tracing ends, so that only a  *)
(* command brings the next zygote to it (check_and_prepare_injection).     *)
(***************************************************************************)
TypeOK ==
  /\ tracing \in TracingState
  /\ running \in BOOLEAN
  /\ handler \in {"poll", "socket", "sigchld", "exited"}
  /\ inbox \in Seq(Datagram) /\ sent \in Nat
  /\ process \subseteq Pid /\ stubs \subseteq Pid
  /\ count \in 0..(RetryCount + sent)
  /\ daemon \in {"none", "alive", "zombie"} /\ daemonRunning \in BOOLEAN
  /\ initTraced \in BOOLEAN /\ initTrap \in BOOLEAN
  /\ initStop \in Stop \cup {"none"}
  /\ kind \in [Pid -> Kind]
  /\ stop \in [Pid -> Stop \cup {"none"}]
  /\ traced \subseteq Pid /\ parked \subseteq Pid /\ injector \subseteq Pid

(***************************************************************************)
(* tracing_state_ and the kernel agree about init: a monitor that reports  *)
(* tracing, or that still waits to stop, holds the seize; one that reports *)
(* stopped has let init go (request_start, notify_init_detached).          *)
(***************************************************************************)
SeizeMatchesState ==
  handler # "exited" =>
    /\ tracing \in {"TRACING", "STOPPING"} => initTraced
    /\ tracing = "STOPPED" => ~initTraced

(***************************************************************************)
(* A stop is never lost.  However starts, stops and rearms were            *)
(* interleaved with init's own stops, a monitor in STOPPING has an         *)
(* interrupt outstanding or its EVENT_STOP waiting to be collected, which  *)
(* is all that takes it to STOPPED (request_stop, handleParentEvent).  The *)
(* interrupt that comes in the middle of a fork ("midfork") is excepted:   *)
(* the fork's own stop takes its place, and that request is lost.          *)
(***************************************************************************)
StopUnderway ==
  handler # "exited" /\ tracing = "STOPPING" => initTrap \/ initStop = "EVENT_STOP"

(***************************************************************************)
(* No descendant runs under the monitor's trace without the monitor        *)
(* knowing it: its next stop would be taken for a new process's first and  *)
(* a zygote's exec would go by unseen (process_, stub_processes_).         *)
(***************************************************************************)
TraceesAreKnown ==
  \A p \in traced : stop[p] = "none" /\ Live(p) => p \in process \cup stubs

(***************************************************************************)
(* A stub the monitor stays attached to keeps running through any signal   *)
(* sent to it: handleParentEvent neither freezes it with a SIGSTOP nor     *)
(* lets a SIGCHLD crash it, and its pid is no other program's.             *)
(***************************************************************************)
StubsKeepRunning ==
  \A p \in stubs \cap traced :
    /\ kind[p] # "crashed"
    /\ Live(p) => kind[p] = "stub_zygote" /\ p \notin parked

(* Once asked to exit the monitor never goes back: not for a START or a    *)
(* REARM that was queued behind the EXIT (request_exit, request_start).    *)
ExitIsFinal == [][tracing = "EXITING" => tracing' = "EXITING" /\ ~running']_vars

(***************************************************************************)
(* No zygote slips by: while the monitor reports that it traces, one it    *)
(* caught at its exec goes to an injector or dies; it is let go only with  *)
(* a usable daemon and out of a crash loop, when the hand-over itself      *)
(* failed (check_and_prepare_injection's two request_stop calls).          *)
(***************************************************************************)
NoZygoteSlips ==
  [][\A p \in Pid :
       /\ kind[p] = "app_process" /\ stop[p] = "EVENT_EXEC"
       /\ kind'[p] = "app_process" /\ stop'[p] = "none"
       /\ tracing' = "TRACING"
       => p \in injector' \/ (daemonRunning' /\ count' < RetryCount)]_vars

(* A stop request gets there, unless a start or an exit overrides it: init *)
(* pauses in response to PTRACE_INTERRUPT and is detached (request_stop).  *)
(* With "midfork" it need not, and the monitor stays in STOPPING.          *)
StopCompletes == tracing = "STOPPING" ~> tracing # "STOPPING"

(* The loop leaves once it was asked to, whatever is still queued. *)
ExitCompletes == tracing = "EXITING" ~> handler = "exited"

(***************************************************************************)
(* Nobody stays frozen: every ptrace stop the monitor causes, init's       *)
(* included, is answered, and every zygote parked for an injector is       *)
(* running again in the end, or dead.                                      *)
(***************************************************************************)
NobodyStaysFrozen ==
  /\ []<>(initStop = "none")
  /\ \A p \in Pid : []<>(stop[p] = "none" /\ (kind[p] = "app_process" => p \notin parked))
=============================================================================
