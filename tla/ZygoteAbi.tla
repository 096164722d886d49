------------------------------ MODULE ZygoteAbi ------------------------------
(***************************************************************************)
(* ZygoteAbiManager: what the monitor knows about its daemon and about the *)
(* hooks of its zygotes, and the rearm that attaches to a running system.  *)
(*                                                                         *)
(* The daemon, the injectors, the zygotes and system_server run beside the *)
(* monitor's one thread.  What they tell it arrives in two ways that are   *)
(* not ordered against each other: datagrams on the control socket, which  *)
(* outlive their sender, and wait statuses.  A rearm blocks the thread for *)
(* as long as its injectors take, so it is several steps here.             *)
(*                                                                         *)
(* tracing keeps STOPPING and STOPPED as one, "STOPPED"; how tracing stops *)
(* and how zygotes are caught is the subject of InitTracer.                *)
(***************************************************************************)
EXTENDS Naturals, Sequences, FiniteSets

CONSTANTS
  Zygote,      \* pids of zygotes, each used once
  MaxLive,     \* how many zygotes of one ABI run at a time
  MaxDaemons,  \* bound: how many daemons are ever forked
  MaxCommands, \* bound: how many control commands are ever sent
  QueueLen,    \* how many datagrams the control socket holds
  Faults       \* which of AllFaults the environment may inject

(***************************************************************************)
(*   "daemon_fork"  the daemon cannot be forked                            *)
(*   "attach_fork"  an injector cannot be forked                           *)
(*   "daemon_death" a daemon dies                                          *)
(*   "bad_root"     a daemon reports an unusable root implementation       *)
(*   "crash_loop"   zygotes start often enough to be taken for a loop      *)
(*   "zygote_death" a zygote dies, and its system_server with it           *)
(*   "wedged"       an injector outlasts the monitor's bounded wait        *)
(*   "hook"         entry() cannot install its hooks, which it only logs   *)
(*   "cut"          a signal ends the remote call of entry() midway        *)
(*   "rescan"       the daemon cannot read the module directory            *)
(***************************************************************************)
AllFaults == {"daemon_fork", "attach_fork", "daemon_death", "bad_root",
              "crash_loop", "zygote_death", "wedged", "hook", "cut", "rescan"}

ASSUME ZygoteAssumption == Zygote # {} /\ IsFiniteSet(Zygote)
ASSUME MaxLiveAssumption == MaxLive \in Nat \ {0}
ASSUME MaxDaemonsAssumption == MaxDaemons \in Nat \ {0}
ASSUME MaxCommandsAssumption == MaxCommands \in Nat
ASSUME QueueLenAssumption == QueueLen \in Nat \ {0}
ASSUME FaultsAssumption == Faults \subseteq AllFaults

VARIABLES
  tracing,   \* tracing_state_, without the step between asking and stopping
  handler,   \* which handler the event loop is in
  status,    \* status_: zygote, daemon_running, daemon_pid (0 for -1)
  hooked,    \* hooked_
  job,       \* the rearm under way
  answer,    \* the last RearmResult sent back
  inbox,     \* datagrams queued on the control socket
  sent,      \* how many control commands were ever sent
  daemon,    \* what became of each daemon
  pings,     \* heartbeats written to a daemon's socket and not yet read
  zygote,    \* what became of each zygote
  mapped,    \* zygotes with libzygisk.so in their maps
  hooks,     \* how far entry() got in each zygote
  injector,  \* the injector each zygote has on it
  verdict,   \* the exit status of the injector a rearm waits for
  server,    \* zygotes whose system_server runs
  fired      \* how often server_specialize ran in each zygote's system_server

monitorVars == <<tracing, handler, status, hooked, job, answer>>
socketVars  == <<inbox, sent>>
daemonVars  == <<daemon, pings>>
zygoteVars  == <<zygote, mapped, hooks, injector, verdict, server, fired>>
vars == <<monitorVars, socketVars, daemonVars, zygoteVars>>

DaemonPid   == 1..MaxDaemons
Server(z)   == <<z>>                  \* the pid of z's system_server
Process     == Zygote \cup {Server(z) : z \in Zygote}

ASSUME ServerAssumption == \A z \in Zygote : Server(z) \notin Zygote

ZygoteState == {"NotInjected", "Injected", "NeedsRestart"}
RearmResult == {"Failed", "NoZygote", "Injected", "AlreadyHooked", "Injecting",
                "NeedsRestart"}
TraceExit   == {"TRACE_HOOKED", "TRACE_FAILED", "TRACE_MAPPED_ONLY"}
Command     == {"START", "STOP", "EXIT", "REARM"}

(***************************************************************************)
(* How far entry() got: its heartbeat is written ("pinged") before it      *)
(* hooks, and "failed" is an entry() that ended without hooks after that.  *)
(***************************************************************************)
Hooks == {"none", "pinged", "installed", "failed"}

(***************************************************************************)
(* A rearm's locals: the zygotes and the system_server its scan of /proc   *)
(* found, the zygotes it has yet to visit, the one whose injector it waits *)
(* for, and the zygotes behind armed_any, hooked_any, injecting_any and    *)
(* zygote_needs_restart.  ahead are the heartbeats that reached the daemon *)
(* before the refresh did: its accept loop takes them first.               *)
(***************************************************************************)
Job == [pc : {"idle", "refresh", "report", "scan", "attach"}, ahead : SUBSET Process,
        seen : SUBSET Zygote, todo : SUBSET Zygote, server : SUBSET Zygote,
        target : SUBSET Zygote, armed : SUBSET Zygote, hooked : SUBSET Zygote,
        injecting : SUBSET Zygote, restart : SUBSET Zygote]

Idle == [pc |-> "idle", ahead |-> {}, seen |-> {}, todo |-> {}, server |-> {}, target |-> {},
         armed |-> {}, hooked |-> {}, injecting |-> {}, restart |-> {}]

Status == [zygote : ZygoteState, daemon_running : BOOLEAN, daemon_pid : 0..MaxDaemons]

Datagram == [cmd : Command]
       \cup [cmd : {"ZYGOTE_INJECTED"}, pid : Process, by : DaemonPid]
       \cup [cmd : {"DAEMON_SET_INFO", "DAEMON_SET_ERROR_INFO"}, by : DaemonPid]

(* "exec" is caught at its exec, "parked" handed to an injector. *)
Live == {z \in Zygote : zygote[z] \in {"exec", "parked", "running"}}

Alive == {d \in DaemonPid : daemon[d] = "alive"}

QueueFull == Len(inbox) >= QueueLen

(* The monitor may be the first thing up or come late to a running system. *)
Init ==
  /\ tracing = "TRACING" /\ handler = "poll"
  /\ status = [zygote |-> "NotInjected", daemon_running |-> FALSE, daemon_pid |-> 0]
  /\ hooked = {} /\ job = Idle /\ answer = "none"
  /\ inbox = <<>> /\ sent = 0
  /\ daemon = [d \in DaemonPid |-> "unborn"] /\ pings = [d \in DaemonPid |-> {}]
  /\ \E up \in SUBSET Zygote :
       /\ Cardinality(up) <= MaxLive
       /\ zygote = [z \in Zygote |-> IF z \in up THEN "running" ELSE "none"]
       /\ server \in SUBSET up
       /\ mapped \in SUBSET up            \* left by an earlier monitor
  /\ hooks = [z \in Zygote |-> "none"]
  /\ injector = [z \in Zygote |-> "none"] /\ verdict = "none"
  /\ fired = [z \in Zygote |-> 0]

-----------------------------------------------------------------------------
(***************************************************************************)
(* Clients, zygotes, injectors and daemons.                                *)
(***************************************************************************)
SendCommand(c) ==
  /\ handler # "exited" /\ sent < MaxCommands /\ ~QueueFull
  /\ inbox' = Append(inbox, [cmd |-> c])
  /\ sent' = sent + 1
  /\ UNCHANGED <<monitorVars, daemonVars, zygoteVars>>

(* init starts a zygote.  A monitor that traces has it stopped at its exec, *)
(* one on its way to a stop or an exit may or may not.                      *)
ZygoteStarts(z) ==
  /\ zygote[z] = "none" /\ Cardinality(Live) < MaxLive
  /\ \E at \in {"exec", "running"} :
       /\ tracing = "TRACING" => at = "exec"
       /\ handler = "exited" => at = "running"
       /\ zygote' = [zygote EXCEPT ![z] = at]
  /\ UNCHANGED <<monitorVars, socketVars, daemonVars, mapped, hooks, injector,
                 verdict, server, fired>>

(* A hooked zygote runs server_specialize in the system_server it forks. *)
ServerForks(z) ==
  /\ zygote[z] = "running" /\ injector[z] = "none" /\ z \notin server
  /\ server' = server \cup {z}
  /\ fired' = [fired EXCEPT ![z] = IF hooks[z] = "installed" THEN 1 ELSE 0]
  /\ UNCHANGED <<monitorVars, socketVars, daemonVars, zygote, mapped, hooks,
                 injector, verdict>>

(* A rearm that waits for this zygote's injector sees it fail. *)
ZygoteDies(z) ==
  /\ "zygote_death" \in Faults
  /\ z \in Live
  /\ zygote' = [zygote EXCEPT ![z] = "gone"]
  /\ injector' = [injector EXCEPT ![z] = "none"]
  /\ server' = server \ {z}
  /\ verdict' = IF z \in job.target THEN "TRACE_FAILED" ELSE verdict
  /\ UNCHANGED <<monitorVars, socketVars, daemonVars, mapped, hooks, fired>>

(***************************************************************************)
(* entry() inside z: PingHeartbeat reports success once the request is     *)
(* written, whether or not the daemon comes to read it.                    *)
(***************************************************************************)
EntryPings(z) ==
  /\ injector[z] # "none" /\ hooks[z] = "none"
  /\ \E d \in Alive : pings' = [pings EXCEPT ![d] = @ \cup {z}]
  /\ hooks' = [hooks EXCEPT ![z] = "pinged"]
  /\ mapped' = mapped \cup {z}
  /\ UNCHANGED <<monitorVars, socketVars, daemon, zygote, injector, verdict, server, fired>>

(* hook_entry, after the heartbeat; hook_plt only logs what it cannot do. *)
EntryHooks(z) ==
  /\ injector[z] # "none" /\ hooks[z] = "pinged"
  /\ \/ hooks' = [hooks EXCEPT ![z] = "installed"]
     \/ "hook" \in Faults /\ hooks' = [hooks EXCEPT ![z] = "failed"]
  /\ UNCHANGED <<monitorVars, socketVars, daemonVars, zygote, mapped, injector, verdict,
                 server, fired>>

(* entry() ran to its end, with hooks or without them. *)
Returned(z) == hooks[z] \in {"installed", "failed"}

(***************************************************************************)
(* The injector is done with z: handle_trace.  entry() returns 1 if it got *)
(* past the heartbeat, and counts for 0 where the remote call was cut; an  *)
(* injector that fails after the call leaves whatever the call achieved.   *)
(***************************************************************************)
InjectorExits(z, code) ==
  /\ injector[z] # "none"
  /\ \/ /\ hooks[z] = "none" /\ code # "TRACE_HOOKED"   \* no library, or no daemon
        /\ \/ code = "TRACE_FAILED" /\ UNCHANGED mapped
           \/ mapped' = mapped \cup {z}
        /\ UNCHANGED hooks
     \/ /\ hooks[z] = "pinged" /\ "cut" \in Faults /\ code # "TRACE_HOOKED"
        /\ hooks' = [hooks EXCEPT ![z] = "failed"]
        /\ UNCHANGED mapped
     \/ /\ Returned(z)
        /\ code = "TRACE_MAPPED_ONLY" => "cut" \in Faults
        /\ UNCHANGED <<mapped, hooks>>
  /\ zygote' = [zygote EXCEPT ![z] = "running"]
  /\ injector' = [injector EXCEPT ![z] = "none"]
  /\ verdict' = IF z \in job.target THEN code ELSE verdict
  /\ UNCHANGED <<monitorVars, socketVars, daemonVars, server, fired>>

(* handle_connection, PingHeartbeat: the datagram names the peer.  A daemon *)
(* in the middle of a refresh accepts nobody.                               *)
DaemonConfirms(d, p) ==
  /\ daemon[d] = "alive" /\ p \in pings[d] /\ ~QueueFull
  /\ job.pc = "report" => d # status.daemon_pid
  /\ pings' = [pings EXCEPT ![d] = @ \ {p}]
  /\ inbox' = Append(inbox, [cmd |-> "ZYGOTE_INJECTED", pid |-> p, by |-> d])
  /\ UNCHANGED <<monitorVars, sent, daemon, zygoteVars>>

(* send_startup_info with no root implementation it can serve. *)
DaemonReportsError(d) ==
  /\ "bad_root" \in Faults
  /\ daemon[d] = "alive" /\ ~QueueFull
  /\ \A i \in 1..Len(inbox) : inbox[i].cmd # "DAEMON_SET_ERROR_INFO"
  /\ inbox' = Append(inbox, [cmd |-> "DAEMON_SET_ERROR_INFO", by |-> d])
  /\ UNCHANGED <<monitorVars, sent, daemonVars, zygoteVars>>

(* Only while MaxDaemons leaves a replacement for it. *)
DaemonDies(d) ==
  /\ "daemon_death" \in Faults
  /\ daemon[d] = "alive" /\ daemon[MaxDaemons] = "unborn"
  /\ daemon' = [daemon EXCEPT ![d] = "zombie"]
  /\ pings' = [pings EXCEPT ![d] = {}]
  /\ UNCHANGED <<monitorVars, socketVars, zygoteVars>>

-----------------------------------------------------------------------------
(***************************************************************************)
(* EventLoop::Loop, as in InitTracer.  ReapPending and ExecPending are the *)
(* wait statuses this module knows.                                        *)
(***************************************************************************)
ReapPending == status.daemon_pid # 0 /\ daemon[status.daemon_pid] = "zombie"
ExecPending == \E z \in Zygote : zygote[z] = "exec"

Dispatch(h) ==
  /\ handler = "poll"
  /\ \/ h = "socket" /\ inbox # <<>>
     \/ h = "sigchld" /\ (ReapPending \/ ExecPending)
  /\ handler' = h
  /\ UNCHANGED <<tracing, status, hooked, job, answer, socketVars, daemonVars, zygoteVars>>

Drained ==
  /\ job.pc = "idle"
  /\ \/ handler = "socket" /\ inbox = <<>>
     \/ handler = "sigchld" /\ ~ReapPending /\ ~ExecPending

HandlerReturns ==
  /\ Drained /\ tracing # "EXITING"
  /\ handler' = "poll"
  /\ UNCHANGED <<tracing, status, hooked, job, answer, socketVars, daemonVars, zygoteVars>>

(* PDEATHSIG takes the daemon; a zygote held at its exec runs on. *)
MonitorExits ==
  /\ Drained /\ tracing = "EXITING"
  /\ handler' = "exited"
  /\ daemon' = [d \in DaemonPid |-> IF daemon[d] = "unborn" THEN "unborn" ELSE "dead"]
  /\ pings' = [d \in DaemonPid |-> {}]
  /\ zygote' = [z \in Zygote |-> IF zygote[z] = "exec" THEN "running" ELSE zygote[z]]
  /\ UNCHANGED <<tracing, status, hooked, job, answer, socketVars, mapped, hooks,
                 injector, verdict, server, fired>>

-----------------------------------------------------------------------------
(***************************************************************************)
(* AppMonitor and ZygoteAbiManager, on the monitor's one thread.           *)
(***************************************************************************)

(* request_start and request_stop, as far as this module keeps tracing. *)
RequestStart == IF tracing = "STOPPED" THEN "TRACING" ELSE tracing
RequestStop(t) == IF t = "TRACING" THEN "STOPPED" ELSE t

(* Mutant: a daemon in trouble is replaced while it still runs. *)
EnsureDaemonUsable(ok, started) ==
  IF status.daemon_running
  THEN ok = TRUE /\ started = FALSE /\ UNCHANGED <<status, hooked, daemon>>
  ELSE /\ ok = TRUE /\ started = TRUE /\ hooked' = {}
       /\ \E d \in DaemonPid :
            /\ daemon[d] = "unborn" /\ \A e \in 1..(d - 1) : daemon[e] # "unborn"
            /\ daemon' = [daemon EXCEPT ![d] = "alive"]
            /\ status' = [zygote |-> "NotInjected", daemon_running |-> TRUE, daemon_pid |-> d]

(* Mutant: what the last daemon confirmed is kept in the status. *)
EnsureDaemonKeepStatus(ok, started) ==
  IF status.daemon_pid # 0
  THEN /\ ok = status.daemon_running /\ started = FALSE
       /\ UNCHANGED <<status, hooked, daemon>>
  ELSE /\ ok = TRUE /\ started = TRUE /\ hooked' = {}
       /\ \E d \in DaemonPid :
            /\ daemon[d] = "unborn" /\ \A e \in 1..(d - 1) : daemon[e] # "unborn"
            /\ daemon' = [daemon EXCEPT ![d] = "alive"]
            /\ status' = [status EXCEPT !.daemon_running = TRUE, !.daemon_pid = d]

(***************************************************************************)
(* ensure_daemon_created: whether a daemon is there and whether this call  *)
(* started it.  What the last one confirmed goes before the fork is tried. *)
(***************************************************************************)
EnsureDaemon(ok, started) ==
  IF status.daemon_pid # 0
  THEN /\ ok = status.daemon_running /\ started = FALSE
       /\ UNCHANGED <<status, hooked, daemon>>
  ELSE /\ hooked' = {}
       /\ \/ /\ ok = TRUE /\ started = TRUE
             /\ \E d \in DaemonPid :
                  /\ daemon[d] = "unborn"
                  /\ \A e \in 1..(d - 1) : daemon[e] # "unborn"
                  /\ daemon' = [daemon EXCEPT ![d] = "alive"]
                  /\ status' = [zygote |-> "NotInjected", daemon_running |-> TRUE,
                                daemon_pid |-> d]
          \/ /\ "daemon_fork" \in Faults
             /\ ok = FALSE /\ started = FALSE
             /\ status' = [status EXCEPT !.zygote = "NotInjected"]
             /\ UNCHANGED daemon

(* handleExecEvent on app_process: hand it over, or stop tracing. *)
HandleExec(z) ==
  /\ handler = "sigchld" /\ zygote[z] = "exec"
  /\ \/ /\ tracing # "TRACING"
        /\ zygote' = [zygote EXCEPT ![z] = "running"]
        /\ UNCHANGED <<tracing, status, hooked, daemon, injector>>
     \/ /\ tracing = "TRACING"
        /\ \/ "crash_loop" \in Faults /\ UNCHANGED <<status, hooked, daemon>>
           \/ EnsureDaemon(FALSE, FALSE)
        /\ tracing' = RequestStop(tracing)
        /\ zygote' = [zygote EXCEPT ![z] = "running"]
        /\ UNCHANGED injector
     \/ /\ tracing = "TRACING"
        /\ \E started \in BOOLEAN : EnsureDaemon(TRUE, started)
        /\ zygote' = [zygote EXCEPT ![z] = "parked"]
        /\ injector' = [injector EXCEPT ![z] = "spawn"]
        /\ UNCHANGED tracing
  /\ UNCHANGED <<handler, job, answer, socketVars, pings, mapped, hooks, verdict,
                 server, fired>>

(* Mutant: the pid is cleared and the daemon still counts as running. *)
ReapDaemonStillRunning ==
  /\ handler = "sigchld" /\ ReapPending
  /\ daemon' = [daemon EXCEPT ![status.daemon_pid] = "dead"]
  /\ status' = [status EXCEPT !.daemon_pid = 0]
  /\ UNCHANGED <<tracing, handler, hooked, job, answer, socketVars, pings, zygoteVars>>

(* handle_daemon_exit_if_match. *)
ReapDaemon ==
  /\ handler = "sigchld" /\ ReapPending
  /\ daemon' = [daemon EXCEPT ![status.daemon_pid] = "dead"]
  /\ status' = [status EXCEPT !.daemon_running = FALSE, !.daemon_pid = 0]
  /\ UNCHANGED <<tracing, handler, hooked, job, answer, socketVars, pings, zygoteVars>>

Receive(cmd) ==
  /\ handler = "socket" /\ job.pc = "idle"
  /\ inbox # <<>> /\ Head(inbox).cmd = cmd
  /\ inbox' = Tail(inbox) /\ UNCHANGED sent

HandleStart ==
  /\ Receive("START")
  /\ tracing' = RequestStart
  /\ UNCHANGED <<handler, status, hooked, job, answer, daemonVars, zygoteVars>>

HandleStop ==
  /\ Receive("STOP")
  /\ tracing' = RequestStop(tracing)
  /\ UNCHANGED <<handler, status, hooked, job, answer, daemonVars, zygoteVars>>

HandleExit ==
  /\ Receive("EXIT")
  /\ tracing' = "EXITING"
  /\ UNCHANGED <<handler, status, hooked, job, answer, daemonVars, zygoteVars>>

(* Mutant: the confirmation reaches the status line only. *)
NotifyInjectedStatusOnly ==
  /\ Receive("ZYGOTE_INJECTED")
  /\ status' = [status EXCEPT !.zygote = "Injected"]
  /\ UNCHANGED <<tracing, handler, hooked, job, answer, daemonVars, zygoteVars>>

(* notify_injected: whose heartbeat it was, not whose daemon answered it. *)
NotifyInjected ==
  /\ Receive("ZYGOTE_INJECTED")
  /\ hooked' = hooked \cup {Head(inbox).pid}
  /\ status' = [status EXCEPT !.zygote = "Injected"]
  /\ UNCHANGED <<tracing, handler, job, answer, daemonVars, zygoteVars>>

(* set_daemon_info changes a line of text, set_daemon_crashed the daemon. *)
SetDaemonInfo ==
  /\ \/ Receive("DAEMON_SET_INFO") /\ UNCHANGED status
     \/ /\ Receive("DAEMON_SET_ERROR_INFO")
        /\ status' = [status EXCEPT !.daemon_running = FALSE]
  /\ UNCHANGED <<tracing, handler, hooked, job, answer, daemonVars, zygoteVars>>

-----------------------------------------------------------------------------
(***************************************************************************)
(* REARM: request_rearm and rearm, up to the first call that waits.  The   *)
(* confirmations kept are those of processes the scan found.  A daemon     *)
(* this call started is asked to refresh only for ignore_disable.          *)
(***************************************************************************)
RearmBegin ==
  /\ Receive("REARM")
  /\ \/ /\ Live = {}
        /\ answer' = "NoZygote" /\ tracing' = RequestStart
        /\ UNCHANGED <<status, hooked, job, daemon>>
     \/ /\ Live # {}
        /\ EnsureDaemon(FALSE, FALSE)
        /\ answer' = "Failed" /\ tracing' = RequestStop(RequestStart)
        /\ UNCHANGED job
     \/ /\ Live # {}
        /\ \E started, ignore_disable \in BOOLEAN :
             /\ EnsureDaemon(TRUE, started)
             /\ job' = [Idle EXCEPT !.seen = Live, !.todo = Live, !.server = server,
                          !.ahead = IF started THEN {} ELSE pings[status.daemon_pid],
                          !.pc = IF ~started \/ ignore_disable THEN "refresh" ELSE "scan"]
        /\ answer' = "none" /\ tracing' = RequestStart
  /\ UNCHANGED <<handler, pings, zygoteVars>>

(* hooked_ keeps what the scan found; this follows the refresh. *)
Prune == hooked' = hooked \cap (job.seen \cup {Server(z) : z \in job.server})

(***************************************************************************)
(* RefreshModules: the daemon rescans, reports its modules on the control  *)
(* socket and answers.  It writes the report before the answer the monitor *)
(* waits for, so a socket without room holds them both; only a scan that   *)
(* failed is answered without a report.                                    *)
(***************************************************************************)
DaemonRescans ==
  /\ job.pc = "refresh" /\ status.daemon_pid \in Alive
  /\ job.ahead \cap pings[status.daemon_pid] = {}
  /\ \/ job' = [job EXCEPT !.pc = "report"] /\ UNCHANGED hooked
     \/ "rescan" \in Faults /\ job' = [job EXCEPT !.pc = "scan"] /\ Prune
  /\ UNCHANGED <<tracing, handler, status, answer, socketVars, daemonVars, zygoteVars>>

DaemonReports ==
  /\ job.pc = "report" /\ status.daemon_pid \in Alive /\ ~QueueFull
  /\ inbox' = Append(inbox, [cmd |-> "DAEMON_SET_INFO", by |-> status.daemon_pid])
  /\ job' = [job EXCEPT !.pc = "scan"]
  /\ Prune
  /\ UNCHANGED <<tracing, handler, status, answer, sent, daemonVars, zygoteVars>>

(* The daemon is gone: logged, and the rearm goes on. *)
RefreshFails ==
  /\ job.pc \in {"refresh", "report"} /\ status.daemon_pid \notin Alive
  /\ job' = [job EXCEPT !.pc = "scan"]
  /\ Prune
  /\ UNCHANGED <<tracing, handler, status, answer, socketVars, daemonVars, zygoteVars>>

InFlight(z) == zygote[z] \in {"exec", "parked"} \/ injector[z] # "none"

(* Mutant: a mapped library passes for hooks. *)
RearmSkipsMapped(z) ==
  /\ job.pc = "scan" /\ z \in job.todo
  /\ ~InFlight(z) /\ z \in mapped /\ z \in Live
  /\ job' = [job EXCEPT !.todo = @ \ {z}, !.hooked = @ \cup {z}]
  /\ UNCHANGED <<tracing, handler, status, hooked, answer, socketVars, daemonVars, zygoteVars>>

(* A zygote the rearm does not attach to: three branches of its loop. *)
RearmSkips(z) ==
  /\ job.pc = "scan" /\ z \in job.todo
  /\ \/ InFlight(z) /\ job' = [job EXCEPT !.todo = @ \ {z}, !.injecting = @ \cup {z}]
     \/ /\ ~InFlight(z) /\ z \in mapped /\ z \in Live
        /\ job' = IF z \in hooked
                  THEN [job EXCEPT !.todo = @ \ {z}, !.hooked = @ \cup {z}]
                  ELSE [job EXCEPT !.todo = @ \ {z}, !.restart = @ \cup {z}]
  /\ UNCHANGED <<tracing, handler, status, hooked, answer, socketVars, daemonVars, zygoteVars>>

(* attach_running on a bare zygote, or on one that died since the scan. *)
RearmAttaches(z) ==
  /\ job.pc = "scan" /\ z \in job.todo
  /\ ~InFlight(z) /\ (z \notin mapped \/ z \notin Live)
  /\ \/ /\ job' = [job EXCEPT !.todo = @ \ {z}, !.target = {z}, !.pc = "attach"]
        /\ verdict' = IF z \in Live THEN "none" ELSE "TRACE_FAILED"
        /\ injector' = IF z \in Live THEN [injector EXCEPT ![z] = "live"] ELSE injector
     \/ /\ "attach_fork" \in Faults
        /\ job' = [job EXCEPT !.todo = @ \ {z}, !.restart = @ \cup {z}]
        /\ UNCHANGED <<verdict, injector>>
  /\ UNCHANGED <<tracing, handler, status, hooked, answer, socketVars, daemonVars,
                 zygote, mapped, hooks, server, fired>>

(* Mutant: a library that got mapped passes for hooks. *)
AttachReturnsMapped ==
  /\ job.pc = "attach" /\ verdict # "none"
  /\ IF verdict # "TRACE_FAILED"
     THEN /\ hooked' = hooked \cup job.target
          /\ job' = [job EXCEPT !.pc = "scan", !.target = {}, !.armed = @ \cup job.target]
     ELSE /\ job' = [job EXCEPT !.pc = "scan", !.target = {}, !.restart = @ \cup job.target]
          /\ UNCHANGED hooked
  /\ UNCHANGED <<tracing, handler, status, answer, socketVars, daemonVars, zygoteVars>>

(* attach_running, the injector waited for: its exit status decides. *)
AttachReturns ==
  /\ job.pc = "attach" /\ verdict # "none"
  /\ IF verdict = "TRACE_HOOKED"
     THEN /\ hooked' = hooked \cup job.target
          /\ job' = [job EXCEPT !.pc = "scan", !.target = {}, !.armed = @ \cup job.target]
     ELSE /\ job' = [job EXCEPT !.pc = "scan", !.target = {}, !.restart = @ \cup job.target]
          /\ UNCHANGED hooked
  /\ UNCHANGED <<tracing, handler, status, answer, socketVars, daemonVars, zygoteVars>>

(* Mutant: the wait has no bound. *)
AttachNeverTimesOut == FALSE /\ UNCHANGED vars

(* wait_bounded gives up; the injector is left to run. *)
AttachTimesOut ==
  /\ "wedged" \in Faults
  /\ job.pc = "attach" /\ verdict = "none"
  /\ job' = [job EXCEPT !.pc = "scan", !.target = {}, !.restart = @ \cup job.target]
  /\ UNCHANGED <<tracing, handler, status, hooked, answer, socketVars, daemonVars, zygoteVars>>

ZygoteVerdict ==
  IF job.restart # {} THEN "NeedsRestart"
  ELSE IF job.armed \cup job.hooked # {} THEN "Injected" ELSE "NotInjected"

Result(needs_restart) ==
  IF needs_restart THEN "NeedsRestart"
  ELSE IF job.armed # {} THEN "Injected"
  ELSE IF job.hooked # {} \/ job.injecting = {} THEN "AlreadyHooked" ELSE "Injecting"

(* Mutant: any hooked zygote opens the gate to system_server. *)
FiresServerHooked == job.armed \cup job.hooked # {} /\ job.server # {}

(* system_server is attached to only after a zygote this rearm hooked. *)
FiresServer == job.armed # {} /\ job.server # {}

(***************************************************************************)
(* The end of a rearm.  The attach to system_server is one step: it writes *)
(* a heartbeat to a daemon that is there and runs the callbacks in a       *)
(* process that still is, unless their thread cannot be started ("hook")   *)
(* or the call was cut; it may report failure after it did, or fail before. *)
(***************************************************************************)
RearmAnswers ==
  /\ job.pc = "scan" /\ job.todo = {}
  /\ \/ /\ ~FiresServer
        /\ answer' = Result(job.restart # {})
        /\ UNCHANGED <<hooked, pings, fired>>
     \/ /\ FiresServer
        /\ \E z \in job.server \cap server, d \in Alive, ran \in {0, 1} :
             /\ fired' = [fired EXCEPT ![z] = @ + ran]
             /\ pings' = [pings EXCEPT ![d] = @ \cup {Server(z)}]
             /\ \/ /\ ran = 1 \/ "hook" \in Faults
                   /\ answer' = Result(job.restart # {})
                   /\ hooked' = hooked \cup {Server(z)}
                \/ /\ (ran = 1 /\ "wedged" \in Faults) \/ "cut" \in Faults
                   /\ answer' = Result(TRUE)
                   /\ UNCHANGED hooked
     \/ /\ FiresServer
        /\ job.server \cap server = {} \/ Alive = {} \/ "attach_fork" \in Faults
        /\ answer' = Result(TRUE)
        /\ UNCHANGED <<hooked, pings, fired>>
  /\ status' = [status EXCEPT !.zygote = ZygoteVerdict]
  /\ job' = Idle
  /\ UNCHANGED <<tracing, handler, socketVars, daemon, zygote, mapped, hooks,
                 injector, verdict, server>>

-----------------------------------------------------------------------------
Environment ==
  \/ \E c \in Command : SendCommand(c)
  \/ \E z \in Zygote : ZygoteStarts(z) \/ ServerForks(z) \/ ZygoteDies(z)
  \/ \E z \in Zygote : EntryPings(z) \/ EntryHooks(z)
  \/ \E z \in Zygote, code \in TraceExit : InjectorExits(z, code)
  \/ \E d \in DaemonPid : DaemonReportsError(d) \/ DaemonDies(d)

DaemonServes ==
  DaemonRescans \/ DaemonReports \/ \E d \in DaemonPid, p \in Process : DaemonConfirms(d, p)

Rearm ==
  \/ RearmBegin \/ RefreshFails
  \/ \E z \in Zygote : RearmSkips(z) \/ RearmAttaches(z)
  \/ AttachReturns \/ AttachTimesOut \/ RearmAnswers

Monitor ==
  \/ \E h \in {"socket", "sigchld"} : Dispatch(h)
  \/ HandlerReturns \/ MonitorExits
  \/ \E z \in Zygote : HandleExec(z)
  \/ ReapDaemon
  \/ HandleStart \/ HandleStop \/ HandleExit
  \/ NotifyInjected \/ SetDaemonInfo
  \/ Rearm

Next == Environment \/ DaemonServes \/ Monitor

Spec == Init /\ [][Next]_vars

(***************************************************************************)
(* The monitor's thread runs when it can, its clock included, and so does  *)
(* the daemon's accept loop.  No injector has to finish.                   *)
(***************************************************************************)
FairSpec == Spec /\ WF_vars(Monitor) /\ WF_vars(DaemonServes)

-----------------------------------------------------------------------------
(* Every variable has its type; a rearm has a target while it attaches, and *)
(* a daemon on record as running has a pid on record.                       *)
TypeOK ==
  /\ tracing \in {"TRACING", "STOPPED", "EXITING"}
  /\ handler \in {"poll", "socket", "sigchld", "exited"}
  /\ status \in Status /\ (status.daemon_running => status.daemon_pid # 0) /\ hooked \subseteq Process
  /\ job \in Job /\ (job.pc = "attach" <=> job.target # {}) /\ answer \in RearmResult \cup {"none"}
  /\ inbox \in Seq(Datagram) /\ sent \in Nat
  /\ daemon \in [DaemonPid -> {"unborn", "alive", "zombie", "dead"}]
  /\ pings \in [DaemonPid -> SUBSET Process]
  /\ zygote \in [Zygote -> {"none", "exec", "parked", "running", "gone"}]
  /\ mapped \subseteq Zygote /\ hooks \in [Zygote -> Hooks]
  /\ injector \in [Zygote -> {"none", "spawn", "live"}]
  /\ verdict \in TraceExit \cup {"none"}
  /\ server \subseteq Zygote /\ fired \in [Zygote -> Nat]

(***************************************************************************)
(* At most one daemon runs and the monitor has its pid: two would fight    *)
(* over the socket name, and one nobody remembers would never be reaped    *)
(* (ensure_daemon_created, handle_daemon_exit_if_match).                   *)
(***************************************************************************)
AtMostOneDaemon ==
  \A d \in DaemonPid : daemon[d] \in {"alive", "zombie"} => d = status.daemon_pid

(***************************************************************************)
(* Whatever the monitor takes for hooked wrote a heartbeat and carries     *)
(* hooks, by whichever way it learnt of them: the injector's exit status   *)
(* or the daemon's datagram, which come in any order (attach_running,      *)
(* notify_injected).  Excepted are the time until entry() is done, and the *)
(* entry() that ended without hooks after its heartbeat ("hook", "cut").   *)
(***************************************************************************)
HookedCarryHooks ==
  \A z \in hooked \cap Zygote :
    /\ hooks[z] # "none"
    /\ z \in Live /\ injector[z] = "none" => Returned(z)

(***************************************************************************)
(* The same without the second exception, where entry() neither fails to   *)
(* hook nor is cut: once the injector is gone the record proves hooks      *)
(* (notify_injected: an answered heartbeat is "the only proof that it      *)
(* carries working hooks").  With "hook" or "cut" it does not.             *)
(***************************************************************************)
RecordIsProof ==
  \A z \in hooked \cap Zygote :
    z \in Live /\ injector[z] = "none" => hooks[z] = "installed"

(***************************************************************************)
(* A status of Injected is backed by a process on record, a zygote or a    *)
(* system_server that was hooked and may have died since, whatever daemon  *)
(* came or went in between (ensure_daemon_created, rearm).                 *)
(***************************************************************************)
InjectedIsBacked ==
  status.zygote = "Injected" /\ job.pc = "idle" => hooked # {}

(***************************************************************************)
(* No system_server runs server_specialize twice, "firing it twice         *)
(* re-enters every module's lifecycle" (rearm), with one zygote per ABI.   *)
(***************************************************************************)
ServerFiredOnce == \A z \in Zygote : fired[z] <= 1

(***************************************************************************)
(* A rearm that reports success vouches for every zygote its scan found:   *)
(* entry() returned in each one, with hooks unless they failed silently    *)
(* ("hook", "cut"), or it is gone, or had an injector on it already        *)
(* (rearm's loop and RearmResult).                                         *)
(***************************************************************************)
AnswerIsHonest ==
  [][job.pc = "scan" /\ job'.pc = "idle" /\ answer' \in {"Injected", "AlreadyHooked"}
     => \A z \in job.seen : z \in Live => Returned(z) \/ z \in job.injecting]_vars

(***************************************************************************)
(* What the code has no way out of: the daemon waits for room on the       *)
(* control socket and the monitor, which alone could make some, for the    *)
(* daemon's answer.                                                        *)
(***************************************************************************)
Blocked == job.pc \in {"refresh", "report"} /\ QueueFull

(***************************************************************************)
(* Every rearm ends in an answer, an injector that never finishes or not   *)
(* (wait_bounded); the one thing that holds it for good is a control       *)
(* socket with no room for the daemon's report.                            *)
(***************************************************************************)
RearmIsAnswered == job.pc # "idle" ~> job.pc = "idle" \/ []Blocked

(* A heartbeat a daemon holds gets on record, unless the daemon dies, the  *)
(* monitor exits, or a full socket blocks a rearm (PingHeartbeat,          *)
(* notify_injected).                                                       *)
HeartbeatArrives ==
  \A d \in DaemonPid, p \in Process :
    p \in pings[d] ~> \/ p \in hooked \/ daemon[d] # "alive"
                      \/ []Blocked
=============================================================================
