--------------------------- MODULE ZygoteAbiProofs ---------------------------
(***************************************************************************)
(* Proofs about ZygoteAbi, for every finite set of zygotes, any number     *)
(* alive at a time, any number of daemons and commands, any length of the  *)
(* control socket's queue and every combination of faults.                 *)
(***************************************************************************)
EXTENDS ZygoteAbi, FiniteSetTheorems, TLAPS

USE ZygoteAssumption, MaxLiveAssumption, MaxDaemonsAssumption,
    MaxCommandsAssumption, QueueLenAssumption, FaultsAssumption

(* A queue of datagrams stays one at both ends. *)
LEMMA QueueTyping ==
  ASSUME NEW q \in Seq(Datagram)
  PROVE  /\ \A m \in Datagram : Append(q, m) \in Seq(Datagram)
         /\ q # <<>> => Head(q) \in Datagram /\ Tail(q) \in Seq(Datagram)
  OBVIOUS

(* The three shapes of a datagram. *)
LEMMA DatagramTyping ==
  /\ \A c \in Command : [cmd |-> c] \in Datagram
  /\ \A p \in Process, d \in DaemonPid :
       [cmd |-> "ZYGOTE_INJECTED", pid |-> p, by |-> d] \in Datagram
  /\ \A d \in DaemonPid : [cmd |-> "DAEMON_SET_INFO", by |-> d] \in Datagram
  /\ \A d \in DaemonPid : [cmd |-> "DAEMON_SET_ERROR_INFO", by |-> d] \in Datagram
  BY DEF Datagram

(* A confirmation names a process. *)
LEMMA ConfirmationTyping ==
  ASSUME NEW m \in Datagram, m.cmd = "ZYGOTE_INJECTED"
  PROVE  m.pid \in Process
  BY DEF Datagram, Command

(* ensure_daemon_created keeps the types of what it changes. *)
LEMMA EnsureDaemonTyping ==
  ASSUME TypeOK, NEW ok \in BOOLEAN, NEW started \in BOOLEAN, EnsureDaemon(ok, started)
  PROVE  /\ status' \in Status /\ hooked' \subseteq Process
         /\ status'.daemon_running => status'.daemon_pid # 0
         /\ daemon' \in [DaemonPid -> {"unborn", "alive", "zombie", "dead"}]
<1>1. /\ status \in Status /\ hooked \subseteq Process
      /\ status.daemon_running => status.daemon_pid # 0
      /\ daemon \in [DaemonPid -> {"unborn", "alive", "zombie", "dead"}]
  BY DEF TypeOK
<1>2. CASE status.daemon_pid # 0
  BY <1>1, <1>2 DEF EnsureDaemon
<1>3. CASE status.daemon_pid = 0 /\ ok = TRUE
  <2>1. PICK d \in DaemonPid :
          /\ daemon' = [daemon EXCEPT ![d] = "alive"]
          /\ status' = [zygote |-> "NotInjected", daemon_running |-> TRUE, daemon_pid |-> d]
    BY <1>3 DEF EnsureDaemon
  <2>2. status' \in Status /\ status'.daemon_pid # 0
    BY <2>1 DEF Status, ZygoteState, DaemonPid
  <2>3. hooked' = {}
    BY <1>3 DEF EnsureDaemon
  <2> QED
    BY <1>1, <2>1, <2>2, <2>3
<1>4. CASE status.daemon_pid = 0 /\ ok # TRUE
  <2>1. /\ hooked' = {} /\ UNCHANGED daemon
        /\ status' = [status EXCEPT !.zygote = "NotInjected"]
    BY <1>4 DEF EnsureDaemon
  <2> QED
    BY <1>1, <2>1 DEF Status, ZygoteState
<1> QED
  BY <1>2, <1>3, <1>4

(* request_start and request_stop yield tracing states. *)
LEMMA RequestTyping ==
  ASSUME tracing \in {"TRACING", "STOPPED", "EXITING"}
  PROVE  /\ RequestStart \in {"TRACING", "STOPPED", "EXITING"}
         /\ RequestStop(tracing) \in {"TRACING", "STOPPED", "EXITING"}
         /\ RequestStop(RequestStart) \in {"TRACING", "STOPPED", "EXITING"}
  BY DEF RequestStart, RequestStop

(* What a rearm that begins starts from. *)
LEMMA IdleTyping ==
  /\ Idle \in Job
  /\ \A seen, srv \in SUBSET Zygote, ahead \in SUBSET Process, pc \in {"refresh", "scan"} :
       [Idle EXCEPT !.seen = seen, !.todo = seen, !.server = srv, !.ahead = ahead,
                    !.pc = pc] \in Job
  BY DEF Idle, Job

(* The locals a rearm starts with; ahead is what one daemon has to read. *)
LEMMA RearmStarts ==
  ASSUME TypeOK, RearmBegin, ~UNCHANGED job
  PROVE  \E ahead \in SUBSET Process, pc \in {"refresh", "scan"} :
           job' = [Idle EXCEPT !.seen = Live, !.todo = Live, !.server = server,
                               !.ahead = ahead, !.pc = pc]
<1>1. PICK started, ignore_disable \in BOOLEAN :
        /\ EnsureDaemon(TRUE, started)
        /\ job' = [Idle EXCEPT !.seen = Live, !.todo = Live, !.server = server,
                     !.ahead = IF started THEN {} ELSE pings[status.daemon_pid],
                     !.pc = IF ~started \/ ignore_disable THEN "refresh" ELSE "scan"]
  BY DEF RearmBegin
<1>2. (IF started THEN {} ELSE pings[status.daemon_pid]) \in SUBSET Process
  <2>1. CASE started
    BY <2>1
  <2>2. CASE ~started
    <3>1. status.daemon_pid \in DaemonPid
      BY <1>1, <2>2 DEF EnsureDaemon, TypeOK, Status, DaemonPid
    <3> QED BY <2>2, <3>1 DEF TypeOK
  <2> QED BY <2>1, <2>2
<1> QED BY <1>1, <1>2

(* The ways a rearm moves on keep its locals in range. *)
LEMMA SkipTyping ==
  ASSUME NEW j \in Job, NEW z \in Zygote, NEW k,
         \/ k = [j EXCEPT !.todo = @ \ {z}, !.injecting = @ \cup {z}]
         \/ k = [j EXCEPT !.todo = @ \ {z}, !.hooked = @ \cup {z}]
         \/ k = [j EXCEPT !.todo = @ \ {z}, !.restart = @ \cup {z}]
  PROVE  k \in Job /\ k.pc = j.pc /\ k.target = j.target
<1>1. CASE k = [j EXCEPT !.todo = @ \ {z}, !.injecting = @ \cup {z}]
  BY <1>1 DEF Job
<1>2. CASE k = [j EXCEPT !.todo = @ \ {z}, !.hooked = @ \cup {z}]
  BY <1>2 DEF Job
<1>3. CASE k = [j EXCEPT !.todo = @ \ {z}, !.restart = @ \cup {z}]
  BY <1>3 DEF Job
<1> QED
  BY <1>1, <1>2, <1>3

(* So does the move to an attach, which has one target. *)
LEMMA AttachTyping ==
  ASSUME NEW j \in Job, NEW z \in Zygote, NEW k,
         k = [j EXCEPT !.todo = @ \ {z}, !.target = {z}, !.pc = "attach"]
  PROVE  k \in Job /\ k.pc = "attach" /\ k.target = {z}
  BY DEF Job

(* And the move back, which has none. *)
LEMMA ReturnTyping ==
  ASSUME NEW j \in Job, NEW k,
         \/ k = [j EXCEPT !.pc = "scan", !.target = {}, !.armed = @ \cup j.target]
         \/ k = [j EXCEPT !.pc = "scan", !.target = {}, !.restart = @ \cup j.target]
  PROVE  k \in Job /\ k.pc = "scan" /\ k.target = {}
<1>1. CASE k = [j EXCEPT !.pc = "scan", !.target = {}, !.armed = @ \cup j.target]
  BY <1>1 DEF Job
<1>2. CASE k = [j EXCEPT !.pc = "scan", !.target = {}, !.restart = @ \cup j.target]
  BY <1>2 DEF Job
<1> QED
  BY <1>1, <1>2

(* Clients, zygotes, injectors and daemons keep the types. *)
LEMMA EnvironmentTyping == TypeOK /\ (Environment \/ DaemonServes) => TypeOK'
<1> SUFFICES ASSUME TypeOK, Environment \/ DaemonServes PROVE TypeOK'
  OBVIOUS
<1> USE DEF TypeOK, monitorVars, socketVars, daemonVars, zygoteVars
<1>1. ASSUME NEW c \in Command, SendCommand(c) PROVE TypeOK'
  BY <1>1, QueueTyping, DatagramTyping DEF SendCommand
<1>2. ASSUME NEW z \in Zygote, ZygoteStarts(z) PROVE TypeOK'
  BY <1>2 DEF ZygoteStarts
<1>3. ASSUME NEW z \in Zygote, ServerForks(z) PROVE TypeOK'
  BY <1>3 DEF ServerForks
<1>4. ASSUME NEW z \in Zygote, ZygoteDies(z) PROVE TypeOK'
  BY <1>4 DEF ZygoteDies, TraceExit
<1>5. ASSUME NEW z \in Zygote, NEW code \in TraceExit, InjectorExits(z, code) PROVE TypeOK'
  <2>1. mapped' \subseteq Zygote /\ hooks' \in [Zygote -> Hooks]
    <3>1. mapped' \in {mapped, mapped \cup {z}} /\ hooks' \in {hooks, [hooks EXCEPT ![z] = "failed"]}
      BY <1>5 DEF InjectorExits
    <3> QED
      BY <3>1 DEF Hooks
  <2>2. verdict' \in TraceExit \cup {"none"}
    BY <1>5 DEF InjectorExits
  <2> QED
    BY <1>5, <2>1, <2>2 DEF InjectorExits
<1>6. ASSUME NEW d \in DaemonPid, DaemonReportsError(d) PROVE TypeOK'
  BY <1>6, QueueTyping, DatagramTyping DEF DaemonReportsError
<1>7. ASSUME NEW d \in DaemonPid, DaemonDies(d) PROVE TypeOK'
  BY <1>7 DEF DaemonDies
<1>8. CASE DaemonRescans
  <2>1. job' \in Job /\ (job'.pc = "attach" <=> job'.target # {})
    <3>1. job \in Job /\ job.target = {}
      BY <1>8 DEF DaemonRescans
    <3>2. \E pc \in {"report", "scan"} : job' = [job EXCEPT !.pc = pc]
      BY <1>8 DEF DaemonRescans
    <3> HIDE DEF TypeOK
    <3> QED
      BY <3>1, <3>2 DEF Job
  <2> QED
    BY <1>8, <2>1 DEF DaemonRescans, Prune
<1>9. CASE DaemonReports
  <2>1. [cmd |-> "DAEMON_SET_INFO", by |-> status.daemon_pid] \in Datagram
    BY <1>9, DatagramTyping DEF DaemonReports, Alive
  <2>2. inbox' \in Seq(Datagram)
    BY <1>9, <2>1, QueueTyping DEF DaemonReports
  <2>3. job' \in Job /\ (job'.pc = "attach" <=> job'.target # {})
    BY <1>9 DEF DaemonReports, Job
  <2> QED
    BY <1>9, <2>2, <2>3 DEF DaemonReports, Prune
<1>10. ASSUME NEW z \in Zygote, EntryPings(z) PROVE TypeOK'
  <2>1. pings' \in [DaemonPid -> SUBSET Process]
    BY <1>10 DEF EntryPings, Alive, Process
  <2>2. mapped' \subseteq Zygote /\ hooks' \in [Zygote -> Hooks]
    BY <1>10 DEF EntryPings, Hooks
  <2> QED
    BY <1>10, <2>1, <2>2 DEF EntryPings
<1>11. ASSUME NEW z \in Zygote, EntryHooks(z) PROVE TypeOK'
  <2>1. hooks' \in [Zygote -> Hooks]
    BY <1>11 DEF EntryHooks, Hooks
  <2> QED
    BY <1>11, <2>1 DEF EntryHooks
<1>12. ASSUME NEW d \in DaemonPid, NEW p \in Process, DaemonConfirms(d, p) PROVE TypeOK'
  BY <1>12, QueueTyping, DatagramTyping DEF DaemonConfirms
<1> QED
  BY <1>1, <1>2, <1>3, <1>4, <1>5, <1>6, <1>7, <1>8, <1>9, <1>10, <1>11, <1>12
     DEF Environment, DaemonServes

(* The steps of a rearm keep the types. *)
LEMMA RearmTyping == TypeOK /\ Rearm => TypeOK'
<1> SUFFICES ASSUME TypeOK, Rearm PROVE TypeOK'
  OBVIOUS
<1> USE DEF TypeOK, monitorVars, socketVars, daemonVars, zygoteVars
<1>1. CASE RearmBegin
  <2>1. inbox' \in Seq(Datagram)
    BY <1>1, QueueTyping DEF RearmBegin, Receive
  <2>2. job' \in Job /\ (job'.pc = "attach" <=> job'.target # {})
    <3>1. CASE UNCHANGED job
      BY <3>1
    <3>2. CASE ~ UNCHANGED job
      <4>1. PICK ahead \in SUBSET Process, pc \in {"refresh", "scan"} :
              job' = [Idle EXCEPT !.seen = Live, !.todo = Live, !.server = server,
                                  !.ahead = ahead, !.pc = pc]
        BY <1>1, <3>2, RearmStarts
      <4>2. Live \in SUBSET Zygote /\ server \in SUBSET Zygote
        BY DEF Live
      <4>3. job' \in Job
        BY <4>1, <4>2, IdleTyping
      <4>4. job'.pc # "attach" /\ job'.target = {}
        BY <4>1 DEF Idle
      <4> QED
        BY <4>3, <4>4
    <3> QED
      BY <3>1, <3>2
  <2>3. /\ status' \in Status /\ hooked' \subseteq Process
        /\ status'.daemon_running => status'.daemon_pid # 0
        /\ daemon' \in [DaemonPid -> {"unborn", "alive", "zombie", "dead"}]
    BY <1>1, EnsureDaemonTyping DEF RearmBegin
  <2>4. tracing' \in {"TRACING", "STOPPED", "EXITING"} /\ answer' \in RearmResult \cup {"none"}
    BY <1>1, RequestTyping DEF RearmBegin, RearmResult
  <2> QED
    BY <1>1, <2>1, <2>2, <2>3, <2>4 DEF RearmBegin, Receive
<1>2. CASE RefreshFails
  BY <1>2 DEF RefreshFails, Prune, Job
<1>3. ASSUME NEW z \in Zygote, RearmSkips(z) PROVE TypeOK'
  <2>1. job \in Job /\ job.pc = "scan" /\ job.target = {}
    BY <1>3 DEF RearmSkips
  <2>2. job' \in Job /\ job'.pc = "scan" /\ job'.target = {}
    <3>1. \/ job' = [job EXCEPT !.todo = @ \ {z}, !.injecting = @ \cup {z}]
          \/ job' = [job EXCEPT !.todo = @ \ {z}, !.hooked = @ \cup {z}]
          \/ job' = [job EXCEPT !.todo = @ \ {z}, !.restart = @ \cup {z}]
      BY <1>3 DEF RearmSkips
    <3>2. CASE job' = [job EXCEPT !.todo = @ \ {z}, !.injecting = @ \cup {z}]
      BY <2>1, <3>2, SkipTyping
    <3>3. CASE job' = [job EXCEPT !.todo = @ \ {z}, !.hooked = @ \cup {z}]
      BY <2>1, <3>3, SkipTyping
    <3>4. CASE job' = [job EXCEPT !.todo = @ \ {z}, !.restart = @ \cup {z}]
      BY <2>1, <3>4, SkipTyping
    <3> QED
      BY <3>1, <3>2, <3>3, <3>4
  <2> QED
    BY <1>3, <2>2 DEF RearmSkips
<1>4. ASSUME NEW z \in Zygote, RearmAttaches(z) PROVE TypeOK'
  <2>1. job' \in Job /\ (job'.pc = "attach" <=> job'.target # {})
    <3>1. job \in Job /\ job.pc = "scan" /\ job.target = {}
      BY <1>4 DEF RearmAttaches
    <3>2. \/ job' = [job EXCEPT !.todo = @ \ {z}, !.target = {z}, !.pc = "attach"]
          \/ job' = [job EXCEPT !.todo = @ \ {z}, !.restart = @ \cup {z}]
      BY <1>4 DEF RearmAttaches
    <3>3. CASE job' = [job EXCEPT !.todo = @ \ {z}, !.target = {z}, !.pc = "attach"]
      <4>1. job' \in Job /\ job'.pc = "attach" /\ job'.target = {z}
        BY <3>1, <3>3, AttachTyping
      <4> QED
        BY <4>1
    <3>4. CASE job' = [job EXCEPT !.todo = @ \ {z}, !.restart = @ \cup {z}]
      BY <3>1, <3>4, SkipTyping
    <3> QED
      BY <3>2, <3>3, <3>4
  <2> QED
    BY <1>4, <2>1 DEF RearmAttaches, TraceExit
<1>5. CASE AttachReturns
  <2>1. job \in Job /\ job.target \subseteq Zygote
    BY DEF Job
  <2>2. job' \in Job /\ job'.pc = "scan" /\ job'.target = {}
    <3>1. \/ job' = [job EXCEPT !.pc = "scan", !.target = {}, !.armed = @ \cup job.target]
          \/ job' = [job EXCEPT !.pc = "scan", !.target = {}, !.restart = @ \cup job.target]
      BY <1>5 DEF AttachReturns
    <3> QED
      BY <2>1, <3>1, ReturnTyping
  <2>3. hooked' \subseteq Process
    BY <1>5, <2>1 DEF AttachReturns, Process
  <2> QED
    BY <1>5, <2>2, <2>3 DEF AttachReturns
<1>6. CASE AttachTimesOut
  BY <1>6 DEF AttachTimesOut, Job
<1>7. CASE RearmAnswers
  <2>1. job' \in Job /\ (job'.pc = "attach" <=> job'.target # {})
    BY <1>7, IdleTyping DEF RearmAnswers, Idle
  <2>2. /\ status' \in Status /\ answer' \in RearmResult
        /\ status'.daemon_running => status'.daemon_pid # 0
    BY <1>7 DEF RearmAnswers, Status, ZygoteState, ZygoteVerdict, Result, RearmResult
  <2>3. /\ hooked' \subseteq Process /\ pings' \in [DaemonPid -> SUBSET Process]
        /\ fired' \in [Zygote -> Nat]
    <3>1. CASE UNCHANGED <<hooked, pings, fired>>
      BY <3>1
    <3>2. CASE ~ UNCHANGED <<hooked, pings, fired>>
      <4>1. PICK z \in job.server \cap server, d \in Alive, ran \in {0, 1} :
              /\ fired' = [fired EXCEPT ![z] = @ + ran]
              /\ pings' = [pings EXCEPT ![d] = @ \cup {Server(z)}]
              /\ hooked' = hooked \cup {Server(z)} \/ UNCHANGED hooked
        BY <1>7, <3>2 DEF RearmAnswers
      <4>2. z \in Zygote /\ Server(z) \in Process /\ d \in DaemonPid
        BY <4>1 DEF Process, Alive
      <4> QED
        BY <4>1, <4>2
    <3> QED
      BY <3>1, <3>2
  <2> QED
    BY <1>7, <2>1, <2>2, <2>3 DEF RearmAnswers
<1> QED
  BY <1>1, <1>2, <1>3, <1>4, <1>5, <1>6, <1>7 DEF Rearm

(* So do the monitor's other handlers. *)
LEMMA MonitorTyping == TypeOK /\ Monitor => TypeOK'
<1> SUFFICES ASSUME TypeOK, Monitor PROVE TypeOK'
  OBVIOUS
<1> USE DEF TypeOK, monitorVars, socketVars, daemonVars, zygoteVars
<1>1. ASSUME NEW h \in {"socket", "sigchld"}, Dispatch(h) PROVE TypeOK'
  BY <1>1 DEF Dispatch
<1>2. CASE HandlerReturns
  BY <1>2 DEF HandlerReturns
<1>3. CASE MonitorExits
  BY <1>3 DEF MonitorExits
<1>4. ASSUME NEW z \in Zygote, HandleExec(z) PROVE TypeOK'
  <2>1. /\ status' \in Status /\ hooked' \subseteq Process
        /\ status'.daemon_running => status'.daemon_pid # 0
        /\ daemon' \in [DaemonPid -> {"unborn", "alive", "zombie", "dead"}]
    BY <1>4, EnsureDaemonTyping DEF HandleExec
  <2>2. tracing' \in {"TRACING", "STOPPED", "EXITING"}
    BY <1>4, RequestTyping DEF HandleExec
  <2>3. /\ zygote' \in [Zygote -> {"none", "exec", "parked", "running", "gone"}]
        /\ injector' \in [Zygote -> {"none", "spawn", "live"}]
    BY <1>4, ZenonT(40) DEF HandleExec
  <2>4. /\ UNCHANGED <<handler, job, answer>> /\ UNCHANGED <<inbox, sent, pings>>
        /\ UNCHANGED <<mapped, hooks, verdict, server, fired>>
    BY <1>4 DEF HandleExec
  <2> QED
    BY <2>1, <2>2, <2>3, <2>4
<1>5. CASE ReapDaemon
  <2>1. status' \in Status /\ (status'.daemon_running => status'.daemon_pid # 0)
    <3>1. status \in Status /\ 0 \in 0..MaxDaemons
      OBVIOUS
    <3>2. status' = [status EXCEPT !.daemon_running = FALSE, !.daemon_pid = 0]
      BY <1>5 DEF ReapDaemon
    <3> HIDE DEF TypeOK
    <3> QED
      BY <3>1, <3>2 DEF Status
  <2>2. daemon' \in [DaemonPid -> {"unborn", "alive", "zombie", "dead"}]
    BY <1>5 DEF ReapDaemon
  <2> QED
    BY <1>5, <2>1, <2>2 DEF ReapDaemon
<1>6. CASE HandleStart
  BY <1>6, QueueTyping, RequestTyping DEF HandleStart, Receive
<1>7. CASE HandleStop
  BY <1>7, QueueTyping, RequestTyping DEF HandleStop, Receive
<1>8. CASE HandleExit
  BY <1>8, QueueTyping DEF HandleExit, Receive
<1>9. CASE NotifyInjected
  <2>1. inbox' \in Seq(Datagram) /\ Head(inbox).pid \in Process
    BY <1>9, QueueTyping, ConfirmationTyping DEF NotifyInjected, Receive
  <2>2. status' \in Status /\ (status'.daemon_running => status'.daemon_pid # 0)
    BY <1>9 DEF NotifyInjected, Status, ZygoteState
  <2> QED
    BY <1>9, <2>1, <2>2 DEF NotifyInjected, Receive
<1>10. CASE SetDaemonInfo
  BY <1>10, QueueTyping DEF SetDaemonInfo, Receive, Status
<1>11. CASE Rearm
  BY <1>11, RearmTyping
<1> QED
  BY <1>1, <1>2, <1>3, <1>4, <1>5, <1>6, <1>7, <1>8, <1>9, <1>10, <1>11 DEF Monitor

(* No step leaves the types. *)
LEMMA TypeCorrectStep == TypeOK /\ [Next]_vars => TypeOK'
<1> SUFFICES ASSUME TypeOK, [Next]_vars PROVE TypeOK'
  OBVIOUS
<1>1. CASE Environment \/ DaemonServes
  BY <1>1, EnvironmentTyping
<1>2. CASE Monitor
  BY <1>2, MonitorTyping
<1>3. CASE UNCHANGED vars
  BY <1>3 DEF TypeOK, vars, monitorVars, socketVars, daemonVars, zygoteVars
<1> QED
  BY <1>1, <1>2, <1>3 DEF Next

(***************************************************************************)
(* Type correctness: the monitor's records, the rearm's locals, the queue  *)
(* and the processes stay in range, and a rearm has a target exactly while *)
(* it attaches (AppMonitor, ZygoteAbiManager).                             *)
(***************************************************************************)
THEOREM TypeCorrect == Spec => []TypeOK
<1>1. Init => TypeOK
  <2> SUFFICES ASSUME Init PROVE TypeOK
    OBVIOUS
  <2>1. /\ inbox \in Seq(Datagram) /\ status \in Status
        /\ status.daemon_running => status.daemon_pid # 0
    BY DEF Init, Status, ZygoteState
  <2>2. job \in Job /\ (job.pc = "attach" <=> job.target # {})
    BY IdleTyping DEF Init, Idle
  <2>3. /\ zygote \in [Zygote -> {"none", "exec", "parked", "running", "gone"}]
        /\ server \subseteq Zygote /\ mapped \subseteq Zygote
    BY DEF Init
  <2> QED
    BY <2>1, <2>2, <2>3 DEF Init, TypeOK, Hooks
<1> QED
  BY <1>1, TypeCorrectStep, PTL DEF Spec

-----------------------------------------------------------------------------
(* A daemon is started only when none is on record, and it goes on record. *)
LEMMA EnsureDaemonKeepsOne ==
  ASSUME TypeOK, AtMostOneDaemon, NEW ok \in BOOLEAN, NEW started \in BOOLEAN,
         EnsureDaemon(ok, started)
  PROVE  AtMostOneDaemon'
<1>1. CASE status.daemon_pid # 0
  BY <1>1 DEF EnsureDaemon, AtMostOneDaemon
<1>2. CASE status.daemon_pid = 0 /\ ok = TRUE
  <2>1. PICK d \in DaemonPid :
          /\ daemon' = [daemon EXCEPT ![d] = "alive"]
          /\ status' = [zygote |-> "NotInjected", daemon_running |-> TRUE, daemon_pid |-> d]
    BY <1>2 DEF EnsureDaemon
  <2>2. \A e \in DaemonPid : daemon[e] \notin {"alive", "zombie"}
    BY <1>2 DEF AtMostOneDaemon, DaemonPid
  <2> QED
    BY <2>1, <2>2 DEF AtMostOneDaemon, TypeOK
<1>3. CASE status.daemon_pid = 0 /\ ok # TRUE
  <2>1. UNCHANGED daemon /\ status' = [status EXCEPT !.zygote = "NotInjected"]
    BY <1>3 DEF EnsureDaemon
  <2> QED
    BY <2>1 DEF AtMostOneDaemon, TypeOK, Status
<1> QED
  BY <1>1, <1>2, <1>3

(* No step leaves two daemons, or one that is not on record. *)
LEMMA OneDaemonStep == TypeOK /\ AtMostOneDaemon /\ [Next]_vars => AtMostOneDaemon'
<1> SUFFICES ASSUME TypeOK, AtMostOneDaemon, [Next]_vars PROVE AtMostOneDaemon'
  OBVIOUS
<1> USE DEF monitorVars, socketVars, daemonVars, zygoteVars
<1>1. ASSUME UNCHANGED daemon, status'.daemon_pid = status.daemon_pid PROVE AtMostOneDaemon'
  BY <1>1 DEF AtMostOneDaemon
<1>2. ASSUME NEW d \in DaemonPid, DaemonDies(d) PROVE AtMostOneDaemon'
  BY <1>2 DEF DaemonDies, AtMostOneDaemon, TypeOK
<1>3. CASE MonitorExits
  BY <1>3 DEF MonitorExits, AtMostOneDaemon
<1>4. ASSUME NEW z \in Zygote, HandleExec(z) PROVE AtMostOneDaemon'
  <2>1. CASE UNCHANGED <<status, daemon>>
    BY <1>1, <2>1
  <2>2. CASE \E ok, started \in BOOLEAN : EnsureDaemon(ok, started)
    BY <2>2, EnsureDaemonKeepsOne
  <2> QED
    BY <1>4, <2>1, <2>2 DEF HandleExec
<1>5. CASE ReapDaemon
  <2>1. /\ daemon' = [daemon EXCEPT ![status.daemon_pid] = "dead"]
        /\ \A d \in DaemonPid : d # status.daemon_pid => daemon[d] \notin {"alive", "zombie"}
    BY <1>5 DEF ReapDaemon, AtMostOneDaemon
  <2>2. \A d \in DaemonPid : daemon'[d] \notin {"alive", "zombie"}
    BY <2>1 DEF TypeOK
  <2> QED
    BY <2>2 DEF AtMostOneDaemon
<1>6. CASE RearmBegin
  <2>1. CASE UNCHANGED <<status, daemon>>
    BY <1>1, <2>1
  <2>2. CASE \E ok, started \in BOOLEAN : EnsureDaemon(ok, started)
    BY <2>2, EnsureDaemonKeepsOne
  <2> QED
    BY <1>6, <2>1, <2>2 DEF RearmBegin
<1>7. CASE NotifyInjected \/ SetDaemonInfo \/ RearmAnswers
  BY <1>1, <1>7 DEF NotifyInjected, SetDaemonInfo, RearmAnswers, TypeOK, Status
<1>8. CASE UNCHANGED <<status, daemon>>
  BY <1>1, <1>8
<1>9. CASE Environment \/ DaemonServes
  BY <1>2, <1>8, <1>9 DEF Environment, DaemonServes, SendCommand, ZygoteStarts, ServerForks,
     ZygoteDies, InjectorExits, EntryPings, EntryHooks, DaemonReportsError, DaemonRescans, DaemonReports,
     DaemonConfirms
<1>10. CASE Monitor
  BY <1>3, <1>4, <1>5, <1>6, <1>7, <1>8, <1>10 DEF Monitor, Dispatch, HandlerReturns,
     HandleStart, HandleStop, HandleExit, Rearm, RefreshFails, RearmSkips, RearmAttaches,
     AttachReturns, AttachTimesOut
<1>11. CASE UNCHANGED vars
  BY <1>8, <1>11 DEF vars
<1> QED
  BY <1>9, <1>10, <1>11 DEF Next

(***************************************************************************)
(* At most one daemon runs or waits to be reaped, and it is the one the    *)
(* monitor has on record (ensure_daemon_created,                           *)
(* handle_daemon_exit_if_match).                                           *)
(***************************************************************************)
THEOREM OneDaemon == Spec => []AtMostOneDaemon
<1>1. Init => AtMostOneDaemon
  BY DEF Init, AtMostOneDaemon
<1> QED
  BY <1>1, OneDaemonStep, TypeCorrect, PTL DEF Spec

-----------------------------------------------------------------------------
(***************************************************************************)
(* What makes the monitor's record of hooks true, and inductive: wherever  *)
(* the news of a zygote's hooks still travels - a heartbeat the daemon has *)
(* not read, a datagram not yet handled, the verdict of an injector, the   *)
(* locals of a rearm - entry() has got that far already.                   *)
(***************************************************************************)
RecordPinged == \A z \in hooked \cap Zygote : hooks[z] # "none"

NewsIsTrue ==
  /\ \A d \in DaemonPid, z \in Zygote : z \in pings[d] => hooks[z] # "none"
  /\ \A i \in 1..Len(inbox) : inbox[i].cmd = "ZYGOTE_INJECTED" /\ inbox[i].pid \in Zygote
                              => hooks[inbox[i].pid] # "none"

(* From its heartbeat to its end entry() has an injector waiting for it. *)
PingedInFlight ==
  \A z \in Zygote : hooks[z] = "pinged" => injector[z] # "none" \/ zygote[z] = "gone"

VerdictIsTrue ==
  /\ \A z \in job.target : verdict = "TRACE_HOOKED" => Returned(z)
  /\ \A y, z \in job.target : y = z

(* No zygote a rearm found is forgotten, and only those in which entry()   *)
(* returned count as hooked.                                               *)
JobIsTrue ==
  /\ \A z \in job.armed \cup job.hooked : Returned(z)
  /\ job.pc # "idle" => job.seen \subseteq job.todo \cup job.target \cup job.armed
                          \cup job.hooked \cup job.injecting \cup job.restart

HookInv == RecordPinged /\ NewsIsTrue /\ PingedInFlight /\ VerdictIsTrue /\ JobIsTrue

(* What the record is worth follows from how far entry() got. *)
LEMMA RecordCarries == TypeOK /\ HookInv => HookedCarryHooks
  BY DEF TypeOK, Hooks, HookInv, RecordPinged, PingedInFlight, HookedCarryHooks, Returned, Live

(* No step takes a heartbeat back, or hooks, or their failure. *)
LEMMA HooksStay ==
  ASSUME TypeOK, [Next]_vars
  PROVE  \A z \in Zygote : /\ hooks[z] # "none" => hooks'[z] # "none"
                           /\ Returned(z) => Returned(z)'
<1> USE DEF monitorVars, socketVars, daemonVars, zygoteVars, Returned
<1>0. hooks \in [Zygote -> Hooks]
  BY DEF TypeOK
<1> DEFINE Stay == \A z \in Zygote : /\ hooks[z] # "none" => hooks'[z] # "none"
                                     /\ Returned(z) => Returned(z)'
<1>1. ASSUME NEW z \in Zygote, NEW code \in TraceExit, InjectorExits(z, code) PROVE Stay
  BY <1>0, <1>1 DEF InjectorExits
<1>2. CASE UNCHANGED hooks
  BY <1>2
<1>3. ASSUME NEW z \in Zygote, EntryPings(z) \/ EntryHooks(z) PROVE Stay
  BY <1>0, <1>3 DEF EntryPings, EntryHooks
<1>4. CASE Environment \/ DaemonServes
  BY <1>1, <1>2, <1>3, <1>4 DEF Environment, DaemonServes, SendCommand, ZygoteStarts,
     ServerForks, ZygoteDies, DaemonReportsError, DaemonDies, DaemonRescans, DaemonReports,
     DaemonConfirms
<1>5. CASE Monitor
  BY <1>2, <1>5 DEF Monitor, Dispatch, HandlerReturns, MonitorExits, HandleExec, ReapDaemon,
     HandleStart, HandleStop, HandleExit, NotifyInjected, SetDaemonInfo, Rearm, RearmBegin,
     RefreshFails, RearmSkips, RearmAttaches, AttachReturns, AttachTimesOut, RearmAnswers
<1>6. CASE UNCHANGED vars
  BY <1>2, <1>6 DEF vars
<1> QED
  BY <1>4, <1>5, <1>6 DEF Next

(* An injector that reports hooks saw entry() return. *)
LEMMA InjectorHooks ==
  ASSUME NEW z \in Zygote, InjectorExits(z, "TRACE_HOOKED")
  PROVE  Returned(z)'
  BY DEF InjectorExits, Returned

(* entry() ends before its injector does. *)
LEMMA PingedStep == TypeOK /\ HookInv /\ [Next]_vars => PingedInFlight'
<1> SUFFICES ASSUME TypeOK, HookInv, [Next]_vars PROVE PingedInFlight'
  OBVIOUS
<1> USE DEF monitorVars, socketVars, daemonVars, zygoteVars
<1>0. /\ hooks \in [Zygote -> Hooks] /\ PingedInFlight
      /\ zygote \in [Zygote -> {"none", "exec", "parked", "running", "gone"}]
      /\ injector \in [Zygote -> {"none", "spawn", "live"}]
  BY DEF TypeOK, HookInv
<1>1. CASE UNCHANGED <<hooks, zygote, injector>>
  BY <1>0, <1>1 DEF PingedInFlight
<1>2. ASSUME NEW z \in Zygote, NEW code \in TraceExit, InjectorExits(z, code)
      PROVE  PingedInFlight'
  <2>1. /\ hooks'[z] # "pinged" /\ \A y \in Zygote \ {z} : hooks'[y] = hooks[y]
        /\ zygote' = [zygote EXCEPT ![z] = "running"]
        /\ injector' = [injector EXCEPT ![z] = "none"]
    BY <1>0, <1>2 DEF InjectorExits, Returned
  <2> QED BY <1>0, <2>1 DEF PingedInFlight
<1>3. ASSUME NEW z \in Zygote, EntryPings(z) \/ EntryHooks(z) PROVE PingedInFlight'
  BY <1>0, <1>3 DEF EntryPings, EntryHooks, PingedInFlight
<1>4. ASSUME NEW z \in Zygote, ZygoteStarts(z) \/ ZygoteDies(z) PROVE PingedInFlight'
  BY <1>0, <1>4 DEF ZygoteStarts, ZygoteDies, PingedInFlight
<1>5. ASSUME NEW z \in Zygote, HandleExec(z) PROVE PingedInFlight'
  <2>1. /\ zygote[z] = "exec" /\ UNCHANGED hooks
        /\ \E at \in {"running", "parked"} : zygote' = [zygote EXCEPT ![z] = at]
        /\ UNCHANGED injector \/ injector' = [injector EXCEPT ![z] = "spawn"]
    BY <1>5 DEF HandleExec
  <2> QED BY <1>0, <2>1 DEF PingedInFlight
<1>6. CASE MonitorExits
  BY <1>0, <1>6 DEF MonitorExits, PingedInFlight
<1>7. ASSUME NEW z \in Zygote, RearmAttaches(z) PROVE PingedInFlight'
  BY <1>0, <1>7 DEF RearmAttaches, PingedInFlight
<1>8. CASE Environment \/ DaemonServes
  BY <1>1, <1>2, <1>3, <1>4, <1>8 DEF Environment, DaemonServes, SendCommand, ServerForks,
     DaemonReportsError, DaemonDies, DaemonRescans, DaemonReports, DaemonConfirms
<1>9. CASE Monitor
  BY <1>1, <1>5, <1>6, <1>7, <1>9 DEF Monitor, Dispatch, HandlerReturns, ReapDaemon,
     HandleStart, HandleStop, HandleExit, NotifyInjected, SetDaemonInfo, Rearm, RearmBegin,
     RefreshFails, RearmSkips, AttachReturns, AttachTimesOut, RearmAnswers
<1>10. CASE UNCHANGED vars
  BY <1>1, <1>10 DEF vars
<1> QED
  BY <1>8, <1>9, <1>10 DEF Next

(* ensure_daemon_created only ever drops confirmations. *)
LEMMA EnsureDaemonDrops ==
  ASSUME NEW ok \in BOOLEAN, NEW started \in BOOLEAN, EnsureDaemon(ok, started)
  PROVE  UNCHANGED hooked \/ hooked' = {}
  BY DEF EnsureDaemon

(* What goes on record wrote a heartbeat. *)
LEMMA RecordStep == TypeOK /\ HookInv /\ [Next]_vars => RecordPinged'
<1> SUFFICES ASSUME TypeOK, HookInv, [Next]_vars PROVE RecordPinged'
  OBVIOUS
<1> USE DEF monitorVars, socketVars, daemonVars, zygoteVars
<1>1. ASSUME hooked' \cap Zygote \subseteq hooked PROVE RecordPinged'
  BY <1>1, HooksStay DEF HookInv, RecordPinged
<1>2. CASE UNCHANGED hooked
  BY <1>1, <1>2
<1>3. CASE DaemonRescans \/ DaemonReports \/ RefreshFails
  BY <1>1, <1>3 DEF DaemonRescans, DaemonReports, RefreshFails, Prune
<1>4. ASSUME NEW z \in Zygote, HandleExec(z) PROVE RecordPinged'
  BY <1>1, <1>4, EnsureDaemonDrops DEF HandleExec
<1>5. CASE RearmBegin
  BY <1>1, <1>5, EnsureDaemonDrops DEF RearmBegin
<1>6. CASE NotifyInjected
  <2>1. /\ inbox # <<>> /\ Head(inbox).cmd = "ZYGOTE_INJECTED"
        /\ hooked' = hooked \cup {Head(inbox).pid} /\ UNCHANGED hooks
    BY <1>6 DEF NotifyInjected, Receive
  <2>2. Head(inbox) = inbox[1] /\ 1 \in 1..Len(inbox)
    BY <2>1 DEF TypeOK
  <2>3. Head(inbox).pid \in Zygote => hooks[Head(inbox).pid] # "none"
    BY <2>1, <2>2 DEF HookInv, NewsIsTrue
  <2> QED
    BY <2>1, <2>3 DEF HookInv, RecordPinged
<1>7. CASE AttachReturns
  <2>1. CASE UNCHANGED hooked
    BY <1>2, <2>1
  <2>2. CASE verdict = "TRACE_HOOKED" /\ hooked' = hooked \cup job.target /\ UNCHANGED hooks
    BY <2>2 DEF HookInv, VerdictIsTrue, RecordPinged, Returned
  <2> QED
    BY <1>7, <2>1, <2>2 DEF AttachReturns
<1>8. CASE RearmAnswers
  <2>1. UNCHANGED hooked \/ \E z \in server : hooked' = hooked \cup {Server(z)}
    BY <1>8 DEF RearmAnswers
  <2> QED
    BY <1>1, <2>1, ServerAssumption DEF TypeOK
<1>9. CASE Environment \/ DaemonServes
  BY <1>2, <1>3, <1>9 DEF Environment, DaemonServes, SendCommand, ZygoteStarts, ServerForks,
     ZygoteDies, InjectorExits, EntryPings, EntryHooks, DaemonReportsError, DaemonDies,
     DaemonConfirms
<1>10. CASE Monitor
  BY <1>2, <1>3, <1>4, <1>5, <1>6, <1>7, <1>8, <1>10 DEF Monitor, Dispatch, HandlerReturns,
     MonitorExits, ReapDaemon, HandleStart, HandleStop, HandleExit, SetDaemonInfo, Rearm,
     RearmSkips, RearmAttaches, AttachTimesOut
<1>11. CASE UNCHANGED vars
  BY <1>2, <1>11 DEF vars
<1> QED
  BY <1>9, <1>10, <1>11 DEF Next

(* What is said of every datagram stays true when one comes or goes. *)
LEMMA NewsQueue ==
  ASSUME TypeOK, NewsIsTrue, \A z \in Zygote : hooks[z] # "none" => hooks'[z] # "none",
         \/ UNCHANGED inbox
         \/ inbox # <<>> /\ inbox' = Tail(inbox)
         \/ \E m \in Datagram :
              /\ inbox' = Append(inbox, m)
              /\ m.cmd = "ZYGOTE_INJECTED" /\ m.pid \in Zygote => hooks[m.pid] # "none"
  PROVE  \A i \in 1..Len(inbox') : inbox'[i].cmd = "ZYGOTE_INJECTED" /\ inbox'[i].pid \in Zygote
                                   => hooks'[inbox'[i].pid] # "none"
<1> SUFFICES ASSUME NEW i \in 1..Len(inbox'), inbox'[i].cmd = "ZYGOTE_INJECTED",
                    inbox'[i].pid \in Zygote
             PROVE  hooks'[inbox'[i].pid] # "none"
  OBVIOUS
<1> inbox \in Seq(Datagram)
  BY DEF TypeOK
<1>1. CASE UNCHANGED inbox
  BY <1>1 DEF NewsIsTrue
<1>2. CASE inbox # <<>> /\ inbox' = Tail(inbox)
  <2>1. inbox'[i] = inbox[i + 1] /\ i + 1 \in 1..Len(inbox)
    BY <1>2
  <2> QED
    BY <2>1 DEF NewsIsTrue
<1>3. ASSUME NEW m \in Datagram, inbox' = Append(inbox, m),
             m.cmd = "ZYGOTE_INJECTED" /\ m.pid \in Zygote => hooks[m.pid] # "none"
      PROVE  hooks'[inbox'[i].pid] # "none"
  <2>1. inbox'[i] = m \/ (i \in 1..Len(inbox) /\ inbox'[i] = inbox[i])
    BY <1>3
  <2> QED
    BY <1>3, <2>1 DEF NewsIsTrue
<1> QED
  BY <1>1, <1>2, <1>3

(* Heartbeats and datagrams on their way stay true. *)
LEMMA NewsStep == TypeOK /\ HookInv /\ [Next]_vars => NewsIsTrue'
<1> SUFFICES ASSUME TypeOK, HookInv, [Next]_vars PROVE NewsIsTrue'
  OBVIOUS
<1> USE DEF monitorVars, socketVars, daemonVars, zygoteVars
<1> DEFINE PingsTrue == \A d \in DaemonPid, z \in Zygote : z \in pings'[d] => hooks'[z] # "none"
           Queue == \/ UNCHANGED inbox
                    \/ inbox # <<>> /\ inbox' = Tail(inbox)
                    \/ \E m \in Datagram :
                         /\ inbox' = Append(inbox, m)
                         /\ m.cmd = "ZYGOTE_INJECTED" /\ m.pid \in Zygote => hooks[m.pid] # "none"
<1>1. ASSUME PingsTrue, Queue PROVE NewsIsTrue'
  BY <1>1, NewsQueue, HooksStay DEF NewsIsTrue, HookInv
<1>2. ASSUME \A d \in DaemonPid : pings'[d] \cap Zygote \subseteq pings[d] PROVE PingsTrue
  BY <1>2, HooksStay DEF HookInv, NewsIsTrue
<1>3. ASSUME UNCHANGED pings PROVE PingsTrue
  BY <1>2, <1>3
<1> HIDE DEF PingsTrue
<1>4. ASSUME NEW c \in Command, SendCommand(c) PROVE NewsIsTrue'
  <2>1. [cmd |-> c] \in Datagram /\ [cmd |-> c].cmd # "ZYGOTE_INJECTED"
    BY DatagramTyping DEF Command
  <2> QED
    BY <1>1, <1>3, <1>4, <2>1 DEF SendCommand
<1>5. ASSUME NEW z \in Zygote, EntryPings(z) PROVE NewsIsTrue'
  <2>1. PICK d \in DaemonPid : pings' = [pings EXCEPT ![d] = @ \cup {z}]
    BY <1>5 DEF EntryPings, Alive
  <2>2. hooks'[z] # "none" /\ pings \in [DaemonPid -> SUBSET Process]
    BY <1>5 DEF EntryPings, TypeOK
  <2>3. \A e \in DaemonPid, y \in Zygote : y \in pings'[e] => y = z \/ y \in pings[e]
    BY <2>1, <2>2
  <2>4. PingsTrue
    BY <2>2, <2>3, HooksStay DEF PingsTrue, HookInv, NewsIsTrue
  <2> QED
    BY <1>1, <1>5, <2>4 DEF EntryPings
<1>6. ASSUME NEW d \in DaemonPid, DaemonReportsError(d) PROVE NewsIsTrue'
  BY <1>1, <1>3, <1>6, DatagramTyping DEF DaemonReportsError
<1>7. ASSUME NEW d \in DaemonPid, DaemonDies(d) PROVE NewsIsTrue'
  <2>1. \A e \in DaemonPid : pings'[e] \cap Zygote \subseteq pings[e]
    BY <1>7 DEF DaemonDies, TypeOK
  <2> QED
    BY <1>1, <1>2, <1>7, <2>1 DEF DaemonDies
<1>8. CASE DaemonReports
  <2>1. LET m == [cmd |-> "DAEMON_SET_INFO", by |-> status.daemon_pid]
        IN  m \in Datagram /\ m.cmd # "ZYGOTE_INJECTED"
    BY <1>8, DatagramTyping DEF DaemonReports, Alive
  <2> QED
    BY <1>1, <1>3, <1>8, <2>1 DEF DaemonReports
<1>9. ASSUME NEW d \in DaemonPid, NEW p \in Process, DaemonConfirms(d, p) PROVE NewsIsTrue'
  <2>1. \A e \in DaemonPid : pings'[e] \cap Zygote \subseteq pings[e]
    BY <1>9 DEF DaemonConfirms, TypeOK
  <2>2. p \in Zygote => hooks[p] # "none"
    BY <1>9 DEF DaemonConfirms, HookInv, NewsIsTrue
  <2>3. Queue
    <3>1. [cmd |-> "ZYGOTE_INJECTED", pid |-> p, by |-> d] \in Datagram
      BY DatagramTyping
    <3> QED
      BY <1>9, <2>2, <3>1 DEF DaemonConfirms
  <2> QED
    BY <1>1, <1>2, <2>1, <2>3
<1>10. CASE MonitorExits
  BY <1>1, <1>2, <1>10 DEF MonitorExits
<1>11. ASSUME NEW c \in {"START", "STOP", "EXIT", "REARM", "ZYGOTE_INJECTED",
                          "DAEMON_SET_INFO", "DAEMON_SET_ERROR_INFO"},
              Receive(c), UNCHANGED pings
       PROVE  NewsIsTrue'
  BY <1>1, <1>3, <1>11 DEF Receive
<1>12. CASE RearmAnswers
  <2>1. \A d \in DaemonPid : pings'[d] \cap Zygote \subseteq pings[d]
    <3>1. UNCHANGED pings \/ \E z \in Zygote, d \in DaemonPid :
                               pings' = [pings EXCEPT ![d] = @ \cup {Server(z)}]
      BY <1>12 DEF RearmAnswers, Alive, TypeOK
    <3>2. CASE UNCHANGED pings
      BY <3>2
    <3>3. ASSUME NEW z \in Zygote, NEW e \in DaemonPid,
                 pings' = [pings EXCEPT ![e] = @ \cup {Server(z)}]
          PROVE  \A d \in DaemonPid : pings'[d] \cap Zygote \subseteq pings[d]
      <4>1. Server(z) \notin Zygote
        BY ServerAssumption
      <4>2. pings \in [DaemonPid -> SUBSET Process]
        BY DEF TypeOK
      <4> QED
        BY <3>3, <4>1, <4>2
    <3> QED
      BY <3>1, <3>2, <3>3
  <2> QED
    BY <1>1, <1>2, <1>12, <2>1 DEF RearmAnswers
<1>13. CASE UNCHANGED <<inbox, pings>>
  BY <1>1, <1>3, <1>13
<1>14. CASE Environment \/ DaemonServes
  BY <1>4, <1>5, <1>6, <1>7, <1>8, <1>9, <1>13, <1>14 DEF Environment, DaemonServes,
     ZygoteStarts, ServerForks, ZygoteDies, EntryHooks, InjectorExits, DaemonRescans
<1>15. CASE Monitor
  <2>1. CASE HandleStart \/ HandleStop \/ HandleExit \/ NotifyInjected \/ SetDaemonInfo
             \/ RearmBegin
    BY <1>11, <2>1 DEF HandleStart, HandleStop, HandleExit, NotifyInjected, SetDaemonInfo,
       RearmBegin
  <2> QED
    BY <1>10, <1>12, <1>13, <1>15, <2>1 DEF Monitor, Dispatch, HandlerReturns, HandleExec,
       ReapDaemon, Rearm, RefreshFails, RearmSkips, RearmAttaches, AttachReturns, AttachTimesOut
<1>16. CASE UNCHANGED vars
  BY <1>13, <1>16 DEF vars
<1> QED
  BY <1>14, <1>15, <1>16 DEF Next

(* An injector's verdict stays true of the one zygote it is about. *)
LEMMA VerdictStep == TypeOK /\ HookInv /\ [Next]_vars => VerdictIsTrue'
<1> SUFFICES ASSUME TypeOK, HookInv, [Next]_vars PROVE VerdictIsTrue'
  OBVIOUS
<1> USE DEF monitorVars, socketVars, daemonVars, zygoteVars
<1>1. ASSUME job'.target = {} PROVE VerdictIsTrue'
  BY <1>1 DEF VerdictIsTrue
<1>2. ASSUME job'.target = job.target, UNCHANGED verdict \/ verdict' = "TRACE_FAILED"
      PROVE  VerdictIsTrue'
  <2>1. job.target \subseteq Zygote
    BY DEF TypeOK, Job
  <2> QED
    BY <1>2, <2>1, HooksStay DEF VerdictIsTrue, HookInv
<1>3. CASE UNCHANGED <<job, verdict>>
  BY <1>2, <1>3
<1>4. ASSUME NEW z \in Zygote, ZygoteDies(z) PROVE VerdictIsTrue'
  BY <1>2, <1>4 DEF ZygoteDies
<1>5. ASSUME NEW z \in Zygote, NEW code \in TraceExit, InjectorExits(z, code)
      PROVE  VerdictIsTrue'
  <2>1. CASE z \notin job.target
    BY <1>2, <1>5, <2>1 DEF InjectorExits
  <2>2. CASE z \in job.target
    <3>1. verdict' = code /\ UNCHANGED job /\ \A y \in job.target : y = z
      BY <1>5, <2>2 DEF InjectorExits, HookInv, VerdictIsTrue
    <3>2. code = "TRACE_HOOKED" => Returned(z)'
      BY <1>5, InjectorHooks
    <3> QED
      BY <3>1, <3>2 DEF VerdictIsTrue
  <2> QED
    BY <2>1, <2>2
<1>6. CASE DaemonRescans \/ DaemonReports \/ RefreshFails
  <2>1. job'.target = job.target /\ UNCHANGED verdict
    BY <1>6 DEF DaemonRescans, DaemonReports, RefreshFails, TypeOK, Job
  <2> QED
    BY <1>2, <2>1
<1>7. CASE RearmBegin
  <2>1. CASE UNCHANGED job
    BY <1>3, <1>7, <2>1 DEF RearmBegin
  <2>2. CASE ~ UNCHANGED job
    BY <1>1, <1>7, <2>2 DEF RearmBegin, Idle
  <2> QED
    BY <2>1, <2>2
<1>8. ASSUME NEW z \in Zygote, RearmSkips(z) PROVE VerdictIsTrue'
  <2>1. job'.target = job.target /\ UNCHANGED verdict
    BY <1>8 DEF RearmSkips, TypeOK, Job
  <2> QED
    BY <1>2, <2>1
<1>9. ASSUME NEW z \in Zygote, RearmAttaches(z) PROVE VerdictIsTrue'
  <2>1. job \in Job
    BY DEF TypeOK
  <2>2. CASE /\ job' = [job EXCEPT !.todo = @ \ {z}, !.target = {z}, !.pc = "attach"]
             /\ verdict' \in {"none", "TRACE_FAILED"}
    <3>1. job'.target = {z}
      BY <2>1, <2>2, AttachTyping
    <3> QED
      BY <2>2, <3>1 DEF VerdictIsTrue
  <2>3. CASE /\ job' = [job EXCEPT !.todo = @ \ {z}, !.restart = @ \cup {z}]
             /\ UNCHANGED verdict
    <3>1. job'.target = job.target
      BY <2>1, <2>3, SkipTyping
    <3> QED
      BY <1>2, <2>3, <3>1
  <2> QED
    BY <1>9, <2>2, <2>3 DEF RearmAttaches
<1>10. CASE AttachReturns \/ AttachTimesOut
  <2>1. job'.target = {}
    BY <1>10 DEF AttachReturns, AttachTimesOut, TypeOK, Job
  <2> QED
    BY <1>1, <2>1
<1>11. CASE RearmAnswers
  BY <1>1, <1>11 DEF RearmAnswers, Idle
<1>12. CASE Environment \/ DaemonServes
  BY <1>3, <1>4, <1>5, <1>6, <1>12 DEF Environment, DaemonServes, SendCommand, ZygoteStarts,
     ServerForks, EntryPings, EntryHooks, DaemonReportsError, DaemonDies, DaemonConfirms
<1>13. CASE Monitor
  BY <1>3, <1>6, <1>7, <1>8, <1>9, <1>10, <1>11, <1>13 DEF Monitor, Dispatch, HandlerReturns,
     MonitorExits, HandleExec, ReapDaemon, HandleStart, HandleStop, HandleExit, NotifyInjected,
     SetDaemonInfo, Rearm
<1>14. CASE UNCHANGED vars
  BY <1>3, <1>14 DEF vars
<1> QED
  BY <1>12, <1>13, <1>14 DEF Next

(* A rearm's locals stay true: it accounts for every zygote it found. *)
LEMMA JobStep == TypeOK /\ HookInv /\ [Next]_vars => JobIsTrue'
<1> SUFFICES ASSUME TypeOK, HookInv, [Next]_vars PROVE JobIsTrue'
  OBVIOUS
<1> USE DEF monitorVars, socketVars, daemonVars, zygoteVars
<1>1. job \in Job /\ JobIsTrue
  BY DEF TypeOK, HookInv
<1>2. job.armed \cup job.hooked \subseteq Zygote
  BY <1>1 DEF Job
<1>3. CASE UNCHANGED job
  BY <1>1, <1>2, <1>3, HooksStay DEF JobIsTrue
<1>4. CASE DaemonRescans \/ DaemonReports \/ RefreshFails
  <2>1. PICK pc \in {"report", "scan"} : job' = [job EXCEPT !.pc = pc]
    BY <1>4 DEF DaemonRescans, DaemonReports, RefreshFails
  <2>2. job.pc # "idle" /\ UNCHANGED hooks
    BY <1>4 DEF DaemonRescans, DaemonReports, RefreshFails
  <2> QED
    BY <1>1, <2>1, <2>2 DEF JobIsTrue, Job, Returned
<1>5. CASE RearmBegin
  <2>1. CASE UNCHANGED job
    BY <1>3, <2>1
  <2>2. CASE ~ UNCHANGED job
    <3>1. PICK ahead \in SUBSET Process, pc \in {"refresh", "scan"} :
            job' = [Idle EXCEPT !.seen = Live, !.todo = Live, !.server = server,
                                !.ahead = ahead, !.pc = pc]
      BY <1>5, <2>2, RearmStarts
    <3>2. job'.armed = {} /\ job'.hooked = {} /\ job'.seen = job'.todo
      BY <3>1 DEF Idle
    <3> QED
      BY <3>2 DEF JobIsTrue
  <2> QED
    BY <2>1, <2>2
<1>6. ASSUME NEW z \in Zygote, RearmSkips(z) PROVE JobIsTrue'
  <2>1. UNCHANGED hooks /\ job.pc = "scan"
    BY <1>6 DEF RearmSkips
  <2>2. CASE job' = [job EXCEPT !.todo = @ \ {z}, !.injecting = @ \cup {z}]
    BY <1>1, <2>1, <2>2 DEF JobIsTrue, Job, Returned
  <2>3. CASE /\ z \in hooked /\ ~InFlight(z) /\ z \in Live
             /\ job' = [job EXCEPT !.todo = @ \ {z}, !.hooked = @ \cup {z}]
    <3>1. Returned(z)
      BY <2>3, RecordCarries DEF HookedCarryHooks, InFlight
    <3> QED
      BY <1>1, <2>1, <2>3, <3>1 DEF JobIsTrue, Job, Returned
  <2>4. CASE job' = [job EXCEPT !.todo = @ \ {z}, !.restart = @ \cup {z}]
    BY <1>1, <2>1, <2>4 DEF JobIsTrue, Job, Returned
  <2> QED
    BY <1>6, <2>2, <2>3, <2>4 DEF RearmSkips
<1>7. ASSUME NEW z \in Zygote, RearmAttaches(z) PROVE JobIsTrue'
  <2>1. UNCHANGED hooks /\ job.pc = "scan" /\ job.target = {}
    BY <1>7 DEF RearmAttaches, TypeOK
  <2>2. CASE job' = [job EXCEPT !.todo = @ \ {z}, !.target = {z}, !.pc = "attach"]
    BY <1>1, <2>1, <2>2 DEF JobIsTrue, Job, Returned
  <2>3. CASE job' = [job EXCEPT !.todo = @ \ {z}, !.restart = @ \cup {z}]
    BY <1>1, <2>1, <2>3 DEF JobIsTrue, Job, Returned
  <2> QED
    BY <1>7, <2>2, <2>3 DEF RearmAttaches
<1>8. CASE AttachReturns \/ AttachTimesOut
  <2>1. UNCHANGED hooks /\ job.pc = "attach"
    BY <1>8 DEF AttachReturns, AttachTimesOut
  <2>2. CASE /\ job' = [job EXCEPT !.pc = "scan", !.target = {}, !.armed = @ \cup job.target]
             /\ verdict = "TRACE_HOOKED"
    <3>1. \A z \in job.target : Returned(z)
      BY <2>2 DEF HookInv, VerdictIsTrue
    <3> QED
      BY <1>1, <2>1, <2>2, <3>1 DEF JobIsTrue, Job, Returned
  <2>3. CASE job' = [job EXCEPT !.pc = "scan", !.target = {}, !.restart = @ \cup job.target]
    BY <1>1, <2>1, <2>3 DEF JobIsTrue, Job, Returned
  <2> QED
    BY <1>8, <2>2, <2>3 DEF AttachReturns, AttachTimesOut
<1>9. CASE RearmAnswers
  BY <1>9 DEF RearmAnswers, Idle, JobIsTrue
<1>10. CASE Environment \/ DaemonServes
  BY <1>3, <1>4, <1>10 DEF Environment, DaemonServes, SendCommand, ZygoteStarts, ServerForks,
     ZygoteDies, InjectorExits, EntryPings, EntryHooks, DaemonReportsError, DaemonDies,
     DaemonConfirms
<1>11. CASE Monitor
  BY <1>3, <1>4, <1>5, <1>6, <1>7, <1>8, <1>9, <1>11 DEF Monitor, Dispatch, HandlerReturns,
     MonitorExits, HandleExec, ReapDaemon, HandleStart, HandleStop, HandleExit, NotifyInjected,
     SetDaemonInfo, Rearm
<1>12. CASE UNCHANGED vars
  BY <1>3, <1>12 DEF vars
<1> QED
  BY <1>10, <1>11, <1>12 DEF Next

(* HookInv holds throughout. *)
LEMMA HookInvariance == Spec => []HookInv
<1>1. Init => HookInv
  <2> SUFFICES ASSUME Init PROVE HookInv
    OBVIOUS
  <2>1. RecordPinged /\ NewsIsTrue /\ PingedInFlight
    BY DEF Init, RecordPinged, NewsIsTrue, PingedInFlight
  <2>2. VerdictIsTrue /\ JobIsTrue
    BY DEF Init, Idle, VerdictIsTrue, JobIsTrue
  <2> QED
    BY <2>1, <2>2 DEF HookInv
<1>2. TypeOK /\ HookInv /\ [Next]_vars => HookInv'
  BY RecordStep, NewsStep, PingedStep, VerdictStep, JobStep DEF HookInv
<1> QED
  BY <1>1, <1>2, TypeCorrect, PTL DEF Spec

(***************************************************************************)
(* Whatever the monitor takes for hooked wrote a heartbeat, and entry()    *)
(* returned in it once its injector is gone, for any number of zygotes and *)
(* daemons and however their messages are delayed (attach_running,         *)
(* notify_injected).                                                       *)
(***************************************************************************)
THEOREM RecordIsTrue == Spec => []HookedCarryHooks
  BY RecordCarries, HookInvariance, TypeCorrect, PTL

(* Without the faults that hook nothing after the heartbeat, none does. *)
HooksGoIn == \A z \in Zygote : hooks[z] # "failed"

LEMMA HooksGoInStep ==
  ASSUME "hook" \notin Faults, "cut" \notin Faults
  PROVE  TypeOK /\ HooksGoIn /\ [Next]_vars => HooksGoIn'
<1> SUFFICES ASSUME TypeOK, HooksGoIn, [Next]_vars PROVE HooksGoIn'
  OBVIOUS
<1> USE DEF monitorVars, socketVars, daemonVars, zygoteVars
<1>0. hooks \in [Zygote -> Hooks]
  BY DEF TypeOK
<1>1. CASE UNCHANGED hooks
  BY <1>1 DEF HooksGoIn
<1>2. ASSUME NEW z \in Zygote, NEW code \in TraceExit, InjectorExits(z, code) PROVE HooksGoIn'
  BY <1>1, <1>2 DEF InjectorExits
<1>3. ASSUME NEW z \in Zygote, EntryPings(z) \/ EntryHooks(z) PROVE HooksGoIn'
  BY <1>0, <1>3 DEF EntryPings, EntryHooks, HooksGoIn
<1>4. CASE Environment \/ DaemonServes
  BY <1>1, <1>2, <1>3, <1>4 DEF Environment, DaemonServes, SendCommand, ZygoteStarts,
     ServerForks, ZygoteDies, DaemonReportsError, DaemonDies, DaemonRescans, DaemonReports,
     DaemonConfirms
<1>5. CASE Monitor
  BY <1>1, <1>5 DEF Monitor, Dispatch, HandlerReturns, MonitorExits, HandleExec, ReapDaemon,
     HandleStart, HandleStop, HandleExit, NotifyInjected, SetDaemonInfo, Rearm, RearmBegin,
     RefreshFails, RearmSkips, RearmAttaches, AttachReturns, AttachTimesOut, RearmAnswers
<1>6. CASE UNCHANGED vars
  BY <1>1, <1>6 DEF vars
<1> QED
  BY <1>4, <1>5, <1>6 DEF Next

(***************************************************************************)
(* Where hooking never fails after the heartbeat and no remote call is     *)
(* cut, a process on record whose injector is gone carries hooks: those    *)
(* two are all that stands between notify_injected's record and the proof  *)
(* its comment calls it.                                                   *)
(***************************************************************************)
THEOREM RecordProvesHooks ==
  "hook" \notin Faults /\ "cut" \notin Faults /\ Spec => []RecordIsProof
<1> SUFFICES ASSUME "hook" \notin Faults, "cut" \notin Faults PROVE Spec => []RecordIsProof
  OBVIOUS
<1>1. Init => HooksGoIn
  BY DEF Init, HooksGoIn
<1>2. TypeOK /\ HooksGoIn /\ [Next]_vars => HooksGoIn'
  BY HooksGoInStep
<1>3. HookedCarryHooks /\ HooksGoIn => RecordIsProof
  BY DEF HookedCarryHooks, HooksGoIn, RecordIsProof, Returned
<1> QED
  BY <1>1, <1>2, <1>3, RecordIsTrue, TypeCorrect, PTL DEF Spec

(***************************************************************************)
(* A rearm that reports success vouches for every zygote its scan found    *)
(* (rearm's loop and RearmResult).                                         *)
(***************************************************************************)
THEOREM RearmIsHonest == Spec => AnswerIsHonest
<1>1. TypeOK /\ HookInv /\ [Next]_vars =>
        [job.pc = "scan" /\ job'.pc = "idle" /\ answer' \in {"Injected", "AlreadyHooked"}
         => \A z \in job.seen : z \in Live => Returned(z) \/ z \in job.injecting]_vars
  <2> SUFFICES ASSUME TypeOK, HookInv, Next, job.pc = "scan", job'.pc = "idle",
                      answer' \in {"Injected", "AlreadyHooked"}
               PROVE  \A z \in job.seen : Returned(z) \/ z \in job.injecting
    OBVIOUS
  <2> USE DEF monitorVars, socketVars, daemonVars, zygoteVars
  <2>1. RearmAnswers
    <3>1. ~ UNCHANGED job
      OBVIOUS
    <3>2. job \in Job
      BY DEF TypeOK
    <3>3. job'.pc # "idle" \/ RearmAnswers
      <4>1. CASE Environment \/ DaemonServes
        BY <3>1, <3>2, <4>1 DEF Environment, DaemonServes, SendCommand, ZygoteStarts,
           ServerForks, ZygoteDies, InjectorExits, EntryPings, EntryHooks, DaemonReportsError,
           DaemonDies, DaemonConfirms, DaemonRescans, DaemonReports, Job
      <4>2. ASSUME NEW z \in Zygote, RearmSkips(z) \/ RearmAttaches(z) PROVE job'.pc # "idle"
        BY <3>2, <4>2 DEF RearmSkips, RearmAttaches, Job
      <4>3. CASE AttachReturns \/ AttachTimesOut \/ RefreshFails \/ RearmBegin
        BY <4>3 DEF AttachReturns, AttachTimesOut, RefreshFails, RearmBegin, Receive
      <4>4. CASE Monitor
        BY <3>1, <4>2, <4>3, <4>4 DEF Monitor, Dispatch, HandlerReturns, MonitorExits,
           HandleExec, ReapDaemon, HandleStart, HandleStop, HandleExit, NotifyInjected,
           SetDaemonInfo, Rearm
      <4> QED
        BY <4>1, <4>4 DEF Next
    <3> QED
      BY <3>3
  <2>2. job.todo = {} /\ job.target = {}
    BY <2>1 DEF RearmAnswers, TypeOK
  <2>3. job.restart = {}
    BY <2>1 DEF RearmAnswers, Result
  <2> QED
    BY <2>2, <2>3 DEF HookInv, JobIsTrue
<1> QED
  BY <1>1, HookInvariance, TypeCorrect, PTL DEF Spec, AnswerIsHonest

-----------------------------------------------------------------------------
(***************************************************************************)
(* Why a status of Injected is backed: a rearm has the event loop to       *)
(* itself, so what it found hooked is still on record when it answers.     *)
(***************************************************************************)
RearmAlone == job.pc # "idle" => handler = "socket"

FoundIsOnRecord ==
  /\ job.armed \cup job.hooked \subseteq hooked
  /\ job.pc \in {"idle", "refresh", "report"} => job.armed \cup job.hooked = {}

BackInv == RearmAlone /\ FoundIsOnRecord /\ InjectedIsBacked

(* ensure_daemon_created takes back a status of Injected with the record. *)
LEMMA EnsureDaemonUnbacks ==
  ASSUME TypeOK, NEW ok \in BOOLEAN, NEW started \in BOOLEAN, EnsureDaemon(ok, started)
  PROVE  UNCHANGED <<status, hooked>> \/ status'.zygote = "NotInjected"
<1>1. CASE status.daemon_pid # 0
  BY <1>1 DEF EnsureDaemon
<1>2. CASE status.daemon_pid = 0
  BY <1>2 DEF EnsureDaemon, TypeOK, Status
<1> QED BY <1>1, <1>2

(* Only a rearm touches its locals, and it does so in the socket's handler. *)
LEMMA BackStep == TypeOK /\ BackInv /\ [Next]_vars => BackInv'
<1> SUFFICES ASSUME TypeOK, BackInv, [Next]_vars PROVE BackInv'
  OBVIOUS
<1> USE DEF monitorVars, socketVars, daemonVars, zygoteVars
<1>0. job \in Job /\ status \in Status
  BY DEF TypeOK
<1>1. ASSUME UNCHANGED <<handler, job, hooked>>, status'.zygote = status.zygote PROVE BackInv'
  BY <1>1 DEF BackInv, RearmAlone, FoundIsOnRecord, InjectedIsBacked
<1>2. CASE UNCHANGED <<handler, job, hooked, status>>
  BY <1>1, <1>2
<1>3. ASSUME UNCHANGED <<job, hooked, status>>, job.pc = "idle" PROVE BackInv'
  BY <1>3 DEF BackInv, RearmAlone, FoundIsOnRecord, InjectedIsBacked
<1>4. ASSUME UNCHANGED <<handler, job>>, job.pc = "idle",
             UNCHANGED <<status, hooked>> \/ status'.zygote = "NotInjected"
      PROVE  BackInv'
  BY <1>4 DEF BackInv, RearmAlone, FoundIsOnRecord, InjectedIsBacked
<1>5. ASSUME NEW h \in {"socket", "sigchld"}, Dispatch(h) PROVE BackInv'
  BY <1>3, <1>5 DEF Dispatch, BackInv, RearmAlone
<1>6. CASE HandlerReturns \/ MonitorExits
  BY <1>3, <1>6 DEF HandlerReturns, MonitorExits, Drained
<1>7. ASSUME NEW z \in Zygote, HandleExec(z) PROVE BackInv'
  <2>1. UNCHANGED <<handler, job>> /\ handler = "sigchld"
    BY <1>7 DEF HandleExec
  <2>2. job.pc = "idle"
    BY <2>1 DEF BackInv, RearmAlone
  <2>3. UNCHANGED <<status, hooked>> \/ status'.zygote = "NotInjected"
    BY <1>7, EnsureDaemonUnbacks DEF HandleExec
  <2> QED BY <1>4, <2>1, <2>2, <2>3
<1>8. CASE ReapDaemon
  BY <1>0, <1>1, <1>8 DEF ReapDaemon, Status
<1>9. CASE HandleStart \/ HandleStop \/ HandleExit
  BY <1>2, <1>9 DEF HandleStart, HandleStop, HandleExit
<1>10. CASE NotifyInjected
  <2>1. UNCHANGED <<handler, job>> /\ hooked \subseteq hooked' /\ hooked' # {}
    BY <1>10 DEF NotifyInjected
  <2> QED BY <2>1 DEF BackInv, RearmAlone, FoundIsOnRecord, InjectedIsBacked
<1>11. CASE SetDaemonInfo
  BY <1>0, <1>1, <1>11 DEF SetDaemonInfo, Status
<1>12. CASE RearmBegin
  <2>1. CASE UNCHANGED job
    <3>1. UNCHANGED handler /\ job.pc = "idle"
      BY <1>12 DEF RearmBegin, Receive
    <3>2. UNCHANGED <<status, hooked>> \/ status'.zygote = "NotInjected"
      BY <1>12, EnsureDaemonUnbacks DEF RearmBegin
    <3> QED BY <1>4, <2>1, <3>1, <3>2
  <2>2. CASE ~UNCHANGED job
    <3>1. job'.armed = {} /\ job'.hooked = {} /\ job'.pc # "idle" /\ handler' = "socket"
      BY <1>12, <2>2 DEF RearmBegin, Receive, Idle
    <3> QED BY <3>1 DEF BackInv, RearmAlone, FoundIsOnRecord, InjectedIsBacked
  <2> QED BY <2>1, <2>2
<1>13. CASE DaemonRescans \/ DaemonReports \/ RefreshFails
  <2>1. /\ UNCHANGED handler /\ job.pc \in {"refresh", "report"} /\ job'.pc \in {"report", "scan"}
        /\ job'.armed = job.armed /\ job'.hooked = job.hooked
    BY <1>0, <1>13 DEF DaemonRescans, DaemonReports, RefreshFails, Job
  <2> QED BY <2>1 DEF BackInv, RearmAlone, FoundIsOnRecord, InjectedIsBacked
<1>14. ASSUME UNCHANGED handler, job.pc \in {"scan", "attach"}, job'.pc \in {"scan", "attach"},
              hooked \subseteq hooked', job'.armed \cup job'.hooked \subseteq hooked'
       PROVE  BackInv'
  BY <1>14 DEF BackInv, RearmAlone, FoundIsOnRecord, InjectedIsBacked
<1>15. ASSUME NEW z \in Zygote, RearmSkips(z) PROVE BackInv'
  <2>1. UNCHANGED <<handler, hooked>> /\ job.pc = "scan"
    BY <1>15 DEF RearmSkips
  <2>2. job'.pc = "scan" /\ job'.armed \cup job'.hooked \subseteq job.armed \cup job.hooked \cup hooked
    <3>1. CASE job' = [job EXCEPT !.todo = @ \ {z}, !.injecting = @ \cup {z}]
      BY <1>0, <2>1, <3>1 DEF Job
    <3>2. CASE z \in hooked /\ job' = [job EXCEPT !.todo = @ \ {z}, !.hooked = @ \cup {z}]
      BY <1>0, <2>1, <3>2 DEF Job
    <3>3. CASE job' = [job EXCEPT !.todo = @ \ {z}, !.restart = @ \cup {z}]
      BY <1>0, <2>1, <3>3 DEF Job
    <3> QED BY <1>15, <3>1, <3>2, <3>3 DEF RearmSkips
  <2> QED BY <1>14, <2>1, <2>2 DEF BackInv, FoundIsOnRecord
<1>16. ASSUME NEW z \in Zygote, RearmAttaches(z) PROVE BackInv'
  <2>1. UNCHANGED <<handler, hooked>> /\ job.pc = "scan"
    BY <1>16 DEF RearmAttaches
  <2>2. /\ job'.pc \in {"scan", "attach"}
        /\ job'.armed = job.armed /\ job'.hooked = job.hooked
    BY <1>0, <1>16 DEF RearmAttaches, Job
  <2> QED BY <1>14, <2>1, <2>2 DEF BackInv, FoundIsOnRecord
<1>17. CASE AttachReturns \/ AttachTimesOut
  <2>1. UNCHANGED handler /\ job.pc = "attach" /\ job'.pc = "scan" /\ hooked \subseteq hooked'
    BY <1>0, <1>17 DEF AttachReturns, AttachTimesOut, Job
  <2>2. CASE job'.armed = job.armed /\ job'.hooked = job.hooked
    BY <1>14, <2>1, <2>2 DEF BackInv, FoundIsOnRecord
  <2>3. CASE /\ job'.armed = job.armed \cup job.target /\ job'.hooked = job.hooked
             /\ hooked' = hooked \cup job.target
    BY <1>14, <2>1, <2>3 DEF BackInv, FoundIsOnRecord
  <2> QED BY <1>0, <1>17, <2>2, <2>3 DEF AttachReturns, AttachTimesOut, Job
<1>18. CASE RearmAnswers
  <2>1. /\ UNCHANGED handler /\ job' = Idle /\ hooked \subseteq hooked'
        /\ status'.zygote = ZygoteVerdict
    BY <1>0, <1>18 DEF RearmAnswers, Status
  <2>2. status'.zygote = "Injected" => job.armed \cup job.hooked # {}
    BY <2>1 DEF ZygoteVerdict
  <2>3. job'.pc = "idle" /\ job'.armed = {} /\ job'.hooked = {}
    BY <2>1 DEF Idle
  <2> QED BY <2>1, <2>2, <2>3 DEF BackInv, RearmAlone, FoundIsOnRecord, InjectedIsBacked
<1>19. CASE Environment \/ DaemonServes
  BY <1>2, <1>13, <1>19 DEF Environment, DaemonServes, SendCommand, ZygoteStarts, ServerForks,
     ZygoteDies, InjectorExits, EntryPings, EntryHooks, DaemonReportsError, DaemonDies,
     DaemonConfirms
<1>20. CASE Monitor
  BY <1>5, <1>6, <1>7, <1>8, <1>9, <1>10, <1>11, <1>12, <1>13, <1>15, <1>16, <1>17, <1>18,
     <1>20 DEF Monitor, Rearm
<1>21. CASE UNCHANGED vars
  BY <1>2, <1>21 DEF vars
<1> QED BY <1>19, <1>20, <1>21 DEF Next

(***************************************************************************)
(* A status of Injected is backed by a process on record as hooked, for    *)
(* any number of zygotes and daemons: neither the daemon that is replaced  *)
(* (ensure_daemon_created) nor the pruning of a rearm leaves it behind.    *)
(***************************************************************************)
THEOREM StatusIsBacked == Spec => []InjectedIsBacked
<1>1. Init => BackInv
  BY DEF Init, Idle, BackInv, RearmAlone, FoundIsOnRecord, InjectedIsBacked
<1>2. BackInv => InjectedIsBacked
  BY DEF BackInv
<1> QED BY <1>1, <1>2, BackStep, TypeCorrect, PTL DEF Spec

(***************************************************************************)
(* Why server_specialize runs once where one zygote runs at a time: a      *)
(* rearm attaches to system_server for a zygote it hooked itself, so it    *)
(* found that one bare, and that zygote's system_server was there when the *)
(* rearm began and was not forked since.                                   *)
(***************************************************************************)
OneZygote == \A y, z \in Zygote : y \in Live /\ z \in Live => y = z

InjectorsLive == \A z \in Zygote : injector[z] # "none" => z \in Live

MappedFirst == \A z \in Zygote : hooks[z] # "none" \/ fired[z] # 0 => z \in mapped

ServersLive == \A z \in server : z \in Live

JobIsNarrow ==
  /\ job.server \cup job.todo \cup job.target \cup job.armed \subseteq job.seen
  /\ \A y, z \in job.seen : y = z
  /\ \A z \in job.seen : zygote[z] # "none"
  /\ \A z \in job.server : z \in server \/ zygote[z] = "gone"

BareIsUnfired ==
  \A z \in job.server :
    z \in job.target \cup job.armed => fired[z] = 0 \/ zygote[z] = "gone"

FireInv == OneZygote /\ InjectorsLive /\ MappedFirst /\ ServersLive /\ JobIsNarrow
           /\ BareIsUnfired /\ ServerFiredOnce

LEMMA AtMostOneElement ==
  ASSUME NEW S, IsFiniteSet(S), Cardinality(S) <= 1
  PROVE  \A y, z \in S : y = z
<1> SUFFICES ASSUME NEW y \in S, NEW z \in S, y # z PROVE FALSE
  OBVIOUS
<1>1. IsFiniteSet(S \ {y}) /\ Cardinality(S \ {y}) = Cardinality(S) - 1
  BY FS_RemoveElement
<1>2. Cardinality((S \ {y}) \ {z}) = Cardinality(S \ {y}) - 1 /\ IsFiniteSet((S \ {y}) \ {z})
  BY <1>1, FS_RemoveElement
<1>3. Cardinality((S \ {y}) \ {z}) \in Nat /\ Cardinality(S) \in Nat
  BY <1>2, FS_CardinalityType
<1> QED BY <1>1, <1>2, <1>3

(* What a step does to one zygote, and to its system_server. *)
ZygoteCases(z) ==
  \/ zygote'[z] = zygote[z] /\ UNCHANGED server
  \/ zygote[z] = "none" /\ z \in Live' /\ Cardinality(Live) < MaxLive
     /\ UNCHANGED <<server, job>> /\ \A y \in Zygote \ {z} : zygote'[y] = zygote[y]
  \/ z \in Live /\ z \in Live' /\ UNCHANGED server
  \/ z \in Live /\ zygote'[z] = "gone" /\ server' = server \ {z} /\ UNCHANGED job
  \/ zygote'[z] = zygote[z] /\ UNCHANGED job
     /\ \E y \in Zygote \ {z} : server' = server \ {y}
  \/ zygote'[z] = zygote[z] /\ UNCHANGED job
     /\ \E y \in Zygote : zygote[y] = "running" /\ y \notin server /\ server' = server \cup {y}

LEMMA ZygoteStep ==
  ASSUME TypeOK, InjectorsLive, [Next]_vars, NEW z \in Zygote
  PROVE  ZygoteCases(z)
<1> USE DEF monitorVars, socketVars, daemonVars, zygoteVars
<1>0. zygote \in [Zygote -> {"none", "exec", "parked", "running", "gone"}]
  BY DEF TypeOK
<1>1. CASE UNCHANGED <<zygote, server>>
  BY <1>1 DEF ZygoteCases
<1>2. ASSUME NEW y \in Zygote, ZygoteStarts(y) PROVE ZygoteCases(z)
  BY <1>0, <1>2 DEF ZygoteStarts, ZygoteCases, Live
<1>3. ASSUME NEW y \in Zygote, ServerForks(y) PROVE ZygoteCases(z)
  BY <1>0, <1>3 DEF ServerForks, ZygoteCases
<1>4. ASSUME NEW y \in Zygote, ZygoteDies(y) PROVE ZygoteCases(z)
  BY <1>0, <1>4 DEF ZygoteDies, ZygoteCases
<1>5. ASSUME NEW y \in Zygote, NEW code \in TraceExit, InjectorExits(y, code)
      PROVE  ZygoteCases(z)
  <2>1. y \in Live /\ zygote' = [zygote EXCEPT ![y] = "running"] /\ UNCHANGED server
    BY <1>5 DEF InjectorExits, InjectorsLive
  <2> QED BY <1>0, <2>1 DEF ZygoteCases, Live
<1>6. ASSUME NEW y \in Zygote, HandleExec(y) PROVE ZygoteCases(z)
  <2>1. /\ zygote[y] = "exec" /\ UNCHANGED server
        /\ \E s \in {"parked", "running"} : zygote' = [zygote EXCEPT ![y] = s]
    BY <1>6 DEF HandleExec
  <2> QED BY <1>0, <2>1 DEF ZygoteCases, Live
<1>7. CASE MonitorExits
  BY <1>0, <1>7 DEF MonitorExits, ZygoteCases, Live
<1>8. CASE Environment \/ DaemonServes
  BY <1>1, <1>2, <1>3, <1>4, <1>5, <1>8 DEF Environment, DaemonServes, SendCommand,
     EntryPings, EntryHooks, DaemonReportsError, DaemonDies, DaemonConfirms, DaemonRescans,
     DaemonReports
<1>9. CASE Monitor
  BY <1>1, <1>6, <1>7, <1>9 DEF Monitor, Dispatch, HandlerReturns, ReapDaemon, HandleStart,
     HandleStop, HandleExit, NotifyInjected, SetDaemonInfo, Rearm, RearmBegin, RefreshFails,
     RearmSkips, RearmAttaches, AttachReturns, AttachTimesOut, RearmAnswers
<1>10. CASE UNCHANGED vars
  BY <1>1, <1>10 DEF vars
<1> QED BY <1>8, <1>9, <1>10 DEF Next

(* What a step does to the locals of a rearm. *)
SameFound == job'.seen = job.seen /\ job'.server = job.server

JobCases ==
  \/ UNCHANGED job
  \/ job' = Idle
  \/ /\ job'.seen = Live /\ job'.todo = Live /\ job'.server = server
     /\ job'.target = {} /\ job'.armed = {}
     /\ UNCHANGED <<zygote, server, fired>>
  \/ /\ SameFound /\ job'.todo \subseteq job.todo
     /\ job'.target \cup job'.armed \subseteq job.target \cup job.armed
     /\ UNCHANGED <<zygote, server, fired>>
  \/ /\ SameFound /\ job'.todo \subseteq job.todo /\ job'.armed = job.armed
     /\ \E z \in job.todo : job'.target = {z} /\ (z \notin mapped \/ z \notin Live)
     /\ UNCHANGED <<zygote, server, fired>>

LEMMA JobMoves ==
  ASSUME TypeOK, [Next]_vars
  PROVE  JobCases
<1> USE DEF monitorVars, socketVars, daemonVars, zygoteVars
<1>0. job \in Job
  BY DEF TypeOK
<1>1. CASE UNCHANGED job
  BY <1>1 DEF JobCases
<1>2. CASE RearmBegin
  <2>1. CASE ~UNCHANGED job
    <3>1. PICK ahead \in SUBSET Process, pc \in {"refresh", "scan"} :
            job' = [Idle EXCEPT !.seen = Live, !.todo = Live, !.server = server,
                                !.ahead = ahead, !.pc = pc]
      BY <1>2, <2>1, RearmStarts
    <3>2. UNCHANGED <<zygote, server, fired>>
      BY <1>2 DEF RearmBegin
    <3> QED BY <3>1, <3>2 DEF Idle, JobCases
  <2> QED BY <1>1, <2>1
<1>3. ASSUME SameFound, job'.todo \subseteq job.todo,
             job'.target \cup job'.armed \subseteq job.target \cup job.armed,
             UNCHANGED <<zygote, server, fired>>
      PROVE  JobCases
  BY <1>3 DEF JobCases
<1>4. CASE DaemonRescans \/ DaemonReports \/ RefreshFails
  BY <1>0, <1>3, <1>4 DEF DaemonRescans, DaemonReports, RefreshFails, Job, SameFound
<1>5. ASSUME NEW z \in Zygote, RearmSkips(z) PROVE JobCases
  <2>1. UNCHANGED <<zygote, server, fired>>
    BY <1>5 DEF RearmSkips
  <2>2. CASE job' = [job EXCEPT !.todo = @ \ {z}, !.injecting = @ \cup {z}]
    BY <1>0, <1>3, <2>1, <2>2 DEF Job, SameFound
  <2>3. CASE job' = [job EXCEPT !.todo = @ \ {z}, !.hooked = @ \cup {z}]
    BY <1>0, <1>3, <2>1, <2>3 DEF Job, SameFound
  <2>4. CASE job' = [job EXCEPT !.todo = @ \ {z}, !.restart = @ \cup {z}]
    BY <1>0, <1>3, <2>1, <2>4 DEF Job, SameFound
  <2> QED BY <1>5, <2>2, <2>3, <2>4 DEF RearmSkips
<1>6. ASSUME NEW z \in Zygote, RearmAttaches(z) PROVE JobCases
  <2>1. UNCHANGED <<zygote, server, fired>> /\ z \in job.todo /\ (z \notin mapped \/ z \notin Live)
    BY <1>6 DEF RearmAttaches
  <2>2. CASE job' = [job EXCEPT !.todo = @ \ {z}, !.target = {z}, !.pc = "attach"]
    <3>1. SameFound /\ job'.todo \subseteq job.todo /\ job'.armed = job.armed /\ job'.target = {z}
      BY <1>0, <2>2 DEF Job, SameFound
    <3> QED BY <2>1, <3>1 DEF JobCases
  <2>3. CASE job' = [job EXCEPT !.todo = @ \ {z}, !.restart = @ \cup {z}]
    BY <1>0, <1>3, <2>1, <2>3 DEF Job, SameFound
  <2> QED BY <1>6, <2>2, <2>3 DEF RearmAttaches
<1>7. CASE AttachReturns \/ AttachTimesOut
  <2>1. UNCHANGED <<zygote, server, fired>>
    BY <1>7 DEF AttachReturns, AttachTimesOut
  <2>2. CASE job' = [job EXCEPT !.pc = "scan", !.target = {}, !.armed = @ \cup job.target]
    BY <1>0, <1>3, <2>1, <2>2 DEF Job, SameFound
  <2>3. CASE job' = [job EXCEPT !.pc = "scan", !.target = {}, !.restart = @ \cup job.target]
    BY <1>0, <1>3, <2>1, <2>3 DEF Job, SameFound
  <2> QED BY <1>7, <2>2, <2>3 DEF AttachReturns, AttachTimesOut
<1>8. CASE RearmAnswers
  BY <1>8 DEF RearmAnswers, JobCases
<1>9. CASE Environment \/ DaemonServes
  BY <1>1, <1>4, <1>9 DEF Environment, DaemonServes, SendCommand, ZygoteStarts, ServerForks,
     ZygoteDies, InjectorExits, EntryPings, EntryHooks, DaemonReportsError, DaemonDies,
     DaemonConfirms
<1>10. CASE Monitor
  BY <1>1, <1>2, <1>4, <1>5, <1>6, <1>7, <1>8, <1>10 DEF Monitor, Dispatch, HandlerReturns,
     MonitorExits, HandleExec, ReapDaemon, HandleStart, HandleStop, HandleExit, NotifyInjected,
     SetDaemonInfo, Rearm
<1>11. CASE UNCHANGED vars
  BY <1>1, <1>11 DEF vars
<1> QED BY <1>9, <1>10, <1>11 DEF Next

(* What a step does to the hooks and to the count of server_specialize. *)
FireCases ==
  \/ UNCHANGED <<mapped, hooks, fired>>
  \/ /\ UNCHANGED fired
     /\ \E z \in Zygote : mapped' = mapped \cup {z} /\ \A y \in Zygote \ {z} : hooks'[y] = hooks[y]
  \/ /\ UNCHANGED <<mapped, fired>>
     /\ \A z \in Zygote : hooks'[z] # "none" => hooks[z] # "none"
  \/ /\ UNCHANGED <<mapped, hooks>>
     /\ \E z \in Zygote \ server :
          /\ zygote[z] = "running"
          /\ fired' = [fired EXCEPT ![z] = IF hooks[z] = "installed" THEN 1 ELSE 0]
  \/ /\ UNCHANGED <<mapped, hooks, server>> /\ job.armed # {} /\ job' = Idle
     /\ \E z \in job.server \cap server, ran \in {0, 1} : fired' = [fired EXCEPT ![z] = @ + ran]

LEMMA FireMoves ==
  ASSUME TypeOK, [Next]_vars
  PROVE  FireCases
<1> USE DEF monitorVars, socketVars, daemonVars, zygoteVars
<1>1. CASE UNCHANGED <<mapped, hooks, fired>>
  BY <1>1 DEF FireCases
<1>2. ASSUME NEW z \in Zygote, NEW code \in TraceExit, InjectorExits(z, code) PROVE FireCases
  BY <1>2 DEF InjectorExits, FireCases, TypeOK, Hooks
<1>3. ASSUME NEW z \in Zygote, ServerForks(z) PROVE FireCases
  BY <1>3 DEF ServerForks, FireCases
<1>4. CASE RearmAnswers
  BY <1>1, <1>4 DEF RearmAnswers, FiresServer, FireCases
<1>5. ASSUME NEW z \in Zygote, EntryPings(z) \/ EntryHooks(z) PROVE FireCases
  BY <1>5 DEF EntryPings, EntryHooks, FireCases, TypeOK, Hooks
<1>6. CASE Environment \/ DaemonServes
  BY <1>1, <1>2, <1>3, <1>6, <1>5 DEF Environment, DaemonServes, SendCommand, ZygoteStarts,
     ZygoteDies, DaemonReportsError, DaemonDies, DaemonConfirms, DaemonRescans, DaemonReports
<1>7. CASE Monitor
  BY <1>1, <1>4, <1>7 DEF Monitor, Dispatch, HandlerReturns, MonitorExits, HandleExec,
     ReapDaemon, HandleStart, HandleStop, HandleExit, NotifyInjected, SetDaemonInfo, Rearm,
     RearmBegin, RefreshFails, RearmSkips, RearmAttaches, AttachReturns, AttachTimesOut
<1>8. CASE UNCHANGED vars
  BY <1>1, <1>8 DEF vars
<1> QED BY <1>6, <1>7, <1>8 DEF Next

LEMMA InjectorsLiveStep == TypeOK /\ InjectorsLive /\ [Next]_vars => InjectorsLive'
<1> SUFFICES ASSUME TypeOK, InjectorsLive, [Next]_vars PROVE InjectorsLive'
  OBVIOUS
<1> USE DEF monitorVars, socketVars, daemonVars, zygoteVars
<1>0. /\ zygote \in [Zygote -> {"none", "exec", "parked", "running", "gone"}]
      /\ injector \in [Zygote -> {"none", "spawn", "live"}]
  BY DEF TypeOK
<1>1. ASSUME \A z \in Zygote : injector'[z] # "none" => injector[z] # "none" \/ z \in Live,
             \A z \in Zygote : z \in Live /\ injector'[z] # "none" => z \in Live'
      PROVE  InjectorsLive'
  BY <1>1 DEF InjectorsLive
<1>2. CASE UNCHANGED <<zygote, injector>>
  BY <1>1, <1>2 DEF Live
<1>3. ASSUME NEW z \in Zygote, ZygoteStarts(z) PROVE InjectorsLive'
  BY <1>0, <1>1, <1>3 DEF ZygoteStarts, Live
<1>4. ASSUME NEW z \in Zygote, ZygoteDies(z) PROVE InjectorsLive'
  BY <1>0, <1>1, <1>4 DEF ZygoteDies, Live
<1>5. ASSUME NEW z \in Zygote, NEW code \in TraceExit, InjectorExits(z, code) PROVE InjectorsLive'
  <2>1. /\ zygote' = [zygote EXCEPT ![z] = "running"]
        /\ injector' = [injector EXCEPT ![z] = "none"]
    BY <1>5 DEF InjectorExits
  <2> QED BY <1>0, <1>1, <2>1 DEF Live
<1>6. ASSUME NEW z \in Zygote, HandleExec(z) PROVE InjectorsLive'
  <2>1. zygote[z] = "exec" /\ \E s \in {"parked", "running"} : zygote' = [zygote EXCEPT ![z] = s]
    BY <1>6 DEF HandleExec
  <2>2. UNCHANGED injector \/ injector' = [injector EXCEPT ![z] = "spawn"]
    BY <1>6 DEF HandleExec
  <2> QED BY <1>0, <1>1, <2>1, <2>2 DEF Live
<1>7. CASE MonitorExits
  BY <1>0, <1>1, <1>7 DEF MonitorExits, Live
<1>8. ASSUME NEW z \in Zygote, RearmAttaches(z) PROVE InjectorsLive'
  BY <1>0, <1>1, <1>8 DEF RearmAttaches, Live
<1>9. CASE Environment \/ DaemonServes
  BY <1>2, <1>3, <1>4, <1>5, <1>9 DEF Environment, DaemonServes, SendCommand, ServerForks,
     EntryPings, EntryHooks, DaemonReportsError, DaemonDies, DaemonConfirms, DaemonRescans,
     DaemonReports
<1>10. CASE Monitor
  BY <1>2, <1>6, <1>7, <1>8, <1>10 DEF Monitor, Dispatch, HandlerReturns, ReapDaemon,
     HandleStart, HandleStop, HandleExit, NotifyInjected, SetDaemonInfo, Rearm, RearmBegin,
     RefreshFails, RearmSkips, AttachReturns, AttachTimesOut, RearmAnswers
<1>11. CASE UNCHANGED vars
  BY <1>2, <1>11 DEF vars
<1> QED BY <1>9, <1>10, <1>11 DEF Next

(* Where one zygote runs at a time, a rearm looks at one. *)
LEMMA FireStep == MaxLive = 1 /\ TypeOK /\ HookInv /\ FireInv /\ [Next]_vars => FireInv'
<1> SUFFICES ASSUME MaxLive = 1, TypeOK, HookInv, FireInv, [Next]_vars PROVE FireInv'
  OBVIOUS
<1>0. /\ OneZygote /\ InjectorsLive /\ MappedFirst /\ ServersLive /\ JobIsNarrow
      /\ BareIsUnfired /\ ServerFiredOnce /\ JobIsTrue
  BY DEF FireInv, HookInv
<1>1. /\ zygote \in [Zygote -> {"none", "exec", "parked", "running", "gone"}]
      /\ server \subseteq Zygote /\ fired \in [Zygote -> Nat] /\ mapped \subseteq Zygote
      /\ job \in Job /\ hooks \in [Zygote -> Hooks]
  BY DEF TypeOK
<1>2. /\ job.server \subseteq Zygote /\ job.seen \subseteq Zygote /\ job.todo \subseteq Zygote
      /\ job.armed \subseteq Zygote /\ job.target \subseteq Zygote
  BY <1>1 DEF Job
<1>3. \A z \in Zygote : ZygoteCases(z)
  BY <1>0, ZygoteStep
<1>4. OneZygote'
  <2> SUFFICES ASSUME NEW y \in Zygote, NEW z \in Zygote, y \in Live', z \in Live' PROVE y = z
    BY DEF OneZygote
  <2>1. ASSUME NEW x \in Zygote, zygote[x] = "none", Cardinality(Live) < MaxLive,
               \A v \in Zygote \ {x} : zygote'[v] = zygote[v]
        PROVE  y = z
    <3>1. IsFiniteSet(Live) /\ Live \subseteq Zygote
      BY FS_Subset DEF Live
    <3>2. Live = {}
      BY <2>1, <3>1, FS_CardinalityType, FS_EmptySet
    <3> QED BY <2>1, <3>2 DEF Live
  <2>2. CASE y \in Live /\ z \in Live
    BY <1>0, <2>2 DEF OneZygote
  <2> QED BY <1>3, <2>1, <2>2 DEF ZygoteCases, Live
<1>5. InjectorsLive'
  BY <1>0, InjectorsLiveStep
(* A rearm that attaches to system_server hooked its zygote itself. *)
<1>6. ASSUME NEW z \in job.server, job.armed # {}
      PROVE  z \in job.armed /\ hooks[z] # "none"
  BY <1>0, <1>2, <1>6 DEF JobIsNarrow, JobIsTrue, Returned
<1>7. ASSUME NEW z \in job.server \cap server, job.armed # {} PROVE fired[z] = 0
  <2>1. zygote[z] # "gone"
    BY <1>0, <1>7 DEF ServersLive, Live
  <2> QED BY <1>0, <1>6, <1>7, <2>1 DEF BareIsUnfired
<1>8. MappedFirst'
  <2>1. CASE UNCHANGED <<mapped, hooks, fired>>
    BY <1>0, <2>1 DEF MappedFirst
  <2>2. ASSUME UNCHANGED fired, NEW z \in Zygote, mapped' = mapped \cup {z},
               \A y \in Zygote \ {z} : hooks'[y] = hooks[y]
        PROVE  MappedFirst'
    BY <1>0, <2>2 DEF MappedFirst
  <2>3. ASSUME UNCHANGED <<mapped, hooks>>, NEW z \in Zygote,
               fired' = [fired EXCEPT ![z] = IF hooks[z] = "installed" THEN 1 ELSE 0]
        PROVE  MappedFirst'
    BY <1>0, <1>1, <2>3 DEF MappedFirst
  <2>4. ASSUME UNCHANGED <<mapped, fired>>,
               \A z \in Zygote : hooks'[z] # "none" => hooks[z] # "none"
        PROVE  MappedFirst'
    BY <1>0, <2>4 DEF MappedFirst
  <2>5. ASSUME UNCHANGED <<mapped, hooks>>, job.armed # {}, NEW z \in job.server \cap server,
               NEW ran \in {0, 1}, fired' = [fired EXCEPT ![z] = @ + ran]
        PROVE  MappedFirst'
    <3>1. z \in mapped /\ z \in Zygote
      BY <1>0, <1>2, <1>6, <2>5 DEF MappedFirst
    <3> QED BY <1>0, <1>1, <2>5, <3>1 DEF MappedFirst
  <2> QED BY <2>1, <2>2, <2>3, <2>4, <2>5, FireMoves DEF FireCases
<1>9. ServerFiredOnce'
  <2>1. CASE UNCHANGED fired
    BY <1>0, <2>1 DEF ServerFiredOnce
  <2>2. ASSUME NEW z \in Zygote, fired' = [fired EXCEPT ![z] = IF hooks[z] = "installed" THEN 1 ELSE 0]
        PROVE  ServerFiredOnce'
    BY <1>0, <1>1, <2>2 DEF ServerFiredOnce
  <2>3. ASSUME job.armed # {}, NEW z \in job.server \cap server, NEW ran \in {0, 1},
               fired' = [fired EXCEPT ![z] = @ + ran]
        PROVE  ServerFiredOnce'
    BY <1>0, <1>1, <1>2, <1>7, <2>3 DEF ServerFiredOnce
  <2> QED BY <2>1, <2>2, <2>3, FireMoves DEF FireCases
<1>10. ServersLive'
  <2> SUFFICES ASSUME NEW z \in server' PROVE z \in Live'
    BY DEF ServersLive
  <2>0. z \in Zygote
    BY TypeCorrectStep DEF TypeOK
  <2>1. CASE z \in server
    <3>1. z \in Live
      BY <1>0, <2>1 DEF ServersLive
    <3> QED BY <1>3, <2>0, <3>1 DEF ZygoteCases, Live
  <2>2. CASE z \notin server
    <3>1. zygote'[z] = "running"
      BY <1>3, <2>0, <2>2 DEF ZygoteCases
    <3> QED BY <2>0, <3>1 DEF Live
  <2> QED BY <2>1, <2>2
<1>11. ASSUME NEW z \in Zygote
       PROVE  /\ zygote[z] # "none" => zygote'[z] # "none"
              /\ z \in server \/ zygote[z] = "gone" => z \in server' \/ zygote'[z] = "gone"
              /\ zygote[z] = "gone" => zygote'[z] = "gone"
  BY <1>3 DEF ZygoteCases, Live
<1>12. JobIsNarrow'
  <2>1. CASE UNCHANGED job
    BY <1>0, <1>2, <1>11, <2>1 DEF JobIsNarrow
  <2>2. CASE job' = Idle
    BY <2>2 DEF JobIsNarrow, Idle
  <2>3. CASE /\ job'.seen = Live /\ job'.todo = Live /\ job'.server = server
             /\ job'.target = {} /\ job'.armed = {} /\ UNCHANGED <<zygote, server, fired>>
    <3>1. server \subseteq Live /\ \A z \in Live : z \in Zygote /\ zygote[z] # "none"
      BY <1>0 DEF ServersLive, Live
    <3> QED BY <1>0, <2>3, <3>1 DEF JobIsNarrow, OneZygote
  <2>4. CASE /\ SameFound /\ job'.todo \subseteq job.todo
             /\ job'.target \cup job'.armed \subseteq job.target \cup job.armed \cup job.todo
             /\ UNCHANGED <<zygote, server, fired>>
    BY <1>0, <2>4 DEF JobIsNarrow, SameFound
  <2> QED BY <2>1, <2>2, <2>3, <2>4, JobMoves DEF JobCases
<1>13. BareIsUnfired'
  <2>1. ASSUME UNCHANGED job, NEW z \in job.server, z \in job.target \cup job.armed
        PROVE  fired'[z] = 0 \/ zygote'[z] = "gone"
    <3>1. fired[z] = 0 \/ zygote[z] = "gone"
      BY <1>0, <2>1 DEF BareIsUnfired
    <3>2. CASE zygote[z] = "gone"
      BY <1>2, <1>11, <3>2
    <3>3. CASE zygote[z] # "gone" /\ fired[z] = 0
      <4>1. z \in server /\ z \in Zygote
        BY <1>0, <1>2, <3>3 DEF JobIsNarrow
      <4>2. CASE job' = Idle
        BY <2>1, <4>2 DEF Idle
      <4>3. ASSUME NEW y \in Zygote \ server,
                   fired' = [fired EXCEPT ![y] = IF hooks[y] = "installed" THEN 1 ELSE 0]
            PROVE  fired'[z] = 0
        BY <1>1, <3>3, <4>1, <4>3
      <4> QED BY <3>3, <4>2, <4>3, FireMoves DEF FireCases
    <3> QED BY <3>1, <3>2, <3>3
  <2>2. CASE job' = Idle
    BY <2>2 DEF BareIsUnfired, Idle
  <2>3. CASE job'.target = {} /\ job'.armed = {}
    BY <2>3 DEF BareIsUnfired
  <2>4. CASE /\ SameFound /\ job'.target \cup job'.armed \subseteq job.target \cup job.armed
             /\ UNCHANGED <<zygote, server, fired>>
    BY <1>0, <2>4 DEF BareIsUnfired, SameFound
  <2>5. ASSUME SameFound, job'.armed = job.armed, UNCHANGED <<zygote, server, fired>>,
               NEW z \in job.todo, job'.target = {z}, z \notin mapped \/ z \notin Live
        PROVE  BareIsUnfired'
    <3>1. z \in Zygote /\ zygote[z] # "none"
      BY <1>0, <1>2, <2>5 DEF JobIsNarrow
    <3>2. fired[z] = 0 \/ zygote[z] = "gone"
      BY <1>0, <1>1, <2>5, <3>1 DEF MappedFirst, Live
    <3> QED BY <1>0, <2>5, <3>2 DEF BareIsUnfired, SameFound
  <2>6. CASE UNCHANGED job
    BY <2>1, <2>6 DEF BareIsUnfired
  <2> QED BY <2>2, <2>3, <2>4, <2>5, <2>6, JobMoves DEF JobCases
<1> QED BY <1>4, <1>5, <1>8, <1>9, <1>10, <1>12, <1>13 DEF FireInv

(***************************************************************************)
(* Where one zygote of an ABI runs at a time, no system_server runs        *)
(* server_specialize twice, whatever mixture of hooked starts, rearms,     *)
(* deaths and injectors given up on comes before (rearm, "firing it twice  *)
(* re-enters every module's lifecycle").                                   *)
(***************************************************************************)
THEOREM ServerFiresOnce == MaxLive = 1 /\ Spec => []ServerFiredOnce
<1> SUFFICES ASSUME MaxLive = 1 PROVE Spec => []ServerFiredOnce
  OBVIOUS
<1>1. Init => FireInv
  <2> SUFFICES ASSUME Init PROVE FireInv
    OBVIOUS
  <2>1. PICK up \in SUBSET Zygote :
          /\ Cardinality(up) <= MaxLive
          /\ zygote = [z \in Zygote |-> IF z \in up THEN "running" ELSE "none"]
          /\ server \in SUBSET up
    BY DEF Init
  <2>2. Live = up
    BY <2>1 DEF Live
  <2>3. IsFiniteSet(up)
    BY FS_Subset
  <2>4. OneZygote
    BY <2>1, <2>2, <2>3, AtMostOneElement DEF OneZygote
  <2>5. ServersLive /\ InjectorsLive
    BY <2>1, <2>2 DEF Init, ServersLive, InjectorsLive
  <2>6. MappedFirst /\ ServerFiredOnce
    BY DEF Init, MappedFirst, ServerFiredOnce
  <2>7. JobIsNarrow /\ BareIsUnfired
    BY DEF Init, Idle, JobIsNarrow, BareIsUnfired
  <2> QED BY <2>4, <2>5, <2>6, <2>7 DEF FireInv
<1>2. TypeOK /\ HookInv /\ FireInv /\ [Next]_vars => FireInv'
  BY FireStep
<1>3. FireInv => ServerFiredOnce
  BY DEF FireInv
<1> QED BY <1>1, <1>2, <1>3, HookInvariance, TypeCorrect, PTL DEF Spec
=============================================================================
