-------------------------- MODULE InitTracerProofs --------------------------
(***************************************************************************)
(* Proofs about InitTracer, for every set of pids, every crash-loop limit, *)
(* every number of commands and, where a theorem does not say otherwise,   *)
(* every combination of faults.                                            *)
(***************************************************************************)
EXTENDS InitTracer, TLAPS

USE PidsAssumption, RetryCountAssumption, MaxCommandsAssumption,
    FaultsAssumption, PidReuseAssumption

(* A queued datagram is a datagram, and so is what is left behind it. *)
LEMMA QueueTyping ==
  ASSUME NEW q \in Seq(Datagram)
  PROVE  /\ \A m \in Datagram : Append(q, m) \in Seq(Datagram)
         /\ q # <<>> => Head(q) \in Datagram /\ Tail(q) \in Seq(Datagram)
         /\ Len(q) \in Nat
         /\ \A m \in Datagram : Len(Append(q, m)) = Len(q) + 1
         /\ q # <<>> => Len(Tail(q)) = Len(q) - 1
  OBVIOUS

(***************************************************************************)
(* How far the crash counter can be past its limit: one more for every     *)
(* command that was handled, the last of which is used up once tracing     *)
(* stops again.                                                            *)
(***************************************************************************)
Handled == sent - Len(inbox)

CountInv ==
  /\ Len(inbox) <= sent
  /\ tracing = "TRACING" => count < RetryCount + Handled
  /\ tracing # "TRACING" => count <= RetryCount + Handled

(* What crash counting computes is one more at most, and positive. *)
LEMMA CountTyping ==
  ASSUME count \in Nat, NEW w \in BOOLEAN
  PROVE  NextCount(w) \in 1..(count + 1)
  BY DEF NextCount

(* A target that was prepared for leaves a counted start and a daemon. *)
LEMMA PreparedTyping ==
  ASSUME TypeOK, Prepared
  PROVE  /\ count' \in 0..(RetryCount - 1)
         /\ daemon' \in {"none", "alive", "zombie"} /\ daemonRunning' \in BOOLEAN
<1>1. PICK w \in BOOLEAN : /\ count' = NextCount(w) /\ NextCount(w) < RetryCount
                          /\ EnsureDaemon(TRUE)
  BY DEF Prepared
<1>2. count' \in 0..(RetryCount - 1)
  BY <1>1, CountTyping DEF TypeOK
<1>3. daemon' \in {"none", "alive", "zombie"} /\ daemonRunning' \in BOOLEAN
  BY <1>1 DEF EnsureDaemon, TypeOK, daemonVars
<1> QED
  BY <1>2, <1>3

(* Every action of the device and of the kernel keeps the types. *)
LEMMA DeviceTyping == TypeOK /\ (Device \/ Kernel) => TypeOK'
<1> SUFFICES ASSUME TypeOK, Device \/ Kernel PROVE TypeOK'
  OBVIOUS
<1> USE DEF TypeOK, monitorVars, daemonVars, initVars, procVars, socketVars,
        Kind, Program, Stop, PosixStop, Datagram, Command
<1>1. ASSUME NEW c \in Command, SendCommand(c) PROVE TypeOK'
  BY <1>1, QueueTyping DEF SendCommand
<1>2. ASSUME NEW p \in Pid, InitForks(p) PROVE TypeOK'
  BY <1>2 DEF InitForks, Born
<1>3. ASSUME NEW s \in Pid, NEW p \in Pid, StubForks(s, p) PROVE TypeOK'
  BY <1>3 DEF StubForks, Born
<1>4. ASSUME NEW p \in Pid, NEW program \in Program, Executes(p, program)
      PROVE TypeOK'
  BY <1>4 DEF Executes
<1>5. ASSUME NEW p \in Pid, NEW sig \in PosixStop, Signalled(p, sig)
      PROVE TypeOK'
  BY <1>5 DEF Signalled
<1>6. ASSUME NEW sig \in PosixStop, InitSignalled(sig) PROVE TypeOK'
  BY <1>6 DEF InitSignalled
<1>7. ASSUME NEW p \in Pid, Dies(p) PROVE TypeOK'
  BY <1>7 DEF Dies
<1>8. CASE DaemonReportsError
  BY <1>8, QueueTyping DEF DaemonReportsError
<1>9. CASE DaemonDies
  BY <1>9 DEF DaemonDies
<1>10. CASE InitTraps
  BY <1>10 DEF InitTraps
<1>11. ASSUME NEW p \in Pid, InjectorFinishes(p) PROVE TypeOK'
  BY <1>11 DEF InjectorFinishes
<1> QED
  BY <1>1, <1>2, <1>3, <1>4, <1>5, <1>6, <1>7, <1>8, <1>9, <1>10, <1>11
  DEF Device, Kernel

(* So does every step of the monitor. *)
LEMMA MonitorTyping == TypeOK /\ CountInv /\ Monitor => TypeOK'
<1> SUFFICES ASSUME TypeOK, CountInv, Monitor PROVE TypeOK'
  OBVIOUS
<1> USE DEF TypeOK, monitorVars, daemonVars, initVars, procVars, socketVars,
        Kind, Program, Stop, PosixStop, TracingState
<1>1. ASSUME NEW h \in {"socket", "sigchld"}, Dispatch(h) PROVE TypeOK'
  BY <1>1 DEF Dispatch
<1>2. CASE HandlerReturns
  BY <1>2 DEF HandlerReturns
<1>3. CASE MonitorExits
  BY <1>3 DEF MonitorExits
<1>4. CASE HandleDatagram
  <2>1. inbox' \in Seq(Datagram)
    BY <1>4, QueueTyping DEF HandleDatagram
  <2>2. /\ tracing' \in TracingState /\ running' \in BOOLEAN
        /\ initTraced' \in BOOLEAN /\ initTrap' \in BOOLEAN
        /\ initStop' \in Stop \cup {"none"}
        /\ daemon' \in {"none", "alive", "zombie"} /\ daemonRunning' \in BOOLEAN
    BY <1>4, ZenonT(40) DEF HandleDatagram, RequestStart, RequestStop, RequestExit,
                RequestRearm, EnsureDaemon, Seize
  <2> QED
    BY <1>4, <2>1, <2>2 DEF HandleDatagram
<1>5. CASE HandleInitEvent
  BY <1>5 DEF HandleInitEvent
<1>6. CASE HandleDaemonExit
  BY <1>6 DEF HandleDaemonExit
<1>7. ASSUME NEW p \in Pid, HandleChild(p) PROVE TypeOK'
  <2>1. CASE HandleStubEvent(p)
    BY <2>1 DEF HandleStubEvent, Resume
  <2>2. CASE HandleNewProcess(p)
    BY <2>2 DEF HandleNewProcess, Resume
  <2>3. CASE HandleCandidate(p)
    BY <2>3 DEF HandleCandidate, Resume
  <2>4. CASE PromoteStub(p)
    BY <2>4 DEF PromoteStub, Resume
  <2>5. CASE IgnoreProgram(p)
    BY <2>5 DEF IgnoreProgram, Detach, Resume
  <2>6. CASE RefuseInjection(p)
    <3>1. PICK w \in BOOLEAN : count' = NextCount(w)
      BY <2>6 DEF RefuseInjection
    <3>2. count' \in 0..(RetryCount + sent) /\ sent' = sent
      <4>1. count < RetryCount + sent - Len(inbox) /\ Len(inbox) \in Nat
        BY <2>6, QueueTyping DEF RefuseInjection, Target, CountInv, Handled
      <4>2. count' \in 1..(count + 1)
        BY <3>1, CountTyping
      <4>3. sent' = sent
        BY <2>6 DEF RefuseInjection
      <4> QED
        BY <4>1, <4>2, <4>3
    <3>3. daemon' \in {"none", "alive", "zombie"} /\ daemonRunning' \in BOOLEAN
      BY <2>6 DEF RefuseInjection, EnsureDaemon
    <3> QED
      BY <2>6, <3>2, <3>3 DEF RefuseInjection, RequestStop, Detach, Resume
  <2>7. CASE HandOver(p)
    BY <2>7, PreparedTyping DEF HandOver, Resume
  <2>8. CASE HandOverFails(p)
    BY <2>8, PreparedTyping DEF HandOverFails, Detach, Resume
  <2> QED
    BY <1>7, <2>1, <2>2, <2>3, <2>4, <2>5, <2>6, <2>7, <2>8 DEF HandleChild
<1> QED
  BY <1>1, <1>2, <1>3, <1>4, <1>5, <1>6, <1>7 DEF Monitor

(* A command handled, or a start refused, moves the counter's bound along. *)
LEMMA CountStep == TypeOK /\ CountInv /\ [Next]_vars => CountInv'
<1> SUFFICES ASSUME TypeOK, CountInv, [Next]_vars PROVE CountInv'
  OBVIOUS
<1> USE DEF CountInv, Handled
<1>0. Len(inbox) \in Nat /\ sent \in Nat /\ count \in Nat
  BY QueueTyping DEF TypeOK
<1>1. ASSUME UNCHANGED <<tracing, count, inbox, sent>> PROVE CountInv'
  BY <1>1
<1>2. ASSUME UNCHANGED <<tracing, count>>, sent' = sent + 1, NEW m \in Datagram,
             inbox' = Append(inbox, m)
      PROVE  CountInv'
  <2>1. Len(inbox') = Len(inbox) + 1
    BY <1>2, QueueTyping DEF TypeOK
  <2> QED
    BY <1>0, <1>2, <2>1
<1>3. CASE HandleDatagram
  <2>1. Len(inbox') = Len(inbox) - 1 /\ UNCHANGED <<count, sent>>
    BY <1>3, QueueTyping DEF HandleDatagram, TypeOK
  <2>2. count < RetryCount + sent' - Len(inbox') /\ Len(inbox') <= sent'
    BY <1>0, <2>1
  <2> QED
    BY <1>0, <2>1, <2>2
<1>4. ASSUME NEW p \in Pid, RefuseInjection(p) PROVE CountInv'
  <2>1. PICK w \in BOOLEAN : count' = NextCount(w)
    BY <1>4 DEF RefuseInjection
  <2>2. count' \in 1..(count + 1)
    BY <1>0, <2>1, CountTyping
  <2>3. tracing = "TRACING" /\ tracing' = "STOPPING" /\ UNCHANGED <<inbox, sent>>
    BY <1>4 DEF RefuseInjection, Target, RequestStop, socketVars
  <2> QED
    BY <1>0, <2>2, <2>3
<1>5. ASSUME NEW p \in Pid, HandOver(p) \/ HandOverFails(p) PROVE CountInv'
  <2>1. count' \in 0..(RetryCount - 1)
    BY <1>5, PreparedTyping DEF HandOver, HandOverFails
  <2>2. UNCHANGED <<tracing, inbox, sent>>
    BY <1>5 DEF HandOver, HandOverFails, socketVars
  <2> QED
    BY <1>0, <2>1, <2>2
<1>6. CASE HandleInitEvent
  BY <1>0, <1>6 DEF HandleInitEvent, socketVars
<1>7. CASE Device \/ Kernel
  BY <1>1, <1>2, <1>7 DEF Device, Kernel, SendCommand, InitForks, StubForks, Executes,
     Signalled, InitSignalled, Dies, DaemonReportsError, DaemonDies, InitTraps,
     InjectorFinishes, monitorVars, socketVars, Datagram
<1>8. ASSUME NEW p \in Pid, HandleChild(p) PROVE CountInv'
  BY <1>1, <1>4, <1>5, <1>8 DEF HandleChild, HandleStubEvent, HandleNewProcess,
     HandleCandidate, PromoteStub, IgnoreProgram, socketVars
<1>9. CASE Monitor
  BY <1>1, <1>3, <1>6, <1>8, <1>9 DEF Monitor, Dispatch, HandlerReturns, MonitorExits,
     HandleDaemonExit, monitorVars, socketVars
<1>10. CASE UNCHANGED vars
  BY <1>1, <1>10 DEF vars, monitorVars, socketVars
<1> QED
  BY <1>7, <1>9, <1>10 DEF Next

(***************************************************************************)
(* Type correctness: the monitor's state and the kernel's view of the      *)
(* processes stay in range under any interleaving, and a crash loop does   *)
(* not count on by itself: every start past the limit cost a command.      *)
(***************************************************************************)
THEOREM TypeCorrect == Spec => []TypeOK
<1>1. Init => TypeOK
  <2> SUFFICES ASSUME Init PROVE TypeOK
    OBVIOUS
  <2>1. inbox \in Seq(Datagram) /\ sent \in Nat
    BY DEF Init
  <2>2. count \in 0..(RetryCount + sent)
    BY DEF Init
  <2>3. kind \in [Pid -> Kind] /\ stop \in [Pid -> Stop \cup {"none"}]
    BY DEF Init, Kind
  <2> QED
    BY <2>1, <2>2, <2>3 DEF Init, TypeOK, TracingState
<1>2. TypeOK /\ CountInv /\ [Next]_vars => TypeOK'
  <2>1. CASE UNCHANGED vars
    BY <2>1 DEF TypeOK, vars, monitorVars, daemonVars, initVars, procVars, socketVars
  <2> QED
    BY <2>1, DeviceTyping, MonitorTyping DEF Next
<1>3. Init => CountInv
  BY DEF Init, CountInv, Handled
<1> QED
  BY <1>1, <1>2, <1>3, CountStep, PTL DEF Spec

-----------------------------------------------------------------------------
(***************************************************************************)
(* init and the tracing state.  StopUnderway is not inductive alone: that  *)
(* an interrupt takes hold at all rests on init being seized, so the two   *)
(* are carried together.  Only the second needs that no interrupt comes in *)
(* the middle of a fork.                                                   *)
(***************************************************************************)
StopInv == SeizeMatchesState /\ ("midfork" \notin Faults => StopUnderway)

(* What the handlers that do not touch tracing may still do to init. *)
LEMMA StopInvUntouched ==
  ASSUME StopInv, UNCHANGED <<tracing, handler, initVars>>
  PROVE  StopInv'
  BY DEF StopInv, SeizeMatchesState, StopUnderway, initVars

LEMMA StopInvDevice == StopInv /\ TypeOK /\ (Device \/ Kernel) => StopInv'
<1> SUFFICES ASSUME StopInv, TypeOK, Device \/ Kernel PROVE StopInv'
  OBVIOUS
<1>1. ASSUME NEW p \in Pid, InitForks(p) PROVE StopInv'
  BY <1>1 DEF InitForks, StopInv, SeizeMatchesState, StopUnderway, monitorVars
<1>2. ASSUME NEW sig \in PosixStop, InitSignalled(sig) PROVE StopInv'
  BY <1>2 DEF InitSignalled, StopInv, SeizeMatchesState, StopUnderway, monitorVars
<1>3. CASE InitTraps
  BY <1>3 DEF InitTraps, StopInv, SeizeMatchesState, StopUnderway, monitorVars
<1>4. ASSUME UNCHANGED <<monitorVars, initVars>> PROVE StopInv'
  BY <1>4, StopInvUntouched DEF monitorVars
<1>5. \/ \E p \in Pid : InitForks(p)
      \/ \E sig \in PosixStop : InitSignalled(sig)
      \/ InitTraps
      \/ UNCHANGED <<monitorVars, initVars>>
  BY DEF Device, Kernel, SendCommand, StubForks, Executes, Signalled, Dies,
         DaemonReportsError, DaemonDies, InjectorFinishes
<1> QED
  BY <1>1, <1>2, <1>3, <1>4, <1>5

LEMMA StopInvDatagram ==
  ASSUME "reseize" \notin Faults, StopInv, TypeOK, HandleDatagram
  PROVE  StopInv'
<1> USE DEF StopInv, SeizeMatchesState, StopUnderway, initVars, TypeOK, TracingState
<1>1. handler' = handler /\ handler = "socket"
  BY DEF HandleDatagram
<1>2. CASE RequestStart
  BY <1>1, <1>2 DEF RequestStart, Seize
<1>3. CASE RequestStop
  BY <1>1, <1>3 DEF RequestStop
<1>4. CASE RequestExit
  BY <1>1, <1>4 DEF RequestExit
<1>5. CASE RequestRearm
  <2>1. CASE RequestStart
    BY <1>2, <2>1
  <2>2. CASE tracing = "EXITING" /\ UNCHANGED <<tracing, initVars>>
    BY <1>1, <2>2
  <2>3. CASE /\ tracing # "EXITING" /\ tracing' = "STOPPING" /\ Seize
             /\ initTrap' = initTraced' /\ UNCHANGED initStop
    BY <1>1, <2>3 DEF Seize
  <2> QED
    BY <1>5, <2>1, <2>2, <2>3 DEF RequestRearm
<1>6. CASE UNCHANGED <<tracing, initVars>>
  BY <1>1, <1>6
<1> QED
  BY <1>2, <1>3, <1>4, <1>5, <1>6 DEF HandleDatagram

LEMMA StopInvMonitor ==
  ASSUME "reseize" \notin Faults, StopInv, TypeOK, Monitor
  PROVE  StopInv'
<1>1. CASE HandleDatagram
  BY <1>1, StopInvDatagram
<1>2. CASE MonitorExits
  BY <1>2 DEF MonitorExits, StopInv, SeizeMatchesState, StopUnderway
<1>3. CASE HandleInitEvent
  BY <1>3 DEF HandleInitEvent, StopInv, SeizeMatchesState, StopUnderway
<1>4. ASSUME NEW h \in {"socket", "sigchld"}, Dispatch(h) \/ HandlerReturns
      PROVE  StopInv'
  BY <1>4 DEF Dispatch, HandlerReturns, Drained, StopInv, SeizeMatchesState,
              StopUnderway, initVars
<1>5. ASSUME NEW p \in Pid, RefuseInjection(p) PROVE StopInv'
  BY <1>5 DEF RefuseInjection, RequestStop, StopInv, SeizeMatchesState,
              StopUnderway, initVars
<1>6. ASSUME NEW p \in Pid, HandleChild(p), ~RefuseInjection(p) PROVE StopInv'
  <2>1. UNCHANGED <<tracing, handler, initVars>>
    BY <1>6 DEF HandleChild, HandleStubEvent, HandleNewProcess, HandleCandidate,
                PromoteStub, IgnoreProgram, HandOver, HandOverFails
  <2> QED
    BY <2>1, StopInvUntouched
<1>7. CASE HandleDaemonExit
  BY <1>7, StopInvUntouched DEF HandleDaemonExit, monitorVars
<1> QED
  BY <1>1, <1>2, <1>3, <1>4, <1>5, <1>6, <1>7 DEF Monitor

(* The inductive invariant, as long as nobody else takes init over. *)
THEOREM StopInvariance ==
  ASSUME "reseize" \notin Faults PROVE Spec => []StopInv
<1>1. Init => StopInv
  BY DEF Init, StopInv, SeizeMatchesState, StopUnderway
<1>2. TypeOK /\ StopInv /\ [Next]_vars => StopInv'
  <2>1. ASSUME StopInv, UNCHANGED vars PROVE StopInv'
    BY <2>1, StopInvUntouched DEF vars, monitorVars
  <2> QED
    BY <2>1, StopInvDevice, StopInvMonitor DEF Next
<1> QED
  BY <1>1, <1>2, TypeCorrect, PTL DEF Spec

(***************************************************************************)
(* No interleaving of starts, stops and rearms with init's own stops loses *)
(* a stop request: request_stop's interrupt, or the EVENT_STOP it causes,  *)
(* is outstanding for as long as the monitor is in STOPPING.  Where an     *)
(* interrupt may meet a fork half done this fails, and nothing like it is  *)
(* claimed.                                                                *)
(***************************************************************************)
THEOREM StopNeverLost ==
  ASSUME "reseize" \notin Faults, "midfork" \notin Faults
  PROVE  Spec => []StopUnderway
<1>1. StopInv => StopUnderway
  BY DEF StopInv
<1> QED
  BY <1>1, StopInvariance, PTL

(* What the monitor reports about tracing is what the kernel has for init. *)
THEOREM StateMatchesKernel ==
  ASSUME "reseize" \notin Faults PROVE Spec => []SeizeMatchesState
<1>1. StopInv => SeizeMatchesState
  BY DEF StopInv
<1> QED
  BY <1>1, StopInvariance, PTL

-----------------------------------------------------------------------------
(***************************************************************************)
(* The tracees.  A pid that does not exist is traced by nobody: without    *)
(* that a reused pid could start out as a tracee that was never seen.      *)
(***************************************************************************)
TraceesExist == \A p \in traced : kind[p] \notin {"unused", "gone"}

TraceInv == TraceesAreKnown /\ TraceesExist

LEMMA TraceInvStep == TypeOK /\ TraceInv /\ [Next]_vars => TraceInv'
<1> SUFFICES ASSUME TypeOK, TraceInv, [Next]_vars PROVE TraceInv'
  OBVIOUS
<1> USE DEF TraceInv, TraceesAreKnown, TraceesExist, Live, Dead, TypeOK
<1>1. ASSUME UNCHANGED <<process, stubs, kind, stop, traced>> PROVE TraceInv'
  BY <1>1
<1>2. ASSUME NEW p \in Pid, InitForks(p) PROVE TraceInv'
  BY <1>2 DEF InitForks, Born, Unborn, monitorVars
<1>3. ASSUME NEW s \in Pid, NEW p \in Pid, StubForks(s, p) PROVE TraceInv'
  BY <1>3 DEF StubForks, Born, Unborn, monitorVars
<1>4. ASSUME NEW p \in Pid, NEW program \in Program, Executes(p, program)
      PROVE TraceInv'
  BY <1>4 DEF Executes, monitorVars, Program
<1>5. ASSUME NEW p \in Pid, NEW sig \in PosixStop, Signalled(p, sig)
      PROVE TraceInv'
  BY <1>5 DEF Signalled, monitorVars, PosixStop
<1>6. ASSUME NEW p \in Pid, Dies(p) PROVE TraceInv'
  BY <1>6 DEF Dies, monitorVars
<1>7. CASE MonitorExits
  BY <1>7 DEF MonitorExits
<1>8. ASSUME NEW p \in Pid, HandleStubEvent(p) PROVE TraceInv'
  BY <1>8 DEF HandleStubEvent, Resume, Waitable, Suppressed, PosixStop
<1>9. ASSUME NEW p \in Pid, HandleNewProcess(p) PROVE TraceInv'
  BY <1>9 DEF HandleNewProcess, Resume, Waitable
<1>10. ASSUME NEW p \in Pid, HandleCandidate(p) PROVE TraceInv'
  BY <1>10 DEF HandleCandidate, Resume, Waitable
<1>11. ASSUME NEW p \in Pid, PromoteStub(p) PROVE TraceInv'
  BY <1>11 DEF PromoteStub, Resume
<1>12. ASSUME NEW p \in Pid, Detach(p), stubs' = stubs, kind' = kind
       PROVE TraceInv'
  BY <1>12 DEF Detach, Resume
<1>13. ASSUME NEW p \in Pid, HandOver(p) PROVE TraceInv'
  BY <1>13 DEF HandOver, Resume
<1>14. ASSUME NEW p \in Pid, HandOverFails(p) PROVE TraceInv'
  BY <1>14 DEF HandOverFails, Detach, Resume
<1>15. ASSUME NEW p \in Pid, IgnoreProgram(p) \/ RefuseInjection(p)
       PROVE TraceInv'
  BY <1>12, <1>15 DEF IgnoreProgram, RefuseInjection
<1>16. \/ Device \/ Kernel \/ Monitor \/ UNCHANGED vars
  BY DEF Next
<1>17. CASE Device \/ Kernel
  BY <1>1, <1>2, <1>3, <1>4, <1>5, <1>6, <1>17
  DEF Device, Kernel, SendCommand, InitSignalled, DaemonReportsError, DaemonDies,
      InitTraps, InjectorFinishes, monitorVars, procVars
<1>18. CASE Monitor
  BY <1>1, <1>7, <1>8, <1>9, <1>10, <1>11, <1>13, <1>14, <1>15, <1>18
  DEF Monitor, HandleChild, Dispatch, HandlerReturns, HandleDatagram,
      HandleInitEvent, HandleDaemonExit, monitorVars, procVars
<1>19. CASE UNCHANGED vars
  BY <1>1, <1>19 DEF vars, monitorVars, procVars
<1> QED
  BY <1>16, <1>17, <1>18, <1>19

(***************************************************************************)
(* Whatever fails, and with pids reused, no descendant of init runs under  *)
(* the monitor's trace unknown to it.                                      *)
(***************************************************************************)
THEOREM NoUnknownTracee == Spec => []TraceesAreKnown
<1>1. Init => TraceInv
  BY DEF Init, TraceInv, TraceesAreKnown, TraceesExist
<1>2. TraceInv => TraceesAreKnown
  BY DEF TraceInv
<1> QED
  BY <1>1, <1>2, TraceInvStep, TypeCorrect, PTL DEF Spec

-----------------------------------------------------------------------------
(***************************************************************************)
(* The refinement: init's side of the monitor implements TracingLifecycle. *)
(***************************************************************************)
L == INSTANCE TracingLifecycle WITH state <- tracing, attached <- initTraced

(* The loop is told to end by the exit that changes the state. *)
ExitInv ==
  /\ tracing = "EXITING" => ~running
  /\ handler = "exited" => tracing = "EXITING" /\ ~initTraced
  /\ ~running => tracing = "EXITING"

LEMMA ExitInvStep == TypeOK /\ ExitInv /\ [Next]_vars => ExitInv'
<1> SUFFICES ASSUME TypeOK, ExitInv, [Next]_vars PROVE ExitInv'
  OBVIOUS
<1> USE DEF ExitInv
<1>1. ASSUME UNCHANGED <<tracing, running, handler, initTraced>> PROVE ExitInv'
  BY <1>1
<1>2. CASE Device \/ Kernel
  BY <1>1, <1>2 DEF Device, Kernel, SendCommand, InitForks, StubForks, Executes,
     Signalled, InitSignalled, Dies, DaemonReportsError, DaemonDies, InitTraps,
     InjectorFinishes, monitorVars, initVars
<1>3. CASE HandleDatagram
  <2>1. handler' = "socket"
    BY <1>3 DEF HandleDatagram
  <2>2. CASE RequestExit
    BY <2>1, <2>2 DEF RequestExit
  <2>3. CASE running' = running /\ (tracing = "EXITING" <=> tracing' = "EXITING")
    BY <2>1, <2>3
  <2>4. RequestStart \/ RequestStop \/ RequestRearm
        => (tracing = "EXITING" <=> tracing' = "EXITING")
    BY DEF RequestStart, RequestStop, RequestRearm
  <2> QED
    BY <1>3, <2>2, <2>3, <2>4 DEF HandleDatagram
<1>4. CASE MonitorExits
  BY <1>4 DEF MonitorExits
<1>5. CASE HandleInitEvent
  BY <1>5 DEF HandleInitEvent
<1>6. ASSUME NEW h \in {"socket", "sigchld"}, Dispatch(h) PROVE ExitInv'
  BY <1>6 DEF Dispatch
<1>7. CASE HandlerReturns
  BY <1>7 DEF HandlerReturns
<1>8. CASE HandleDaemonExit
  BY <1>1, <1>8 DEF HandleDaemonExit, monitorVars, initVars
<1>9. ASSUME NEW p \in Pid, RefuseInjection(p) PROVE ExitInv'
  BY <1>9 DEF RefuseInjection, Target, Executed, RequestStop, initVars
<1>10. ASSUME NEW p \in Pid, HandleChild(p), ~RefuseInjection(p) PROVE ExitInv'
  BY <1>1, <1>10 DEF HandleChild, HandleStubEvent, HandleNewProcess,
     HandleCandidate, PromoteStub, IgnoreProgram, HandOver, HandOverFails, initVars
<1>11. CASE UNCHANGED vars
  BY <1>1, <1>11 DEF vars, monitorVars, initVars
<1> QED
  BY <1>2, <1>3, <1>4, <1>5, <1>6, <1>7, <1>8, <1>9, <1>10, <1>11 DEF Next, Monitor

(* Nothing that was queued behind an EXIT brings the monitor back. *)
THEOREM ExitStays == Spec => ExitIsFinal
<1>1. Init => ExitInv
  BY DEF Init, ExitInv
<1>2. TypeOK /\ ExitInv /\ [Next]_vars
      => [tracing = "EXITING" => tracing' = "EXITING" /\ ~running']_vars
  <2> SUFFICES ASSUME TypeOK, ExitInv, [Next]_vars, tracing = "EXITING"
               PROVE  tracing' = "EXITING" /\ ~running'
    OBVIOUS
  <2>1. tracing' = "EXITING"
    <3>1. CASE HandleDatagram
      BY <3>1 DEF HandleDatagram, RequestStart, RequestStop, RequestExit, RequestRearm
    <3>2. CASE HandleInitEvent
      BY <3>2 DEF HandleInitEvent
    <3>3. ASSUME NEW p \in Pid, RefuseInjection(p) PROVE FALSE
      BY <3>3 DEF RefuseInjection, Target
    <3>4. CASE Device \/ Kernel
      BY <3>4 DEF Device, Kernel, SendCommand, InitForks, StubForks, Executes,
         Signalled, InitSignalled, Dies, DaemonReportsError, DaemonDies,
         InitTraps, InjectorFinishes, monitorVars
    <3>5. ASSUME NEW h \in {"socket", "sigchld"},
                 Dispatch(h) \/ HandlerReturns \/ MonitorExits \/ HandleDaemonExit
          PROVE  tracing' = "EXITING"
      BY <3>5 DEF Dispatch, HandlerReturns, MonitorExits, HandleDaemonExit, monitorVars
    <3>6. ASSUME NEW p \in Pid, HandleChild(p), ~RefuseInjection(p)
          PROVE  tracing' = "EXITING"
      BY <3>6 DEF HandleChild, HandleStubEvent, HandleNewProcess, HandleCandidate,
         PromoteStub, IgnoreProgram, HandOver, HandOverFails
    <3>7. CASE UNCHANGED vars
      BY <3>7 DEF vars, monitorVars
    <3> QED
      BY <3>1, <3>2, <3>3, <3>4, <3>5, <3>6, <3>7 DEF Next, Monitor
  <2>2. ExitInv'
    BY ExitInvStep
  <2> QED
    BY <2>1, <2>2 DEF ExitInv
<1> QED
  BY <1>1, <1>2, ExitInvStep, TypeCorrect, PTL DEF Spec, ExitIsFinal

(* A step of the monitor is a step of the lifecycle, or leaves it alone. *)
LEMMA LifecycleStep ==
  ASSUME TypeOK, ExitInv, StopInv, "reseize" \notin Faults, [Next]_vars
  PROVE  [L!Next]_(L!vars)
<1> USE DEF L!vars
<1>1. ASSUME UNCHANGED <<tracing, initTraced>> PROVE [L!Next]_(L!vars)
  BY <1>1
<1>2. CASE HandleDatagram
  <2>0. handler = "socket"
    BY <1>2 DEF HandleDatagram
  <2>1. CASE RequestStart
    BY <2>0, <2>1 DEF RequestStart, Seize, L!Next, L!Start, StopInv,
                SeizeMatchesState, TypeOK, TracingState
  <2>2. CASE RequestStop
    BY <2>2 DEF RequestStop, L!Next, L!Stop, initVars
  <2>3. CASE RequestExit
    BY <2>3 DEF RequestExit, L!Next, L!Exit, initVars
  <2>4. CASE RequestRearm
    <3>1. CASE RequestStart
      BY <2>1, <3>1
    <3>2. CASE UNCHANGED <<tracing, initVars>>
      BY <3>2 DEF initVars
    <3>3. CASE tracing # "EXITING" /\ tracing' = "STOPPING" /\ Seize
      BY <2>0, <3>3 DEF Seize, L!Next, L!Stop, L!Restop, StopInv,
                SeizeMatchesState, TypeOK, TracingState
    <3> QED
      BY <2>4, <3>1, <3>2, <3>3 DEF RequestRearm
  <2>5. CASE UNCHANGED <<tracing, initVars>>
    BY <2>5 DEF initVars
  <2> QED
    BY <1>2, <2>1, <2>2, <2>3, <2>4, <2>5 DEF HandleDatagram
<1>3. CASE MonitorExits
  BY <1>3 DEF MonitorExits, ExitInv, L!Next, L!Leave, TypeOK
<1>4. CASE HandleInitEvent
  BY <1>4 DEF HandleInitEvent, L!Next, L!LetGo
<1>5. ASSUME NEW p \in Pid, RefuseInjection(p) PROVE [L!Next]_(L!vars)
  BY <1>5 DEF RefuseInjection, RequestStop, L!Next, L!Stop, initVars
<1>6. CASE Device \/ Kernel
  BY <1>1, <1>6 DEF Device, Kernel, SendCommand, InitForks, StubForks, Executes,
     Signalled, InitSignalled, Dies, DaemonReportsError, DaemonDies, InitTraps,
     InjectorFinishes, monitorVars, initVars
<1>7. ASSUME NEW h \in {"socket", "sigchld"},
             Dispatch(h) \/ HandlerReturns \/ HandleDaemonExit
      PROVE  [L!Next]_(L!vars)
  BY <1>7 DEF Dispatch, HandlerReturns, HandleDaemonExit, monitorVars, initVars
<1>8. ASSUME NEW p \in Pid, HandleChild(p), ~RefuseInjection(p)
      PROVE  [L!Next]_(L!vars)
  BY <1>8 DEF HandleChild, HandleStubEvent, HandleNewProcess, HandleCandidate,
     PromoteStub, IgnoreProgram, HandOver, HandOverFails, initVars
<1>9. CASE UNCHANGED vars
  BY <1>9 DEF vars, monitorVars, initVars
<1> QED
  BY <1>2, <1>3, <1>4, <1>5, <1>6, <1>7, <1>8, <1>9 DEF Next, Monitor

(***************************************************************************)
(* The monitor implements the lifecycle it promises: init is held while    *)
(* TRACING or STOPPING, released into STOPPED only through a stop that was *)
(* asked for, and nothing follows an exit but leaving.                     *)
(***************************************************************************)
THEOREM LifecycleImplemented ==
  ASSUME "reseize" \notin Faults PROVE Spec => L!Safety
<1>1. Init => L!Init
  BY DEF Init, L!Init
<1>2. Init => ExitInv
  BY DEF Init, ExitInv
<1>3. TypeOK /\ ExitInv /\ StopInv /\ [Next]_vars => [L!Next]_(L!vars)
  BY LifecycleStep
<1> QED
  BY <1>1, <1>2, <1>3, ExitInvStep, StopInvariance, TypeCorrect, PTL
  DEF Spec, L!Safety

-----------------------------------------------------------------------------
(***************************************************************************)
(* The stubs.  That a stub keeps running takes that stub_processes_ holds  *)
(* tracees only, or a pid that was reused would pass for one; that nobody  *)
(* the monitor traces is parked; and that all this ends with the monitor.  *)
(***************************************************************************)
StubsAreTraced == handler # "exited" => stubs \subseteq traced

ExitedTracesNobody == handler = "exited" => traced = {}

TraceesAreNotParked == traced \cap parked = {}

(* A tracee is known by the time it executes a program. *)
ExecIsKnown == \A p \in traced : stop[p] = "EVENT_EXEC" => p \in process \cup stubs

StubInv == /\ StubsAreTraced /\ ExitedTracesNobody /\ TraceesAreNotParked /\ ExecIsKnown
           /\ StubsKeepRunning

LEMMA StubInvStep ==
  TypeOK /\ TraceInv /\ ExitInv /\ StubInv /\ [Next]_vars => StubInv'
<1> SUFFICES ASSUME TypeOK, TraceInv, ExitInv, StubInv, [Next]_vars PROVE StubInv'
  OBVIOUS
<1> USE DEF StubInv, StubsAreTraced, ExitedTracesNobody, TraceesAreNotParked, ExecIsKnown,
            StubsKeepRunning, TraceInv, TraceesAreKnown, TraceesExist, Live, Dead, TypeOK
<1>1. ASSUME UNCHANGED <<process, stubs, kind, stop, traced>>,
             handler' = "exited" <=> handler = "exited", parked' \subseteq parked
      PROVE  StubInv'
  BY <1>1
<1>2. ASSUME NEW p \in Pid, InitForks(p) PROVE StubInv'
  BY <1>2 DEF InitForks, Born, Unborn, monitorVars, ExitInv
<1>3. ASSUME NEW s \in Pid, NEW p \in Pid, StubForks(s, p) PROVE StubInv'
  BY <1>3 DEF StubForks, Born, Unborn, monitorVars
<1>4. ASSUME NEW p \in Pid, NEW program \in Program, Executes(p, program)
      PROVE  StubInv'
  BY <1>4 DEF Executes, monitorVars, Program
<1>5. ASSUME NEW p \in Pid, NEW sig \in PosixStop, Signalled(p, sig)
      PROVE  StubInv'
  BY <1>5 DEF Signalled, monitorVars, PosixStop
<1>6. ASSUME NEW p \in Pid, Dies(p) PROVE StubInv'
  BY <1>6 DEF Dies, monitorVars
<1>7. CASE MonitorExits
  BY <1>7 DEF MonitorExits
<1>8. ASSUME NEW p \in Pid, HandleStubEvent(p) PROVE StubInv'
  BY <1>8 DEF HandleStubEvent, Resume, Waitable, Suppressed, PosixStop
<1>9. ASSUME NEW p \in Pid, HandleNewProcess(p) PROVE StubInv'
  BY <1>9 DEF HandleNewProcess, Resume, Waitable
<1>10. ASSUME NEW p \in Pid, HandleCandidate(p) PROVE StubInv'
  BY <1>10 DEF HandleCandidate, Resume, Waitable
<1>11. ASSUME NEW p \in Pid, PromoteStub(p) PROVE StubInv'
  BY <1>11 DEF PromoteStub, Executed, Resume
<1>12. ASSUME NEW p \in Pid, IgnoreProgram(p) \/ RefuseInjection(p) PROVE StubInv'
  BY <1>12 DEF IgnoreProgram, RefuseInjection, Target, Executed, Detach, Resume
<1>13. ASSUME NEW p \in Pid, HandOver(p) PROVE StubInv'
  BY <1>13 DEF HandOver, Target, Executed, Resume
<1>14. ASSUME NEW p \in Pid, HandOverFails(p) PROVE StubInv'
  BY <1>14 DEF HandOverFails, Target, Executed, Detach, Resume
<1>15. CASE Device \/ Kernel
  BY <1>1, <1>2, <1>3, <1>4, <1>5, <1>6, <1>15
  DEF Device, Kernel, SendCommand, InitSignalled, DaemonReportsError, DaemonDies,
      InitTraps, InjectorFinishes, monitorVars, procVars
<1>16. CASE Monitor
  <2>1. ASSUME NEW h \in {"socket", "sigchld"}, Dispatch(h) PROVE StubInv'
    BY <1>1, <2>1 DEF Dispatch, procVars
  <2>2. CASE HandlerReturns
    BY <1>1, <2>2 DEF HandlerReturns, Drained, procVars
  <2>3. CASE HandleDatagram \/ HandleInitEvent \/ HandleDaemonExit
    BY <1>1, <2>3 DEF HandleDatagram, HandleInitEvent, HandleDaemonExit, monitorVars,
       procVars
  <2>4. ASSUME NEW p \in Pid, HandleChild(p) PROVE StubInv'
    BY <1>8, <1>9, <1>10, <1>11, <1>12, <1>13, <1>14, <2>4 DEF HandleChild
  <2> QED
    BY <1>7, <1>16, <2>1, <2>2, <2>3, <2>4 DEF Monitor
<1>17. CASE UNCHANGED vars
  BY <1>1, <1>17 DEF vars, monitorVars, procVars
<1> QED
  BY <1>15, <1>16, <1>17 DEF Next

LEMMA StubInvariance == Spec => [](TypeOK /\ TraceInv /\ ExitInv /\ StubInv)
<1>1. Init => TraceInv /\ ExitInv /\ StubInv
  BY DEF Init, TraceInv, TraceesAreKnown, TraceesExist, ExitInv, StubInv, StubsAreTraced,
         ExitedTracesNobody, TraceesAreNotParked, ExecIsKnown, StubsKeepRunning
<1> QED
  BY <1>1, TraceInvStep, ExitInvStep, StubInvStep, TypeCorrect, PTL DEF Spec

(***************************************************************************)
(* A stub under trace keeps running whatever signal it is sent, and its    *)
(* pid never comes to mean another program (handleParentEvent).            *)
(***************************************************************************)
THEOREM StubsSurvive == Spec => []StubsKeepRunning
<1>1. StubInv => StubsKeepRunning
  BY DEF StubInv
<1> QED
  BY <1>1, StubInvariance, PTL

(***************************************************************************)
(* While the monitor reports that it traces, it lets no zygote go that it  *)
(* caught at its exec, unless the hand-over itself failed: it is not taken *)
(* for a stub nor for a new process, and a refusal stops tracing           *)
(* (handleExecEvent, check_and_prepare_injection).                         *)
(***************************************************************************)
THEOREM ZygotesAreHandedOver == Spec => NoZygoteSlips
<1> DEFINE Slips(p) ==
             /\ kind[p] = "app_process" /\ stop[p] = "EVENT_EXEC"
             /\ kind'[p] = "app_process" /\ stop'[p] = "none"
             /\ tracing' = "TRACING"
           Excused(p) == p \in injector' \/ (daemonRunning' /\ count' < RetryCount)
<1>1. ASSUME TypeOK, TraceInv, ExitInv, StubInv, [Next]_vars, NEW p \in Pid, Slips(p)
      PROVE  Excused(p)
  <2> USE <1>1 DEF TypeOK
  <2>1. ASSUME NEW q \in Pid, q # p, Resume(q) PROVE FALSE
    BY <2>1 DEF Resume
  <2>2. ASSUME stop' = stop PROVE FALSE
    BY <2>2
  <2>3. ASSUME NEW q \in Pid, InitForks(q) \/ Dies(q) PROVE FALSE
    BY <2>3 DEF InitForks, Born, Dies
  <2>4. ASSUME NEW s \in Pid, NEW q \in Pid, StubForks(s, q) PROVE FALSE
    BY <2>4 DEF StubForks, Born
  <2>5. ASSUME NEW q \in Pid, NEW program \in Program, Executes(q, program) PROVE FALSE
    BY <2>5 DEF Executes
  <2>6. ASSUME NEW q \in Pid, NEW sig \in PosixStop, Signalled(q, sig) PROVE FALSE
    BY <2>6 DEF Signalled
  <2>7. ~MonitorExits
    BY DEF MonitorExits, ExitInv
  <2>8. ~HandleStubEvent(p)
    BY DEF HandleStubEvent, Waitable, StubInv, StubsKeepRunning, Live, Dead
  <2>9. ~HandleNewProcess(p)
    BY DEF HandleNewProcess, Waitable, StubInv, ExecIsKnown
  <2>10. ~HandleCandidate(p) /\ ~PromoteStub(p)
    BY DEF HandleCandidate, PromoteStub
  <2>11. ~IgnoreProgram(p)
    BY DEF IgnoreProgram
  <2>12. ~RefuseInjection(p)
    BY DEF RefuseInjection, Target, RequestStop
  <2>13. ASSUME HandOver(p) \/ HandOverFails(p) PROVE Excused(p)
    <3>1. Prepared
      BY <2>13 DEF HandOver, HandOverFails
    <3>2. QED
      BY <3>1 DEF Prepared, EnsureDaemon, daemonVars
  <2>14. ASSUME NEW q \in Pid, HandleChild(q) PROVE Excused(p)
    <3>1. stop' = stop \/ Resume(q)
      BY <2>14 DEF HandleChild, HandleStubEvent, HandleNewProcess, HandleCandidate,
         PromoteStub, IgnoreProgram, RefuseInjection, HandOver, HandOverFails, Detach
    <3>2. q = p
      BY <2>1, <2>2, <3>1
    <3>3. QED
      BY <2>8, <2>9, <2>10, <2>11, <2>12, <2>13, <2>14, <3>2 DEF HandleChild
  <2>15. CASE Device \/ Kernel
    BY <2>2, <2>3, <2>4, <2>5, <2>6, <2>15
    DEF Device, Kernel, SendCommand, InitSignalled, DaemonReportsError, DaemonDies,
        InitTraps, InjectorFinishes, procVars
  <2>16. CASE Monitor
    BY <2>2, <2>7, <2>14, <2>16 DEF Monitor, Dispatch, HandlerReturns, HandleDatagram,
       HandleInitEvent, HandleDaemonExit, procVars
  <2>17. CASE UNCHANGED vars
    BY <2>2, <2>17 DEF vars, procVars
  <2> QED
    BY <2>15, <2>16, <2>17 DEF Next
<1>2. TypeOK /\ TraceInv /\ ExitInv /\ StubInv /\ [Next]_vars
      => [\A p \in Pid : Slips(p) => Excused(p)]_vars
  BY <1>1
<1> QED
  BY <1>2, StubInvariance, PTL DEF Spec, NoZygoteSlips
=============================================================================
