---------------------------- MODULE StagesProofs ----------------------------
(***************************************************************************)
(* Proofs about Stages, for any number of stages of any kind that run at   *)
(* once, debug and release builds, and any number of faults.               *)
(***************************************************************************)
EXTENDS Stages, TLAPS

USE NoneAssumption, StageNamesAssumption, DebugAssumption, FaultsAssumption,
    MaxFaultsAssumption

(* Who may hold what, as TypeOK says it. *)
MayOwn   == {"loop", "closing", "leaving"}
MayTrace == Ending \cup {"bind", "loop"}

(* TypeOK without the two variables that depend on where the monitors are. *)
Types ==
  /\ stage \in [Run -> Stage \cup {"none"}]
  /\ pc \in [Run -> PC]
  /\ mapped \in [Run -> BOOLEAN]
  /\ retired \in [Run -> Run \cup {None}]
  /\ stopped \in [Run -> BOOLEAN]
  /\ reply \in [Run -> RearmResult \cup {"none"}]
  /\ mon \in [Run -> Mon]
  /\ tracing \in [Run -> TracingState]
  /\ steady \in [Run -> BOOLEAN]
  /\ inbox \in [Run -> Seq(Run)]
  /\ zygote \in Zygote
  /\ faults \in 0..MaxFaults

Holders ==
  /\ owner # None => owner \in Run /\ mon[owner] \in MayOwn
  /\ initTracer # None => initTracer \in Run /\ mon[initTracer] \in MayTrace

(* A run that has yet to install has started no monitor. *)
NotYetStarted ==
  \A r \in Run : pc[r] \in {"idle", "stop", "exit", "poll", "install"} => mon[r] = "none"

(* TypeOK is what the types and the holders say. *)
LEMMA TypeOKParts == TypeOK <=> Types /\ Holders
  BY DEF TypeOK, Types, Holders, MayOwn, MayTrace

(* A fault that happens is counted up to the bound; one that does not      *)
(* changes nothing.                                                        *)
LEMMA FaultTyping ==
  ASSUME faults \in 0..MaxFaults
  PROVE  /\ \A kinds : Fault(kinds) => faults' \in 0..MaxFaults
         /\ NoFault => faults' \in 0..MaxFaults
  BY DEF Fault, NoFault

(* Where a stage goes next is a step of one. *)
LEMMA NextStepTyping ==
  ASSUME NEW r \in Run
  PROVE  /\ AfterStop(r) \in PC
         /\ AfterInstall(r) \subseteq PC
  BY DEF AfterStop, AfterInstall, PC, Ended

(* A socket's queue stays one at both ends. *)
LEMMA InboxTyping ==
  ASSUME NEW q \in [Run -> Seq(Run)], NEW m \in Run, NEW r \in Run
  PROVE  /\ [q EXCEPT ![m] = Append(@, r)] \in [Run -> Seq(Run)]
         /\ q[m] # <<>> => /\ Head(q[m]) \in Run
                           /\ [q EXCEPT ![m] = Tail(@)] \in [Run -> Seq(Run)]
<1>1. q[m] \in Seq(Run) /\ Append(q[m], r) \in Seq(Run)
  OBVIOUS
<1>2. q[m] # <<>> => Head(q[m]) \in Run /\ Tail(q[m]) \in Seq(Run)
  BY <1>1
<1> QED
  BY <1>1, <1>2

(* The steps of the stages keep the types. *)
LEMMA StageTyping ==
  ASSUME Types, Holders, NotYetStarted, NEW r \in Run, StageSteps(r)
  PROVE  Types' /\ Holders'
<1> USE DEF Types, Holders, runVars, monitorVars
<1>1. ASSUME NEW s \in StageNames, RunStage(r, s) PROVE Types' /\ Holders'
  <2>1. pc' \in [Run -> PC]
    BY <1>1 DEF RunStage, Goto, CheckSelinux, PC, Ended, Stage
  <2> QED
    BY <1>1, <2>1 DEF RunStage, ZygoteHasLibrary
<1>2. CASE StopMonitor(r)
  <2>1. pc' \in [Run -> PC]
    BY <1>2, NextStepTyping DEF StopMonitor, Goto, PC
  <2> QED
    BY <1>2, <2>1 DEF StopMonitor
<1>3. CASE SendExit(r)
  <2>1. pc' \in [Run -> PC]
    BY <1>3 DEF SendExit, Goto, PC
  <2>2. inbox' \in [Run -> Seq(Run)] /\ retired' \in [Run -> Run \cup {None}]
    BY <1>3 DEF SendExit, MonitorIsRunning
  <2> QED
    BY <1>3, <2>1, <2>2 DEF SendExit
<1>4. CASE SendExitFails(r) \/ PollUntraced(r)
  <2>1. pc' \in [Run -> PC]
    BY <1>4, NextStepTyping DEF SendExitFails, PollUntraced, Goto
  <2> QED
    BY <1>4, <2>1 DEF SendExitFails, PollUntraced
<1>5. CASE PollGivesUp(r)
  <2>1. pc' \in [Run -> PC] /\ faults' \in 0..MaxFaults
    BY <1>5, NextStepTyping, FaultTyping DEF PollGivesUp, Goto
  <2> QED
    BY <1>5, <2>1 DEF PollGivesUp
<1>6. CASE Install(r)
  <2>1. pc' \in [Run -> PC]
    BY <1>6, NextStepTyping DEF Install, Goto
  <2>2. faults' \in 0..MaxFaults
    BY <1>6, FaultTyping DEF Install
  <2>3. mon' = mon \/ mon' = [mon EXCEPT ![r] = "probe"]
    BY <1>6 DEF Install
  <2> QED
    BY <1>6, <2>1, <2>2, <2>3 DEF Install, NotYetStarted, Mon, Starting, Ending, MayOwn, MayTrace
<1>7. CASE InstallFails(r)
  <2>1. pc' \in [Run -> PC] /\ faults' \in 0..MaxFaults
    BY <1>7, FaultTyping DEF InstallFails, Goto, PC, Ended
  <2> QED
    BY <1>7, <2>1 DEF InstallFails
<1>8. CASE WaitForMonitor(r) \/ WaitGivesUp(r) \/ ArmUnsent(r)
  <2>1. pc' \in [Run -> PC]
    BY <1>8 DEF WaitForMonitor, WaitGivesUp, ArmUnsent, Goto, PC, Ended
  <2> QED
    BY <1>8, <2>1 DEF WaitForMonitor, WaitGivesUp, ArmUnsent
<1>9. CASE Arm(r)
  <2>1. pc' \in [Run -> PC]
    BY <1>9, ZenonT(40) DEF Arm, Goto, PC, Ended
  <2>2. inbox' \in [Run -> Seq(Run)]
    <3>1. inbox' = inbox \/ (owner \in Run /\ inbox' = [inbox EXCEPT ![owner] = Append(@, r)])
      BY <1>9 DEF Arm, MonitorIsRunning
    <3>2. inbox \in [Run -> Seq(Run)]
      OBVIOUS
    <3>3. CASE inbox' = inbox
      BY <3>2, <3>3
    <3>4. CASE owner \in Run /\ inbox' = [inbox EXCEPT ![owner] = Append(@, r)]
      BY <3>2, <3>4, InboxTyping
    <3> QED
      BY <3>1, <3>3, <3>4
  <2> QED
    BY <1>9, <2>1, <2>2 DEF Arm
<1>10. CASE ArmAnswered(r)
  <2>1. pc' \in [Run -> PC]
    BY <1>10 DEF ArmAnswered, Goto, PC, Ended
  <2> QED
    BY <1>10, <2>1 DEF ArmAnswered
<1>11. CASE ArmTimesOut(r)
  <2>1. pc' \in [Run -> PC] /\ faults' \in 0..MaxFaults
    BY <1>11, FaultTyping DEF ArmTimesOut, Goto, PC, Ended
  <2> QED
    BY <1>11, <2>1 DEF ArmTimesOut
<1>12. CASE RestartZygote(r)
  <2>1. pc' \in [Run -> PC] /\ faults' \in 0..MaxFaults
    BY <1>12, FaultTyping DEF RestartZygote, Goto, PC, Ended
  <2> QED
    BY <1>12, <2>1 DEF RestartZygote, Zygote
<1> QED
  BY <1>1, <1>2, <1>3, <1>4, <1>5, <1>6, <1>7, <1>8, <1>9, <1>10, <1>11, <1>12
     DEF StageSteps

(* And they start a monitor for whoever had none. *)
LEMMA StageStartsOne ==
  ASSUME Types, NotYetStarted, NEW r \in Run, StageSteps(r)
  PROVE  NotYetStarted'
<1> USE DEF Types, NotYetStarted, runVars, monitorVars, Goto, Ended
<1>1. CASE Install(r)
  <2>1. PICK next \in {"wait", "success", "arm"} : pc' = [pc EXCEPT ![r] = next]
    BY <1>1 DEF Install, AfterInstall
  <2>2. mon' = mon \/ mon' = [mon EXCEPT ![r] = "probe"]
    BY <1>1 DEF Install
  <2> QED
    BY <2>1, <2>2
<1>2. CASE ~Install(r)
  <2>1. mon' = mon
    BY <1>2 DEF StageSteps, RunStage, StopMonitor, SendExit, SendExitFails, PollUntraced,
       PollGivesUp, InstallFails, WaitForMonitor, WaitGivesUp, Arm, ArmUnsent, ArmAnswered,
       ArmTimesOut, RestartZygote
  <2>2. \A q \in Run : q # r => pc'[q] = pc[q]
    BY <1>2 DEF StageSteps, RunStage, StopMonitor, SendExit, SendExitFails, PollUntraced,
       PollGivesUp, InstallFails, WaitForMonitor, WaitGivesUp, Arm, ArmUnsent, ArmAnswered,
       ArmTimesOut, RestartZygote
  <2>3. CASE pc[r] \in {"idle", "stop", "exit", "poll", "install"}
    BY <2>1, <2>2, <2>3
  <2>4. CASE pc[r] \notin {"idle", "stop", "exit", "poll", "install"}
    <3>1. pc'[r] \in {"restart", "success", "failure", "answer"}
      BY <1>2, <2>4 DEF StageSteps, RunStage, StopMonitor, SendExit, SendExitFails,
         PollUntraced, PollGivesUp, InstallFails, WaitForMonitor, WaitGivesUp, Arm,
         ArmUnsent, ArmAnswered, ArmTimesOut, RestartZygote
    <3> QED
      BY <2>1, <2>2, <3>1
  <2> QED
    BY <2>3, <2>4
<1> QED
  BY <1>1, <1>2

(* What a rearm answers and leaves behind. *)
LEMMA RearmTyping ==
  ASSUME zygote \in Zygote, NEW outcome \in RearmOutcomes
  PROVE  outcome[1] \in RearmResult /\ outcome[2] \in Zygote
  BY DEF RearmOutcomes, RearmResult, Zygote

(* The steps of the monitors keep the types. *)
LEMMA MonitorTyping ==
  ASSUME Types, Holders, NEW m \in Run, MonitorSteps(m)
  PROVE  Types' /\ Holders'
<1> USE DEF Types, Holders, runVars, monitorVars, Become, Mon, Starting, Ending, MayOwn,
            MayTrace, Released
<1>1. faults' \in 0..MaxFaults
  BY FaultTyping DEF MonitorSteps, InitMonitor, After, PtraceHandlerInit, SocketHandlerInit,
     StopRequested, InitDetached, StartRequested, HandleExit, HandleRearm, LoopEnds,
     SocketCloses, MonitorExits, MonitorKilled
<1>2. CASE InitMonitor(m)
  BY <1>1, <1>2 DEF InitMonitor, After
<1>3. CASE PtraceHandlerInit(m)
  <2>1. PICK s \in {"bind", "standing_down", "gone"} :
          /\ mon' = [mon EXCEPT ![m] = s]
          /\ \/ s = "bind" /\ initTracer' = m /\ steady' = [steady EXCEPT ![m] = TRUE]
             \/ UNCHANGED <<initTracer, steady>>
    BY <1>3 DEF PtraceHandlerInit, After
  <2>2. mon' \in [Run -> Mon] /\ steady' \in [Run -> BOOLEAN]
    BY <2>1
  <2>3. Holders'
    BY <1>3, <2>1 DEF PtraceHandlerInit, After
  <2> QED
    BY <1>1, <1>3, <2>2, <2>3 DEF PtraceHandlerInit, After
<1>4. CASE SocketHandlerInit(m)
  <2>1. /\ mon[m] = "bind"
        /\ \/ mon' = [mon EXCEPT ![m] = "loop"] /\ owner' = m /\ UNCHANGED initTracer
           \/ /\ mon' = [mon EXCEPT ![m] = "gone"]
              /\ initTracer' = Released(m, initTracer)
              /\ owner' \in {owner, None}
    BY <1>4 DEF SocketHandlerInit, After
  <2>2. mon' \in [Run -> Mon]
    <3>1. \A s \in Mon : [mon EXCEPT ![m] = s] \in [Run -> Mon]
      OBVIOUS
    <3> QED
      BY <2>1, <3>1, ZenonT(40)
  <2>3. Holders'
    BY <2>1
  <2> QED
    BY <1>1, <1>4, <2>2, <2>3 DEF SocketHandlerInit, After
<1>5. CASE StopRequested(m)
  BY <1>1, <1>5 DEF StopRequested, TracingState
<1>6. CASE InitDetached(m)
  BY <1>1, <1>6 DEF InitDetached, TracingState
<1>7. CASE StartRequested(m)
  BY <1>1, <1>7 DEF StartRequested, Reseize, TracingState
<1>8. CASE HandleExit(m)
  <2>1. inbox' \in [Run -> Seq(Run)]
    BY <1>8, InboxTyping DEF HandleExit, Receive
  <2>2. mon[m] \in {"loop", "closing"} /\ mon' = [mon EXCEPT ![m] = "closing"]
    BY <1>8 DEF HandleExit, Receive
  <2>3. Holders'
    BY <1>8, <2>2 DEF HandleExit
  <2> QED
    BY <1>1, <1>8, <2>1, <2>2, <2>3 DEF HandleExit, TracingState
<1>9. CASE HandleRearm(m)
  <2> DEFINE r == Head(inbox[m])
  <2>1. r \in Run /\ inbox' \in [Run -> Seq(Run)]
    BY <1>9, InboxTyping DEF HandleRearm, Receive
  <2>2. PICK outcome \in RearmOutcomes :
          /\ zygote' = outcome[2]
          /\ reply' = IF pc[r] = "answer" THEN [reply EXCEPT ![r] = outcome[1]] ELSE reply
          /\ LET failed == outcome[1] = "Failed"
                 now == RequestStart(tracing[m])
             IN /\ tracing' = [tracing EXCEPT ![m] = IF failed THEN RequestStop(now) ELSE now]
                /\ steady' = [steady EXCEPT ![m] = @ /\ ~(failed /\ now = "TRACING")]
    BY <1>9 DEF HandleRearm
  <2>3. zygote' \in Zygote /\ reply' \in [Run -> RearmResult \cup {"none"}]
    BY <2>1, <2>2, RearmTyping
  <2>4. tracing' \in [Run -> TracingState] /\ steady' \in [Run -> BOOLEAN]
    BY <2>2 DEF RequestStart, RequestStop, TracingState
  <2>5. initTracer' \in {initTracer, m} /\ mon[m] \in {"loop", "closing"} /\ mon' = mon
    BY <1>9 DEF HandleRearm, Receive, Reseize
  <2> QED
    BY <1>1, <1>9, <2>1, <2>3, <2>4, <2>5 DEF HandleRearm
<1>10. CASE LoopEnds(m)
  BY <1>1, <1>10 DEF LoopEnds
<1>11. CASE SocketCloses(m)
  BY <1>1, <1>11 DEF SocketCloses
<1>12. CASE MonitorExits(m)
  BY <1>1, <1>12 DEF MonitorExits
<1>13. CASE MonitorKilled(m)
  BY <1>1, <1>13 DEF MonitorKilled
<1> QED
  BY <1>2, <1>3, <1>4, <1>5, <1>6, <1>7, <1>8, <1>9, <1>10, <1>11, <1>12, <1>13
     DEF MonitorSteps

(* A monitor that moves is one that was started. *)
LEMMA MonitorWasStarted ==
  ASSUME Types, NotYetStarted, NEW m \in Run, MonitorSteps(m)
  PROVE  NotYetStarted'
<1>1. pc' = pc
  BY DEF MonitorSteps, InitMonitor, After, PtraceHandlerInit, SocketHandlerInit, StopRequested,
     InitDetached, StartRequested, HandleExit, HandleRearm, LoopEnds, SocketCloses,
     MonitorExits, MonitorKilled, runVars
<1>2. mon[m] # "none"
  BY DEF MonitorSteps, InitMonitor, After, PtraceHandlerInit, SocketHandlerInit, StopRequested,
     InitDetached, StartRequested, HandleExit, HandleRearm, LoopEnds, SocketCloses,
     MonitorExits, MonitorKilled, Receive, Starting, Ending
<1>3. \A n \in Run : n # m => mon'[n] = mon[n]
  BY DEF MonitorSteps, InitMonitor, After, PtraceHandlerInit, SocketHandlerInit, StopRequested,
     InitDetached, StartRequested, HandleExit, HandleRearm, LoopEnds, SocketCloses,
     MonitorExits, MonitorKilled, Become, Types
<1> QED
  BY <1>1, <1>2, <1>3 DEF NotYetStarted

(* What happens to zygote concerns nobody else. *)
LEMMA ZygoteTyping ==
  ASSUME Types, Holders, NotYetStarted, ZygoteStarts \/ ZygoteDies
  PROVE  Types' /\ Holders' /\ NotYetStarted'
<1>1. UNCHANGED <<runVars, monitorVars>> /\ zygote' \in Zygote
  BY DEF ZygoteStarts, ZygoteDies, Zygote
<1>2. faults' \in 0..MaxFaults
  BY FaultTyping DEF ZygoteStarts, ZygoteDies, Types
<1> QED
  BY <1>1, <1>2 DEF Types, Holders, NotYetStarted, runVars, monitorVars

(* The types, with the fact that makes them inductive. *)
LEMMA TypeInvariance == Spec => [](Types /\ Holders /\ NotYetStarted)
<1> DEFINE Inv == Types /\ Holders /\ NotYetStarted
<1>1. Init => Inv
  BY DEF Init, Types, Holders, NotYetStarted, PC, Mon, TracingState, Zygote
<1>2. Inv /\ [Next]_vars => Inv'
  <2> SUFFICES ASSUME Inv, [Next]_vars PROVE Inv'
    OBVIOUS
  <2>1. ASSUME NEW r \in Run, StageSteps(r) PROVE Inv'
    BY <2>1, StageTyping, StageStartsOne
  <2>2. ASSUME NEW m \in Run, MonitorSteps(m) PROVE Inv'
    BY <2>2, MonitorTyping, MonitorWasStarted
  <2>3. CASE ZygoteStarts \/ ZygoteDies
    BY <2>3, ZygoteTyping
  <2>4. CASE UNCHANGED vars
    BY <2>4 DEF Types, Holders, NotYetStarted, vars, runVars, monitorVars
  <2> QED
    BY <2>1, <2>2, <2>3, <2>4 DEF Next
<1> QED
  BY <1>1, <1>2, PTL DEF Spec

(***************************************************************************)
(* Type correctness, and with it: however many stages run at once and      *)
(* whatever fails in them, a monitor traces init before it takes the       *)
(* control socket's name, and has neither once it is gone.                 *)
(***************************************************************************)
THEOREM TypeCorrect == Spec => []TypeOK
  BY TypeInvariance, TypeOKParts, PTL

-----------------------------------------------------------------------------
(***************************************************************************)
(* What keeps the monitors apart.  A monitor that is steady traces init    *)
(* from its seize until it is gone, and in all that time another's seize   *)
(* fails; one that is about to bind the socket is steady, so nobody takes  *)
(* the name from a steady monitor.                                         *)
(***************************************************************************)
SteadyTraces ==
  \A m \in Run :
    /\ mon[m] \in {"none", "probe", "seize", "standing_down"} => ~steady[m]
    /\ mon[m] \in {"none", "probe", "seize", "standing_down", "bind"} => tracing[m] = "TRACING"
    /\ mon[m] = "bind" => steady[m]
    /\ steady[m] => tracing[m] \in {"TRACING", "EXITING"}
    /\ steady[m] /\ mon[m] # "gone" => initTracer = m
    /\ steady[m] /\ mon[m] = "loop" => owner = m

(* EXIT was sent to a monitor that had got to its loop, and only a stage   *)
(* that sent one, once, has stopped anybody.                               *)
RetiredServed ==
  \A r \in Run :
    /\ retired[r] # None => mon[retired[r]] \in Ending \cup {"loop", "gone"}
    /\ pc[r] = "poll" \/ stopped[r] => retired[r] # None
    /\ pc[r] \in {"idle", "stop", "exit", "poll"} => ~stopped[r]

(* Whoever stands down does so for a monitor that got to trace init. *)
SomebodyTraced ==
  (\E m \in Run : mon[m] = "standing_down") =>
    \E m \in Run : mon[m] \in Ending \cup {"bind", "loop", "gone"}

ServingInv == SteadyTraces /\ RetiredServed /\ SomebodyTraced /\ StopMeansGone

(* Of what matters here, a stage changes nothing but the monitor it starts. *)
LEMMA StageLeaves ==
  ASSUME Types, NotYetStarted, NEW r \in Run, StageSteps(r)
  PROVE  /\ UNCHANGED <<tracing, steady, owner, initTracer>>
         /\ mon' = mon \/ (mon[r] = "none" /\ mon' = [mon EXCEPT ![r] = "probe"])
<1>1. UNCHANGED <<tracing, steady, owner, initTracer>>
  BY DEF StageSteps, RunStage, StopMonitor, SendExit, SendExitFails, PollUntraced,
     PollGivesUp, Install, InstallFails, WaitForMonitor, WaitGivesUp, Arm, ArmUnsent,
     ArmAnswered, ArmTimesOut, RestartZygote, monitorVars
<1>2. CASE Install(r)
  BY <1>1, <1>2 DEF Install, NotYetStarted
<1>3. CASE ~Install(r)
  <2>1. mon' = mon
    BY <1>3 DEF StageSteps, RunStage, StopMonitor, SendExit, SendExitFails, PollUntraced,
       PollGivesUp, InstallFails, WaitForMonitor, WaitGivesUp, Arm, ArmUnsent, ArmAnswered,
       ArmTimesOut, RestartZygote, monitorVars
  <2> QED
    BY <1>1, <2>1
<1> QED
  BY <1>2, <1>3

(* Every step of a monitor keeps the steady ones in place. *)
LEMMA MonitorSteady ==
  ASSUME Types, Holders, SteadyTraces, NEW m \in Run, MonitorSteps(m)
  PROVE  SteadyTraces'
<1> USE DEF SteadyTraces, Types, Become, Released, runVars, monitorVars
<1>1. CASE InitMonitor(m)
  BY <1>1 DEF InitMonitor, After
<1>2. CASE PtraceHandlerInit(m)
  <2>1. CASE mon' = [mon EXCEPT ![m] = "bind"] /\ Untraced
    <3>1. /\ steady' = [steady EXCEPT ![m] = TRUE] /\ initTracer' = m
          /\ mon[m] = "seize" /\ UNCHANGED <<tracing, owner>>
      BY <1>2, <2>1 DEF PtraceHandlerInit, After
    <3>2. \A n \in Run : steady[n] => mon[n] = "gone"
      BY <2>1 DEF Untraced
    <3> QED
      BY <2>1, <3>1, <3>2
  <2>2. CASE ~(mon' = [mon EXCEPT ![m] = "bind"] /\ Untraced)
    BY <1>2, <2>2 DEF PtraceHandlerInit, After
  <2> QED
    BY <2>1, <2>2
<1>3. CASE SocketHandlerInit(m)
  BY <1>3 DEF SocketHandlerInit, After
<1>4. CASE StopRequested(m)
  BY <1>4 DEF StopRequested
<1>5. CASE InitDetached(m)
  BY <1>5 DEF InitDetached
<1>6. CASE StartRequested(m)
  BY <1>6 DEF StartRequested, Reseize, Untraced
<1>7. CASE HandleExit(m)
  BY <1>7 DEF HandleExit, Receive
<1>8. CASE HandleRearm(m)
  <2>1. PICK outcome \in RearmOutcomes :
          LET failed == outcome[1] = "Failed"
              now == RequestStart(tracing[m])
          IN /\ tracing' = [tracing EXCEPT ![m] = IF failed THEN RequestStop(now) ELSE now]
             /\ steady' = [steady EXCEPT ![m] = @ /\ ~(failed /\ now = "TRACING")]
    BY <1>8 DEF HandleRearm
  <2>2. /\ mon[m] \in {"loop", "closing"} /\ mon' = mon /\ owner' = owner
        /\ initTracer' = IF tracing[m] = "STOPPED" /\ Untraced THEN m ELSE initTracer
    BY <1>8 DEF HandleRearm, Receive, Reseize
  <2>3. \A n \in Run : n # m => tracing'[n] = tracing[n] /\ steady'[n] = steady[n]
    BY <2>1
  <2>4. steady'[m] => steady[m] /\ tracing'[m] \in {"TRACING", "EXITING"}
    BY <2>1 DEF RequestStart, RequestStop
  <2>5. \A n \in Run : steady[n] /\ mon[n] # "gone" => initTracer' = n
    BY <2>2, NoneAssumption DEF Untraced
  <2> QED
    BY <2>2, <2>3, <2>4, <2>5
<1>9. CASE LoopEnds(m) \/ SocketCloses(m)
  BY <1>9 DEF LoopEnds, SocketCloses
<1>10. CASE MonitorExits(m) \/ MonitorKilled(m)
  BY <1>10 DEF MonitorExits, MonitorKilled
<1> QED
  BY <1>1, <1>2, <1>3, <1>4, <1>5, <1>6, <1>7, <1>8, <1>9, <1>10 DEF MonitorSteps

(* A monitor's states follow one another: once it got to trace init, its   *)
(* way leads through the loop to its end.                                  *)
LEMMA MonitorGoesOn ==
  ASSUME Types, NEW m \in Run, MonitorSteps(m)
  PROVE  /\ UNCHANGED <<retired, stopped>>
         /\ \A n \in Run : n # m => mon'[n] = mon[n] /\ steady'[n] = steady[n]
         /\ mon[m] \in Ending \cup {"loop", "gone"} => mon'[m] \in Ending \cup {"loop", "gone"}
         /\ mon[m] \in Ending \cup {"loop"} /\ steady'[m] => steady[m]
         /\ mon[m] = "bind" => mon'[m] \in {"bind", "loop", "gone"}
         /\ mon[m] # "gone"
         /\ mon[m] \notin {"none", "standing_down"}
<1> USE DEF Types, Become, Ending, Starting, Receive, runVars, monitorVars
<1>1. CASE InitMonitor(m) \/ PtraceHandlerInit(m) \/ SocketHandlerInit(m)
  BY <1>1 DEF InitMonitor, After, PtraceHandlerInit, SocketHandlerInit
<1>2. CASE StopRequested(m) \/ InitDetached(m) \/ StartRequested(m) \/ HandleExit(m)
  BY <1>2 DEF StopRequested, InitDetached, StartRequested, HandleExit
<1>3. CASE HandleRearm(m)
  <2>1. steady' = [steady EXCEPT ![m] = steady'[m]] /\ (steady'[m] => steady[m])
    BY <1>3 DEF HandleRearm
  <2> QED
    BY <1>3, <2>1 DEF HandleRearm
<1>4. CASE LoopEnds(m) \/ SocketCloses(m) \/ MonitorExits(m) \/ MonitorKilled(m)
  BY <1>4 DEF LoopEnds, SocketCloses, MonitorExits, MonitorKilled
<1> QED
  BY <1>1, <1>2, <1>3, <1>4 DEF MonitorSteps

(* SteadyTraces, for all steps. *)
LEMMA SteadyPreserved ==
  ASSUME Types, Holders, NotYetStarted, SteadyTraces, [Next]_vars
  PROVE  SteadyTraces'
<1>1. ASSUME NEW r \in Run, StageSteps(r) PROVE SteadyTraces'
  BY <1>1, StageLeaves, ZenonT(40) DEF SteadyTraces, Types
<1>2. ASSUME NEW m \in Run, MonitorSteps(m) PROVE SteadyTraces'
  BY <1>2, MonitorSteady
<1>3. CASE ZygoteStarts \/ ZygoteDies \/ UNCHANGED vars
  BY <1>3 DEF ZygoteStarts, ZygoteDies, SteadyTraces, vars, monitorVars
<1> QED
  BY <1>1, <1>2, <1>3 DEF Next

(* The steps of a stage that stops a monitor come first and come once. *)
LEMMA StopComesFirst ==
  ASSUME Types, NEW r \in Run, StageSteps(r)
  PROVE  /\ \A q \in Run : q # r => pc'[q] = pc[q]
         /\ pc'[r] = "poll" => SendExit(r)
         /\ pc'[r] \in {"idle", "stop", "exit", "poll"} => pc[r] \in {"idle", "stop", "exit"}
         /\ pc[r] = "poll" => ~SendExit(r)
<1> USE DEF Types, Goto
<1>1. CASE \/ SendExit(r) \/ \E s \in StageNames : RunStage(r, s)
  BY <1>1, ZenonT(40) DEF SendExit, RunStage, CheckSelinux, Stage
<1>2. CASE StopMonitor(r) \/ SendExitFails(r) \/ PollUntraced(r) \/ PollGivesUp(r)
  <2>1. PICK next \in {"exit", "install", "restart", "success"} :
          /\ pc' = [pc EXCEPT ![r] = next]
          /\ next = "exit" => pc[r] = "stop"
    BY <1>2 DEF StopMonitor, SendExitFails, PollUntraced, PollGivesUp, AfterStop
  <2> QED
    BY <2>1 DEF SendExit
<1>3. CASE Install(r)
  <2>1. PICK next \in {"wait", "success", "arm"} : pc' = [pc EXCEPT ![r] = next]
    BY <1>3 DEF Install, AfterInstall
  <2> QED
    BY <1>3, <2>1 DEF Install, SendExit
<1>4. CASE Arm(r)
  <2>1. PICK next \in {"answer", "success"} : pc' = [pc EXCEPT ![r] = next]
    BY <1>4 DEF Arm
  <2> QED
    BY <1>4, <2>1 DEF Arm, SendExit
<1>5. CASE \/ InstallFails(r) \/ WaitForMonitor(r) \/ WaitGivesUp(r)
           \/ ArmUnsent(r) \/ ArmAnswered(r) \/ ArmTimesOut(r) \/ RestartZygote(r)
  <2>1. PICK next \in {"restart", "success", "failure"} : pc' = [pc EXCEPT ![r] = next]
    BY <1>5 DEF InstallFails, WaitForMonitor, WaitGivesUp, ArmUnsent, ArmAnswered,
       ArmTimesOut, RestartZygote
  <2> QED
    BY <1>5, <2>1 DEF InstallFails, WaitForMonitor, WaitGivesUp, ArmUnsent, ArmAnswered,
       ArmTimesOut, RestartZygote, SendExit
<1> QED
  BY <1>1, <1>2, <1>3, <1>4, <1>5 DEF StageSteps

(* RetiredServed and StopMeansGone: a stage sends EXIT to the owner of the *)
(* socket, and finds init untraced only if no steady monitor is left.      *)
LEMMA RetiredPreserved ==
  ASSUME Types, Holders, NotYetStarted, SteadyTraces, RetiredServed, StopMeansGone,
         [Next]_vars
  PROVE  RetiredServed' /\ StopMeansGone'
<1> USE DEF RetiredServed, StopMeansGone
<1>1. ASSUME NEW r \in Run, StageSteps(r) PROVE RetiredServed' /\ StopMeansGone'
  <2>1. /\ UNCHANGED steady
        /\ \A n \in Run : mon[n] # "none" => mon'[n] = mon[n]
    <3>1. mon' = mon \/ (mon[r] = "none" /\ mon' = [mon EXCEPT ![r] = "probe"])
      BY <1>1, StageLeaves
    <3> QED
      BY <1>1, <3>1, StageLeaves DEF Types
  <2>2. CASE SendExit(r)
    <3>1. /\ owner \in Run /\ mon[owner] \in MayOwn /\ mon' = mon /\ UNCHANGED stopped
          /\ retired' = [retired EXCEPT ![r] = owner] /\ pc' = [pc EXCEPT ![r] = "poll"]
          /\ ~stopped[r]
      BY <2>2 DEF SendExit, MonitorIsRunning, Holders, Goto
    <3> QED
      BY <2>1, <3>1 DEF MayOwn, Ending, Types
  <2>3. CASE PollUntraced(r)
    <3>1. /\ retired[r] \in Run /\ Untraced /\ UNCHANGED <<retired, mon>>
          /\ stopped' = [stopped EXCEPT ![r] = TRUE]
      BY <2>3 DEF PollUntraced, monitorVars, Types
    <3>2. /\ pc'[r] \in {"install", "restart", "success"}
          /\ \A q \in Run : q # r => pc'[q] = pc[q]
      BY <2>3 DEF PollUntraced, Goto, AfterStop, Types
    <3>3. steady[retired[r]] => mon[retired[r]] = "gone"
      BY <3>1 DEF SteadyTraces, Untraced
    <3> QED
      BY <2>1, <3>1, <3>2, <3>3 DEF Types
  <2>4. CASE ~SendExit(r) /\ ~PollUntraced(r)
    <3>1. UNCHANGED <<retired, stopped>>
      BY <1>1, <2>4 DEF StageSteps, RunStage, StopMonitor, SendExitFails, PollGivesUp, Install,
         InstallFails, WaitForMonitor, WaitGivesUp, Arm, ArmUnsent, ArmAnswered,
         ArmTimesOut, RestartZygote
    <3>2. /\ \A q \in Run : q # r => pc'[q] = pc[q]
          /\ pc'[r] # "poll"
          /\ pc'[r] \in {"idle", "stop", "exit", "poll"} => ~stopped[r]
      BY <1>1, <2>4, StopComesFirst
    <3>3. \A q \in Run : /\ pc'[q] = "poll" => retired[q] # None
                         /\ pc'[q] \in {"idle", "stop", "exit", "poll"} => ~stopped[q]
      BY <3>2
    <3>4. \A q \in Run : retired[q] # None =>
            mon[retired[q]] \in Ending \cup {"loop", "gone"} /\ retired[q] \in Run
      BY DEF Types
    <3> QED
      BY <2>1, <3>1, <3>3, <3>4 DEF Ending
  <2> QED
    BY <2>2, <2>3, <2>4
<1>2. ASSUME NEW m \in Run, MonitorSteps(m) PROVE RetiredServed' /\ StopMeansGone'
  <2>1. pc' = pc
    BY <1>2 DEF MonitorSteps, InitMonitor, After, PtraceHandlerInit, SocketHandlerInit,
       StopRequested, InitDetached, StartRequested, HandleExit, HandleRearm, LoopEnds,
       SocketCloses, MonitorExits, MonitorKilled, runVars
  <2>2. UNCHANGED <<retired, stopped>>
    BY <1>2, MonitorGoesOn
  <2>3. \A n \in Run : mon[n] \in Ending \cup {"loop", "gone"} =>
          mon'[n] \in Ending \cup {"loop", "gone"}
    BY <1>2, MonitorGoesOn
  <2>4. \A n \in Run : mon[n] = "gone" => mon'[n] = "gone" /\ steady'[n] = steady[n]
    BY <1>2, MonitorGoesOn
  <2>5. \A n \in Run : mon[n] \in Ending \cup {"loop", "gone"} /\ steady'[n] => steady[n]
    BY <1>2, <2>4, MonitorGoesOn
  <2>6. \A q \in Run : retired[q] # None => retired[q] \in Run
    BY DEF Types
  <2> QED
    BY <2>1, <2>2, <2>3, <2>4, <2>5, <2>6
<1>3. CASE ZygoteStarts \/ ZygoteDies \/ UNCHANGED vars
  BY <1>3 DEF ZygoteStarts, ZygoteDies, vars, runVars, monitorVars
<1> QED
  BY <1>1, <1>2, <1>3 DEF Next

(* SomebodyTraced: a monitor stands down before the owner of the socket or *)
(* before init's tracer.                                                   *)
LEMMA SomebodyPreserved ==
  ASSUME Types, Holders, NotYetStarted, SomebodyTraced, [Next]_vars
  PROVE  SomebodyTraced'
<1> DEFINE Traced(s) == s \in Ending \cup {"bind", "loop", "gone"}
<1>1. ASSUME NEW r \in Run, StageSteps(r) PROVE SomebodyTraced'
  <2>1. mon' = mon \/ (mon[r] = "none" /\ mon' = [mon EXCEPT ![r] = "probe"])
    BY <1>1, StageLeaves
  <2> QED
    BY <2>1 DEF SomebodyTraced, Types, Ending
<1>2. ASSUME NEW m \in Run, MonitorSteps(m) PROVE SomebodyTraced'
  <2>1. \A n \in Run : Traced(mon[n]) => Traced(mon'[n])
    BY <1>2, MonitorGoesOn
  <2>2. CASE \E n \in Run : Traced(mon[n])
    BY <2>1, <2>2 DEF SomebodyTraced
  <2>3. CASE \A n \in Run : ~Traced(mon[n])
    <3>1. owner = None /\ initTracer = None
      BY <2>3 DEF Holders, MayOwn, MayTrace, Ending
    <3>2. \A n \in Run : mon[n] # "standing_down"
      BY <2>3 DEF SomebodyTraced
    <3>3. mon[m] \in {"probe", "seize"}
      BY <1>2, <2>3, MonitorGoesOn DEF Types, Mon, Starting, Ending
    <3>4. InitMonitor(m) \/ PtraceHandlerInit(m) \/ MonitorKilled(m)
      BY <1>2, <3>3 DEF MonitorSteps, After, SocketHandlerInit, StopRequested, InitDetached,
         StartRequested, HandleExit, HandleRearm, LoopEnds, SocketCloses, MonitorExits,
         Receive
    <3>5. mon'[m] # "standing_down"
      BY <3>1, <3>4 DEF InitMonitor, After, PtraceHandlerInit, MonitorKilled, MonitorIsRunning,
         Untraced, Become, Types
    <3>6. \A n \in Run : n # m => mon'[n] = mon[n]
      BY <1>2, MonitorGoesOn
    <3> QED
      BY <3>2, <3>5, <3>6 DEF SomebodyTraced
  <2> QED
    BY <2>2, <2>3
<1>3. CASE ZygoteStarts \/ ZygoteDies \/ UNCHANGED vars
  BY <1>3 DEF ZygoteStarts, ZygoteDies, SomebodyTraced, vars, monitorVars
<1> QED
  BY <1>1, <1>2, <1>3 DEF Next

(* What keeps the monitors apart is an invariant. *)
LEMMA ServingInvariance == Spec => []ServingInv
<1>1. Init => ServingInv
  BY DEF Init, ServingInv, SteadyTraces, RetiredServed, SomebodyTraced, StopMeansGone
<1>2. Types /\ Holders /\ NotYetStarted /\ ServingInv /\ [Next]_vars => ServingInv'
  BY SteadyPreserved, RetiredPreserved, SomebodyPreserved DEF ServingInv
<1> QED
  BY <1>1, <1>2, TypeInvariance, PTL DEF Spec

(***************************************************************************)
(* Whatever stages run at once: the monitor that a stage reports to have   *)
(* stopped is gone, unless it had let go of init before.                   *)
(***************************************************************************)
THEOREM StoppedIsGone == Spec => []StopMeansGone
  BY ServingInvariance, PTL DEF ServingInv

(***************************************************************************)
(* However many monitors start at once: one that serves and has traced     *)
(* init ever since keeps the control socket, and those that stand down do  *)
(* not all stand down for one another.                                     *)
(***************************************************************************)
THEOREM MonitorsApart == Spec => []OneMonitorServes
<1>1. ServingInv => OneMonitorServes
  <2> SUFFICES ASSUME ServingInv PROVE OneMonitorServes
    OBVIOUS
  <2> DEFINE Serves(m) == mon[m] = "loop" /\ owner = m /\ initTracer = m
             Steady(m) == mon[m] = "loop" /\ steady[m]
             stoodDown == {m \in Run : mon[m] = "standing_down"}
  <2>1. \A m \in Run : Steady(m) => Serves(m)
    BY DEF ServingInv, SteadyTraces
  <2>2. ASSUME stoodDown # {}, \A m \in Run \ stoodDown : mon[m] = "none" \/ Steady(m)
        PROVE  \E m \in Run : Serves(m)
    <3>1. PICK m \in Run : mon[m] \in Ending \cup {"bind", "loop", "gone"}
      BY <2>2 DEF ServingInv, SomebodyTraced
    <3>2. Steady(m)
      BY <2>2, <3>1 DEF Ending
    <3> QED
      BY <2>1, <3>2
  <2> QED
    BY <2>1, <2>2 DEF OneMonitorServes
<1> QED
  BY <1>1, ServingInvariance, PTL
=============================================================================
