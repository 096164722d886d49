---------------------------- MODULE TracerProofs ----------------------------
(***************************************************************************)
(* Proofs about Tracer, for every set of modes, any number of signals and  *)
(* every combination of faults.                                            *)
(***************************************************************************)
EXTENDS Tracer, TLAPS

USE ModesAssumption, MaxSignalsAssumption, FaultsAssumption

(* TypeOK without what relates the variables to one another. *)
Types ==
  /\ mode \in Modes /\ pc \in Step /\ strategy \in {"SEIZE", "ATTACH"}
  /\ fn \in Function /\ exit \in TraceExit \cup {"none"}
  /\ attached \in BOOLEAN /\ success \in BOOLEAN /\ hooked \in BOOLEAN
  /\ interrupted \in BOOLEAN
  /\ target \in Target /\ signals \in 0..MaxSignals

(* The injector is the tracer at every step but the first and the last     *)
(* two, and a target that is single-stepped has one.                       *)
TracerInv ==
  /\ attached <=> pc \notin {"attach", "failed", "exited"}
  /\ target.state = "traced" => attached
  /\ target.state # "dead" /\ target.stepped => attached
  /\ pc = "exited" <=> exit # "none"

(* A stop for the tracer changes nothing that the target executes. *)
LEMMA StopTyping ==
  ASSUME NEW t \in Target, NEW e \in Event
  PROVE  /\ Stop(t, e) \in Target
         /\ Stop(t, e).state = "traced"
         /\ Stop(t, e).ip = t.ip /\ Stop(t, e).hooks = t.hooks
         /\ Stop(t, e).mapped = t.mapped /\ Stop(t, e).ret = t.ret
         /\ Stop(t, e).stepped = t.stepped /\ Stop(t, e).queue = t.queue
  BY DEF Stop, Target

(* PTRACE_CONT resumes the target where it is. *)
LEMMA ContTyping ==
  ASSUME NEW t \in Target
  PROVE  /\ Cont(t) \in Target
         /\ Cont(t).state = "running" /\ ~Cont(t).stepped
         /\ Cont(t).ip = t.ip /\ Cont(t).hooks = t.hooks
         /\ Cont(t).mapped = t.mapped /\ Cont(t).ret = t.ret
  BY DEF Cont, Target, Event

(* So does PTRACE_DETACH, unless a job-control stop is in effect. *)
LEMMA DetachTyping ==
  ASSUME NEW t \in Target, NEW sig
  PROVE  /\ Detach(t, sig) \in Target
         /\ Detach(t, sig).state \in {"running", "stopped"} /\ ~Detach(t, sig).stepped
         /\ Detach(t, sig).ip = t.ip /\ Detach(t, sig).hooks = t.hooks
         /\ Detach(t, sig).mapped = t.mapped /\ Detach(t, sig).ret = t.ret
<1> DEFINE stays == /\ t.group \/ "STOP" \in t.queue
                    /\ ~(sig = "CONT" /\ t.event = "syscall")
           d == [t EXCEPT !.state = IF stays THEN "stopped" ELSE "running", !.group = stays,
               !.event = "none", !.notify = FALSE, !.queue = {}, !.stepped = FALSE]
<1>1. stays \in BOOLEAN
  BY DEF Target
<1>2. Detach(t, sig) = d
  BY DEF Detach
<1> HIDE DEF stays
<1>3. d \in Target /\ d.state \in {"running", "stopped"} /\ ~d.stepped
      /\ d.ip = t.ip /\ d.hooks = t.hooks /\ d.mapped = t.mapped /\ d.ret = t.ret
  BY <1>1 DEF Target, Event
<1> QED
  BY <1>2, <1>3

(* kill(SIGCONT) ends such a stop and wakes no dead target. *)
LEMMA SendContTyping ==
  ASSUME NEW t \in Target, NEW traced \in BOOLEAN, strategy \in {"SEIZE", "ATTACH"}
  PROVE  /\ SendCont(t, traced) \in Target
         /\ SendCont(t, traced).state \in {t.state, "running"}
         /\ t.state = "dead" => SendCont(t, traced).state = "dead"
         /\ SendCont(t, traced).ip = t.ip /\ SendCont(t, traced).hooks = t.hooks
         /\ SendCont(t, traced).mapped = t.mapped /\ SendCont(t, traced).ret = t.ret
         /\ SendCont(t, traced).stepped = t.stepped
<1>1. CASE t.state = "dead"
  BY <1>1 DEF SendCont
<1>2. CASE t.state # "dead"
  <2> DEFINE n == t.notify \/ (traced /\ strategy = "SEIZE")
             q == (t.queue \ {"STOP"}) \cup (IF traced THEN {"CONT"} ELSE {})
             d == [t EXCEPT !.state = IF t.state = "stopped" THEN "running" ELSE t.state,
                            !.group = FALSE, !.notify = n, !.queue = q]
  <2>1. n \in BOOLEAN /\ q \in SUBSET {"STOP", "CONT", "SIG"}
    BY DEF Target
  <2>2. SendCont(t, traced) = d
    BY <1>2 DEF SendCont
  <2> HIDE DEF n, q
  <2>3. /\ d \in Target /\ d.state \in {t.state, "running"} /\ d.ip = t.ip
        /\ d.hooks = t.hooks /\ d.mapped = t.mapped /\ d.ret = t.ret /\ d.stepped = t.stepped
    BY <2>1 DEF Target, Event
  <2> QED
    BY <1>2, <2>2, <2>3
<1> QED
  BY <1>1, <1>2

(* A fault stops a target that has a tracer and kills any other. *)
LEMMA FaultTyping ==
  ASSUME NEW t \in Target
  PROVE  /\ Fault(t) \in Target
         /\ Fault(t).state = IF attached THEN "traced" ELSE "dead"
         /\ Fault(t).ip = t.ip /\ Fault(t).hooks = t.hooks
         /\ Fault(t).mapped = t.mapped /\ Fault(t).ret = t.ret
         /\ Fault(t).stepped = t.stepped
  BY StopTyping DEF Fault, Target, Event

(* The end of the tracer leaves nothing of it behind. *)
LEMMA TracerGoneTyping ==
  ASSUME NEW t \in Target
  PROVE  /\ TracerGone(t) \in Target
         /\ attached => TracerGone(t).state = "dead" \/ ~TracerGone(t).stepped
         /\ attached => TracerGone(t).state # "traced"
         /\ ~attached => TracerGone(t) = t
  BY DetachTyping DEF TracerGone, Target, Event

(* TypeOK is what these two say. *)
LEMMA TypeOKParts == Types /\ TracerInv => TypeOK
  BY DEF Types, TracerInv, TypeOK, Traced

(* What a step of the target makes of it. *)
LEMMA TargetTyping ==
  ASSUME Types, TracerInv, TargetNext \/ Crashes \/ GetsSignal \/ IsKilled
  PROVE  /\ UNCHANGED injectorVars
         /\ target' \in Target /\ signals' \in 0..MaxSignals
         /\ target'.state = "traced" => attached
         /\ target'.state # "dead" => target.state # "dead"
         /\ target'.state # "dead" /\ target'.stepped => attached
<1> USE DEF TracerInv
<1>1. target \in Target /\ signals \in 0..MaxSignals /\ attached \in BOOLEAN
  BY DEF Types
<1>2. CASE StopsForTracer
  <2>1. CASE target.notify
    <3> DEFINE e == IF target.group THEN "group_stop" ELSE "trap"
    <3>1. e \in Event
      BY DEF Event
    <3>2. target' = [Stop(target, e) EXCEPT !.notify = FALSE] /\ attached
      BY <1>2, <2>1 DEF StopsForTracer
    <3> HIDE DEF e
    <3>3. Stop(target, e) \in Target /\ Stop(target, e).stepped = target.stepped
      BY <1>1, <3>1, StopTyping
    <3>4. target' \in Target /\ target'.stepped = target.stepped
      BY <3>2, <3>3 DEF Target
    <3> QED
      BY <1>1, <1>2, <3>4 DEF StopsForTracer, Runs
  <2>2. CASE ~target.notify
    <3>1. PICK s \in target.queue : target' = [Stop(target, s) EXCEPT !.queue = @ \ {s}]
      BY <1>2, <2>2 DEF StopsForTracer
    <3>2. s \in Event
      BY <1>1, <3>1 DEF Target, Event
    <3>3. target' \in Target /\ target'.stepped = target.stepped
      BY <1>1, <3>1, <3>2, StopTyping DEF Target
    <3> QED
      BY <1>1, <1>2, <3>3 DEF StopsForTracer, Runs
  <2> QED
    BY <2>1, <2>2
<1>3. CASE ReachesEntryPoint
  <2>1. [target EXCEPT !.ip = "break"] \in Target /\ [target EXCEPT !.ip = "main"] \in Target
    BY <1>1 DEF Target
  <2>2. [target EXCEPT !.ip = "main"].state = target.state
        /\ [target EXCEPT !.ip = "main"].stepped = target.stepped
        /\ [target EXCEPT !.ip = "break"].stepped = target.stepped
    BY <1>1 DEF Target
  <2> QED
    BY <1>1, <1>3, <2>1, <2>2, FaultTyping DEF ReachesEntryPoint, Executes, Runs
<1>4. CASE MakesSyscall
  BY <1>1, <1>4, StopTyping DEF MakesSyscall, Executes, Runs, Event
<1>5. CASE Returns
  <2>1. PICK ret \in BOOLEAN :
          target' = Fault([target EXCEPT !.ip = "fake", !.ret = ret,
                             !.mapped = @ \/ (fn = "dlopen" /\ ret)])
    BY <1>5 DEF Returns
  <2>2. target.mapped \/ (fn = "dlopen" /\ ret) \in BOOLEAN
    BY <1>1 DEF Target
  <2> DEFINE t == [target EXCEPT !.ip = "fake", !.ret = ret,
                             !.mapped = @ \/ (fn = "dlopen" /\ ret)]
  <2>3. t \in Target /\ t.stepped = target.stepped
    BY <1>1, <2>2 DEF Target
  <2> HIDE DEF t
  <2> QED
    BY <1>1, <1>5, <2>1, <2>3, FaultTyping DEF Returns, Executes, Runs, t
<1>6. CASE PingsHeartbeat \/ InstallsHooks
  <2>1. PICK came \in {"answered", "installed", "failed"} :
               target' = [target EXCEPT !.hooks = came]
    BY <1>6 DEF PingsHeartbeat, InstallsHooks
  <2>2. target' \in Target /\ target'.state = target.state /\ target'.stepped = target.stepped
    BY <1>1, <2>1 DEF Target
  <2> QED
    BY <1>1, <1>6, <2>2 DEF PingsHeartbeat, InstallsHooks, InEntry, Executes, Runs
<1>7. CASE RaisesSeccompEvent
  <2>1. Stop(target, "SECCOMP") \in Target
    BY <1>1, StopTyping DEF Event
  <2>2. target' \in Target
    BY <1>7, <2>1 DEF RaisesSeccompEvent, Target
  <2> QED
    BY <1>1, <1>7, <2>2 DEF RaisesSeccompEvent, InEntry, Executes, Runs
<1>8. CASE RunsAstray
  BY <1>1, <1>8, FaultTyping DEF RunsAstray, Executes, Runs
<1>9. CASE Crashes
  BY <1>1, <1>9, StopTyping DEF Crashes, Executes, Runs, Event
<1>10. CASE GetsSignal
  BY <1>1, <1>10 DEF GetsSignal, Alive, Target
<1>11. CASE IsKilled
  BY <1>1, <1>11 DEF IsKilled, Alive, Target, Event
<1> QED
  BY <1>2, <1>3, <1>4, <1>5, <1>6, <1>7, <1>8, <1>9, <1>10, <1>11 DEF TargetNext

(* A step of the injector keeps the types and leaves the target alone once *)
(* it has let go of it.                                                    *)
LEMMA InjectorTyping ==
  ASSUME Types, TracerInv, InjectorNext \/ HandleInterrupt
  PROVE  Types' /\ TracerInv'
<1> USE DEF Goto, Step, Function, TraceExit
<1>1. /\ target \in Target /\ strategy \in {"SEIZE", "ATTACH"}
      /\ target.state \in {"running", "stopped", "traced", "dead"}
  BY DEF Types, Target
<1>2. CASE Seize
  <2>1. target' \in Target /\ (target'.state = "dead" <=> target.state = "dead")
    BY <1>1, <1>2, StopTyping DEF Seize, Event, Target
  <2>2. Types'
    BY <1>2, <2>1 DEF Seize, Types
  <2>3. CASE attached' = TRUE
    BY <1>2, <2>2, <2>3 DEF Seize, TracerInv
  <2>4. CASE attached' # TRUE
    BY <1>2, <2>2, <2>4 DEF Seize, TracerInv
  <2> QED
    BY <2>3, <2>4
<1>3. CASE Attach
  <2> DEFINE t == IF target.state = "stopped" THEN Stop(target, "group_stop") ELSE target
  <2>1. t \in Target
    BY <1>1, StopTyping DEF Event
  <2> HIDE DEF t
  <2>2. [t EXCEPT !.queue = @ \cup {"STOP"}] \in Target
    BY <2>1 DEF Target
  <2>3. target' \in Target
    BY <1>1, <1>3, <2>2 DEF Attach, t
  <2>4. Types'
    BY <1>3, <2>3 DEF Attach, Types
  <2>5. CASE attached' = TRUE
    BY <1>3, <2>4, <2>5 DEF Attach, TracerInv
  <2>6. CASE attached' # TRUE
    BY <1>3, <2>4, <2>6 DEF Attach, TracerInv
  <2> QED
    BY <2>5, <2>6
<1>4. CASE Interrupt
  <2>1. [target EXCEPT !.notify = TRUE] \in Target
    BY <1>1 DEF Target
  <2> QED
    BY <1>1, <1>4, <2>1 DEF Interrupt, Types, TracerInv, Alive
<1>5. CASE InitialStop \/ InjectLate
  BY <1>1, <1>5 DEF InitialStop, InjectLate, Types, TracerInv
<1>6. CASE HijackEntry
  <2>1. [target EXCEPT !.at_entry = "break"] \in Target
    BY <1>1 DEF Target
  <2>2. Cont([target EXCEPT !.at_entry = "break"]) \in Target
    BY <2>1, ContTyping
  <2>3. target' \in Target
    BY <1>1, <1>6, <2>2 DEF HijackEntry
  <2> QED
    BY <1>1, <1>6, <2>3 DEF HijackEntry, Types, TracerInv
<1>7. CASE ExitsInWait
  BY <1>1, <1>7 DEF ExitsInWait, Types, TracerInv, Alive
<1>8. CASE EntryPointStop
  <2>1. target' \in Target
    BY <1>1, <1>8, ContTyping DEF EntryPointStop, Resume, Target
  <2>2. pc' \in {"entry_point", "call", "bail"}
    BY <1>8 DEF EntryPointStop, Resume
  <2> QED
    BY <1>1, <1>8, <2>1, <2>2 DEF EntryPointStop, Types, TracerInv
<1>9. CASE RemoteCall
  <2>1. [target EXCEPT !.ip = "call"] \in Target
    BY <1>1 DEF Target
  <2>2. target' \in Target
    BY <1>1, <1>9, <2>1, ContTyping DEF RemoteCall
  <2>3. /\ pc' \in {"return", "call", "restore", "bail"}
        /\ fn' \in Function /\ success' \in BOOLEAN /\ hooked' \in BOOLEAN
    BY <1>9 DEF RemoteCall, AfterCall, CallNext, InjectionFails, Types
  <2> QED
    BY <1>1, <1>9, <2>2, <2>3 DEF RemoteCall, Types, TracerInv
<1>10. CASE RemoteCallStops
  <2>1. target' \in Target
    BY <1>1, <1>10, ContTyping DEF RemoteCallStops
  <2>2. /\ pc' \in {"return", "call", "restore", "bail"}
        /\ fn' \in Function /\ success' \in BOOLEAN /\ hooked' \in BOOLEAN
    BY <1>1, <1>10 DEF RemoteCallStops, AfterCall, CallNext, InjectionFails, Types, Target
  <2> QED
    BY <1>1, <1>10, <2>1, <2>2 DEF RemoteCallStops, Types, TracerInv
<1>11. CASE RestoreRegs
  <2>1. [target EXCEPT !.ip = "main"] \in Target
    BY <1>1 DEF Target
  <2> QED
    BY <1>1, <1>11, <2>1 DEF RestoreRegs, Types, TracerInv
<1>12. CASE ReleaseLate
  BY <1>1, <1>12, DetachTyping DEF ReleaseLate, Verdict, Alive, Types, TracerInv
<1>13. CASE ReleaseParked
  <2>1. SendCont(target, TRUE) \in Target
    BY <1>1, SendContTyping
  <2>2. Cont(SendCont(target, TRUE)) \in Target
    BY <2>1, ContTyping
  <2>3. target' \in Target
    BY <1>1, <1>13, <2>2 DEF ReleaseParked
  <2> QED
    BY <1>13, <2>3 DEF ReleaseParked, Types, TracerInv
<1>14. CASE TrapStop \/ SigcontStop
  BY <1>1, <1>14, ContTyping DEF TrapStop, SigcontStop, Resume, Types, TracerInv
<1>15. CASE StepSyscall
  <2>1. Cont(target) \in Target
    BY <1>1, ContTyping
  <2>2. [Cont(target) EXCEPT !.stepped = TRUE] \in Target
    BY <2>1 DEF Target
  <2> QED
    BY <1>1, <1>15, <2>2 DEF StepSyscall, Alive, Types, TracerInv
<1>16. CASE DetachAtSyscall
  <2>1. /\ target' \in Target
        /\ target'.state = "dead" \/ (target'.state # "traced" /\ ~target'.stepped)
    BY <1>1, <1>16, DetachTyping DEF DetachAtSyscall, Alive
  <2> QED
    BY <1>16, <2>1 DEF DetachAtSyscall, Verdict, Types, TracerInv
<1>17. CASE Bail
  BY <1>1, <1>17, DetachTyping DEF Bail, Alive, Types, TracerInv
<1>18. CASE HandleTraceFails
  BY <1>1, <1>18, SendContTyping DEF HandleTraceFails, Types, TracerInv
<1>19. CASE HandleInterrupt
  BY <1>1, <1>19, DetachTyping, TracerGoneTyping DEF HandleInterrupt, Traced, Types, TracerInv
<1> QED
  BY <1>2, <1>3, <1>4, <1>5, <1>6, <1>7, <1>8, <1>9, <1>10, <1>11, <1>12, <1>13, <1>14,
     <1>15, <1>16, <1>17, <1>18, <1>19 DEF InjectorNext

(* The types, with what makes them inductive. *)
LEMMA TypeInvariance == Spec => [](Types /\ TracerInv)
<1>1. Init => Types /\ TracerInv
  <2> SUFFICES ASSUME Init PROVE Types /\ TracerInv
    OBVIOUS
  <2>1. target \in Target /\ target.state \in {"running", "stopped"} /\ ~target.stepped
    BY DEF Init, Target, Event
  <2>2. /\ mode \in Modes /\ pc = "attach" /\ strategy = "SEIZE" /\ fn = "dlopen"
        /\ attached = FALSE /\ success = FALSE /\ hooked = FALSE /\ interrupted = FALSE
        /\ exit = "none" /\ signals = 0
    BY DEF Init
  <2>3. Types
    <3>1. /\ attached \in BOOLEAN /\ success \in BOOLEAN /\ hooked \in BOOLEAN
          /\ interrupted \in BOOLEAN
      BY <2>2
    <3>2. signals \in 0..MaxSignals
      BY <2>2
    <3> QED
      BY <2>1, <2>2, <3>1, <3>2 DEF Types, Step, Function
  <2>4. TracerInv
    BY <2>1, <2>2 DEF TracerInv
  <2> QED
    BY <2>3, <2>4
<1>2. Types /\ TracerInv /\ [Next]_vars => Types' /\ TracerInv'
  <2> SUFFICES ASSUME Types, TracerInv, [Next]_vars PROVE Types' /\ TracerInv'
    OBVIOUS
  <2>1. CASE InjectorNext \/ HandleInterrupt
    BY <2>1, InjectorTyping
  <2>2. CASE TargetNext \/ Crashes \/ GetsSignal \/ IsKilled
    BY <2>2, TargetTyping DEF Types, TracerInv, injectorVars
  <2>3. CASE UNCHANGED vars
    BY <2>3 DEF Types, TracerInv, vars, injectorVars
  <2> QED
    BY <2>1, <2>2, <2>3 DEF Next
<1> QED
  BY <1>1, <1>2, PTL DEF Spec

(***************************************************************************)
(* Type correctness, and with it: the target is stopped for a tracer only  *)
(* while it has one, and an injector that has exited has let go and said   *)
(* how it went.                                                            *)
(***************************************************************************)
THEOREM TypeCorrect == Spec => []TypeOK
  BY TypeInvariance, TypeOKParts, PTL

-----------------------------------------------------------------------------
(***************************************************************************)
(* What the injector knows of the target at each of its steps.  A late     *)
(* target is at its own code unless a call is under way or its registers   *)
(* have yet to be restored; whoever is on the way out, or at a restore     *)
(* that follows a success, has the library and got as far in entry() as    *)
(* was reported: through its hooks, or not past the heartbeat.             *)
(***************************************************************************)
ReleaseSteps == {"release", "trap", "sigcont", "syscall", "detach"}

OutsideCalls == {"attach", "interrupt", "initial", "inject", "bail", "failed", "exited"}

Agrees(ret, hooks) == hooks \in IF ret THEN {"installed", "failed"} ELSE {"none"}

ReportIsTrue == target.mapped /\ Agrees(hooked, target.hooks)

CallInv ==
  /\ pc = "entry_point" => ~Started
  /\ fn \in {"dlsym", "entry"} => target.mapped
  /\ pc = "return" /\ target.ip = "fake" =>
       /\ fn = "dlopen" /\ target.ret => target.mapped
       /\ fn = "entry" => Agrees(target.ret, target.hooks)
  /\ pc = "restore" /\ success => ReportIsTrue /\ target.ip = "fake"
  /\ pc \in ReleaseSteps \/ exit \in TraceExit \ {"TRACE_FAILED"} =>
       ReportIsTrue /\ target.ip = "main"
  /\ exit = "TRACE_HOOKED" => hooked
  /\ exit = "TRACE_MAPPED_ONLY" => ~hooked
  /\ Started /\ target.state # "dead" /\ pc \in OutsideCalls /\ ~interrupted =>
       target.ip = "main"

(* What the target does changes at what it executes. *)
LEMMA TargetExecutes ==
  ASSUME Types, TargetNext \/ Crashes \/ GetsSignal \/ IsKilled
  PROVE  /\ target.mapped => target'.mapped
         /\ target.ip = "main" => target'.ip = "main"
         /\ target.ip = "fake" => target'.ip = "fake" /\ target'.ret = target.ret
         /\ target.ip # "call" \/ (~PingsHeartbeat /\ ~InstallsHooks)
              => target'.hooks = target.hooks
         /\ target'.ip = "fake" => target.ip \in {"fake", "call"}
         /\ target.ip = "call" /\ target'.ip = "fake" =>
              /\ fn = "dlopen" /\ target'.ret => target'.mapped
              /\ fn = "entry" => Agrees(target'.ret, target'.hooks)
<1> DEFINE Same == /\ target'.ip = target.ip /\ target'.hooks = target.hooks
                   /\ target'.mapped = target.mapped /\ target'.ret = target.ret
<1>1. target \in Target
  BY DEF Types
<1>2. ASSUME StopsForTracer PROVE Same
  <2>1. CASE target.notify
    <3> DEFINE e == IF target.group THEN "group_stop" ELSE "trap"
    <3>1. target' = [Stop(target, e) EXCEPT !.notify = FALSE]
      BY <1>2, <2>1 DEF StopsForTracer
    <3>2. e \in Event
      BY DEF Event
    <3> HIDE DEF e
    <3>3. Stop(target, e) \in Target
      BY <1>1, <3>2, StopTyping
    <3>4. /\ target'.ip = Stop(target, e).ip /\ target'.hooks = Stop(target, e).hooks
          /\ target'.mapped = Stop(target, e).mapped /\ target'.ret = Stop(target, e).ret
      BY <3>1, <3>3 DEF Target
    <3> QED
      BY <1>1, <3>2, <3>4, StopTyping
  <2>2. CASE ~target.notify
    <3>1. PICK s \in target.queue : target' = [Stop(target, s) EXCEPT !.queue = @ \ {s}]
      BY <1>2, <2>2 DEF StopsForTracer
    <3>2. s \in Event
      BY <1>1, <3>1 DEF Target, Event
    <3>3. Stop(target, s) \in Target
      BY <1>1, <3>2, StopTyping
    <3>4. /\ target'.ip = Stop(target, s).ip /\ target'.hooks = Stop(target, s).hooks
          /\ target'.mapped = Stop(target, s).mapped /\ target'.ret = Stop(target, s).ret
      BY <3>1, <3>3 DEF Target
    <3> QED
      BY <1>1, <3>2, <3>4, StopTyping
  <2> QED
    BY <2>1, <2>2
<1>3. ASSUME MakesSyscall \/ Crashes PROVE Same
  BY <1>1, <1>3, StopTyping DEF MakesSyscall, Crashes, Event
<1>4. ASSUME RaisesSeccompEvent PROVE Same
  <2>1. Stop(target, "SECCOMP") \in Target
    BY <1>1, StopTyping DEF Event
  <2>2. target' = [Stop(target, "SECCOMP") EXCEPT !.scrubbed = TRUE]
    BY <1>4 DEF RaisesSeccompEvent
  <2>3. /\ target'.ip = Stop(target, "SECCOMP").ip
        /\ target'.hooks = Stop(target, "SECCOMP").hooks
        /\ target'.mapped = Stop(target, "SECCOMP").mapped
        /\ target'.ret = Stop(target, "SECCOMP").ret
    BY <2>1, <2>2 DEF Target
  <2> QED
    BY <1>1, <2>3, StopTyping DEF Event
<1>5. ASSUME RunsAstray PROVE Same
  BY <1>1, <1>5, FaultTyping DEF RunsAstray
<1>6. ASSUME GetsSignal \/ IsKilled PROVE Same
  BY <1>1, <1>6 DEF GetsSignal, IsKilled, Target
<1>7. CASE ReachesEntryPoint
  <2>1. target.ip = "start"
    BY <1>7 DEF ReachesEntryPoint
  <2>2. /\ [target EXCEPT !.ip = "break"] \in Target /\ [target EXCEPT !.ip = "break"].ip = "break"
        /\ [target EXCEPT !.ip = "break"].hooks = target.hooks
        /\ [target EXCEPT !.ip = "break"].mapped = target.mapped
        /\ [target EXCEPT !.ip = "main"].ip = "main"
        /\ [target EXCEPT !.ip = "main"].hooks = target.hooks
        /\ [target EXCEPT !.ip = "main"].mapped = target.mapped
    BY <1>1 DEF Target
  <2>3. /\ target'.ip \in {"break", "main"} /\ target'.hooks = target.hooks
        /\ target'.mapped = target.mapped
    BY <1>7, <2>2, FaultTyping DEF ReachesEntryPoint
  <2> QED
    BY <2>1, <2>3
<1>8. CASE Returns
  <2>1. PICK ret \in BOOLEAN :
          /\ fn = "entry" => Agrees(ret, target.hooks)
          /\ target' = Fault([target EXCEPT !.ip = "fake", !.ret = ret,
                                !.mapped = @ \/ (fn = "dlopen" /\ ret)])
    BY <1>8 DEF Returns, EntryReturns, Agrees
  <2> DEFINE mapped == target.mapped \/ (fn = "dlopen" /\ ret)
             t == [target EXCEPT !.ip = "fake", !.ret = ret, !.mapped = mapped]
  <2>2. mapped \in BOOLEAN
    BY <1>1 DEF Target
  <2>3. target' = Fault(t)
    BY <2>1
  <2> HIDE DEF mapped
  <2>4. t \in Target /\ t.ip = "fake" /\ t.ret = ret /\ t.mapped = mapped /\ t.hooks = target.hooks
    BY <1>1, <2>2 DEF Target
  <2> HIDE DEF t
  <2>5. /\ target'.ip = "fake" /\ target'.ret = ret /\ target'.mapped = mapped
        /\ target'.hooks = target.hooks
    BY <2>3, <2>4, FaultTyping
  <2>6. target.ip = "call"
    BY <1>8 DEF Returns
  <2> QED
    BY <2>1, <2>5, <2>6 DEF mapped
<1>9. CASE PingsHeartbeat \/ InstallsHooks
  <2>1. PICK came : target' = [target EXCEPT !.hooks = came]
    BY <1>9 DEF PingsHeartbeat, InstallsHooks
  <2>2. target.ip = "call"
    BY <1>9 DEF PingsHeartbeat, InstallsHooks, InEntry
  <2>3. target'.ip = target.ip /\ target'.mapped = target.mapped
    BY <1>1, <2>1 DEF Target
  <2> QED
    BY <1>9, <2>2, <2>3
<1> QED
  BY <1>2, <1>3, <1>4, <1>5, <1>6, <1>7, <1>8, <1>9 DEF TargetNext

(* So the target keeps what the injector knows. *)
LEMMA TargetKeeps ==
  ASSUME Types, TracerInv, CallInv, TargetNext \/ Crashes \/ GetsSignal \/ IsKilled
  PROVE  CallInv'
<1>1. /\ pc' = pc /\ fn' = fn /\ success' = success /\ hooked' = hooked /\ exit' = exit
      /\ interrupted' = interrupted /\ mode' = mode
      /\ target'.state # "dead" => target.state # "dead"
  BY TargetTyping DEF injectorVars
<1> QED
  BY <1>1, TargetExecutes DEF CallInv, ReportIsTrue, Started

(* The injector changes what the target executes at a call and at the      *)
(* restore only.                                                           *)
LEMMA InjectorLeaves ==
  ASSUME Types, InjectorNext \/ HandleInterrupt, ~RemoteCall, ~RestoreRegs
  PROVE  /\ target'.ip = target.ip /\ target'.hooks = target.hooks
         /\ target'.mapped = target.mapped /\ target'.ret = target.ret
         /\ target'.state # "dead" => target.state # "dead"
<1>1. target \in Target /\ strategy \in {"SEIZE", "ATTACH"}
  BY DEF Types
<1>2. CASE Seize
  BY <1>1, <1>2, StopTyping DEF Seize, Alive, Event
<1>3. CASE Attach
  <2> DEFINE t == IF target.state = "stopped" THEN Stop(target, "group_stop") ELSE target
  <2>1. /\ t \in Target /\ t.ip = target.ip /\ t.hooks = target.hooks
        /\ t.mapped = target.mapped /\ t.ret = target.ret
    BY <1>1, StopTyping DEF Event
  <2>2. target' = target \/ (Alive /\ target' = [t EXCEPT !.queue = @ \cup {"STOP"}])
    BY <1>3 DEF Attach
  <2> HIDE DEF t
  <2> QED
    BY <2>1, <2>2 DEF Target, Alive
<1>4. CASE Interrupt
  BY <1>1, <1>4 DEF Interrupt, Alive, Target
<1>5. CASE HijackEntry
  <2> DEFINE t == [target EXCEPT !.at_entry = "break"]
  <2>1. /\ t \in Target /\ t.ip = target.ip /\ t.hooks = target.hooks
        /\ t.mapped = target.mapped /\ t.ret = target.ret
    BY <1>1 DEF Target
  <2>2. target' = target \/ (Alive /\ target' = Cont(t))
    BY <1>5 DEF HijackEntry, Reachable
  <2> HIDE DEF t
  <2> QED
    BY <2>1, <2>2, ContTyping DEF Alive
<1>6. CASE InitialStop \/ InjectLate \/ ExitsInWait \/ SigcontStop
  BY <1>6 DEF InitialStop, InjectLate, ExitsInWait, SigcontStop
<1>7. CASE EntryPointStop
  <2>1. \/ target' = target
        \/ target.state = "traced" /\ target' = Cont(target)
        \/ target.state = "traced" /\ target' = [target EXCEPT !.at_entry = "entry"]
    BY <1>7 DEF EntryPointStop, Resume, Traced
  <2> QED
    BY <1>1, <2>1, ContTyping DEF Target
<1>8. CASE RemoteCallStops
  <2>1. target' = target \/ (target.state = "traced" /\ target' = Cont(target))
    BY <1>8 DEF RemoteCallStops, Traced
  <2> QED
    BY <1>1, <2>1, ContTyping
<1>9. CASE ReleaseLate \/ Bail \/ DetachAtSyscall
  <2>1. target' = target \/ (Alive /\ \E sig : target' = Detach(target, sig))
    BY <1>9 DEF ReleaseLate, Bail, DetachAtSyscall
  <2> QED
    BY <1>1, <2>1, DetachTyping DEF Alive
<1>10. CASE ReleaseParked
  <2>1. target' = target \/ (Alive /\ target' = Cont(SendCont(target, TRUE)))
    BY <1>10 DEF ReleaseParked
  <2>2. SendCont(target, TRUE) \in Target
    BY <1>1, SendContTyping
  <2> DEFINE t == SendCont(target, TRUE)
  <2>3. /\ t.ip = target.ip /\ t.hooks = target.hooks
        /\ t.mapped = target.mapped /\ t.ret = target.ret
    BY <1>1, SendContTyping
  <2> HIDE DEF t
  <2> QED
    BY <1>1, <2>1, <2>2, <2>3, ContTyping DEF Alive, t
<1>11. CASE TrapStop
  BY <1>1, <1>11, ContTyping DEF TrapStop, Resume, Alive
<1>12. CASE StepSyscall
  <2>1. target' = target \/ (Alive /\ target' = [Cont(target) EXCEPT !.stepped = TRUE])
    BY <1>12 DEF StepSyscall
  <2>2. Cont(target) \in Target
    BY <1>1, ContTyping
  <2>3. target' = target \/
          /\ Alive /\ target'.ip = Cont(target).ip /\ target'.hooks = Cont(target).hooks
          /\ target'.mapped = Cont(target).mapped /\ target'.ret = Cont(target).ret
    BY <2>1, <2>2 DEF Target
  <2> QED
    BY <1>1, <2>3, ContTyping DEF Alive
<1>13. CASE HandleTraceFails
  BY <1>1, <1>13, SendContTyping DEF HandleTraceFails
<1>14. CASE HandleInterrupt
  <2>1. target' \in {target, Detach(target, "CONT"), Detach(target, "none"),
                     [target EXCEPT !.state = "dead"]}
    BY <1>14 DEF HandleInterrupt, TracerGone
  <2>2. target.state = "dead" => target' = target
    BY <1>14 DEF HandleInterrupt, TracerGone, Traced
  <2>3. CASE target' = [target EXCEPT !.state = "dead"]
    BY <1>1, <2>3 DEF Target
  <2>4. CASE target' = Detach(target, "CONT") \/ target' = Detach(target, "none")
    BY <1>1, <2>2, <2>4, DetachTyping
  <2> QED
    BY <2>1, <2>3, <2>4
<1> QED
  BY <1>2, <1>3, <1>4, <1>5, <1>6, <1>7, <1>8, <1>9, <1>10, <1>11, <1>12, <1>13, <1>14
     DEF InjectorNext

(* A failed injection leads to a restore or, of a parked target, out. *)
LEMMA FailureKeeps ==
  ASSUME CallInv, InjectionFails, exit = "none", UNCHANGED <<target, mode, exit>>
  PROVE  CallInv'
<1>1. /\ pc' = IF Started THEN "restore" ELSE "bail"
      /\ success' = FALSE /\ fn' = fn
  BY DEF InjectionFails, Goto
<1> QED
  BY <1>1 DEF CallInv, ReportIsTrue, ReleaseSteps, OutsideCalls, Started, TraceExit

(* What follows a call, given what is known of its result. *)
LEMMA AfterCallKeeps ==
  ASSUME CallInv, Types, NEW returned \in BOOLEAN, NEW ret \in BOOLEAN, AfterCall(returned, ret),
         exit = "none", UNCHANGED <<target, mode, exit>>,
         fn = "dlopen" /\ ret => target.mapped,
         fn = "entry" /\ returned => Agrees(ret, target.hooks) /\ target.ip = "fake"
  PROVE  CallInv'
<1>1. ASSUME NEW f \in Function, CallNext(f), f \in {"dlsym", "entry"} => target.mapped
      PROVE  CallInv'
  <2>1. fn' = f /\ pc' = "call"
    BY <1>1 DEF CallNext, Goto
  <2> QED
    BY <1>1, <2>1 DEF CallInv, ReleaseSteps, OutsideCalls, TraceExit
<1>2. CASE fn = "dlopen"
  BY <1>1, <1>2 DEF AfterCall, Function
<1>3. CASE fn = "dlerror"
  BY <1>1, <1>3, FailureKeeps DEF AfterCall, Function
<1>4. CASE fn = "strlen"
  BY <1>4, FailureKeeps DEF AfterCall
<1>5. CASE fn = "dlsym"
  BY <1>1, <1>5, FailureKeeps DEF AfterCall, Function, CallInv
<1>6. CASE fn = "entry"
  <2>1. CASE returned
    <3>1. hooked' = ret /\ success' = TRUE /\ pc' = "restore" /\ fn' = fn
      BY <1>6, <2>1 DEF AfterCall, Goto
    <3> QED
      BY <1>6, <2>1, <3>1 DEF CallInv, ReportIsTrue, ReleaseSteps, OutsideCalls, TraceExit
  <2>2. CASE ~returned
    BY <1>6, <2>2, FailureKeeps DEF AfterCall
  <2> QED
    BY <2>1, <2>2
<1> QED
  BY <1>2, <1>3, <1>4, <1>5, <1>6 DEF Types, Function

(* So the injector keeps what it knows of the target. *)
LEMMA InjectorKeeps ==
  ASSUME Types, TracerInv, CallInv, InjectorNext \/ HandleInterrupt
  PROVE  CallInv'
<1>1. target \in Target /\ (pc = "exited" <=> exit # "none")
  BY DEF Types, TracerInv
<1>2. CASE RemoteCall
  <2> DEFINE t == [target EXCEPT !.ip = "call"]
  <2>1. t \in Target /\ t.ip = "call" /\ t.mapped = target.mapped
    BY <1>1 DEF Target
  <2>2. exit = "none" /\ UNCHANGED <<mode, exit>>
    BY <1>1, <1>2 DEF RemoteCall
  <2>3. CASE pc' = "return" /\ target' = Cont(t) /\ fn' = fn
    <3> HIDE DEF t
    <3>1. target'.ip = "call" /\ target'.mapped = target.mapped
      BY <2>1, <2>3, ContTyping
    <3> QED
      BY <2>2, <2>3, <3>1 DEF CallInv, ReleaseSteps, OutsideCalls, TraceExit
  <2>4. CASE AfterCall(FALSE, FALSE) /\ UNCHANGED target
    BY <2>2, <2>4, AfterCallKeeps
  <2>5. CASE InjectionFails /\ UNCHANGED target
    BY <2>2, <2>5, FailureKeeps
  <2> QED
    BY <1>2, <2>3, <2>4, <2>5 DEF RemoteCall, Goto
<1>3. CASE RestoreRegs
  <2>1. /\ pc = "restore" /\ exit = "none" /\ fn' = fn /\ hooked' = hooked
        /\ UNCHANGED <<mode, exit, success, interrupted>>
    BY <1>1, <1>3 DEF RestoreRegs
  <2>2. CASE Alive
    <3>1. target' = [target EXCEPT !.ip = "main"] /\ pc' = IF success THEN "release" ELSE "bail"
      BY <1>3, <2>2 DEF RestoreRegs, Reachable, Goto
    <3>2. target'.ip = "main" /\ target'.mapped = target.mapped /\ target'.hooks = target.hooks
      BY <1>1, <3>1 DEF Target
    <3> QED
      BY <2>1, <3>1, <3>2 DEF CallInv, ReportIsTrue, ReleaseSteps, OutsideCalls, TraceExit
  <2>3. CASE ~Alive
    BY <1>3, <2>1, <2>3 DEF RestoreRegs, Reachable, Goto, CallInv, ReleaseSteps, OutsideCalls,
       TraceExit, Alive
  <2> QED
    BY <2>2, <2>3
<1>4. CASE RemoteCallStops
  <2>1. exit = "none" /\ UNCHANGED <<mode, exit>> /\ pc = "return"
    BY <1>1, <1>4 DEF RemoteCallStops
  <2>2. CASE target.event = "SECCOMP"
    <3>1. target' = Cont(target) /\ UNCHANGED <<pc, fn>>
      BY <1>4, <2>2 DEF RemoteCallStops
    <3>2. /\ target'.ip = target.ip /\ target'.hooks = target.hooks
          /\ target'.mapped = target.mapped /\ target'.ret = target.ret
      BY <1>1, <3>1, ContTyping
    <3> QED
      BY <2>1, <3>1, <3>2 DEF CallInv, ReleaseSteps, OutsideCalls, TraceExit
  <2>3. CASE target.event # "SECCOMP"
    <3> DEFINE returned == target.ip = "fake"
               ret == returned /\ target.ret
    <3>1. AfterCall(returned, ret) /\ UNCHANGED target
      BY <1>4, <2>3 DEF RemoteCallStops
    <3>2. /\ returned \in BOOLEAN /\ ret \in BOOLEAN
          /\ fn = "dlopen" /\ ret => target.mapped
          /\ fn = "entry" /\ returned => Agrees(ret, target.hooks) /\ target.ip = "fake"
      BY <1>1, <2>1 DEF CallInv, Target
    <3> HIDE DEF returned, ret
    <3> QED
      BY <2>1, <3>1, <3>2, AfterCallKeeps
  <2> QED
    BY <2>2, <2>3
<1>5. CASE ~RemoteCall /\ ~RestoreRegs /\ ~RemoteCallStops
  <2>1. /\ target'.ip = target.ip /\ target'.hooks = target.hooks
        /\ target'.mapped = target.mapped /\ target'.ret = target.ret
        /\ target'.state # "dead" => target.state # "dead"
    BY <1>5, InjectorLeaves
  <2> USE DEF CallInv, ReportIsTrue, ReleaseSteps, OutsideCalls, TraceExit, Started, Goto
  <2>2. CASE Seize \/ Attach \/ Interrupt \/ InitialStop
    BY <1>1, <2>1, <2>2 DEF Seize, Attach, Interrupt, InitialStop
  <2>3. CASE HijackEntry \/ InjectLate \/ ExitsInWait
    BY <1>1, <2>1, <2>3 DEF HijackEntry, InjectLate, ExitsInWait, Alive
  <2>8. CASE EntryPointStop
    <3>1. pc' \in {"entry_point", "call", "bail"} /\ pc = "entry_point"
      BY <2>8 DEF EntryPointStop, Resume
    <3> QED
      BY <1>1, <2>1, <2>8, <3>1 DEF EntryPointStop
  <2>4. CASE ReleaseLate \/ DetachAtSyscall
    BY <1>1, <2>1, <2>4 DEF ReleaseLate, DetachAtSyscall, Verdict
  <2>5. CASE ReleaseParked \/ TrapStop \/ SigcontStop \/ StepSyscall
    BY <1>1, <2>1, <2>5 DEF ReleaseParked, TrapStop, SigcontStop, StepSyscall, Resume
  <2>6. CASE Bail \/ HandleTraceFails
    BY <1>1, <2>1, <2>6 DEF Bail, HandleTraceFails
  <2>7. CASE HandleInterrupt
    BY <1>1, <2>1, <2>7 DEF HandleInterrupt
  <2> QED
    BY <1>5, <2>2, <2>3, <2>4, <2>5, <2>6, <2>7, <2>8 DEF InjectorNext
<1> QED
  BY <1>2, <1>3, <1>4, <1>5

(* What the injector knows of its target is an invariant. *)
LEMMA CallInvariance == Spec => []CallInv
<1>1. Init => CallInv
  <2> SUFFICES ASSUME Init PROVE CallInv
    OBVIOUS
  <2>1. pc = "attach" /\ fn = "dlopen" /\ exit = "none"
    BY DEF Init
  <2>2. Started => target.ip = "main"
    BY DEF Init
  <2> QED
    BY <2>1, <2>2 DEF CallInv, ReleaseSteps, TraceExit
<1>2. Types /\ TracerInv /\ CallInv /\ [Next]_vars => CallInv'
  <2> SUFFICES ASSUME Types, TracerInv, CallInv, [Next]_vars PROVE CallInv'
    OBVIOUS
  <2>1. CASE UNCHANGED vars
    BY <2>1 DEF CallInv, ReportIsTrue, Started, vars, injectorVars
  <2> QED
    BY <2>1, TargetKeeps, InjectorKeeps DEF Next
<1> QED
  BY <1>1, <1>2, TypeInvariance, PTL DEF Spec

(***************************************************************************)
(* Whatever fails and however the calls end: a late target that has been   *)
(* let go, and any target whose injection worked, executes its own code,   *)
(* unless the injector was interrupted.                                    *)
(***************************************************************************)
THEOREM ReleasedAtOwnCode == Spec => []RunsItsOwnCode
<1>1. Types /\ TracerInv /\ CallInv => RunsItsOwnCode
  BY DEF Types, TracerInv, CallInv, RunsItsOwnCode, OwnCode, Alive, OutsideCalls
<1> QED
  BY <1>1, TypeInvariance, CallInvariance, PTL

(***************************************************************************)
(* The exit status tells truly whether entry() went through its hooks or   *)
(* gave up because no daemon answered, in a target that has the library    *)
(* either way, for as long as the target lives on (handle_trace).          *)
(***************************************************************************)
THEOREM ExitStatusIsTrue == Spec => []VerdictIsHonest
<1>1. CallInv => VerdictIsHonest
  BY DEF CallInv, ReportIsTrue, Agrees, VerdictIsHonest, TraceExit
<1> QED
  BY <1>1, CallInvariance, PTL

(* Installing the hooks fails for its own fault only. *)
LEMMA HooksComeAbout ==
  ASSUME "hook" \notin Faults PROVE Spec => [](target.hooks # "failed")
<1> DEFINE Came == target.hooks # "failed"
<1>1. Init => Came
  BY DEF Init
<1>2. Types /\ Came /\ [Next]_vars => Came'
  <2> SUFFICES ASSUME Types, Came, [Next]_vars PROVE Came'
    OBVIOUS
  <2>1. target \in Target
    BY DEF Types
  <2>2. CASE UNCHANGED vars
    BY <2>2 DEF vars
  <2>3. CASE PingsHeartbeat \/ InstallsHooks
    <3>1. PICK came \in {"answered", "installed"} : target' = [target EXCEPT !.hooks = came]
      BY <2>3 DEF PingsHeartbeat, InstallsHooks
    <3> QED
      BY <2>1, <3>1 DEF Target
  <2>4. CASE (TargetNext \/ Crashes \/ GetsSignal \/ IsKilled) /\ ~PingsHeartbeat /\ ~InstallsHooks
    BY <2>4, TargetExecutes
  <2>5. CASE RemoteCall
    <3> DEFINE t == [target EXCEPT !.ip = "call"]
    <3>1. t \in Target /\ t.hooks = target.hooks
      BY <2>1 DEF Target
    <3>2. target' = target \/ target' = Cont(t)
      BY <2>5 DEF RemoteCall
    <3> HIDE DEF t
    <3> QED
      BY <3>1, <3>2, ContTyping
  <2>6. CASE RestoreRegs
    BY <2>1, <2>6 DEF RestoreRegs, Target
  <2>7. CASE (InjectorNext \/ HandleInterrupt) /\ ~RemoteCall /\ ~RestoreRegs
    BY <2>7, InjectorLeaves
  <2> QED
    BY <2>2, <2>3, <2>4, <2>5, <2>6, <2>7 DEF Next
<1> QED
  BY <1>1, <1>2, TypeInvariance, PTL DEF Spec

(***************************************************************************)
(* Where the hooks can be installed, a target that is reported hooked has  *)
(* them: nothing else stands between the exit status and the comment of    *)
(* entry.                                                                  *)
(***************************************************************************)
THEOREM HookedIsHooked == ASSUME "hook" \notin Faults PROVE Spec => []HookedHasHooks
<1>1. VerdictIsHonest /\ target.hooks # "failed" => HookedHasHooks
  BY DEF VerdictIsHonest, HookedHasHooks
<1> QED
  BY <1>1, ExitStatusIsTrue, HooksComeAbout, PTL
=============================================================================
