------------------------------- MODULE Tracer -------------------------------
(***************************************************************************)
(* `zygisk-ptrace trace <pid>`: the injector.  It attaches to one target,  *)
(* makes it call dlopen, dlsym and entry(), gives it its registers back    *)
(* and lets it go, and its exit status says what came of it.               *)
(*                                                                         *)
(* A SPAWN target was parked in SIGSTOP by the monitor before its first    *)
(* instruction, and is caught again at its entry point; a STANDALONE or    *)
(* SYSTEM_SERVER target is interrupted wherever it is.                     *)
(*                                                                         *)
(* The target goes on between any two requests of the injector.  A request *)
(* fails once the target is dead, and for no other reason but the faults   *)
(* below.  ip is what the target executes when it is resumed:              *)
(*   "start"  the linker, which ends in a jump to AT_ENTRY                 *)
(*   "main"   the program itself                                           *)
(*   "call"   a function the injector makes it call                        *)
(*   "fake"   the return address of such a call, where nothing can run     *)
(*   "break"  the address put in place of AT_ENTRY, likewise               *)
(***************************************************************************)
EXTENDS Naturals

CONSTANTS
  Modes,       \* the modes to trace in
  MaxSignals,  \* bound: how many signals the target gets while it is traced
  Faults       \* which of AllFaults the environment may inject

(***************************************************************************)
(*   "eperm"      the target has another tracer, or the policy refuses     *)
(*   "eio"        PTRACE_SEIZE fails with EIO                              *)
(*   "unparked"   the monitor's SIGSTOP never took effect                  *)
(*   "symbol"     a function is not found in the target                    *)
(*   "dlopen"     the library cannot be loaded                             *)
(*   "dlsym"      it has no entry()                                        *)
(*   "heartbeat"  no daemon answers                                        *)
(*   "hook"       entry() cannot install its hooks or start its thread     *)
(*   "crash"      the target faults in the linker or in a call             *)
(*   "death"      the target is killed                                     *)
(*   "interrupt"  the injector gets SIGINT or SIGTERM                      *)
(***************************************************************************)
AllFaults == {"eperm", "eio", "unparked", "symbol", "dlopen", "dlsym", "heartbeat",
              "hook", "crash", "death", "interrupt"}

TraceMode == {"SPAWN", "STANDALONE", "SYSTEM_SERVER"}

ASSUME ModesAssumption == Modes \subseteq TraceMode
ASSUME MaxSignalsAssumption == MaxSignals \in Nat
ASSUME FaultsAssumption == Faults \subseteq AllFaults

VARIABLES
  mode,        \* the mode this injector was asked for
  pc,          \* its next step
  strategy,    \* trace_with_seize or, after an EIO, trace_with_attach
  attached,    \* whether it is the target's tracer
  fn,          \* the function it makes the target call
  success,     \* what execute_remote_injection returned
  hooked,      \* *hooked
  exit,        \* its exit status
  interrupted, \* whether a signal made it give up
  target,      \* the target
  signals      \* how many signals the target got

injectorVars == <<mode, pc, strategy, attached, fn, success, hooked, exit, interrupted>>
vars == <<injectorVars, target, signals>>

TraceExit == {"TRACE_HOOKED", "TRACE_FAILED", "TRACE_MAPPED_ONLY"}
Function  == {"dlopen", "dlerror", "strlen", "dlsym", "entry"}
Step == {"attach", "interrupt", "initial", "inject", "entry_point", "call", "return",
         "restore", "release", "trap", "sigcont", "syscall", "detach", "bail", "failed",
         "exited"}

(***************************************************************************)
(* event is what waitpid reports of a stop: "group_stop" is SIGSTOP and    *)
(* "trap" SIGTRAP, both with PTRACE_EVENT_STOP.  group says that a job-    *)
(* control stop is in effect, which the target falls back into when it is  *)
(* let go; notify, that it owes its tracer an event stop; queue, which     *)
(* signals it has yet to take ("SIG" for any but SIGSTOP and SIGCONT);     *)
(* ret, whether the last call returned something other than zero; hooks,   *)
(* how far entry() got: a daemon answered it, its hooks are installed, or  *)
(* they could not be.                                                      *)
(***************************************************************************)
Event == {"none", "group_stop", "trap", "STOP", "CONT", "SIG", "SEGV", "SECCOMP",
          "syscall"}

Target == [state : {"running", "stopped", "traced", "dead"}, event : Event,
           group : BOOLEAN, notify : BOOLEAN, queue : SUBSET {"STOP", "CONT", "SIG"},
           stepped : BOOLEAN, ip : {"start", "main", "call", "fake", "break"},
           at_entry : {"entry", "break"}, mapped : BOOLEAN,
           hooks : {"none", "answered", "installed", "failed"},
           ret : BOOLEAN, scrubbed : BOOLEAN]

Started == mode # "SPAWN"             \* process_started
Alive   == target.state # "dead"
Traced  == target.state = "traced"

(* The target has a stop, or its end, for waitpid to report. *)
Reported == target.state \in {"traced", "dead"}

Init ==
  /\ mode \in Modes /\ pc = "attach" /\ strategy = "SEIZE"
  /\ attached = FALSE /\ fn = "dlopen" /\ success = FALSE
  /\ hooked = FALSE /\ exit = "none" /\ interrupted = FALSE
  /\ signals = 0
  /\ \E parked \in BOOLEAN :
       /\ parked => ~Started
       /\ ~parked => Started \/ "unparked" \in Faults
       /\ target = [state |-> IF parked THEN "stopped" ELSE "running", event |-> "none",
                    group |-> parked, notify |-> FALSE, queue |-> {}, stepped |-> FALSE,
                    ip |-> IF Started THEN "main" ELSE "start", at_entry |-> "entry",
                    mapped |-> FALSE, hooks |-> "none", ret |-> FALSE, scrubbed |-> FALSE]

-----------------------------------------------------------------------------
(***************************************************************************)
(* The kernel's side of ptrace, as the injector uses it.                   *)
(***************************************************************************)
Stop(t, event) == [t EXCEPT !.state = "traced", !.event = event]

Cont(t) == [t EXCEPT !.state = "running", !.event = "none", !.stepped = FALSE]

(* PTRACE_DETACH.  A SIGCONT that goes with it counts as sent at a syscall *)
(* stop only; at any other it takes the place of the signal reported.      *)
Detach(t, sig) ==
  LET stays == /\ t.group \/ "STOP" \in t.queue
               /\ ~(sig = "CONT" /\ t.event = "syscall")
  IN [t EXCEPT !.state = IF stays THEN "stopped" ELSE "running", !.group = stays,
               !.event = "none", !.notify = FALSE, !.queue = {}, !.stepped = FALSE]

(* kill(SIGCONT) ends a job-control stop and drops a SIGSTOP on its way. *)
SendCont(t, traced) ==
  IF t.state = "dead" THEN t
  ELSE [t EXCEPT !.state = IF @ = "stopped" THEN "running" ELSE @, !.group = FALSE,
                 !.notify = @ \/ (traced /\ strategy = "SEIZE"),
                 !.queue = (@ \ {"STOP"}) \cup (IF traced THEN {"CONT"} ELSE {})]

(* The end of a tracer: PTRACE_O_EXITKILL is set by trace_with_seize for a *)
(* target that has not started and by trace_with_attach for SPAWN.         *)
ExitKills == ~Started /\ (strategy = "SEIZE" \/ pc # "initial")
TracerGone(t) ==
  IF ~attached \/ t.state = "dead" THEN t
  ELSE IF ExitKills THEN [t EXCEPT !.state = "dead"] ELSE Detach(t, "none")

-----------------------------------------------------------------------------
(***************************************************************************)
(* The target.                                                             *)
(***************************************************************************)
Runs == target.state = "running"

(* It stops for what it owes its tracer, then for its signals, in an order *)
(* that their numbers decide.                                              *)
StopsForTracer ==
  /\ Runs /\ attached
  /\ \/ /\ target.notify
        /\ target' = [Stop(target, IF target.group THEN "group_stop" ELSE "trap")
                        EXCEPT !.notify = FALSE]
     \/ /\ ~target.notify
        /\ \E s \in target.queue :
             target' = [Stop(target, s) EXCEPT !.queue = @ \ {s}]
  /\ UNCHANGED <<injectorVars, signals>>

Executes == Runs /\ (attached => ~target.notify /\ target.queue = {})

(* A fault stops a target for its tracer and kills one that has none. *)
Fault(t) == IF attached THEN Stop(t, "SEGV") ELSE [t EXCEPT !.state = "dead"]

ReachesEntryPoint ==
  /\ Executes /\ target.ip = "start"
  /\ target' = IF target.at_entry = "break"
               THEN Fault([target EXCEPT !.ip = "break"])
               ELSE [target EXCEPT !.ip = "main"]
  /\ UNCHANGED <<injectorVars, signals>>

MakesSyscall ==
  /\ Executes /\ target.ip = "main" /\ target.stepped
  /\ target' = Stop(target, "syscall")
  /\ UNCHANGED <<injectorVars, signals>>

(***************************************************************************)
(* entry() pings a daemon first and gives up, with 0, if none answers.     *)
(* Then it installs its hooks, or in system_server starts a thread; on an  *)
(* old kernel it raises a seccomp event after that.  It returns 1 from     *)
(* there whatever came of the hooks: a failure is only logged.             *)
(***************************************************************************)
InEntry == Executes /\ target.ip = "call" /\ fn = "entry"

PingsHeartbeat ==
  /\ InEntry /\ target.hooks = "none"
  /\ target' = [target EXCEPT !.hooks = "answered"]
  /\ UNCHANGED <<injectorVars, signals>>

InstallsHooks ==
  /\ InEntry /\ target.hooks = "answered"
  /\ \E came \in {"installed"} \cup (IF "hook" \in Faults THEN {"failed"} ELSE {}) :
       target' = [target EXCEPT !.hooks = came]
  /\ UNCHANGED <<injectorVars, signals>>

RaisesSeccompEvent ==
  /\ InEntry /\ attached /\ mode # "SYSTEM_SERVER"
  /\ target.hooks \in {"installed", "failed"} /\ ~target.scrubbed
  /\ target' = [Stop(target, "SECCOMP") EXCEPT !.scrubbed = TRUE]
  /\ UNCHANGED <<injectorVars, signals>>

EntryReturns(ret) ==
  IF ret THEN target.hooks \in {"installed", "failed"}
  ELSE target.hooks = "none" /\ "heartbeat" \in Faults

(* The function called is done. *)
Returns ==
  /\ Executes /\ target.ip = "call"
  /\ \E ret \in BOOLEAN :
       /\ fn = "dlopen" => ret \/ "dlopen" \in Faults
       /\ fn = "dlsym" => ret \/ "dlsym" \in Faults
       /\ fn = "entry" => EntryReturns(ret)
       /\ target' = Fault([target EXCEPT !.ip = "fake", !.ret = ret,
                             !.mapped = @ \/ (fn = "dlopen" /\ ret)])
  /\ UNCHANGED <<injectorVars, signals>>

(* Whoever goes on at an address that is not its own dies of it. *)
RunsAstray ==
  /\ Executes /\ target.ip \in {"fake", "break"}
  /\ target' = Fault(target)
  /\ UNCHANGED <<injectorVars, signals>>

Crashes ==
  /\ "crash" \in Faults
  /\ Executes /\ attached /\ target.ip \in {"start", "call"}
  /\ target' = Stop(target, "SEGV")
  /\ UNCHANGED <<injectorVars, signals>>

GetsSignal ==
  /\ Alive /\ attached /\ signals < MaxSignals
  /\ target' = [target EXCEPT !.queue = @ \cup {"SIG"}]
  /\ signals' = signals + 1
  /\ UNCHANGED injectorVars

IsKilled ==
  /\ "death" \in Faults /\ Alive /\ pc # "exited"
  /\ target' = [target EXCEPT !.state = "dead", !.event = "none"]
  /\ UNCHANGED <<injectorVars, signals>>

TargetNext ==
  \/ StopsForTracer \/ ReachesEntryPoint \/ MakesSyscall \/ Returns \/ PingsHeartbeat
  \/ InstallsHooks \/ RaisesSeccompEvent \/ RunsAstray

-----------------------------------------------------------------------------
(***************************************************************************)
(* trace_target, trace_with_seize and trace_with_attach.                   *)
(***************************************************************************)
Goto(step) == pc' = step

(* PTRACE_SEIZE turns a job-control stop into one of its own.  EIO, and no *)
(* other error, makes trace_target fall back to PTRACE_ATTACH.             *)
Seize ==
  /\ pc = "attach" /\ strategy = "SEIZE"
  /\ \/ /\ Alive
        /\ attached' = TRUE
        /\ target' = IF target.state = "stopped" THEN Stop(target, "group_stop") ELSE target
        /\ Goto(IF Started THEN "interrupt" ELSE "initial")
        /\ UNCHANGED strategy
     \/ /\ ~Alive \/ "eperm" \in Faults
        /\ Goto("failed")
        /\ UNCHANGED <<attached, target, strategy>>
     \/ /\ Alive /\ "eio" \in Faults
        /\ strategy' = "ATTACH"
        /\ UNCHANGED <<pc, attached, target>>
  /\ UNCHANGED <<mode, fn, success, hooked, exit, interrupted, signals>>

(* PTRACE_ATTACH sends a SIGSTOP, whatever the target is doing. *)
Attach ==
  /\ pc = "attach" /\ strategy = "ATTACH"
  /\ \/ /\ Alive
        /\ attached' = TRUE
        /\ target' = [(IF target.state = "stopped" THEN Stop(target, "group_stop")
                       ELSE target) EXCEPT !.queue = @ \cup {"STOP"}]
        /\ Goto("initial")
     \/ /\ ~Alive \/ "eperm" \in Faults
        /\ Goto("failed")
        /\ UNCHANGED <<attached, target>>
  /\ UNCHANGED <<mode, strategy, fn, success, hooked, exit, interrupted, signals>>

(* PTRACE_INTERRUPT, and the detach when it fails. *)
Interrupt ==
  /\ pc = "interrupt"
  /\ IF Alive
     THEN target' = [target EXCEPT !.notify = TRUE] /\ Goto("initial") /\ UNCHANGED attached
     ELSE Goto("failed") /\ attached' = FALSE /\ UNCHANGED target
  /\ UNCHANGED <<mode, strategy, fn, success, hooked, exit, interrupted, signals>>

(* The first stop must be the one the strategy and the mode expect. *)
ValidStop ==
  target.event = CASE strategy = "ATTACH" /\ target.event = "group_stop" -> "group_stop"
                   [] strategy = "ATTACH" -> "STOP"
                   [] OTHER -> IF Started THEN "trap" ELSE "group_stop"

InitialStop ==
  /\ pc = "initial" /\ Reported
  /\ Goto(IF Alive /\ ValidStop THEN "inject" ELSE "bail")
  /\ UNCHANGED <<mode, strategy, attached, fn, success, hooked, exit, interrupted, target,
                 signals>>

(* The target's memory and registers can be read and written. *)
Reachable == Alive

Resume(step) ==
  IF Alive THEN target' = Cont(target) /\ Goto(step)
  ELSE Goto("bail") /\ UNCHANGED target

(***************************************************************************)
(* inject_before_start: break_addr goes into AT_ENTRY and the target is    *)
(* resumed until it gets there.  inject_after_start only keeps a copy of   *)
(* the registers.                                                          *)
(***************************************************************************)
HijackEntry ==
  /\ pc = "inject" /\ ~Started
  /\ IF Reachable
     THEN target' = Cont([target EXCEPT !.at_entry = "break"]) /\ Goto("entry_point")
     ELSE Goto("bail") /\ UNCHANGED target
  /\ UNCHANGED <<mode, strategy, attached, fn, success, hooked, exit, interrupted, signals>>

InjectLate ==
  /\ pc = "inject" /\ Started
  /\ Goto(IF Reachable THEN "call" ELSE "bail")
  /\ UNCHANGED <<mode, strategy, attached, fn, success, hooked, exit, interrupted, target,
                 signals>>

(* wait_for_trace ends the injector at once when the target is dead. *)
ExitsInWait ==
  /\ pc \in {"entry_point", "return"} /\ ~Alive
  /\ exit' = "TRACE_FAILED" /\ attached' = FALSE /\ Goto("exited")
  /\ UNCHANGED <<mode, strategy, fn, success, hooked, interrupted, target, signals>>

(* A SIGSTOP is ignored; any other stop than the one at break_addr ends    *)
(* the injection, with AT_ENTRY as it is then.                             *)
EntryPointStop ==
  /\ pc = "entry_point" /\ Traced
  /\ CASE target.event \in {"STOP", "group_stop"} -> Resume("entry_point")
       [] target.event = "SEGV" /\ target.ip = "break" ->
            target' = [target EXCEPT !.at_entry = "entry"] /\ Goto("call")
       [] OTHER -> Goto("bail") /\ UNCHANGED target
  /\ UNCHANGED <<mode, strategy, attached, fn, success, hooked, exit, interrupted, signals>>

-----------------------------------------------------------------------------
(***************************************************************************)
(* execute_remote_injection and remote_call.                               *)
(***************************************************************************)

(* Mutant: a late target gets its registers back only if all went well. *)
InjectionFailsAsEarly == Goto("bail") /\ success' = FALSE /\ UNCHANGED <<fn, hooked>>

(* inject_after_start restores the registers in any case, the other not. *)
InjectionFails ==
  Goto(IF Started THEN "restore" ELSE "bail") /\ success' = FALSE /\ UNCHANGED <<fn, hooked>>

CallNext(f) == fn' = f /\ Goto("call") /\ UNCHANGED <<success, hooked>>

(* Mutant: entry() having returned is taken for its answer. *)
AfterCallReturned(returned, ret) ==
  CASE fn = "dlopen"  -> CallNext(IF ret THEN "dlsym" ELSE "dlerror")
    [] fn = "dlerror" -> IF ret THEN CallNext("strlen") ELSE InjectionFails
    [] fn = "strlen"  -> InjectionFails
    [] fn = "dlsym"   -> IF ret THEN CallNext("entry") ELSE InjectionFails
    [] fn = "entry"   -> IF returned
                         THEN hooked' = TRUE /\ success' = TRUE /\ Goto("restore")
                              /\ UNCHANGED fn
                         ELSE InjectionFails

(* What a call that returned, or did not, makes of the injection. *)
AfterCall(returned, ret) ==
  CASE fn = "dlopen"  -> CallNext(IF ret THEN "dlsym" ELSE "dlerror")
    [] fn = "dlerror" -> IF ret THEN CallNext("strlen") ELSE InjectionFails
    [] fn = "strlen"  -> InjectionFails
    [] fn = "dlsym"   -> IF ret THEN CallNext("entry") ELSE InjectionFails
    [] fn = "entry"   -> IF returned
                         THEN hooked' = ret /\ success' = TRUE /\ Goto("restore")
                              /\ UNCHANGED fn
                         ELSE InjectionFails

(* find_func_addr finds no dlopen, dlsym, dlerror or strlen; the address   *)
(* of entry() is what dlsym returned.                                      *)
SymbolMissing == "symbol" \in Faults /\ fn # "entry"

RemoteCall ==
  /\ pc = "call"
  /\ \/ /\ Reachable
        /\ target' = Cont([target EXCEPT !.ip = "call"])
        /\ Goto("return")
        /\ UNCHANGED <<fn, success, hooked>>
     \/ ~Reachable /\ AfterCall(FALSE, FALSE) /\ UNCHANGED target
     \/ /\ SymbolMissing
        /\ InjectionFails /\ UNCHANGED target
  /\ UNCHANGED <<mode, strategy, attached, exit, interrupted, signals>>

(***************************************************************************)
(* The target stopped during a call.  A seccomp event is answered in place *)
(* (tracee_skip_syscall); any stop other than the one at the return        *)
(* address leaves the call unfinished, and counts as zero.                 *)
(***************************************************************************)
RemoteCallStops ==
  /\ pc = "return" /\ Traced
  /\ IF target.event = "SECCOMP"
     THEN target' = Cont(target) /\ UNCHANGED <<pc, fn, success, hooked>>
     ELSE LET returned == target.ip = "fake"
          IN AfterCall(returned, returned /\ target.ret) /\ UNCHANGED target
  /\ UNCHANGED <<mode, strategy, attached, exit, interrupted, signals>>

(* set_regs(backup), whose address is the entry point or where it was. *)
RestoreRegs ==
  /\ pc = "restore"
  /\ IF Reachable THEN target' = [target EXCEPT !.ip = "main"] ELSE UNCHANGED target
  /\ Goto(IF Reachable /\ success THEN "release" ELSE "bail")
  /\ UNCHANGED <<mode, strategy, attached, fn, success, hooked, exit, interrupted, signals>>

-----------------------------------------------------------------------------
(***************************************************************************)
(* The way out.                                                            *)
(***************************************************************************)
Verdict == IF hooked THEN "TRACE_HOOKED" ELSE "TRACE_MAPPED_ONLY"

(* The detach of a late target, which succeeds whether or not it worked. *)
ReleaseLate ==
  /\ pc = "release" /\ strategy = "SEIZE" /\ Started
  /\ target' = IF Alive THEN Detach(target, "none") ELSE target
  /\ attached' = FALSE /\ exit' = Verdict /\ Goto("exited")
  /\ UNCHANGED <<mode, strategy, fn, success, hooked, interrupted, signals>>

(* kill(SIGCONT) and PTRACE_CONT. *)
ReleaseParked ==
  /\ pc = "release" /\ strategy = "SEIZE" /\ ~Started
  /\ IF Alive THEN target' = Cont(SendCont(target, TRUE)) /\ Goto("trap")
     ELSE Goto("bail") /\ UNCHANGED target
  /\ UNCHANGED <<mode, strategy, attached, fn, success, hooked, exit, interrupted, signals>>

(* First the stop that tells of the end of the job-control stop, then the  *)
(* SIGCONT itself; anything else in their place is a failure.              *)
TrapStop ==
  /\ pc = "trap" /\ Reported
  /\ IF Alive /\ target.event = "trap" THEN Resume("sigcont")
     ELSE Goto("bail") /\ UNCHANGED target
  /\ UNCHANGED <<mode, strategy, attached, fn, success, hooked, exit, interrupted, signals>>

SigcontStop ==
  /\ pc = "sigcont" /\ Reported
  /\ Goto(IF Alive /\ target.event = "CONT" THEN "syscall" ELSE "bail")
  /\ UNCHANGED <<mode, strategy, attached, fn, success, hooked, exit, interrupted, target,
                 signals>>

(* detach_with_gki_workaround: on to the next syscall, and off. *)
StepSyscall ==
  /\ pc = "syscall" \/ (pc = "release" /\ strategy = "ATTACH")
  /\ IF Alive
     THEN target' = [Cont(target) EXCEPT !.stepped = TRUE] /\ Goto("detach")
          /\ UNCHANGED attached
     ELSE Goto("failed") /\ attached' = FALSE /\ UNCHANGED target
  /\ UNCHANGED <<mode, strategy, fn, success, hooked, exit, interrupted, signals>>

DetachAtSyscall ==
  /\ pc = "detach" /\ Reported
  /\ attached' = FALSE
  /\ IF Alive
     THEN target' = Detach(target, "CONT") /\ exit' = Verdict /\ Goto("exited")
     ELSE Goto("failed") /\ UNCHANGED <<target, exit>>
  /\ UNCHANGED <<mode, strategy, fn, success, hooked, interrupted, signals>>

(* Mutant: a failure ends the injector without the detach. *)
BailStaysAttached ==
  /\ pc = "bail" /\ Goto("failed")
  /\ UNCHANGED <<mode, strategy, attached, fn, success, hooked, exit, interrupted, target,
                 signals>>

(* BAIL_AND_DETACH, and the like in trace_with_attach. *)
Bail ==
  /\ pc = "bail"
  /\ target' = IF Alive THEN Detach(target, "none") ELSE target
  /\ attached' = FALSE /\ Goto("failed")
  /\ UNCHANGED <<mode, strategy, fn, success, hooked, exit, interrupted, signals>>

(* Mutant: a target that was never attached is left as it is. *)
HandleTraceFailsQuietly ==
  /\ pc = "failed"
  /\ exit' = "TRACE_FAILED" /\ Goto("exited")
  /\ UNCHANGED <<mode, strategy, attached, fn, success, hooked, interrupted, target, signals>>

(* handle_trace, when trace_target failed. *)
HandleTraceFails ==
  /\ pc = "failed"
  /\ target' = SendCont(target, FALSE)
  /\ exit' = "TRACE_FAILED" /\ Goto("exited")
  /\ UNCHANGED <<mode, strategy, attached, fn, success, hooked, interrupted, signals>>

(* handle_interrupt detaches, which only a target that is stopped for its *)
(* tracer allows, and exits.                                              *)
HandleInterrupt ==
  /\ "interrupt" \in Faults /\ pc # "exited"
  /\ target' = IF Traced THEN Detach(target, "CONT") ELSE TracerGone(target)
  /\ attached' = FALSE /\ interrupted' = TRUE
  /\ exit' = "TRACE_FAILED" /\ Goto("exited")
  /\ UNCHANGED <<mode, strategy, fn, success, hooked, signals>>

InjectorNext ==
  \/ Seize \/ Attach \/ Interrupt \/ InitialStop \/ HijackEntry \/ InjectLate
  \/ ExitsInWait \/ EntryPointStop \/ RemoteCall \/ RemoteCallStops \/ RestoreRegs
  \/ ReleaseLate \/ ReleaseParked \/ TrapStop \/ SigcontStop \/ StepSyscall
  \/ DetachAtSyscall \/ Bail \/ HandleTraceFails

Next ==
  InjectorNext \/ TargetNext \/ Crashes \/ GetsSignal \/ IsKilled \/ HandleInterrupt

Spec == Init /\ [][Next]_vars

(* The scheduler runs both processes; what the injector calls comes back.  *)
FairSpec == Spec /\ WF_vars(InjectorNext) /\ WF_vars(TargetNext)

-----------------------------------------------------------------------------
(***************************************************************************)
(* Properties.                                                             *)
(***************************************************************************)

(* Types, and: the target is stopped for a tracer only while it has one,   *)
(* an injector that has exited has let go, and every exit has a status.    *)
TypeOK ==
  /\ mode \in Modes /\ pc \in Step /\ strategy \in {"SEIZE", "ATTACH"}
  /\ fn \in Function /\ exit \in TraceExit \cup {"none"}
  /\ {attached, success, hooked, interrupted} \subseteq BOOLEAN
  /\ target \in Target /\ signals \in 0..MaxSignals
  /\ Traced => attached
  /\ pc \in {"failed", "exited"} => ~attached
  /\ pc = "exited" <=> exit # "none"

(* What the target executes is its own: the program, or the linker with   *)
(* the entry point the kernel gave it.                                     *)
OwnCode == target.ip = "main" \/ (target.ip = "start" /\ target.at_entry = "entry")

(***************************************************************************)
(* "the target is running with the registers we hijacked, and resuming it  *)
(* with those would send it to our fake return address"                    *)
(* (inject_after_start): a target that is nobody's tracee executes its own *)
(* code, whatever failed and however the calls ended.  It takes that the   *)
(* injector was not interrupted, and for a SPAWN target that the injection *)
(* worked (FailureResumesTarget is about the others).                      *)
(***************************************************************************)
RunsItsOwnCode ==
  Alive /\ ~attached /\ ~interrupted /\ (Started \/ exit \in TraceExit \ {"TRACE_FAILED"})
    => OwnCode

(***************************************************************************)
(* The exit status, which a rearm goes by (attach_running): TRACE_HOOKED   *)
(* of a target that has the library, heard from a daemon and went through  *)
(* its hooks, which are there unless installing them failed, and           *)
(* TRACE_MAPPED_ONLY of one that has the library and heard from nobody.    *)
(***************************************************************************)
VerdictIsHonest ==
  /\ exit = "TRACE_HOOKED" => target.mapped /\ target.hooks \in {"installed", "failed"}
  /\ exit = "TRACE_MAPPED_ONLY" => target.mapped /\ target.hooks = "none"

(***************************************************************************)
(* "Returns whether this process came out of the call with hooks           *)
(* installed", which the tracer hands on to the monitor (entry): a target  *)
(* it calls hooked has its hooks.  With "hook" this does not hold, since   *)
(* entry returns 1 whatever came of them; without it, it does.             *)
(***************************************************************************)
HookedHasHooks == exit = "TRACE_HOOKED" => target.hooks = "installed"

(***************************************************************************)
(* "a SPAWN target is parked in SIGSTOP and hangs the boot unless          *)
(* released" (handle_trace): the target runs again, or is dead, whatever   *)
(* fails on the way.  Not so after an interrupted injector, and after an   *)
(* injection by PTRACE_ATTACH that worked and whose target got a signal:   *)
(* the SIGCONT of the detach takes that signal's place, and ends no stop.  *)
(***************************************************************************)
TargetRunsAgain ==
  []<>(\/ target.state \in {"running", "dead"}
       \/ interrupted
       \/ strategy = "ATTACH" /\ signals > 0 /\ exit \in TraceExit \ {"TRACE_FAILED"})

(***************************************************************************)
(* "Resume the target uninjected rather than killing it, in every mode"    *)
(* (handle_trace): a target whose injection failed goes on with its own    *)
(* code.  inject_before_start does not give the registers back when the    *)
(* injection fails, so a SPAWN target goes on at the fake return address.  *)
(***************************************************************************)
FailureResumesTarget == exit = "TRACE_FAILED" /\ Alive => OwnCode
=============================================================================
