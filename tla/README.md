# NeoZygisk: TLA+ models, model checking and proofs

NeoZygisk puts third-party modules into every Android application by hooking
`zygote`. A monitor process traces `init` with ptrace, catches each zygote at
its `execve`, and hands it to an injector process that maps `libzygisk.so` into
it; a daemon (`zygiskd`) holds the modules and runs their companion processes;
the library inside zygote runs the modules around every fork. This directory
models the parts of that system whose correctness depends on the order in which
several processes act, checks them with TLC on small instances, and proves the
most important of their invariants with TLAPS for every value of the constants.

## 1. The system and its parts

| part | code | state it keeps | operations | talks to |
|---|---|---|---|---|
| event loop | `loader/src/ptracer/event_loop.cpp` | the registered descriptors, `running` | wait, dispatch one handler, drain it, stop | the two handlers below |
| init tracer | `monitor_impl.cpp` (`AppMonitor`, `SigChldHandler`) | `tracing_state_`, the pre-exec pool `process_`, `stub_processes_` | START, STOP, EXIT, REARM; one wait status of init, of a stub, of a candidate, of a new process, of the daemon | init and its children through ptrace; `ZygoteAbiManager` |
| control socket | `monitor_impl.cpp` (`SocketHandler`), `main.cpp` | datagrams queued in the kernel | a client's command; the daemon's three reports | clients, daemon, monitor |
| daemon and hook bookkeeping | `zygote_abi.cpp` (`ZygoteAbiManager`) | `status_` (zygote state, daemon pid and flag), `hooked_`, the crash-loop counter | `ensure_daemon_created`, `check_and_prepare_injection`, `notify_injected`, `rearm` with its bounded attaches, reaping the daemon | daemon (datagrams, `RefreshModules`), injectors (exit status) |
| injector process | `ptracer.cpp`, `utils.cpp`, `main.cpp` (`handle_trace`) | how it attached, the saved registers, `*hooked`; the stop state of its target is the kernel's | seize or attach, hijack of the entry point, remote calls, restoring the registers, release, detach | zygote, monitor (parks the target, reads the verdict) |
| specialization | `injector/module.cpp`, `hook.cpp`, `jni_hooks.hpp`, `system_server.cpp`, `unmount.cpp` | `g_hook` (hooks, their backups, whether zygote was unmounted), `g_ctx` (flags of the fork under way, exempted descriptors) | pre/post hooks of fork and specialize, module callbacks, unhooking | daemon (modules, flags, namespaces) |
| daemon | `zygiskd/src/zygiskd.rs`, `companion.rs` | the module snapshot behind an `Arc`, one companion slot and mutex per module, `ignore_disable` | accept, `ReadModules`, `RequestCompanionSocket`, `GetModuleDir`, `ZygoteRestart`, `RefreshModules`, `PingHeartbeat`, flags and namespaces | monitor, zygotes, companions |
| mount namespaces | `zygiskd/src/mount.rs` | two namespaces cached once per daemon | cache, hand out | zygote children |
| root implementations | `zygiskd/src/root_impl/` | which implementation was found | detection, queries per uid | Magisk, KernelSU, APatch |
| stages | `ptracer/stage.cpp`, `main.cpp` (`init_monitor`), `module/src/*.sh` | none between two of them but marker files; the control socket's name and the tracer of init, which the kernel keeps, tell them of a monitor | post-fs-data, service, hot install, late load and its disarming; starting a monitor, stopping it, rearming, restarting zygote | monitors, through control commands and `TracerPid` |
| trace cleaning | `clean.cpp`, `fossil.cpp`, `atexit.cpp`, `solist.cpp`, `seccomp.cpp` | linker, libc and heap structures of one process | rewrites of them | none |
| readers | `elf_parser.cpp`, `misc.cpp`, `files.cpp`, `dl.cpp` | none | parsing | none |

Where it is hard:

- **Interleaving.** The monitor is one thread, but every step it takes races with
  the kernel's wait statuses, with datagrams, with the daemon and with injectors
  that are no children of its own. The daemon has a thread per request.
- **Order.** A zygote's hooks are reported twice, by an injector's exit status
  and by the daemon's datagram, in either order, and a datagram outlives the
  daemon that sent it. A stop of a child may be reported before or after its
  parent's fork event.
- **Failure.** Forks and execs fail, daemons and companions die, zygotes crash in
  a loop, injectors wedge and are given up on while they still work.
- **Handles.** A module is an index into a list a client read at its start; the
  list behind the index may have been replaced.
- **Copies.** A child inherits zygote's memory as it was at the fork, and shares
  its mount namespace until it unshares; what zygote does in between reaches one
  and not the other.
- **Foreign code.** The injector makes a target call functions on its behalf and
  must leave no trace of that in its registers, while the target takes signals,
  crashes or is killed in the middle.
- **No lock.** Any number of stages may start a monitor at once; only a probe of
  the control socket and the kernel's rule of one tracer keep them apart.
- **Waiting.** A rearm blocks the monitor's only thread on the daemon; the
  daemon's accept loop waits for mutexes that are held over reads from
  companions.

What makes each part correct: the monitor holds init exactly while it says so
and never forgets a stop or an exit; no process stays frozen; what the kernel
attached on the monitor's behalf is known to it; there is one daemon; the record
of hooks is true; system_server is specialized once; a rearm's answer is honest
and comes; a client of the daemon sees one snapshot and gets the module it asked
for; a module has one companion, of the client's own framework; no request and no
restart waits for good. Inside zygote: who must not see the mounts of the root
solution sees none and who is granted root sees them; modules leave no descriptor
that the framework would abort over; and the library is unmapped only when no hook
leads into it. The injector gives a target back at its own code, tells truly what
it did, and lets a parked zygote run whatever fails. The code keeps most of this and
not all of it: section 5 has the cases in which it does not, each of which is an
exception that the property which holds names, or a property of its own that is
violated. Of several monitors one
serves, and a stage that reports the old one stopped is right.

## 2. The modules

| module | models | is used by |
|---|---|---|
| `InitTracer` | event loop, `AppMonitor`, `SocketHandler`, `SigChldHandler`, the crash counter | `MCInitTracer`, `InitTracerProofs` |
| `TracingLifecycle` | what the monitor promises about init, abstractly | refined by `InitTracer` |
| `ZygoteAbi` | `ZygoteAbiManager`, the daemon's side of its datagrams, rearm | `MCZygoteAbi`, `ZygoteAbiProofs` |
| `Zygiskd` | the daemon's snapshot, companions and requests | `MCZygiskd`, `ZygiskdProofs` |
| `Specialize` | `libzygisk.so` in zygote and its children, the daemon's mount namespaces | `MCSpecialize`, `SpecializeProofs` |
| `Tracer` | the injector, `trace_target` and all it calls, and the target it traces | `MCTracer`, `TracerProofs` |
| `Stages` | the stages, and the monitors they start and stop, up to and after their event loop | `MCStages`, `StagesProofs` |
| `MC...` | symmetry sets and the refinement mapping for TLC | the runs |
| `...Proofs` | theorems | `tlapm` |

Each component module opens with its constants, the faults it can inject
(`AllFaults`; a run switches on a subset) and its variables, each named after the
field it stands for. The `map` of `PROJECT.json` gives the lines behind every
definition.

**InitTracer.** One datagram, or one wait status, is one step: the handlers are
entered by `Dispatch`, run until their descriptor is drained (`Drained`), and
return to the loop, which tests `running` in between. `RequestStart`,
`RequestStop`, `RequestExit` and `RequestRearm` are the four commands.
`HandleInitEvent`, `HandleStubEvent`, `HandleDaemonExit`, `HandleNewProcess` and
`HandleCandidate` are the branches of `handleChildEvent` in its order; a
candidate's exec goes to `PromoteStub`, `IgnoreProgram`, `RefuseInjection`,
`HandOver` or `HandOverFails`. The kernel is the environment: a forked child of a
tracee is auto-attached and starts stopped, an exec is a stop, an interrupt of
init is a stop that comes later (`initTrap`), and a SIGSTOP leaves its process
`parked` until a SIGCONT. An interrupt that finds init within a fork is lost, since
the stop of the fork event takes its place (`InitForks`, fault `midfork`). A SIGCHLD
that is delivered to a stub makes it `crashed`, which is told apart from a death of
any other cause. `NextCount` is the bare `counter.count++` of `is_in_crash_loop`: the
count goes past its limit, by one for each zygote that is refused.

**ZygoteAbi.** Zygotes, daemons and system_servers are processes that die once.
`pings` are heartbeats written to a daemon and not yet read; `inbox` is the
control socket, of `QueueLen` datagrams; `hooks[z]` is the truth the monitor
cannot see: nothing, the heartbeat written (`EntryPings`), or the hooks installed or
not (`EntryHooks`), in the order of `entry()`, with the injector's end (`InjectorExits`)
a step of its own that a signal may bring on in between. A rearm is several steps
because it blocks: `RearmBegin`, `RefreshFails` or `DaemonRescans` and
`DaemonReports` (the synchronous exchange with the daemon, whose report waits for
room on the control socket), then one step per zygote (`RearmSkips`, `RearmAttaches`, and for an attach
`AttachReturns` or `AttachTimesOut`), and `RearmAnswers`, which also fires
`server_specialize`.

**Zygiskd.** The accepting thread, one thread per client and one companion per
client that spawned one. A worker takes the snapshot once (`ReadBegins`,
`Resolves`), locks the module's mutex (`Locks`), spawns (`Spawns`) and reads the
companion's first byte (`ReadsAnswer`) with the mutex held, as the code does.
`AcceptsRestart` drops every companion of the live snapshot before it scans
again; `AcceptsRefresh` does not. Zygote restarts with a report to the daemon
(`ZygoteRestarts`) or without one (`ZygoteRestartsUnreported`): only the injector of a
zygote that was caught at its exec sends the report, once and without an answer.

**Specialize.** Zygote is one thread, each child another. `HookEntry`, `Strdup`
and `PropertyGet` hook a zygote caught at its start, `TriggerZygoteHooks` one that
is running. `ForkAndSpecialize` and `ForkSystemServer` are the pre-hooks up to the
fork (`ForkPre`), the unmounting of zygote included; `AppPre`, `ServerPre` and
`SpecializeAppProcess` the child's half, with the modules' callbacks and
`sanitize_fds`; `UpdateMountNamespace` and `Unshare` the hook of `unshare`;
`SpecializePost` the post-hook and the destructor of `g_ctx`, which gives the methods
of Zygote back or, by any of the early returns of `hook_jni_methods`, does not (they
are `stuck` then, and nobody is told); `Unload` the hook that unmaps the library.
`refused` is a history variable, the processes whose `update_mount_namespace` failed. `SaveClean` and `SaveRoot` are the daemon's two steps of
`CacheMountNamespace`, in either order with the child's own. A failed fork is
modelled as `is_child()` has it, `pid <= 0`: zygote goes on as its own child and,
having no cached answer, forks again inside the original method (`ForkAgain`).
A trace is one mount; what modules do is one choice per process. The framework's
part - a pool process forked by a method that is not hooked, the one `unshare` of
each process that is specialized - is modelled from how the hooks meet it.

**Tracer.** One request, or one stop that `waitpid` reports, is one step, and the
target goes on between any two. `Seize` and `Attach` are the two strategies (the
second after an EIO), `InitialStop` the stop each expects first. `HijackEntry` and
`EntryPointStop` catch a parked target at its entry point, `InjectLate` takes a
running one where it is. `RemoteCall` and `RemoteCallStops` are one `remote_call`
each of `dlopen`, `dlerror`, `strlen`, `dlsym` and `entry()`; `AfterCall` is what
`execute_remote_injection` makes of the result. Within `entry()` the target writes its
heartbeat (`PingsHeartbeat`), installs its hooks or fails to (`InstallsHooks`), raises
the event of its seccomp filter, which the injector answers (`RaisesSeccompEvent`), and
returns 1 whatever came of the hooks (`EntryReturns`). `RestoreRegs` gives the registers
back, `ReleaseLate` detaches, and `ReleaseParked`, `TrapStop`, `SigcontStop`,
`StepSyscall` and `DetachAtSyscall` take a parked target out of its job-control
stop. `Bail` is `BAIL_AND_DETACH`, `HandleTraceFails` the SIGCONT of
`handle_trace`, `HandleInterrupt` the signal handler. The target is a record of
what ptrace can observe of it (its stop, pending signals, job control) and of what
matters to it: which code it is at, whether the library and the hooks are there.
The kernel's rules for `PTRACE_DETACH`, SIGCONT and `EXITKILL` are operators
(`Detach`, `SendCont`, `TracerGone`), modelled from how the code relies on them.

**Stages.** Each run is a stage and each stage starts at most one monitor, which
bears its name. A stage's program counter goes through `stop_monitor`
(`StopMonitor`, `SendExit`, `PollUntraced` and their failures), `install`,
`wait_for_monitor`, `arm_running_system` (`Arm`, `ArmAnswered`, `ArmTimesOut`) and
`restart_zygote`; which of these it takes is the stage's `AfterStop` and
`AfterInstall`. A monitor is at its probe (`InitMonitor`), at the handlers' `Init`s
in the order of `run` (`PtraceHandlerInit`, then `SocketHandlerInit`; `After` is that
order), in its loop,
or on its way out (`LoopEnds`, `SocketCloses`, `MonitorExits`), where the socket
goes before the trace of init does. Of the loop, the tracing state alone is kept,
with the steps that change it; a rearm answers any of what `ZygoteAbi` may answer.
That a handler's descriptor cannot be had is the fault `handler`; that the event loop
cannot register one, which `run` ignores, is left out. A status of init that cannot be
read passes for untraced (`PollGivesUp`, fault `proc`), as the -1 of `get_tracer_pid`
does. `steady` is a history variable: the monitor has traced init ever since it began.

## 3. The runs

| run | instance | shows |
|---|---|---|
| `InitTracer_follow` | 2 pids that are reused, 2 commands, all faults | `TypeOK`, `TraceesAreKnown`, `StubsKeepRunning`, `NoZygoteSlips` |
| `InitTracer_stop` | 1 pid, 3 commands, forks and execs that fail, deaths; fair | `SeizeMatchesState`, `StopUnderway`, `ExitIsFinal`, `StopCompletes`, `ExitCompletes`, `NobodyStaysFrozen`, `ImplementsLifecycle` |
| `ZygoteAbi_rearm` | 2 successive zygotes, 2 daemons, 2 commands, queue of 2, all faults | `TypeOK`, `AtMostOneDaemon`, `HookedCarryHooks`, `InjectedIsBacked`, `ServerFiredOnce`, `AnswerIsHonest` |
| `ZygoteAbi_live` | 1 zygote, 2 daemons, 3 commands, deaths, wedged injectors; fair | `RearmIsAnswered`, `HeartbeatArrives` |
| `Zygiskd_snapshot` | 2 modules, 1 client, 2 edits, 1 restart that is reported and 1 that is not, 1 refresh, all faults | `TypeOK`, `ReplyIsOneSnapshot`, `RestartsKeepHandles` |
| `Zygiskd_companions` | 1 module, 2 clients, 2 restarts that are reported and 1 that is not, failing scans and spawns, deaths; fair | `OneCompanionPerModule`, `CompanionsAreFresh`, `AcceptsAgain`, `RequestsAnswered`, `OldCompanionsExit` |
| `Specialize_mounts` | 2 children, 2 traces of which zygote must keep one, 3 kinds of app; an unreachable daemon, stuck mounts, a dying helper | `DenylistSeesNoTrace`, `GrantedSeesMounts` |
| `Specialize_leave` | 1 child, 2 descriptors of which one is allowed; failing forks, hooks, unhooks (PLT and JNI), allocations | `TypeOK`, `FrameworkAcceptsFds`, `UnmappedIsUnhooked`, `SigchldIsUnblocked` |
| `Specialize_isolated` | 2 children, 1 trace, no faults | **violated**: `IsolatedSeesNoTrace` |
| `Tracer_release` | 1 target in any mode, 2 signals, all faults; fair | `TypeOK`, `RunsItsOwnCode`, `VerdictIsHonest`, `TargetRunsAgain` |
| `Tracer_uninjected` | 1 parked target, a library that cannot be loaded | **violated**: `FailureResumesTarget` |
| `Stages_monitors` | 3 stages at once of 4 kinds, a release build, any one fault of 9 | `TypeOK`, `OneMonitorServes`, `StopMeansGone` |

Bounds. Two pids are one parent and one child, a stub and its zygote, or one
process and the one that gets its number next; the monitor keeps no state over
more than one process at a time besides its two sets. Three commands are the
longest interesting prefix (STOP, START before init stopped, STOP again; EXIT
followed by START or REARM). Two daemons are the current one and the one before,
two zygotes the current one and the one before; that two zygotes of one ABI are up at
once is left to the proofs, of which only that of `ServerFiredOnce` excludes it
(section 4). Two reported restarts and one that is not are a snapshot that was
replaced, and companions that should have been dropped and were not; a refresh in
place of the second restart passes as well and takes three times as long. Two children
are the process whose view is in question and the one (system_server, or the app that makes zygote
unmount) that changes it meanwhile; one child is enough for `Specialize_leave`,
whose properties are about one process at a time. An injector has one target; two
signals are one for the stop that is expected and one for the stop after it. Three
stages are one whose monitor serves, one that replaces it and one that starts in
between; post-fs-data is left out of `Stages_monitors` because late-load takes the
same steps and more, and the second fault and the debug build's restart of zygote
are left to the proofs, which have any number of both. `RetryCount` is 2 where the code
has a larger constant: only reaching it matters. The counter of commands, daemons,
edits, restarts and refreshes are cut off by guards of the environment's actions,
never of the program's, and deadlock is not checked because a run out of commands
is a device at rest.

`InitTracer_stop` leaves signals out: an endless stream of them can starve the
monitor's handler, which drains its descriptor, of its return to the loop. That
is how the code behaves, and no property is lost to it: the safety ones are
proved with every fault but the two named next.

What a passing property leaves out, in each case because the code does not do it:

- `SeizeMatchesState`: a kernel that refuses the seize (`reseize`), which the code
  ignores.
- `StopUnderway`, `StopCompletes`, `ImplementsLifecycle`: an interrupt in the middle
  of a fork (`midfork`), which loses the stop (section 5).
- `NobodyStaysFrozen`: the faults `grandchild` and `overtake`, which do freeze a
  process (section 5).
- `HookedCarryHooks`, `AnswerIsHonest`: a zygote may be on record before `entry()` is
  done, and its hooks may have failed after the heartbeat (`hook`) or never have been
  reached because a signal ended the call (`cut`). `VerdictIsHonest` has the first of
  the two. `RecordIsProof` and `HookedHasHooks` make no such exception, are violated
  with it and proved without it (sections 4 and 5).
- `InjectedIsBacked` says that somebody is on record, be it a process that has died.
- `RearmIsAnswered`, `HeartbeatArrives`: a full control socket, over which monitor and
  daemon wait for one another. The model has no way out of that either (`Blocked`
  lasts), so the exception is a deadlock of the code.
- `CompanionsAreFresh`, `OldCompanionsExit`: a restart that is not reported. It happens
  in the run, and drops no companion.
- `DenylistSeesNoTrace`: an app whose move to the Clean namespace failed over a zygote
  that is not clean (`Stranded`). `DenylistIsClean` makes no such exception (section 5).
  An app of a clean zygote is covered whether or not its move failed.
- `GrantedSeesMounts`: an app whose move to Root failed, and one that goes by a
  `g_hook` older than the unmounting of zygote. It compares with what Root has, not
  with what was deployed. `GrantedSeesAll` has neither of the last two (section 5).
- `UnmappedIsUnhooked`: a method of Zygote that could not be given back (`stuck`).
- `TargetRunsAgain`: an injector that was interrupted, and a target that was attached
  to by `PTRACE_ATTACH`, injected, and sent a signal: both may stay stopped.
- `RunsItsOwnCode`: a SPAWN target whose injection failed: `Tracer_uninjected`.
- `StopMeansGone`: a monitor that had let go of init before, and a status of init
  that could not be read.

Fairness. `InitTracer!FairSpec`: the monitor's thread runs when its loop has
something to do, init takes a trap that is due (the kernel delivers a pending
`PTRACE_INTERRUPT`), and an injector gets done (it is bounded by its own timeouts
or dies). `ZygoteAbi!FairSpec`: the monitor's thread, whose timeout
`AttachTimesOut` is one of its steps, and the daemon's accept loop; neither has a
step while the control socket is full and the other waits for it. No injector has to
finish. `Zygiskd!FairSpec`: each thread, and each companion, which gets
done with its library and exits once its socket is closed; the daemon does not
bound that wait, so nothing weaker would do. No companion has to die.
`Tracer!FairSpec`: the scheduler runs the injector and its target, and what the
injector makes the target call returns; it waits for that without a bound. Nobody
has to send a command, fork, signal or die. `Stages` has no liveness property: a
stage bounds each of its waits.

## 4. What is proved

Every invariant and every action property that a passing run checks is also a
theorem, for any non-empty sets of pids, zygotes, clients, modules or children and
any positive bounds. Zygotes and modules are finitely many, since the models count
them, and the names that stand for "nobody" are not names of processes or clients.

`InitTracerProofs`

- `TypeCorrect`: `TypeOK`, which bounds the crash-loop count by its limit and the
  number of commands sent. It takes `CountInv`: a count that reaches its limit is
  followed by `request_stop`, so that no further zygote is counted until a command that
  was sent has been handled.
- `StopNeverLost`, `StateMatchesKernel`: `StopUnderway` and `SeizeMatchesState`,
  carried together as `StopInv`. `StopUnderway` is not inductive alone: that an
  interrupt takes hold at all rests on init being seized while STOPPING. Both
  theorems assume a kernel that grants the seize (no `reseize` among the faults), the
  first also that no fork swallows the interrupt (no `midfork`).
- `NoUnknownTracee`: `TraceesAreKnown`. `TraceInv` adds that nobody traces a pid
  that does not exist: without it, a reused pid could start out as a tracee the
  monitor has never seen.
- `ExitStays`: `ExitIsFinal`, from `ExitInv`, which relates EXITING to the stop
  flag of the loop.
- `StubsSurvive` (`StubsKeepRunning`), from `StubInv`: no stub was crashed by a SIGCHLD
  or stopped by a SIGSTOP that `handleParentEvent` should have kept from it;
  `stub_processes_` holds tracees only, so that a reused pid cannot pass for a stub; nobody the monitor
  traces is parked, so that what is promoted runs; and an exit ends all of it.
- `ZygotesAreHandedOver` (`NoZygoteSlips`), an action property, from the same
  invariant: a zygote at its exec is on record (`ExecIsKnown`), so it is taken
  neither for a stub nor for a new process, and of what is left every step that
  lets it go has prepared an injection or stops tracing.
- `LifecycleImplemented`: the safety part of `TracingLifecycle` under the mapping
  `state <- tracing, attached <- initTraced`, `midfork` included, for a kernel that grants
  the seize.

`ZygoteAbiProofs`

- `TypeCorrect`, and `OneDaemon` (`AtMostOneDaemon`), which is inductive with the
  type invariant: a daemon is forked only when no pid is on record.
- `RecordIsTrue` (`HookedCarryHooks`) and `RearmIsHonest` (`AnswerIsHonest`), from
  `HookInv`: wherever the news of a zygote's hooks still travels - a heartbeat not
  yet read, a datagram not yet handled, the locals of a rearm - the zygote has written
  its heartbeat; an injector's verdict, and whoever is on record without an injector,
  has seen `entry()` return; and a rearm loses none of the zygotes its scan found. What
  `entry()` returned with is hooks, or the failure it only logs.
- `RecordProvesHooks` (`RecordIsProof`): without the faults `hook` and `cut` the record
  proves hooks; with either it is violated (section 5).
- `StatusIsBacked` (`InjectedIsBacked`), from `BackInv`: a rearm has the event loop
  to itself, so that what it found hooked is still on record when it answers.
- `ServerFiresOnce` (`ServerFiredOnce`), from `FireInv`, for `MaxLive = 1`: a rearm
  attaches to a system_server only for a zygote it hooked itself, which it found
  bare, and that zygote's system_server was there when the rearm began and was not
  forked since. The hypothesis is needed: a rearm that finds two zygotes of one ABI,
  one bare and one that had fired its server already, fires that server again (TLC
  shows it with `MaxLive = 2`). A device runs one zygote for each ABI.

`ZygiskdProofs`

One invariant, `Inv`, carries all five theorems; its parts follow a request through
the queue, the accepting thread, the thread of a connection and the companion.

- `TypeCorrect`. That the list of snapshots stays within its bound takes
  `SnapsBounded`: restarts and refreshes that wait in the queue count too.
- `OneCompanion` (`OneCompanionPerModule`): a thread past the mutex has it
  (`HoldsLock`), a companion is known to its own module only (`AtHome`) and one that
  is being spawned to nobody.
- `OneSnapshotPerReply` (`ReplyIsOneSnapshot`): what a client has read is a prefix
  of the snapshot its thread took (`ReplyIsPrefix`), and snapshots never change.
- `FreshCompanions` (`CompanionsAreFresh`): a companion of before the last reported
  restart is about to be dropped or that restart is in the queue (`OldIsDropped`),
  before every connection of a newer client (`RestartComesFirst`). Restarts that are
  not reported happen in these behaviours too, and nothing is claimed of them.
- `HandlesSurviveRestarts` (`RestartsKeepHandles`): a client that lives has no
  restart behind it (`NoRestartBehind`), so that between its reading and its asking
  only a refresh replaces the snapshot.

`SpecializeProofs`

The lemmas on `Unhooks`, `RunModulesPre`, `ForkPre` and `ForkAndSpecialize` say what
each does to one process; `ForkedAs` gives a fork that worked and one that failed
the same form. All theorems hold under every set of faults but where one is named.

- `TypeCorrect`, from `HomeInv`: who is in which namespace and when. Only a
  system_server asks for the cache (`ServersAsk`) and nothing moves one
  (`OwnNamespace`), so the daemon never keeps its Clean namespace as Root.
- `NoHookOutlivesLibrary` (`UnmappedIsUnhooked`), from `HookInv`: every hook but the
  JNI methods is in `plt_backup`, and those methods were given back, or are `stuck`,
  before the library leaves.
- `FdsAreAccepted` (`FrameworkAcceptsFds`), proved of zygote too (`SweptFds`), which
  hands its descriptors to the child of its second fork if the first one failed.
- `SigchldComesBack` (`SigchldIsUnblocked`), inductive as it is.
- `DenylistIsServed` (`DenylistSeesNoTrace`) and `GrantedIsServed`
  (`GrantedSeesMounts`), from `MountInv` and `SeeInv`: a `g_hook` that says zygote was
  unmounted names what is left there, whenever it was copied (`UnmountedLeaves`);
  the Root namespace had been settled when it was kept (`RootIsSettled`); and an app
  between unshare's hook and its unshare is where its policy says
  (`SwitchedToClean`, `SwitchedToRoot`). `MountsMove` bounds what others may do
  meanwhile: zygote and Root only lose mounts, and Clean is filled once.
- `DenylistSeesNothing`: without the fault `umount` such an app sees no trace at all.
  Like `DenylistIsServed` it excepts an app that is `Stranded`: its move failed and
  zygote was not clean.

`TracerProofs`

- `TypeCorrect`: `TypeOK` from `Types` and `TracerInv`. The injector is the tracer
  at every step but the first and the last two; that a target which is stepped to
  its next syscall has a tracer is what `TypeOK` lacks to be inductive.
- `ReleasedAtOwnCode` (`RunsItsOwnCode`) and `ExitStatusIsTrue`
  (`VerdictIsHonest`), from `CallInv`: what each step of the injector knows of the
  target. A late target is at its own code outside calls and restores; a result
  that has yet to be read agrees with the library and with how far `entry()` got; from
  the restore on, `*hooked` is the truth, and nothing the target runs from there can
  change it.
- `HookedIsHooked` (`HookedHasHooks`): where installing the hooks does not fail, a
  target that is reported hooked has them, from the theorem before and the invariant
  that no hooks came out as failed.

`StagesProofs`

- `TypeCorrect`: `TypeOK` with `NotYetStarted`, by which a stage never starts a
  second monitor over its first.
- `StoppedIsGone` (`StopMeansGone`) and `MonitorsApart` (`OneMonitorServes`), from
  `ServingInv`: a steady monitor is init's tracer from its seize to its end, so that
  nobody else gets as far as the socket (`SteadyTraces`); EXIT goes to a monitor
  that had got to its loop (`RetiredServed`); and whoever stands down does so before
  one that got to trace init (`SomebodyTraced`).

Only model-checked: the liveness properties (`StopCompletes`, `ExitCompletes`,
`NobodyStaysFrozen`, `RearmIsAnswered`, `HeartbeatArrives`, `AcceptsAgain`,
`RequestsAnswered`, `OldCompanionsExit`, `TargetRunsAgain`), the liveness part of
`ImplementsLifecycle`, and the two properties the runs show to be violated. Liveness
under fairness and `ENABLED` are out of the prover's reach.

## 5. What the violations show

- `Specialize_isolated`: while zygote looks for traces it asks for the flags of the
  uid it was given (`module.cpp:547`), and the child asks again only if it has none
  (`module.cpp:435`), so that the corrected uid of an isolated process
  (`module.cpp:419`) is not used. If the first app that a hooked zygote starts is an
  isolated process of an app on the denylist, it moves to the Root namespace and
  sees every trace.
- `Tracer_uninjected`: "Resume the target uninjected rather than killing it, in
  every mode", says `handle_trace`. `inject_after_start` restores the registers
  whatever the injection came to, `inject_before_start` only after a success. A
  zygote whose library cannot be loaded is detached and continued at the fake
  return address of the last call, where it dies.

Behind the exceptions of section 3. Each is a short counterexample of TLC, to be had
by the change of a cfg that is named, and is not a run of its own:

- A lost stop (`"midfork"` among the faults of `InitTracer_stop.cfg`, `StopCompletes`).
  A STOP asks init for one stop with `PTRACE_INTERRUPT` (`monitor_impl.cpp:194`). If
  init is within a fork then, the stop it takes is that of the fork event, the kernel
  drops the interrupt with it, and `handleParentEvent` continues init. Nothing asks
  again, since `request_stop` acts in TRACING only: the monitor stays in STOPPING until
  a START or an EXIT.
- Hooked without hooks (`RecordIsProof` in `ZygoteAbi_rearm.cfg`, `HookedHasHooks` in
  `Tracer_release.cfg`). `entry()` writes its heartbeat before it hooks anything,
  returns 1 from there on, and `hook_plt` and the start of system_server's thread only
  log that they failed. The daemon's confirmation ("the only proof that it carries
  working hooks", `zygote_abi.hpp:33`) and the injector's TRACE_HOOKED (`entry()`
  "returns whether this process came out of the call with hooks installed",
  `entry.cpp:11`) then stand for a process without hooks, which no later rearm visits.
- A denylisted app with traces (`DenylistIsClean` in `Specialize_isolated.cfg`, with
  `Prohibited = {t1}`). The hook of `unshare` ignores that `update_mount_namespace`
  failed (`hook.cpp:116`). It fails while the daemon has yet to cache its Clean
  namespace; an app on the denylist of a zygote that has to keep a mount keeps all of
  them, where `src/README.md:24` promises a clean namespace.
- An app with root and no mounts (`GrantedSeesAll` in `Specialize_isolated.cfg`). A pool
  process forked before zygote unmounted its traces goes by its old copy of `g_hook`
  (`hook.cpp:111`) and stays in the emptied namespace, where `src/README.md:23` promises
  the mounts.

Read from the code on the way, and not stated as properties:

- A zygote restart reaches the daemon through the injector of a zygote caught at its
  exec, in SPAWN mode (`main.cpp:302`), which logs a failed connect and goes on
  (`daemon.cpp:143`). Unreported, the companions that "served a framework that no
  longer exists" (`zygiskd.rs:225`) stay in their slots and serve the new one.
- `fork_dont_care` (`utils.cpp:473`) reports only its first fork. If the second
  fails, the monitor believes that an injector runs, and the zygote it parked stays
  in SIGSTOP; the release kept for a failed fork is not reached.
- A rearm looks for system_server before it attaches to the zygote
  (`zygote_abi.cpp:299`). One forked in between comes from a zygote without hooks,
  and later rearms skip that zygote as hooked.
- `RefreshModules` swaps the snapshot under clients that hold indices into the old
  one (`zygiskd.rs:251`). `RestartsKeepHandles` shows the complement: without a
  refresh, indices stay right.
- A hot install takes any monitor that answers the control socket for the new one
  ("The new monitor answering its control socket is what says this install took",
  `stage.cpp`): it may be another stage's, or one that has not read its EXIT yet
  when stopping it timed out. Neither a hot install nor a disarm looks at what
  `stop_monitor` returns.
- The loser of a race between two monitors has run `prepare_environment`, which
  writes the module's description, before its seize of init fails.
- `!write_proc(...)` (`ptracer.cpp:288`) does not see the -1 of a failed write.
- `handle_interrupt` detaches a target that is not stopped, which the kernel
  refuses; such a target is left to `EXITKILL` or, late, to the end of its tracer.

Also: the hand-over's
`waitpid` overwrites the status its caller tests, so a zygote handed over stays in
`process_` (`monitor_impl.cpp:681`); a confirmation sent by a daemon that died is
recorded under its replacement (`zygote_abi.cpp:73`), although the record is
dropped when a new daemon starts; a rearm answers `AlreadyHooked` when one zygote
is hooked and another's injection is still in flight (`zygote_abi.cpp:312`); the
`ignore_disable` of a refresh decides every later scan (`zygiskd.rs:87`); a zygote
whose fork fails loads modules, although `fork_pre` forks "before loading any 3rd
party code" (`module.cpp:334`); `valid()` of a module is never called
(`module.cpp:73`); the Root namespace is zygote's own, and is emptied with it, if the
daemon opens it before system_server unshares (`mount.rs:102`); the methods of Zygote
that could not be given back lead into a library that is unmapped, because the
unloader looks at the PLT hooks alone (`hook.cpp:226`).

## 6. What is not modelled, and the plan

Not modelled, for good: the rewrites of linker, libc and heap structures
(`clean.cpp`, `fossil.cpp`, `atexit.cpp`, `solist.cpp`), which are memory layout; the
filter that `seccomp.cpp` installs, of which `Tracer` has the event it raises; readers
of file formats; the text of status files and logs; byte framing on sockets; the
installer scripts.

In `Specialize`, the hooks that modules install for themselves, the unloading of
module libraries and the memory of a deleted `g_hook` are left out, and so is a
partial failure of `hook_plt` (it hooks all or nothing).

In `Tracer`, where a function lies in the target and how a call is laid out in
its registers and on its stack is left out (a function is found or not, a call
returns or not); so are the `/proc` readers. In `Stages`, the scripts of other
modules (`fan_out`), the files of the work directory beyond their failing, and the
status readout. Root detection (`root_impl`) is a query to another program's
database or kernel interface, present as the answer it gives. That a handler cannot
be registered with the event loop is in no module: `run` ignores it, and the monitor
goes on without that handler's events.

Planned: what the code guarantees where the other violated properties fail, as
theorems with the condition under which they hold (`IsolatedSeesNoTrace` for an app
whose raw uid the daemon answers for, `FailureResumesTarget` without the failures
that leave a target parked); and an abstract specification of the daemon's module
list, with `Zygiskd` shown to refine it.

## 7. Running it

    tlc -workers 2 -config InitTracer_follow.cfg MCInitTracer
    tlapm InitTracerProofs.tla

and likewise for every run listed in `PROJECT.json` and every `...Proofs` module.
