----------------------------- MODULE Specialize -----------------------------
(***************************************************************************)
(* libzygisk.so inside zygote: the hooks it installs, the fork of an app   *)
(* or of system_server with the modules' callbacks around it, the mount    *)
(* namespaces a process ends up in, and the way the library leaves.        *)
(*                                                                         *)
(* Zygote is one thread.  Each child goes on by itself with a copy of      *)
(* zygote's memory, g_hook included, but in zygote's mount namespace until *)
(* it unshares: what zygote unmounts meanwhile is gone for the child too.  *)
(* The daemon caches a Clean and a Root namespace when system_server asks. *)
(*                                                                         *)
(* A trace is a mount of the root solution or of a module.  What modules   *)
(* do is one choice per process: the descriptors they open and exempt and  *)
(* the options they set.                                                   *)
(***************************************************************************)
EXTENDS Naturals, FiniteSets

CONSTANTS
  Child,       \* processes that zygote forks, each once
  Trace,       \* mounts of the root solution and its modules
  Prohibited,  \* those that zygote must keep (/product)
  Fd,          \* descriptors that modules open
  AllowedFd,   \* those whose target is in kAllowedFdTargets
  App,         \* apps to start
  Faults       \* which of AllFaults the environment may inject

(***************************************************************************)
(*   "daemon"     the daemon cannot be reached                             *)
(*   "fork"       zygote cannot fork                                       *)
(*   "umount"     a mount cannot be removed                                *)
(*   "namespace"  the daemon's helper dies before its namespace is ready   *)
(*   "array"      the array of descriptors to ignore cannot be allocated   *)
(*   "proc"       /proc/self/fd cannot be read                             *)
(*   "restore"    a PLT hook cannot be taken back                          *)
(*   "hook"       a function cannot be hooked                              *)
(*   "jni"        the JVM or the methods of Zygote cannot be found         *)
(*   "unregister" the methods of Zygote cannot be given back               *)
(***************************************************************************)
AllFaults == {"daemon", "fork", "umount", "namespace", "array", "proc", "restore",
              "hook", "jni", "unregister"}

Zygote == "zygote"

ASSUME ChildAssumption == Child # {} /\ Child \cap {Zygote, "clean", "old", "none"} = {}
ASSUME ProhibitedAssumption == Prohibited \subseteq Trace
ASSUME AllowedFdAssumption == AllowedFd \subseteq Fd
ASSUME FaultsAssumption == Faults \subseteq AllFaults

Process   == Child \cup {Zygote}
(* A mount namespace goes by the process that made it; "old" is the one of *)
(* an earlier system_server.                                               *)
Namespace == Process \cup {"clean", "old"}

(* What the root manager says of a uid; manager and granted are "root". *)
Policy == {"plain", "denylist", "root"}

(***************************************************************************)
(* An app: what its uid may see and, if that is the uid of an isolated     *)
(* process, what the uid of the app it belongs to may see.                 *)
(***************************************************************************)
AnyApp == {a \in [raw : Policy, uid : Policy, isolated : BOOLEAN, webview : BOOLEAN] :
             (~a.isolated => a.raw = a.uid) /\ (a.webview => ~a.isolated /\ a.uid = "plain")}

ASSUME AppAssumption == App \subseteq AnyApp

NoApp == [raw |-> "plain", uid |-> "plain", isolated |-> FALSE, webview |-> FALSE]

Plt == {"fork", "unshare", "strdup", "property_get"}    \* hook_plt

(* The methods of Zygote, which plt_backup knows nothing of: hooked, or    *)
(* left hooked by a restore_zygote_hook that failed.                       *)
Jni == {"jni", "stuck"}

VARIABLES
  pc,         \* how far each process is
  kind,       \* the hooked method it is in: app, usap, server, late
  app,        \* its arguments
  info,       \* info_flags, "none" for 0
  revert,     \* processes with DO_REVERT_UNMOUNT
  gHook,      \* g_hook: zygote_unmounted, zygote_traces, skip_hooking_unloader
  hooks,      \* the functions that lead into libzygisk.so
  backup,     \* plt_backup
  mapped,     \* processes that have libzygisk.so mapped
  fds,        \* descriptors that modules opened and that are still open
  ignored,    \* the ones in fds_to_ignore
  unswept,    \* processes that could not sanitize their descriptors
  blocked,    \* processes that block SIGCHLD
  ns,         \* the mount namespace of each process
  mounts,     \* the traces in each mount namespace
  refused,    \* processes update_mount_namespace failed for
  cache,      \* the daemon's namespaces: Clean and Root
  requests,   \* CacheMountNamespace requests it has yet to serve
  caching,    \* the one it is serving
  deployed    \* the traces that were mounted before zygote was hooked

ctxVars   == <<kind, app, info, revert>>
hookVars  == <<gHook, hooks, backup, mapped>>
fdVars    == <<fds, ignored, unswept>>
nsVars    == <<ns, mounts, refused>>
cacheVars == <<cache, requests, caching, deployed>>
vars == <<pc, ctxVars, hookVars, fdVars, blocked, nsVars, cacheVars>>

NewHook == [unmounted |-> FALSE, traces |-> {}, skip |-> FALSE]

(***************************************************************************)
(* Zygote is about to start, or has long been running; then a system_server*)
(* may run beside it, in a mount namespace of its own.  A daemon that has  *)
(* seen an earlier zygote has its namespaces already.                      *)
(***************************************************************************)
Init ==
  /\ pc \in {f \in [Process -> {"unborn", "boot", "running"}] :
               /\ f[Zygote] # "unborn"
               /\ Cardinality({c \in Child : f[c] # "unborn"}) <= 1
               /\ \A c \in Child : f[c] # "boot" /\ (f[c] = "running" => f[Zygote] = "running")}
  /\ kind = [p \in Process |-> IF p \in Child /\ pc[p] = "running" THEN "late" ELSE "none"]
  /\ app = [p \in Process |-> NoApp] /\ info = [p \in Process |-> "none"] /\ revert = {}
  /\ gHook = [p \in Process |-> NewHook]
  /\ hooks = [p \in Process |-> {}] /\ backup = [p \in Process |-> {}] /\ mapped = {}
  /\ fds = [p \in Process |-> {}] /\ ignored = [p \in Process |-> {}]
  /\ unswept = {} /\ blocked = {}
  /\ ns = [p \in Process |-> IF kind[p] = "late" THEN p ELSE Zygote]
  /\ deployed \in SUBSET Trace
  /\ mounts = [n \in Namespace |-> IF n = "old" \/ (n \in Process /\ ns[n] = n)
                                    THEN deployed ELSE {}]
  /\ refused = {} /\ requests = {} /\ caching = "none"
  /\ cache \in {[Clean |-> "none", Root |-> "none"], [Clean |-> "clean", Root |-> "old"]}

-----------------------------------------------------------------------------
(***************************************************************************)
(* The hooks of zygote.                                                    *)
(***************************************************************************)

Failing(fault) == IF fault \in Faults THEN {TRUE, FALSE} ELSE {FALSE}

(* hook_jni_methods and hook_unloader, and what is left out if they fail. *)
HookJniMethods(failed) == IF failed THEN {} ELSE {"jni"}
HookUnloader(failed)   == IF failed THEN {} ELSE {"setstacksize"}

(***************************************************************************)
(* hook_unloader, and property_get's own hook taken back.  Both are in     *)
(* plt_backup unless the second one is known to be gone.                   *)
(***************************************************************************)
UnhooksForgets(p, now) ==
  \E lost \in Failing("hook"), kept \in Failing("restore") :
    /\ hooks' = [hooks EXCEPT ![p] = (now \ IF kept THEN {} ELSE {"property_get"})
                                     \cup HookUnloader(lost)]
    /\ backup' = [backup EXCEPT ![p] = ((now \ Jni) \ {"property_get"}) \cup {"setstacksize"}]
    /\ gHook' = [gHook EXCEPT ![p].skip = TRUE]

Unhooks(p, now) ==
  \E lost \in Failing("hook"), kept \in Failing("restore") :
    LET left == IF kept THEN {} ELSE {"property_get"}
    IN  /\ hooks' = [hooks EXCEPT ![p] = (now \ left) \cup HookUnloader(lost)]
        /\ backup' = [backup EXCEPT ![p] = ((now \ Jni) \ left) \cup {"setstacksize"}]
        /\ gHook' = [gHook EXCEPT ![p].skip = TRUE]

(* entry finds no daemon: the library stays, without a hook. *)
EntryRefused(p) ==
  /\ pc[p] \in {"boot", "running"} /\ "daemon" \in Faults
  /\ pc' = [pc EXCEPT ![p] = "left"]
  /\ mapped' = mapped \cup {p}
  /\ UNCHANGED <<ctxVars, gHook, hooks, backup, fdVars, blocked, nsVars, cacheVars>>

(* entry and hook_entry, in a zygote caught at its start. *)
HookEntry ==
  /\ pc[Zygote] = "boot"
  /\ pc' = [pc EXCEPT ![Zygote] = "starting"]
  /\ mapped' = mapped \cup {Zygote}
  /\ \E failed \in Failing("hook") :
       /\ hooks' = [hooks EXCEPT ![Zygote] = IF failed THEN {} ELSE Plt]
       /\ backup' = [backup EXCEPT ![Zygote] = IF failed THEN {} ELSE Plt]
  /\ UNCHANGED <<ctxVars, gHook, fdVars, blocked, nsVars, cacheVars>>

(* strdup("ZygoteInit"): hook_zygote_jni. *)
Strdup ==
  /\ pc[Zygote] = "starting" /\ "strdup" \in hooks[Zygote]
  /\ pc' = [pc EXCEPT ![Zygote] = "idle"]
  /\ \E failed \in Failing("jni") :
       hooks' = [hooks EXCEPT ![Zygote] = @ \cup HookJniMethods(failed)]
  /\ UNCHANGED <<ctxVars, gHook, backup, mapped, fdVars, blocked, nsVars, cacheVars>>

(* The first property_get, usually while zygote's JVM starts. *)
PropertyGet(p) ==
  /\ pc[p] \in {"starting", "idle", "usap", "specialized", "leaving"}
  /\ "property_get" \in hooks[p] /\ ~gHook[p].skip
  /\ Unhooks(p, hooks[p])
  /\ UNCHANGED <<pc, ctxVars, mapped, fdVars, blocked, nsVars, cacheVars>>

(* entry in STANDALONE mode: trigger_zygote_hooks runs both at once. *)
TriggerZygoteHooks ==
  /\ pc[Zygote] = "running"
  /\ pc' = [pc EXCEPT ![Zygote] = "idle"]
  /\ mapped' = mapped \cup {Zygote}
  /\ \E failed \in Failing("jni") : Unhooks(Zygote, Plt \cup HookJniMethods(failed))
  /\ UNCHANGED <<ctxVars, fdVars, blocked, nsVars, cacheVars>>

-----------------------------------------------------------------------------
(***************************************************************************)
(* The daemon, as its clients see it.                                      *)
(***************************************************************************)
Unreachable == IF "daemon" \in Faults THEN {"none"} ELSE {}

(* GetProcessFlags: 0 if nobody answers. *)
ProcessFlags(policy) == {policy} \cup Unreachable

(* Mounts that umount2 fails to remove. *)
Stuck(traces) == IF "umount" \in Faults THEN SUBSET traces ELSE {{}}

(* CacheMountNamespace, answered to nobody. *)
AskToCache(p) ==
  /\ requests' \in {requests \cup {p}} \cup (IF "daemon" \in Faults THEN {requests} ELSE {})
  /\ UNCHANGED <<cache, caching, deployed>>

(***************************************************************************)
(* save_mount_namespace(pid, Clean) keeps a copy of the namespace the      *)
(* process is in by then, without its traces; only if that worked follows  *)
(* save_mount_namespace(pid, Root), which keeps the namespace itself.      *)
(* Each is done once for the life of the daemon.                           *)
(***************************************************************************)
CleanNamespaceShared(p) == ns[p]

CleanNamespace(p) == "clean"

SaveClean(p) ==
  /\ caching = "none" /\ p \in requests
  /\ \/ /\ cache.Clean = "none"
        /\ cache' = [cache EXCEPT !.Clean = CleanNamespace(p)]
        /\ \E left \in Stuck(mounts[ns[p]]) :
             mounts' = [mounts EXCEPT ![CleanNamespace(p)] = left]
        /\ caching' = p
     \/ /\ cache.Clean # "none"
        /\ caching' = p
        /\ UNCHANGED <<cache, mounts>>
     \/ /\ cache.Clean = "none" /\ "namespace" \in Faults
        /\ UNCHANGED <<cache, mounts, caching>>
  /\ requests' = requests \ {p}
  /\ UNCHANGED <<pc, ctxVars, hookVars, fdVars, blocked, ns, refused, deployed>>

SaveRoot ==
  /\ caching # "none"
  /\ \/ cache.Root = "none" /\ cache' = [cache EXCEPT !.Root = ns[caching]]
     \/ (cache.Root # "none" \/ "namespace" \in Faults) /\ UNCHANGED cache
  /\ caching' = "none"
  /\ UNCHANGED <<pc, ctxVars, hookVars, fdVars, blocked, nsVars, requests, deployed>>

-----------------------------------------------------------------------------
(***************************************************************************)
(* Zygote forks.                                                           *)
(***************************************************************************)

(***************************************************************************)
(* fork_pre: zygote forks by itself, before any module is loaded, and the  *)
(* hook of fork hands the result to the method it replaced.  is_child() is *)
(* pid <= 0, so that a zygote whose fork failed goes on as its own child.  *)
(***************************************************************************)
ForkPre(c, k, a, flags, hook) ==
  /\ \/ /\ pc' = [pc EXCEPT ![Zygote] = "forked", ![c] = "born"]
        /\ kind' = [kind EXCEPT ![c] = k] /\ app' = [app EXCEPT ![c] = a]
        /\ info' = [info EXCEPT ![c] = flags]
        /\ blocked' = blocked \cup {Zygote, c}
        /\ gHook' = [gHook EXCEPT ![Zygote] = hook, ![c] = hook]
        /\ hooks' = [hooks EXCEPT ![c] = hooks[Zygote]]
        /\ backup' = [backup EXCEPT ![c] = backup[Zygote]]
        /\ mapped' = mapped \cup {c}
     \/ /\ "fork" \in Faults
        /\ pc' = [pc EXCEPT ![Zygote] = "born"]
        /\ kind' = [kind EXCEPT ![Zygote] = k] /\ app' = [app EXCEPT ![Zygote] = a]
        /\ info' = [info EXCEPT ![Zygote] = flags]
        /\ blocked' = blocked \cup {Zygote}
        /\ gHook' = [gHook EXCEPT ![Zygote] = hook]
        /\ UNCHANGED <<hooks, backup, mapped>>
  /\ UNCHANGED <<revert, fdVars, ns, refused, cacheVars>>

CanFork(c) == pc[Zygote] = "idle" /\ "jni" \in hooks[Zygote] /\ pc[c] = "unborn"

(* Zygote has yet to look for traces, or never found one. *)
Unchecked == ~gHook[Zygote].unmounted /\ gHook[Zygote].traces = {}

(* abort_zygote_unmount *)
AbortZygoteUnmount(traces) == traces = {} \/ traces \cap Prohibited # {}

(* check_zygote_traces, which goes by the root solution that flags name. *)
ZygoteTraces(flags) == IF flags = "none" THEN {} ELSE mounts[ns[Zygote]]

(* nativeForkAndSpecialize_pre, up to the fork. *)
ForkAndSpecialize(c, a) ==
  /\ CanFork(c)
  /\ \/ /\ ~Unchecked
        /\ ForkPre(c, "app", a, "none", gHook[Zygote])
        /\ UNCHANGED mounts
     \/ /\ Unchecked
        /\ \E flags \in ProcessFlags(a.raw) :
             LET found == ZygoteTraces(flags)
             IN  \/ /\ AbortZygoteUnmount(found)
                    /\ ForkPre(c, "app", a, flags, [gHook[Zygote] EXCEPT !.traces = found])
                    /\ UNCHANGED mounts
                 \/ /\ ~AbortZygoteUnmount(found)
                    /\ \E failed \in Stuck(found) :
                         /\ ForkPre(c, "app", a, flags,
                                    [gHook[Zygote] EXCEPT !.unmounted = TRUE, !.traces = failed])
                         /\ mounts' = [mounts EXCEPT ![ns[Zygote]] = failed]

(* nativeForkSystemServer_pre, up to the fork. *)
ForkSystemServer(c) ==
  /\ CanFork(c) /\ \A p \in Process : kind[p] \notin {"server", "late"}
  /\ ForkPre(c, "server", NoApp, "none", gHook[Zygote])
  /\ UNCHANGED mounts

ForkPostParent(p) == blocked' = IF p = Zygote THEN blocked \ {p} ELSE blocked

(* fork_post *)
ForkPost(p) == blocked' = blocked \ {p}

(* The parent's nativeFork..._post: fork_post, and nothing else. *)
ForkReturns ==
  /\ pc[Zygote] = "forked"
  /\ pc' = [pc EXCEPT ![Zygote] = "idle"]
  /\ ForkPost(Zygote)
  /\ UNCHANGED <<ctxVars, hookVars, fdVars, nsVars, cacheVars>>

(* A pool process, forked by a method that is not hooked. *)
ForkUsap(c) ==
  /\ CanFork(c)
  /\ pc' = [pc EXCEPT ![c] = "usap"]
  /\ gHook' = [gHook EXCEPT ![c] = gHook[Zygote]]
  /\ hooks' = [hooks EXCEPT ![c] = hooks[Zygote]]
  /\ backup' = [backup EXCEPT ![c] = backup[Zygote]]
  /\ mapped' = mapped \cup {c}
  /\ UNCHANGED <<ctxVars, fdVars, blocked, nsVars, cacheVars>>

-----------------------------------------------------------------------------
(***************************************************************************)
(* A process specializes.                                                  *)
(***************************************************************************)

(***************************************************************************)
(* run_modules_pre and sanitize_fds: modules open and exempt descriptors;  *)
(* what is neither exempted nor allowed is closed.  exempt_fd counts only  *)
(* where the method has a list of descriptors to ignore.                   *)
(***************************************************************************)
RunModulesPreExempts(p, load) ==
  /\ \E opened \in IF load THEN SUBSET Fd ELSE {{}} : \E exempted \in SUBSET opened :
       /\ ignored' = [ignored EXCEPT ![p] = IF kind[p] = "app" THEN exempted ELSE {}]
       /\ fds' = [fds EXCEPT ![p] = (opened \cap AllowedFd) \cup exempted]
  /\ UNCHANGED unswept

RunModulesPre(p, load) ==
  \E opened \in IF load THEN SUBSET Fd ELSE {{}} : \E exempted \in SUBSET opened :
    \/ /\ ignored' = [ignored EXCEPT ![p] = IF kind[p] = "app" THEN exempted ELSE {}]
       /\ fds' = [fds EXCEPT ![p] = (opened \cap AllowedFd) \cup ignored'[p]]
       /\ UNCHANGED unswept
    \/ /\ "array" \in Faults /\ kind[p] = "app" /\ exempted # {}
       /\ fds' = [fds EXCEPT ![p] = opened \cap AllowedFd]
       /\ UNCHANGED <<ignored, unswept>>
    \/ /\ "proc" \in Faults
       /\ ignored' = [ignored EXCEPT ![p] = IF kind[p] = "app" THEN exempted ELSE {}]
       /\ fds' = [fds EXCEPT ![p] = opened]
       /\ unswept' = unswept \cup {p}

(* run_modules_pre in a process whose descriptors nobody checks. *)
RunModulesUnchecked(p, load) ==
  /\ fds' \in {[fds EXCEPT ![p] = s] : s \in IF load THEN SUBSET Fd ELSE {{}}}
  /\ UNCHANGED <<ignored, unswept>>

(* ReadModules: none if nobody answers. *)
ReadModules == {TRUE} \cup (IF "daemon" \in Faults THEN {FALSE} ELSE {})

(***************************************************************************)
(* app_specialize_pre.  An isolated process goes by its app's uid, and     *)
(* does without the daemon if it cannot reach it; flags that came from     *)
(* zygote are not asked for again.                                         *)
(***************************************************************************)
AppSpecializePre(p, a, flags, load, force) ==
  /\ flags \in IF info[p] # "none" THEN {info[p]} ELSE ProcessFlags(a.uid)
  /\ load \in ReadModules
  /\ info' = [info EXCEPT ![p] = flags]
  /\ revert' = IF flags = "denylist" \/ a.webview \/ (load /\ force)
               THEN revert \cup {p} ELSE revert

(* The child's half of nativeForkAndSpecialize_pre. *)
AppPre(p) ==
  /\ pc[p] = "born" /\ kind[p] = "app"
  /\ \E flags \in Policy \cup {"none"}, load, force \in BOOLEAN :
       /\ AppSpecializePre(p, app[p], flags, load, force)
       /\ RunModulesPre(p, load)
  /\ pc' = [pc EXCEPT ![p] = "original"]
  /\ UNCHANGED <<kind, app, hookVars, blocked, nsVars, cacheVars>>

(* nativeSpecializeAppProcess_pre, in a pool process. *)
SpecializeAppProcess(p, a) ==
  /\ pc[p] = "usap" /\ "jni" \in hooks[p]
  /\ kind' = [kind EXCEPT ![p] = "usap"] /\ app' = [app EXCEPT ![p] = a]
  /\ \E flags \in Policy \cup {"none"}, load, force \in BOOLEAN :
       /\ AppSpecializePre(p, a, flags, load, force)
       /\ RunModulesUnchecked(p, load)
  /\ pc' = [pc EXCEPT ![p] = "original"]
  /\ UNCHANGED <<hookVars, blocked, nsVars, cacheVars>>

(* The child's half of nativeForkSystemServer_pre: server_specialize_pre. *)
ServerPre(p) ==
  /\ pc[p] = "born" /\ kind[p] = "server"
  /\ \E load \in ReadModules : RunModulesPre(p, load)
  /\ AskToCache(p)
  /\ pc' = [pc EXCEPT ![p] = "original"]
  /\ UNCHANGED <<ctxVars, hookVars, blocked, nsVars>>

(***************************************************************************)
(* The original method asks for its fork.  A child has its answer; zygote  *)
(* has none if its own fork failed, so it forks again.                     *)
(***************************************************************************)
ForkAgain(c) ==
  /\ pc[Zygote] = "original" /\ pc[c] = "unborn"
  /\ \/ /\ pc' = [pc EXCEPT ![Zygote] = "specialized", ![c] = "original"]
        /\ kind' = [kind EXCEPT ![c] = kind[Zygote]] /\ app' = [app EXCEPT ![c] = app[Zygote]]
        /\ info' = [info EXCEPT ![c] = info[Zygote]]
        /\ revert' = IF Zygote \in revert THEN revert \cup {c} ELSE revert
        /\ gHook' = [gHook EXCEPT ![c] = gHook[Zygote]]
        /\ hooks' = [hooks EXCEPT ![c] = hooks[Zygote]]
        /\ backup' = [backup EXCEPT ![c] = backup[Zygote]]
        /\ mapped' = mapped \cup {c} /\ blocked' = blocked \cup {c}
        /\ fds' = [fds EXCEPT ![c] = fds[Zygote]]
        /\ ignored' = [ignored EXCEPT ![c] = ignored[Zygote]]
        /\ unswept' = IF Zygote \in unswept THEN unswept \cup {c} ELSE unswept
     \/ /\ pc' = [pc EXCEPT ![Zygote] = "specialized"]
        /\ UNCHANGED <<ctxVars, hookVars, fdVars, blocked>>
  /\ UNCHANGED <<nsVars, cacheVars>>

(***************************************************************************)
(* unshare's hook.  Whoever must not see the traces goes to the Clean      *)
(* namespace, unless zygote is clean already; everybody else goes to Root  *)
(* once zygote has been unmounted.                                         *)
(***************************************************************************)
ShouldUnmountAnybody(p) == p \in revert

ShouldUnmount(p) == info[p] # "root" /\ p \in revert

IsZygoteUnmounted(p) == gHook[p].unmounted

IsZygoteClean(p) == gHook[p].unmounted /\ gHook[p].traces = {}

WantedNamespace(p) ==
  IF ShouldUnmount(p)
  THEN IF IsZygoteClean(p) THEN "none" ELSE "Clean"
  ELSE IF gHook[p].unmounted THEN "Root" ELSE "none"

(* update_mount_namespace, which fails if the daemon has nothing cached. *)
UpdateMountNamespace(p) ==
  /\ pc[p] = "original" /\ kind[p] \in {"app", "usap"} /\ p # Zygote
  /\ LET type == WantedNamespace(p)
     IN  \/ type = "none" /\ UNCHANGED <<ns, refused>>
         \/ /\ type # "none" /\ cache[type] # "none"
            /\ ns' = [ns EXCEPT ![p] = cache[type]]
            /\ UNCHANGED refused
         \/ /\ type # "none" /\ (cache[type] = "none" \/ "daemon" \in Faults)
            /\ refused' = refused \cup {p}
            /\ UNCHANGED ns
  /\ pc' = [pc EXCEPT ![p] = "switched"]
  /\ UNCHANGED <<ctxVars, hookVars, fdVars, blocked, mounts, cacheVars>>

(* The unshare itself: a namespace of its own, with what is mounted now. *)
Unshare(p) ==
  /\ pc[p] = "switched" \/ (pc[p] = "original" /\ kind[p] = "server" /\ p # Zygote)
  /\ ns' = [ns EXCEPT ![p] = p]
  /\ mounts' = [mounts EXCEPT ![p] = mounts[ns[p]]]
  /\ pc' = [pc EXCEPT ![p] = "specialized"]
  /\ UNCHANGED <<ctxVars, hookVars, fdVars, blocked, refused, cacheVars>>

(***************************************************************************)
(* ..._post and ~ZygiskContext: run_modules_post unloads the modules that  *)
(* asked for it, which nothing here depends on; g_ctx is gone, so that the *)
(* hooks of fork and unshare pass everything through; and hook_jni_methods *)
(* gives the methods of Zygote back.  It tells nobody if it could not, and *)
(* the methods stay hooked for good.  A pool process has no signal to      *)
(* unblock.                                                                *)
(***************************************************************************)
DestroysContext(p) ==
  \E failed \in Failing("unregister") :
    hooks' = [hooks EXCEPT ![p] = (@ \ {"jni"})
                                  \cup IF failed /\ "jni" \in @ THEN {"stuck"} ELSE {}]

SpecializePost(p) ==
  /\ pc[p] = "specialized"
  /\ ForkPost(p)
  /\ DestroysContext(p)
  /\ pc' = [pc EXCEPT ![p] = "leaving"]
  /\ UNCHANGED <<ctxVars, gHook, backup, mapped, fdVars, nsVars, cacheVars>>

(***************************************************************************)
(* pthread_attr_setstacksize on the main thread: restore_plt_hook, and if  *)
(* every hook is gone the library is unmapped.                             *)
(***************************************************************************)
RestorePltHook(p, left) == hooks' = [hooks EXCEPT ![p] = @ \ (backup[p] \ left)]

Unload(p) ==
  /\ pc[p] = "leaving" /\ "setstacksize" \in hooks[p]
  /\ \E left \in IF "restore" \in Faults THEN SUBSET backup[p] ELSE {{}} :
       /\ RestorePltHook(p, left)
       /\ mapped' = IF left = {} THEN mapped \ {p} ELSE mapped
  /\ pc' = [pc EXCEPT ![p] = "left"]
  /\ UNCHANGED <<ctxVars, gHook, backup, fdVars, blocked, nsVars, cacheVars>>

(***************************************************************************)
(* run_system_server_hooks, in a system_server that came before the hooks: *)
(* the callbacks run on a thread of their own and the library stays.       *)
(***************************************************************************)
LateServer(p) ==
  /\ pc[p] = "running" /\ kind[p] = "late"
  /\ mapped' = mapped \cup {p}
  /\ pc' = [pc EXCEPT ![p] = "left"]
  /\ \/ (\E load \in ReadModules : RunModulesUnchecked(p, load)) /\ AskToCache(p)
     \/ /\ "jni" \in Faults
        /\ UNCHANGED <<fdVars, cacheVars>>
  /\ UNCHANGED <<ctxVars, gHook, hooks, backup, blocked, nsVars>>

-----------------------------------------------------------------------------
ZygoteSteps ==
  \/ HookEntry \/ Strdup \/ TriggerZygoteHooks \/ ForkReturns
  \/ \E c \in Child : ForkSystemServer(c) \/ ForkUsap(c) \/ ForkAgain(c)
  \/ \E c \in Child, a \in App : ForkAndSpecialize(c, a)

ProcessSteps(p) ==
  \/ EntryRefused(p) \/ PropertyGet(p)
  \/ AppPre(p) \/ ServerPre(p) \/ \E a \in App : SpecializeAppProcess(p, a)
  \/ UpdateMountNamespace(p) \/ Unshare(p) \/ SpecializePost(p) \/ Unload(p)
  \/ LateServer(p)

DaemonSteps == SaveRoot \/ \E p \in Process : SaveClean(p)

Next == ZygoteSteps \/ DaemonSteps \/ \E p \in Process : ProcessSteps(p)

Spec == Init /\ [][Next]_vars

-----------------------------------------------------------------------------
(* Every variable has its type. *)
TypeOK ==
  /\ pc \in [Process -> {"unborn", "boot", "running", "starting", "idle", "forked", "usap",
                         "born", "original", "switched", "specialized", "leaving", "left"}]
  /\ kind \in [Process -> {"none", "app", "usap", "server", "late"}]
  /\ app \in [Process -> AnyApp] /\ info \in [Process -> Policy \cup {"none"}]
  /\ revert \subseteq Process
  /\ gHook \in [Process -> [unmounted : BOOLEAN, traces : SUBSET Trace, skip : BOOLEAN]]
  /\ hooks \in [Process -> SUBSET (Plt \cup Jni \cup {"setstacksize"})]
  /\ backup \in [Process -> SUBSET (Plt \cup {"setstacksize"})]
  /\ mapped \subseteq Process
  /\ fds \in [Process -> SUBSET Fd] /\ ignored \in [Process -> SUBSET Fd]
  /\ unswept \subseteq Process /\ blocked \subseteq Process
  /\ ns \in [Process -> Namespace] /\ mounts \in [Namespace -> SUBSET Trace]
  /\ refused \subseteq Process
  /\ cache \in [Clean : {"none", "clean"}, Root : Process \cup {"old", "none"}]
  /\ deployed \subseteq Trace
  /\ requests \subseteq Process /\ caching \in Process \cup {"none"}

Specialized(p) == pc[p] \in {"specialized", "leaving", "left"} /\ kind[p] \in {"app", "usap"}
                  /\ p # Zygote

(***************************************************************************)
(* An app on the denylist sees no trace but those that could not be        *)
(* unmounted from the Clean namespace either: where zygote was cleaned it  *)
(* needs nobody, the daemon included, and elsewhere it moves to Clean.     *)
(* The one exception is an app whose move failed over a zygote that was    *)
(* not clean: unshare's hook ignores that, and the app keeps the traces.   *)
(***************************************************************************)
Stranded(p) == p \in refused /\ ~IsZygoteClean(p)

DenylistSeesNoTrace ==
  \A p \in Child : Specialized(p) /\ ShouldUnmount(p) /\ ~Stranded(p)
                   => mounts[p] \subseteq mounts["clean"]

(***************************************************************************)
(* The framework finds no descriptor in a new process that it would abort  *)
(* over: what a module opened was closed, is ignored or is allowed         *)
(* (sanitize_fds).                                                         *)
(***************************************************************************)
FrameworkAcceptsFds ==
  \A p \in Child : pc[p] = "original" /\ kind[p] \in {"app", "server"} /\ p \notin unswept
                   => fds[p] \subseteq ignored[p] \cup AllowedFd

(***************************************************************************)
(* Nothing leads into a library that is gone (restore_plt_hook,            *)
(* restore_zygote_hook) but the methods of Zygote that hook_jni_methods    *)
(* was asked to give back and could not, over which should_unmap stays set.*)
(***************************************************************************)
UnmappedIsUnhooked == \A p \in Process : p \notin mapped => hooks[p] \subseteq {"stuck"}

(* SIGCHLD is blocked only while a hooked method forks (fork_pre, fork_post). *)
SigchldIsUnblocked ==
  \A p \in blocked : pc[p] \in {"forked", "born", "original", "switched", "specialized"}

(***************************************************************************)
(* An app that is granted root sees every trace there was or, if zygote    *)
(* has been unmounted, all that the Root namespace has.  It takes that the *)
(* app's copy of g_hook is not older than the unmounting, and that its     *)
(* move to the Root namespace, if one was needed, worked (unshare's hook). *)
(***************************************************************************)
GrantedSeesMounts ==
  \A p \in Child :
    Specialized(p) /\ info[p] = "root" /\ p \notin refused
    /\ gHook[p].unmounted = gHook[Zygote].unmounted
    => IF gHook[p].unmounted
       THEN cache.Root # "none" /\ mounts[cache.Root] \subseteq mounts[p]
       ELSE deployed \subseteq mounts[p]

(***************************************************************************)
(* "On DenyList: Clean, Unmodified Mount Namespace", in which "all traces  *)
(* of root and module mounts are hidden" (README).  This does not hold of  *)
(* an app that is Stranded, and of what could not be unmounted: unshare's  *)
(* hook ignores that update_mount_namespace failed.                        *)
(***************************************************************************)
DenylistIsClean ==
  \A p \in Child : Specialized(p) /\ ShouldUnmount(p) => mounts[p] = {}

(***************************************************************************)
(* "Granted Root Privileges: Root Solution Mounts + Module Mounts"         *)
(* (README).  Even if no move failed this does not hold of a pool process  *)
(* that goes by a g_hook older than the unmounting of zygote, and if Root  *)
(* is the namespace that zygote emptied (unshare's hook).                  *)
(***************************************************************************)
GrantedSeesAll ==
  \A p \in Child : Specialized(p) /\ info[p] = "root" /\ p \notin refused
                   => deployed \subseteq mounts[p]

(***************************************************************************)
(* "Correct uid for isolated services" (app_specialize_pre): an isolated   *)
(* process of an app on the denylist sees no trace either, if the daemon   *)
(* answered it and any move to another namespace worked.                   *)
(***************************************************************************)
IsolatedSeesNoTrace ==
  \A p \in Child : Specialized(p) /\ app[p].isolated /\ app[p].uid = "denylist"
                   /\ info[p] # "none" /\ p \notin refused
                   => mounts[p] \subseteq mounts["clean"]
=============================================================================
