-------------------------- MODULE SpecializeProofs --------------------------
(***************************************************************************)
(* What holds of libzygisk.so inside zygote for any number of children,    *)
(* mounts, descriptors and apps, and under any set of faults.              *)
(***************************************************************************)
EXTENDS Specialize, TLAPS

-----------------------------------------------------------------------------
(***************************************************************************)
(* The inductive invariant, part by part.                                  *)
(***************************************************************************)

(* A process that was forked is in zygote's namespace until its unshare. *)
AtHome == \A p \in Process :
            p = Zygote \/ pc[p] \in {"unborn", "usap", "born", "original"} => ns[p] = Zygote

(* Zygote unshares nothing: it never comes to unshare's hook. *)
ZygoteStays == pc[Zygote] # "switched"

(* A process that has yet to be caught is in no method of Zygote. *)
NotYetCalled ==
  \A p \in Process : pc[p] \in {"unborn", "boot", "running"} => kind[p] \notin {"app", "usap"}

(* Only an app is ever moved to a namespace that somebody else made. *)
OwnNamespace == \A p \in Process : kind[p] \in {"app", "usap"} \/ ns[p] \in {Zygote, p}

(* What has a namespace of its own will not make another one. *)
UnsharedOnce == \A p \in Child : ns[p] = p => pc[p] \notin {"original", "switched"}

(* Who asks for the namespaces to be cached is a system_server, and stays one. *)
ServersAsk ==
  \A p \in Process : p \in requests \/ p = caching
                     => /\ kind[p] \in {"server", "late"}
                        /\ pc[p] \in {"original", "specialized", "leaving", "left"}

(* The Root namespace was its process's own when the daemon kept it. *)
RootIsSettled == \A p \in Child : cache.Root = p => ns[p] = p

(* The Clean namespace is empty until the daemon makes it. *)
CleanIsNew == cache.Clean = "none" => mounts["clean"] = {}

(* A g_hook that says zygote was unmounted names what is left there... *)
UnmountedLeaves ==
  \A p \in Process : gHook[p].unmounted => /\ gHook[Zygote].unmounted
                                           /\ mounts[Zygote] = gHook[p].traces

(* ... and until zygote is unmounted it has all that was deployed. *)
UntouchedHas == ~gHook[Zygote].unmounted => mounts[Zygote] = deployed

(* The namespace an app unshares from is the one its policy calls for. *)
Switched(p) == pc[p] = "switched" /\ kind[p] \in {"app", "usap"}

SwitchedToClean ==
  \A p \in Child : Switched(p) /\ ShouldUnmount(p) /\ ~Stranded(p)
                   => ns[p] \in {Zygote, "clean"} /\ mounts[ns[p]] \subseteq mounts["clean"]

SwitchedToRoot ==
  \A p \in Child : Switched(p) /\ info[p] = "root" /\ p \notin refused
                   => IF gHook[p].unmounted THEN cache.Root # "none" /\ ns[p] = cache.Root
                                            ELSE ns[p] = Zygote

(* Every hook but the JNI methods is one that restore_plt_hook knows of. *)
BackedUp == \A p \in Process : hooks[p] \subseteq backup[p] \cup Jni

(* The methods of Zygote are given back, or known to be stuck, before the  *)
(* library leaves.                                                         *)
JniRestored == \A p \in Process : pc[p] \in {"leaving", "left"} => "jni" \notin hooks[p]

(* There is no hook before entry. *)
NotYetHooked == \A p \in Process : pc[p] \in {"unborn", "boot", "running"} => hooks[p] = {}

(* FrameworkAcceptsFds of zygote too, which hands its descriptors to the   *)
(* child of its second fork.                                               *)
SweptFds ==
  \A p \in Process : pc[p] = "original" /\ kind[p] \in {"app", "server"} /\ p \notin unswept
                     => fds[p] \subseteq ignored[p] \cup AllowedFd

HookInv  == BackedUp /\ JniRestored /\ NotYetHooked /\ UnmappedIsUnhooked
HomeInv  == /\ AtHome /\ ZygoteStays /\ OwnNamespace /\ UnsharedOnce /\ ServersAsk
            /\ NotYetCalled /\ RootIsSettled
MountInv == CleanIsNew /\ UnmountedLeaves /\ UntouchedHas
SeeInv   == /\ SwitchedToClean /\ SwitchedToRoot
            /\ DenylistSeesNoTrace /\ GrantedSeesMounts

-----------------------------------------------------------------------------
(***************************************************************************)
(* Type correctness.                                                       *)
(***************************************************************************)

(* The names of namespaces that are no process are not processes' names. *)
LEMMA Names ==
  /\ Zygote \in Process /\ Zygote \notin Child /\ Child \subseteq Process
  /\ Zygote \in Namespace /\ Process \subseteq Namespace
  /\ "clean" \in Namespace /\ "clean" \notin Process
  /\ "old" \in Namespace /\ "old" \notin Process /\ "none" \notin Process
BY ChildAssumption DEF Process, Namespace, Zygote

LEMMA TypeInit == Init => TypeOK
<1>1. SUFFICES ASSUME Init PROVE TypeOK
  OBVIOUS
<1>2. NoApp \in AnyApp
  BY DEF NoApp, AnyApp, Policy
<1>3. NewHook \in [unmounted : BOOLEAN, traces : SUBSET Trace, skip : BOOLEAN]
  BY DEF NewHook
<1>4. kind \in [Process -> {"none", "app", "usap", "server", "late"}]
  BY <1>1 DEF Init
<1>5. ns \in [Process -> Namespace]
  BY <1>1, Names DEF Init
<1>6. mounts \in [Namespace -> SUBSET Trace]
  BY <1>1 DEF Init
<1>7. QED
  BY <1>1, <1>2, <1>3, <1>4, <1>5, <1>6, Names DEF Init, TypeOK

(* The types of a copy of g_hook and of the hooks of one process. *)
GHook == [unmounted : BOOLEAN, traces : SUBSET Trace, skip : BOOLEAN]
Hooks == SUBSET (Plt \cup Jni \cup {"setstacksize"})

(* hook_unloader and the first property_get change p's hooks alone, and of *)
(* g_hook only skip_hooking_unloader.                                      *)
LEMMA UnhooksFacts ==
  ASSUME TypeOK, NEW p \in Process, NEW now \in Hooks, Unhooks(p, now)
  PROVE  /\ hooks' \in [Process -> Hooks]
         /\ backup' \in [Process -> SUBSET (Plt \cup {"setstacksize"})]
         /\ gHook' \in [Process -> GHook]
         /\ \A q \in Process \ {p} : /\ hooks'[q] = hooks[q] /\ backup'[q] = backup[q]
                                     /\ gHook'[q] = gHook[q]
         /\ gHook'[p].unmounted = gHook[p].unmounted /\ gHook'[p].traces = gHook[p].traces
         /\ hooks'[p] \subseteq backup'[p] \cup (now \cap Jni)
<1>1. PICK lost \in Failing("hook"), kept \in Failing("restore") :
        LET left == IF kept THEN {} ELSE {"property_get"}
        IN  /\ hooks' = [hooks EXCEPT ![p] = (now \ left) \cup HookUnloader(lost)]
            /\ backup' = [backup EXCEPT ![p] = ((now \ Jni) \ left) \cup {"setstacksize"}]
            /\ gHook' = [gHook EXCEPT ![p].skip = TRUE]
  BY DEF Unhooks
<1> DEFINE left == IF kept THEN {} ELSE {"property_get"}
           h == (now \ left) \cup HookUnloader(lost)
           b == ((now \ Jni) \ left) \cup {"setstacksize"}
<1>2. /\ h \in Hooks /\ b \in SUBSET (Plt \cup {"setstacksize"})
      /\ h \subseteq b \cup (now \cap Jni)
  BY DEF Hooks, HookUnloader
<1>3. hooks' = [hooks EXCEPT ![p] = h] /\ backup' = [backup EXCEPT ![p] = b]
  BY <1>1
<1>4. gHook' = [gHook EXCEPT ![p].skip = TRUE] /\ gHook \in [Process -> GHook]
  BY <1>1 DEF TypeOK, GHook
<1>5. /\ gHook' \in [Process -> GHook]
      /\ \A q \in Process \ {p} : gHook'[q] = gHook[q]
      /\ gHook'[p].unmounted = gHook[p].unmounted /\ gHook'[p].traces = gHook[p].traces
  BY <1>4 DEF GHook
<1> HIDE DEF left, h, b
<1>6. QED
  BY <1>2, <1>3, <1>5, ZenonT(40) DEF TypeOK, Hooks

(* fork_pre makes the child a copy of zygote, or zygote its own child. *)
LEMMA ForkPreTypes ==
  ASSUME TypeOK, NEW c \in Child, NEW k \in {"app", "server"}, NEW a \in AnyApp,
         NEW flags \in Policy \cup {"none"}, NEW hook \in GHook,
         ForkPre(c, k, a, flags, hook), mounts' \in [Namespace -> SUBSET Trace]
  PROVE  TypeOK'
<1> USE Names
<1> DEFINE Pc == {"unborn", "boot", "running", "starting", "idle", "forked", "usap",
                  "born", "original", "switched", "specialized", "leaving", "left"}
<1>1. pc' \in [Process -> Pc]
  BY ZenonT(40) DEF ForkPre, TypeOK
<1>2. /\ kind' \in [Process -> {"none", "app", "usap", "server", "late"}]
      /\ app' \in [Process -> AnyApp]
      /\ info' \in [Process -> Policy \cup {"none"}]
  <2>1. \E p \in Process : /\ kind' = [kind EXCEPT ![p] = k] /\ app' = [app EXCEPT ![p] = a]
                           /\ info' = [info EXCEPT ![p] = flags]
    BY DEF ForkPre
  <2>2. QED
    BY <2>1 DEF TypeOK
<1>3. gHook \in [Process -> GHook]
  BY DEF TypeOK, GHook
<1>4. gHook' \in [Process -> GHook]
  BY <1>3 DEF ForkPre
<1>5. /\ hooks' \in [Process -> Hooks]
      /\ backup' \in [Process -> SUBSET (Plt \cup {"setstacksize"})]
      /\ mapped' \subseteq Process /\ blocked' \subseteq Process
  <2>1. /\ hooks' = [hooks EXCEPT ![c] = hooks[Zygote]] \/ hooks' = hooks
        /\ backup' = [backup EXCEPT ![c] = backup[Zygote]] \/ backup' = backup
        /\ mapped' = mapped \cup {c} \/ mapped' = mapped
        /\ blocked' = blocked \cup {Zygote, c} \/ blocked' = blocked \cup {Zygote}
    BY DEF ForkPre
  <2>2. /\ hooks \in [Process -> Hooks] /\ mapped \subseteq Process /\ blocked \subseteq Process
        /\ backup \in [Process -> SUBSET (Plt \cup {"setstacksize"})]
    BY DEF TypeOK, Hooks
  <2>3. hooks' \in [Process -> Hooks]
    BY <2>1, <2>2
  <2>4. backup' \in [Process -> SUBSET (Plt \cup {"setstacksize"})]
    BY <2>1, <2>2
  <2>5. QED
    BY <2>1, <2>2, <2>3, <2>4
<1>6. UNCHANGED <<revert, fdVars, ns, refused, cacheVars>>
  BY DEF ForkPre
<1>7. QED
  BY <1>1, <1>2, <1>4, <1>5, <1>6 DEF TypeOK, GHook, Hooks, fdVars, cacheVars

(***************************************************************************)
(* What nativeForkAndSpecialize_pre does to the traces of zygote: nothing  *)
(* and it copies g_hook as it is, or it looks for traces for the first     *)
(* time; then it records them, or removes them and records what is left.   *)
(***************************************************************************)
LEMMA ForkAndSpecializeFacts ==
  ASSUME TypeOK, NEW c \in Child, NEW a \in App, ForkAndSpecialize(c, a)
  PROVE  /\ mounts' \in [Namespace -> SUBSET Trace]
         /\ \E flags \in Policy \cup {"none"}, hook \in GHook :
              /\ ForkPre(c, "app", a, flags, hook)
              /\ \/ mounts' = mounts /\ hook.unmounted = gHook[Zygote].unmounted
                    /\ (hook.unmounted => hook = gHook[Zygote])
                 \/ /\ ~gHook[Zygote].unmounted /\ hook.unmounted
                    /\ hook.traces \subseteq mounts[ns[Zygote]]
                    /\ mounts' = [mounts EXCEPT ![ns[Zygote]] = hook.traces]
<1> USE Names
<1>1. /\ a \in AnyApp /\ a.raw \in Policy /\ gHook[Zygote] \in GHook
      /\ mounts \in [Namespace -> SUBSET Trace] /\ ns[Zygote] \in Namespace
  BY AppAssumption DEF TypeOK, GHook, AnyApp
<1>2. CASE ForkPre(c, "app", a, "none", gHook[Zygote]) /\ UNCHANGED mounts
  BY <1>1, <1>2
<1>3. ASSUME Unchecked, NEW flags \in ProcessFlags(a.raw),
             ForkPre(c, "app", a, flags, [gHook[Zygote] EXCEPT !.traces = ZygoteTraces(flags)]),
             UNCHANGED mounts
      PROVE  \E fl \in Policy \cup {"none"}, hook \in GHook :
              /\ ForkPre(c, "app", a, fl, hook)
              /\ hook.unmounted = gHook[Zygote].unmounted /\ ~hook.unmounted
  <2> DEFINE hook == [gHook[Zygote] EXCEPT !.traces = ZygoteTraces(flags)]
  <2>1. flags \in Policy \cup {"none"} /\ ZygoteTraces(flags) \in SUBSET Trace
    BY <1>1, <1>3 DEF ProcessFlags, Unreachable, ZygoteTraces
  <2>2. hook \in GHook /\ hook.unmounted = gHook[Zygote].unmounted /\ ~hook.unmounted
    BY <1>1, <1>3, <2>1 DEF GHook, Unchecked
  <2>3. QED
    BY <1>3, <2>1, <2>2
<1>4. ASSUME Unchecked, NEW flags \in ProcessFlags(a.raw),
             NEW failed \in Stuck(ZygoteTraces(flags)),
             ForkPre(c, "app", a, flags,
                     [gHook[Zygote] EXCEPT !.unmounted = TRUE, !.traces = failed]),
             mounts' = [mounts EXCEPT ![ns[Zygote]] = failed]
      PROVE  \E fl \in Policy \cup {"none"}, hook \in GHook :
              /\ ForkPre(c, "app", a, fl, hook)
              /\ ~gHook[Zygote].unmounted /\ hook.unmounted
              /\ hook.traces \subseteq mounts[ns[Zygote]]
              /\ mounts' = [mounts EXCEPT ![ns[Zygote]] = hook.traces]
  <2> DEFINE hook == [gHook[Zygote] EXCEPT !.unmounted = TRUE, !.traces = failed]
  <2>1. flags \in Policy \cup {"none"}
    BY <1>1 DEF ProcessFlags, Unreachable
  <2>2. failed \subseteq mounts[ns[Zygote]] /\ failed \in SUBSET Trace
    BY <1>1 DEF Stuck, ZygoteTraces
  <2>3. hook \in GHook /\ hook.unmounted /\ hook.traces = failed /\ ~gHook[Zygote].unmounted
    BY <1>1, <1>4, <2>2 DEF GHook, Unchecked
  <2>4. QED
    BY <1>4, <2>1, <2>2, <2>3
<1>5. \/ ForkPre(c, "app", a, "none", gHook[Zygote]) /\ UNCHANGED mounts
      \/ Unchecked /\ \E flags \in ProcessFlags(a.raw) :
           /\ ForkPre(c, "app", a, flags, [gHook[Zygote] EXCEPT !.traces = ZygoteTraces(flags)])
           /\ UNCHANGED mounts
      \/ Unchecked /\ \E flags \in ProcessFlags(a.raw) : \E failed \in Stuck(ZygoteTraces(flags)) :
           /\ ForkPre(c, "app", a, flags,
                      [gHook[Zygote] EXCEPT !.unmounted = TRUE, !.traces = failed])
           /\ mounts' = [mounts EXCEPT ![ns[Zygote]] = failed]
  BY DEF ForkAndSpecialize
<1>6. CASE Unchecked /\ \E flags \in ProcessFlags(a.raw) :
           /\ ForkPre(c, "app", a, flags, [gHook[Zygote] EXCEPT !.traces = ZygoteTraces(flags)])
           /\ UNCHANGED mounts
  <2>1. mounts' = mounts /\ mounts' \in [Namespace -> SUBSET Trace]
    BY <1>1, <1>6
  <2>2. PICK fl \in Policy \cup {"none"}, hook \in GHook :
              /\ ForkPre(c, "app", a, fl, hook)
              /\ hook.unmounted = gHook[Zygote].unmounted /\ ~hook.unmounted
    BY <1>3, <1>6
  <2>3. QED
    BY <2>1, <2>2
<1>7. CASE Unchecked /\ \E flags \in ProcessFlags(a.raw) :
                          \E failed \in Stuck(ZygoteTraces(flags)) :
           /\ ForkPre(c, "app", a, flags,
                      [gHook[Zygote] EXCEPT !.unmounted = TRUE, !.traces = failed])
           /\ mounts' = [mounts EXCEPT ![ns[Zygote]] = failed]
  <2>1. PICK fl \in Policy \cup {"none"}, hook \in GHook :
              /\ ForkPre(c, "app", a, fl, hook)
              /\ ~gHook[Zygote].unmounted /\ hook.unmounted
              /\ hook.traces \subseteq mounts[ns[Zygote]]
              /\ mounts' = [mounts EXCEPT ![ns[Zygote]] = hook.traces]
    BY <1>4, <1>7
  <2>2. mounts' \in [Namespace -> SUBSET Trace]
    BY <1>1, <2>1 DEF GHook
  <2>3. QED
    BY <2>1, <2>2
<1>8. QED
  BY <1>2, <1>5, <1>6, <1>7

(***************************************************************************)
(* run_modules_pre opens descriptors of p alone and, if it swept them,     *)
(* leaves only those that are ignored or allowed.                          *)
(***************************************************************************)
LEMMA RunModulesPreTypes ==
  ASSUME TypeOK, NEW p \in Process, NEW load \in BOOLEAN, RunModulesPre(p, load)
  PROVE  /\ fds' \in [Process -> SUBSET Fd] /\ ignored' \in [Process -> SUBSET Fd]
         /\ unswept' \subseteq Process
         /\ \A q \in Process \ {p} : /\ fds'[q] = fds[q] /\ ignored'[q] = ignored[q]
                                     /\ q \in unswept' => q \in unswept
                                     /\ q \in unswept => q \in unswept'
         /\ p \notin unswept' => fds'[p] \subseteq ignored'[p] \cup AllowedFd
<1>1. PICK opened \in SUBSET Fd, exempted \in SUBSET Fd :
        /\ exempted \subseteq opened
        /\ \/ /\ ignored' = [ignored EXCEPT ![p] = IF kind[p] = "app" THEN exempted ELSE {}]
              /\ fds' = [fds EXCEPT ![p] = (opened \cap AllowedFd) \cup ignored'[p]]
              /\ UNCHANGED unswept
           \/ /\ "array" \in Faults /\ kind[p] = "app" /\ exempted # {}
              /\ fds' = [fds EXCEPT ![p] = opened \cap AllowedFd]
              /\ UNCHANGED <<ignored, unswept>>
           \/ /\ "proc" \in Faults
              /\ ignored' = [ignored EXCEPT ![p] = IF kind[p] = "app" THEN exempted ELSE {}]
              /\ fds' = [fds EXCEPT ![p] = opened]
              /\ unswept' = unswept \cup {p}
  BY DEF RunModulesPre
<1>2. /\ fds \in [Process -> SUBSET Fd] /\ ignored \in [Process -> SUBSET Fd]
      /\ unswept \subseteq Process
  BY DEF TypeOK
<1>3. CASE /\ ignored' = [ignored EXCEPT ![p] = IF kind[p] = "app" THEN exempted ELSE {}]
           /\ fds' = [fds EXCEPT ![p] = (opened \cap AllowedFd) \cup ignored'[p]]
           /\ UNCHANGED unswept
  <2> DEFINE kept == IF kind[p] = "app" THEN exempted ELSE {}
  <2>1. ignored' = [ignored EXCEPT ![p] = kept] /\ kept \in SUBSET opened
    BY <1>1, <1>3
  <2> HIDE DEF kept
  <2>2. ignored'[p] = kept /\ ignored' \in [Process -> SUBSET Fd]
    BY <1>2, <2>1
  <2>3. (opened \cap AllowedFd) \cup kept \in SUBSET Fd
    BY <2>1
  <2>4. fds' = [fds EXCEPT ![p] = (opened \cap AllowedFd) \cup kept]
    BY <1>3, <2>2
  <2>5. QED
    BY <1>2, <1>3, <2>1, <2>2, <2>3, <2>4
<1>4. CASE /\ fds' = [fds EXCEPT ![p] = opened \cap AllowedFd]
           /\ UNCHANGED <<ignored, unswept>>
  BY <1>2, <1>4
<1>5. CASE /\ ignored' = [ignored EXCEPT ![p] = IF kind[p] = "app" THEN exempted ELSE {}]
           /\ fds' = [fds EXCEPT ![p] = opened]
           /\ unswept' = unswept \cup {p}
  BY <1>2, <1>5
<1>6. QED
  BY <1>1, <1>3, <1>4, <1>5

(* The type invariant is inductive, given who asks for the cache. *)
LEMMA TypeStep == TypeOK /\ OwnNamespace /\ ServersAsk /\ [Next]_vars => TypeOK'
<1> SUFFICES ASSUME TypeOK, OwnNamespace, ServersAsk, [Next]_vars PROVE TypeOK'
  OBVIOUS
<1> USE Names
<1>1. CASE HookEntry
  BY <1>1 DEF HookEntry, TypeOK, ctxVars, fdVars, nsVars, cacheVars
<1>2. CASE Strdup
  BY <1>2 DEF Strdup, HookJniMethods, Jni, TypeOK, ctxVars, fdVars, nsVars, cacheVars
<1>3. CASE TriggerZygoteHooks
  <2>1. PICK failed \in Failing("jni") : Unhooks(Zygote, Plt \cup HookJniMethods(failed))
    BY <1>3 DEF TriggerZygoteHooks
  <2>2. Plt \cup HookJniMethods(failed) \in Hooks
    BY DEF Hooks, HookJniMethods, Jni
  <2>3. /\ hooks' \in [Process -> Hooks] /\ gHook' \in [Process -> GHook]
        /\ backup' \in [Process -> SUBSET (Plt \cup {"setstacksize"})]
    BY <2>1, <2>2, UnhooksFacts
  <2>4. QED
    BY <1>3, <2>3 DEF TriggerZygoteHooks, Hooks, GHook, TypeOK, ctxVars, fdVars, nsVars,
       cacheVars
<1>4. CASE ForkReturns
  BY <1>4 DEF ForkReturns, ForkPost, TypeOK, ctxVars, hookVars, fdVars, nsVars, cacheVars
<1>5. ASSUME NEW c \in Child, ForkSystemServer(c) PROVE TypeOK'
  <2>1. NoApp \in AnyApp
    BY DEF NoApp, AnyApp, Policy
  <2>2. gHook[Zygote] \in GHook /\ mounts \in [Namespace -> SUBSET Trace]
    BY DEF TypeOK, GHook
  <2>3. ForkPre(c, "server", NoApp, "none", gHook[Zygote]) /\ mounts' = mounts
    BY <1>5 DEF ForkSystemServer
  <2>4. QED
    BY <2>1, <2>2, <2>3, ForkPreTypes
<1>6. ASSUME NEW c \in Child, ForkUsap(c) PROVE TypeOK'
  BY <1>6 DEF ForkUsap, TypeOK, ctxVars, fdVars, nsVars, cacheVars
<1>7. ASSUME NEW c \in Child, ForkAgain(c) PROVE TypeOK'
  <2>1. CASE UNCHANGED <<ctxVars, hookVars, fdVars, blocked>>
    BY <1>7, <2>1, ZenonT(40) DEF ForkAgain, TypeOK, ctxVars, hookVars, fdVars, nsVars, cacheVars
  <2>2. CASE ~UNCHANGED <<ctxVars, hookVars, fdVars, blocked>>
    <3>1. /\ pc' = [pc EXCEPT ![Zygote] = "specialized", ![c] = "original"]
          /\ kind' = [kind EXCEPT ![c] = kind[Zygote]] /\ app' = [app EXCEPT ![c] = app[Zygote]]
          /\ info' = [info EXCEPT ![c] = info[Zygote]]
          /\ revert' = IF Zygote \in revert THEN revert \cup {c} ELSE revert
          /\ gHook' = [gHook EXCEPT ![c] = gHook[Zygote]]
          /\ hooks' = [hooks EXCEPT ![c] = hooks[Zygote]]
          /\ backup' = [backup EXCEPT ![c] = backup[Zygote]]
          /\ mapped' = mapped \cup {c} /\ blocked' = blocked \cup {c}
          /\ fds' = [fds EXCEPT ![c] = fds[Zygote]]
          /\ ignored' = [ignored EXCEPT ![c] = ignored[Zygote]]
          /\ unswept' = IF Zygote \in unswept THEN unswept \cup {c} ELSE unswept
          /\ UNCHANGED <<ns, mounts, refused, cache, requests, caching, deployed>>
      BY <1>7, <2>2 DEF ForkAgain, nsVars, cacheVars
    <3>2. QED
      BY <3>1 DEF TypeOK
  <2>3. QED
    BY <2>1, <2>2
<1>8. ASSUME NEW c \in Child, NEW a \in App, ForkAndSpecialize(c, a) PROVE TypeOK'
  <2>1. a \in AnyApp /\ gHook[Zygote] \in GHook /\ mounts \in [Namespace -> SUBSET Trace]
    BY AppAssumption DEF TypeOK, GHook
  <2>2. PICK flags \in Policy \cup {"none"}, hook \in GHook :
          ForkPre(c, "app", a, flags, hook)
    BY <1>8, ForkAndSpecializeFacts
  <2>3. mounts' \in [Namespace -> SUBSET Trace]
    BY <1>8, ForkAndSpecializeFacts
  <2>4. QED
    BY <2>1, <2>2, <2>3, ForkPreTypes
<1>9. CASE SaveRoot
  BY <1>9 DEF SaveRoot, TypeOK, OwnNamespace, ServersAsk, ctxVars, hookVars, fdVars,
     nsVars
<1>10. ASSUME NEW p \in Process, SaveClean(p) PROVE TypeOK'
  <2>1. mounts[ns[p]] \in SUBSET Trace /\ mounts \in [Namespace -> SUBSET Trace]
    BY DEF TypeOK
  <2>2. \/ mounts' = mounts
        \/ \E left \in Stuck(mounts[ns[p]]) : mounts' = [mounts EXCEPT !["clean"] = left]
    BY <1>10 DEF SaveClean, CleanNamespace
  <2>3. mounts' \in [Namespace -> SUBSET Trace]
    BY <2>1, <2>2 DEF Stuck
  <2>4. cache' = cache \/ cache' = [cache EXCEPT !.Clean = "clean"]
    BY <1>10 DEF SaveClean, CleanNamespace
  <2>5. cache' \in [Clean : {"none", "clean"}, Root : Process \cup {"old", "none"}]
    BY <2>4 DEF TypeOK
  <2>6. requests' \subseteq Process /\ caching' \in Process \cup {"none"}
    BY <1>10 DEF SaveClean, TypeOK
  <2>7. UNCHANGED <<pc, ctxVars, hookVars, fdVars, blocked, ns, refused, deployed>>
    BY <1>10 DEF SaveClean
  <2>8. QED
    BY <2>3, <2>5, <2>6, <2>7 DEF TypeOK, ctxVars, hookVars, fdVars
<1>11. ASSUME NEW p \in Process, EntryRefused(p) PROVE TypeOK'
  BY <1>11 DEF EntryRefused, TypeOK, ctxVars, fdVars, nsVars, cacheVars
<1>12. ASSUME NEW p \in Process, PropertyGet(p) PROVE TypeOK'
  <2>1. Unhooks(p, hooks[p]) /\ hooks[p] \in Hooks
    BY <1>12 DEF PropertyGet, TypeOK, Hooks
  <2>2. /\ hooks' \in [Process -> Hooks] /\ gHook' \in [Process -> GHook]
        /\ backup' \in [Process -> SUBSET (Plt \cup {"setstacksize"})]
    BY <2>1, UnhooksFacts
  <2>3. QED
    BY <1>12, <2>2 DEF PropertyGet, Hooks, GHook, TypeOK, ctxVars, fdVars, nsVars,
       cacheVars
<1>13. ASSUME NEW p \in Process, AppPre(p) PROVE TypeOK'
  <2>1. PICK flags \in Policy \cup {"none"}, load \in BOOLEAN, force \in BOOLEAN :
          AppSpecializePre(p, app[p], flags, load, force) /\ RunModulesPre(p, load)
    BY <1>13 DEF AppPre
  <2>2. /\ fds' \in [Process -> SUBSET Fd] /\ ignored' \in [Process -> SUBSET Fd]
        /\ unswept' \subseteq Process
    BY <2>1, RunModulesPreTypes
  <2>3. info' = [info EXCEPT ![p] = flags] /\ (revert' = revert \/ revert' = revert \cup {p})
    BY <2>1 DEF AppSpecializePre
  <2>4. /\ pc' = [pc EXCEPT ![p] = "original"]
        /\ UNCHANGED <<kind, app, hookVars, blocked, nsVars, cacheVars>>
    BY <1>13 DEF AppPre
  <2>5. QED
    BY <2>2, <2>3, <2>4 DEF TypeOK, hookVars, nsVars, cacheVars
<1>14. ASSUME NEW p \in Process, ServerPre(p) PROVE TypeOK'
  <2>1. PICK load \in ReadModules : RunModulesPre(p, load)
    BY <1>14 DEF ServerPre
  <2>2. load \in BOOLEAN
    BY DEF ReadModules
  <2>3. /\ fds' \in [Process -> SUBSET Fd] /\ ignored' \in [Process -> SUBSET Fd]
        /\ unswept' \subseteq Process
    BY <2>1, <2>2, RunModulesPreTypes
  <2>4. QED
    BY <1>14, <2>3 DEF ServerPre, AskToCache, TypeOK, ctxVars, hookVars, nsVars
<1>15. ASSUME NEW p \in Process, NEW a \in App, SpecializeAppProcess(p, a) PROVE TypeOK'
  BY <1>15, AppAssumption DEF SpecializeAppProcess, AppSpecializePre, RunModulesUnchecked,
     TypeOK, hookVars, nsVars, cacheVars
<1>16. ASSUME NEW p \in Process, UpdateMountNamespace(p) PROVE TypeOK'
  BY <1>16, SMTT(20) DEF UpdateMountNamespace, WantedNamespace, TypeOK, Namespace, ctxVars,
     hookVars, fdVars, cacheVars
<1>17. ASSUME NEW p \in Process, Unshare(p) PROVE TypeOK'
  BY <1>17 DEF Unshare, TypeOK, ctxVars, hookVars, fdVars, cacheVars
<1>18. ASSUME NEW p \in Process, SpecializePost(p) PROVE TypeOK'
  <2>1. hooks' \in [Process -> SUBSET (Plt \cup Jni \cup {"setstacksize"})]
    <3>1. PICK failed \in Failing("unregister") :
            hooks' = [hooks EXCEPT ![p] = (@ \ {"jni"})
                                          \cup IF failed /\ "jni" \in @ THEN {"stuck"} ELSE {}]
      BY <1>18 DEF SpecializePost, DestroysContext
    <3>2. hooks[p] \in SUBSET (Plt \cup Jni \cup {"setstacksize"}) /\ "stuck" \in Jni
      BY DEF TypeOK, Jni
    <3>3. QED
      BY <3>1, <3>2 DEF TypeOK
  <2>2. /\ blocked' \subseteq Process /\ pc' = [pc EXCEPT ![p] = "leaving"]
        /\ UNCHANGED <<ctxVars, gHook, backup, mapped, fdVars, nsVars, cacheVars>>
    BY <1>18 DEF SpecializePost, ForkPost, TypeOK
  <2>3. QED
    BY <2>1, <2>2 DEF TypeOK, ctxVars, fdVars, nsVars, cacheVars
<1>19. ASSUME NEW p \in Process, Unload(p) PROVE TypeOK'
  BY <1>19 DEF Unload, RestorePltHook, TypeOK, ctxVars, fdVars, nsVars, cacheVars
<1>20. ASSUME NEW p \in Process, LateServer(p) PROVE TypeOK'
  <2>1. /\ fds' \in [Process -> SUBSET Fd] /\ UNCHANGED <<ignored, unswept>>
        /\ requests' \subseteq Process /\ UNCHANGED <<cache, caching, deployed>>
    <3>1. CASE /\ \E load \in ReadModules : RunModulesUnchecked(p, load)
               /\ AskToCache(p)
      <4>1. PICK load \in ReadModules : RunModulesUnchecked(p, load)
        BY <3>1
      <4>2. fds' \in [Process -> SUBSET Fd] /\ UNCHANGED <<ignored, unswept>>
        <5>1. PICK s \in SUBSET Fd : fds' = [fds EXCEPT ![p] = s]
          BY <4>1 DEF RunModulesUnchecked
        <5>2. QED
          BY <4>1, <5>1 DEF RunModulesUnchecked, TypeOK
      <4>3. requests' \subseteq Process /\ UNCHANGED <<cache, caching, deployed>>
        BY <3>1 DEF AskToCache, TypeOK
      <4>4. QED
        BY <4>2, <4>3
    <3>2. CASE UNCHANGED <<fdVars, cacheVars>>
      BY <3>2 DEF fdVars, cacheVars, TypeOK
    <3>3. QED
      BY <1>20, <3>1, <3>2 DEF LateServer
  <2>2. /\ mapped' = mapped \cup {p} /\ pc' = [pc EXCEPT ![p] = "left"]
        /\ UNCHANGED <<ctxVars, gHook, hooks, backup, blocked, nsVars>>
    BY <1>20 DEF LateServer
  <2>3. QED
    BY <2>1, <2>2 DEF TypeOK, ctxVars, nsVars
<1>21. CASE UNCHANGED vars
  BY <1>21 DEF vars, TypeOK, ctxVars, hookVars, fdVars, nsVars, cacheVars
<1>22. QED
  BY <1>1, <1>2, <1>3, <1>4, <1>5, <1>6, <1>7, <1>8, <1>9, <1>10, <1>11, <1>12, <1>13,
     <1>14,
     <1>15, <1>16, <1>17, <1>18, <1>19, <1>20, <1>21
     DEF Next, ZygoteSteps, DaemonSteps, ProcessSteps

-----------------------------------------------------------------------------
(***************************************************************************)
(* What fork_pre does, in one form: p is the child, or zygote itself if it *)
(* could not fork.  Nobody else is touched.                                *)
(***************************************************************************)
ForkedAs(p, c, k, flags, hook) ==
  /\ p \in {Zygote, c} /\ pc[p] \in {"idle", "unborn"}
  /\ pc[Zygote] = "idle" /\ pc[c] = "unborn"
  /\ pc'[p] = "born" /\ pc'[Zygote] \in {"forked", "born"}
  /\ \A q \in Process \ {p, Zygote} : pc'[q] = pc[q] /\ gHook'[q] = gHook[q]
  /\ kind'[p] = k /\ info'[p] = flags
  /\ \A q \in Process \ {p} : kind'[q] = kind[q] /\ info'[q] = info[q]
  /\ gHook'[p] = hook /\ gHook'[Zygote] = hook
  /\ hooks'[p] = hooks[Zygote] /\ backup'[p] = backup[Zygote]
  /\ \A q \in Process \ {p} : hooks'[q] = hooks[q] /\ backup'[q] = backup[q]
  /\ mapped' \in {mapped, mapped \cup {p}} /\ (p # Zygote => p \in mapped')
  /\ blocked' = blocked \cup {Zygote, p}
  /\ UNCHANGED <<revert, fds, ignored, unswept, ns, refused>>
  /\ UNCHANGED <<cache, requests, caching, deployed>>

LEMMA ForkPreFacts ==
  ASSUME TypeOK, NEW c \in Child, NEW k, NEW a, NEW flags, NEW hook,
         CanFork(c), ForkPre(c, k, a, flags, hook)
  PROVE  \E p \in Process : ForkedAs(p, c, k, flags, hook)
<1> USE Names
<1>1. CASE /\ pc' = [pc EXCEPT ![Zygote] = "forked", ![c] = "born"]
           /\ kind' = [kind EXCEPT ![c] = k]
           /\ info' = [info EXCEPT ![c] = flags]
           /\ blocked' = blocked \cup {Zygote, c}
           /\ gHook' = [gHook EXCEPT ![Zygote] = hook, ![c] = hook]
           /\ hooks' = [hooks EXCEPT ![c] = hooks[Zygote]]
           /\ backup' = [backup EXCEPT ![c] = backup[Zygote]]
           /\ mapped' = mapped \cup {c}
           /\ UNCHANGED <<revert, fdVars, ns, refused, cacheVars>>
  <2>1. pc[Zygote] = "idle" /\ pc[c] = "unborn" /\ c \in Process /\ c # Zygote
    BY DEF CanFork
  <2>2. ForkedAs(c, c, k, flags, hook)
    BY <1>1, <2>1 DEF ForkedAs, TypeOK, fdVars, cacheVars
  <2>3. QED
    BY <2>1, <2>2
<1>2. CASE /\ pc' = [pc EXCEPT ![Zygote] = "born"]
           /\ kind' = [kind EXCEPT ![Zygote] = k]
           /\ info' = [info EXCEPT ![Zygote] = flags]
           /\ blocked' = blocked \cup {Zygote}
           /\ gHook' = [gHook EXCEPT ![Zygote] = hook]
           /\ UNCHANGED <<hooks, backup, mapped>>
           /\ UNCHANGED <<revert, fdVars, ns, refused, cacheVars>>
  <2>1. pc[Zygote] = "idle" /\ pc[c] = "unborn"
    BY DEF CanFork
  <2>2. ForkedAs(Zygote, c, k, flags, hook)
    BY <1>2, <2>1 DEF ForkedAs, TypeOK, fdVars, cacheVars
  <2>3. QED
    BY <2>2
<1>3. QED
  BY <1>1, <1>2 DEF ForkPre

(* Both methods that fork, in terms of ForkedAs. *)
LEMMA ForkAppFacts ==
  ASSUME TypeOK, NEW c \in Child, NEW a \in App, ForkAndSpecialize(c, a)
  PROVE  \E p \in Process, flags \in Policy \cup {"none"}, hook \in GHook :
           /\ ForkedAs(p, c, "app", flags, hook)
           /\ \/ mounts' = mounts /\ hook.unmounted = gHook[Zygote].unmounted
                 /\ (hook.unmounted => hook = gHook[Zygote])
              \/ /\ ~gHook[Zygote].unmounted /\ hook.unmounted
                 /\ hook.traces \subseteq mounts[ns[Zygote]]
                 /\ mounts' = [mounts EXCEPT ![ns[Zygote]] = hook.traces]
<1>1. CanFork(c)
  BY DEF ForkAndSpecialize
<1>2. QED
  BY <1>1, ForkAndSpecializeFacts, ForkPreFacts

LEMMA ForkServerFacts ==
  ASSUME TypeOK, NEW c \in Child, ForkSystemServer(c)
  PROVE  /\ mounts' = mounts
         /\ \E p \in Process : ForkedAs(p, c, "server", "none", gHook[Zygote])
BY ForkPreFacts DEF ForkSystemServer

(* The original method's own fork in a zygote that could not: c is a copy. *)
ForkedAgain(c) ==
  /\ pc' = [pc EXCEPT ![Zygote] = "specialized", ![c] = "original"]
  /\ kind' = [kind EXCEPT ![c] = kind[Zygote]]
  /\ info' = [info EXCEPT ![c] = info[Zygote]]
  /\ revert' \in {revert, revert \cup {c}}
  /\ gHook' = [gHook EXCEPT ![c] = gHook[Zygote]]
  /\ hooks' = [hooks EXCEPT ![c] = hooks[Zygote]]
  /\ backup' = [backup EXCEPT ![c] = backup[Zygote]]
  /\ mapped' = mapped \cup {c} /\ blocked' = blocked \cup {c}
  /\ fds' = [fds EXCEPT ![c] = fds[Zygote]]
  /\ ignored' = [ignored EXCEPT ![c] = ignored[Zygote]]
  /\ unswept' = IF Zygote \in unswept THEN unswept \cup {c} ELSE unswept

LEMMA ForkAgainFacts ==
  ASSUME TypeOK, NEW c \in Child, ForkAgain(c)
  PROVE  /\ pc[Zygote] = "original" /\ pc[c] = "unborn"
         /\ \/ ForkedAgain(c)
            \/ /\ pc' = [pc EXCEPT ![Zygote] = "specialized"]
               /\ UNCHANGED <<kind, info, revert, gHook, hooks, backup, mapped, blocked>>
               /\ UNCHANGED <<fds, ignored, unswept>>
         /\ UNCHANGED <<ns, mounts, refused, cache, requests, caching, deployed>>
BY DEF ForkAgain, ForkedAgain, ctxVars, hookVars, fdVars, nsVars, cacheVars

(* A fork leaves everybody in the namespace they are in. *)
LEMMA HomeFork ==
  ASSUME TypeOK, HomeInv, NEW p \in Process, NEW c \in Child, NEW k, NEW flags, NEW hook,
         ForkedAs(p, c, k, flags, hook)
  PROVE  HomeInv'
<1> USE Names
<1>1. /\ pc[p] \in {"idle", "unborn"} /\ p \in {Zygote, c} /\ pc[c] = "unborn" /\ ns' = ns
      /\ \A q \in Process \ {p} : kind'[q] = kind[q]
      /\ \A q \in Process \ {p, Zygote} : pc'[q] = pc[q]
      /\ pc'[p] = "born" /\ pc'[Zygote] \in {"forked", "born"} /\ pc[Zygote] = "idle"
      /\ cache' = cache /\ requests' = requests /\ caching' = caching
  BY DEF ForkedAs
<1> DEFINE asks(q) == q \in requests \/ q = caching
<1>2. ns[p] = Zygote /\ ns[Zygote] = Zygote
  BY <1>1 DEF HomeInv, AtHome
<1>3. AtHome'
  BY <1>1, <1>2 DEF HomeInv, AtHome
<1>4. ZygoteStays'
  BY <1>1 DEF ZygoteStays
<1>5. OwnNamespace'
  BY <1>1, <1>2 DEF HomeInv, OwnNamespace
<1>6. UnsharedOnce'
  BY <1>1, <1>2 DEF HomeInv, UnsharedOnce
<1>7. ServersAsk'
  <2>1. ASSUME NEW q \in Process, asks(q)
        PROVE  q # p /\ q # Zygote /\ kind[q] \in {"server", "late"}
               /\ pc[q] \in {"original", "specialized", "leaving", "left"}
    BY <1>1, <2>1 DEF HomeInv, ServersAsk
  <2>2. QED
    BY <1>1, <2>1 DEF ServersAsk
<1>8. RootIsSettled'
  BY <1>1 DEF HomeInv, RootIsSettled
<1>9. NotYetCalled'
  BY <1>1 DEF HomeInv, NotYetCalled
<1>10. QED
  BY <1>3, <1>4, <1>5, <1>6, <1>7, <1>8, <1>9 DEF HomeInv

LEMMA HomeStep == TypeOK /\ HomeInv /\ [Next]_vars => HomeInv'
<1> SUFFICES ASSUME TypeOK, HomeInv, [Next]_vars PROVE HomeInv'
  OBVIOUS
<1> USE Names DEF TypeOK, HomeInv, AtHome, ZygoteStays, OwnNamespace, UnsharedOnce,
             ServersAsk, NotYetCalled, RootIsSettled
<1>1. CASE HookEntry
  BY <1>1 DEF HookEntry, ctxVars, nsVars, cacheVars
<1>2. CASE Strdup
  BY <1>2 DEF Strdup, ctxVars, nsVars, cacheVars
<1>3. CASE TriggerZygoteHooks
  BY <1>3 DEF TriggerZygoteHooks, ctxVars, nsVars, cacheVars
<1>4. CASE ForkReturns
  BY <1>4 DEF ForkReturns, ctxVars, nsVars, cacheVars
<1>5. ASSUME NEW c \in Child, ForkSystemServer(c) PROVE HomeInv'
  <2>1. PICK q \in Process : ForkedAs(q, c, "server", "none", gHook[Zygote])
    BY <1>5, ForkServerFacts
  <2>2. QED
    BY <2>1, HomeFork
<1>6. ASSUME NEW c \in Child, ForkUsap(c) PROVE HomeInv'
  BY <1>6 DEF ForkUsap, CanFork, ctxVars, nsVars, cacheVars
<1>7. ASSUME NEW c \in Child, ForkAgain(c) PROVE HomeInv'
  <2>1. /\ pc[Zygote] = "original" /\ pc[c] = "unborn"
        /\ UNCHANGED <<ns, cache, requests, caching>>
    BY <1>7, ForkAgainFacts
  <2>2. CASE ForkedAgain(c)
    BY <2>1, <2>2 DEF ForkedAgain
  <2>3. CASE pc' = [pc EXCEPT ![Zygote] = "specialized"] /\ kind' = kind
    BY <2>1, <2>3
  <2>4. QED
    BY <1>7, <2>2, <2>3, ForkAgainFacts
<1>8. ASSUME NEW c \in Child, NEW a \in App, ForkAndSpecialize(c, a) PROVE HomeInv'
  <2>1. PICK q \in Process, flags \in Policy \cup {"none"}, hook \in GHook :
               ForkedAs(q, c, "app", flags, hook)
    BY <1>8, ForkAppFacts
  <2>2. QED
    BY <2>1, HomeFork
<1>9. CASE SaveRoot
  BY <1>9 DEF SaveRoot, ctxVars, nsVars
<1>10. ASSUME NEW p \in Process, SaveClean(p) PROVE HomeInv'
  BY <1>10, SMTT(20) DEF SaveClean, CleanNamespace, ctxVars
<1>11. ASSUME NEW p \in Process, EntryRefused(p) PROVE HomeInv'
  BY <1>11 DEF EntryRefused, ctxVars, nsVars, cacheVars
<1>12. ASSUME NEW p \in Process, PropertyGet(p) PROVE HomeInv'
  BY <1>12 DEF PropertyGet, ctxVars, nsVars, cacheVars
<1>13. ASSUME NEW p \in Process, AppPre(p) PROVE HomeInv'
  BY <1>13 DEF AppPre, nsVars, cacheVars
<1>14. ASSUME NEW p \in Process, ServerPre(p) PROVE HomeInv'
  BY <1>14 DEF ServerPre, AskToCache, ctxVars, nsVars
<1>15. ASSUME NEW p \in Process, NEW a \in App, SpecializeAppProcess(p, a) PROVE HomeInv'
  BY <1>15 DEF SpecializeAppProcess, nsVars, cacheVars
<1>16. ASSUME NEW p \in Process, UpdateMountNamespace(p) PROVE HomeInv'
  <2>1. /\ pc[p] = "original" /\ kind[p] \in {"app", "usap"} /\ p # Zygote
        /\ pc' = [pc EXCEPT ![p] = "switched"] /\ UNCHANGED <<kind, cache, requests, caching>>
    BY <1>16 DEF UpdateMountNamespace, ctxVars, cacheVars
  <2>2. ns' = ns \/ ns' = [ns EXCEPT ![p] = cache.Root] \/ ns' = [ns EXCEPT ![p] = cache.Clean]
    BY <1>16 DEF UpdateMountNamespace, WantedNamespace
  <2>3. ns[p] = Zygote /\ cache.Root # p /\ cache.Clean # p /\ ns \in [Process -> Namespace]
    BY <2>1 DEF Process
  <2>4. \A q \in Process : (q # p => ns'[q] = ns[q]) /\ (q = p => ns'[p] # p)
    BY <2>1, <2>2, <2>3
  <2>5. AtHome' /\ ZygoteStays' /\ OwnNamespace' /\ UnsharedOnce' /\ RootIsSettled'
    BY <2>1, <2>4
  <2>6. ServersAsk' /\ NotYetCalled'
    BY <2>1
  <2>7. QED
    BY <2>5, <2>6
<1>17. ASSUME NEW p \in Process, Unshare(p) PROVE HomeInv'
  BY <1>17 DEF Unshare, ctxVars, cacheVars
<1>18. ASSUME NEW p \in Process, SpecializePost(p) PROVE HomeInv'
  BY <1>18 DEF SpecializePost, ctxVars, nsVars, cacheVars
<1>19. ASSUME NEW p \in Process, Unload(p) PROVE HomeInv'
  BY <1>19 DEF Unload, ctxVars, nsVars, cacheVars
<1>20. ASSUME NEW p \in Process, LateServer(p) PROVE HomeInv'
  BY <1>20 DEF LateServer, AskToCache, ctxVars, nsVars, cacheVars
<1>21. CASE UNCHANGED vars
  BY <1>21 DEF vars, ctxVars, hookVars, fdVars, nsVars, cacheVars
<1>22. QED
  BY <1>1, <1>2, <1>3, <1>4, <1>5, <1>6, <1>7, <1>8, <1>9, <1>10, <1>11, <1>12, <1>13,
     <1>14, <1>15, <1>16, <1>17, <1>18, <1>19, <1>20, <1>21 DEF Next, ZygoteSteps,
     DaemonSteps, ProcessSteps

-----------------------------------------------------------------------------
(***************************************************************************)
(* The signal mask, the descriptors and the hooks.                         *)
(***************************************************************************)
LEMMA BlockedStep == TypeOK /\ SigchldIsUnblocked /\ [Next]_vars => SigchldIsUnblocked'
<1> SUFFICES ASSUME TypeOK, SigchldIsUnblocked, [Next]_vars PROVE SigchldIsUnblocked'
  OBVIOUS
<1> USE Names DEF TypeOK, SigchldIsUnblocked
<1>1. CASE HookEntry
  BY <1>1 DEF HookEntry
<1>2. CASE Strdup
  BY <1>2 DEF Strdup
<1>3. CASE TriggerZygoteHooks
  BY <1>3 DEF TriggerZygoteHooks
<1>4. CASE ForkReturns
  BY <1>4 DEF ForkReturns, ForkPost
<1>5. ASSUME NEW c \in Child, ForkSystemServer(c) PROVE SigchldIsUnblocked'
  <2>1. PICK q \in Process : ForkedAs(q, c, "server", "none", gHook[Zygote])
    BY <1>5, ForkServerFacts
  <2>2. QED
    BY <2>1 DEF ForkedAs
<1>6. ASSUME NEW c \in Child, ForkUsap(c) PROVE SigchldIsUnblocked'
  BY <1>6 DEF ForkUsap, CanFork
<1>7. ASSUME NEW c \in Child, ForkAgain(c) PROVE SigchldIsUnblocked'
  <2>1. CASE ForkedAgain(c)
    BY <1>7, <2>1, ForkAgainFacts DEF ForkedAgain
  <2>2. CASE pc' = [pc EXCEPT ![Zygote] = "specialized"] /\ UNCHANGED <<blocked>>
    BY <1>7, <2>2, ForkAgainFacts
  <2>3. QED
    BY <1>7, <2>1, <2>2, ForkAgainFacts
<1>8. ASSUME NEW c \in Child, NEW a \in App, ForkAndSpecialize(c, a) PROVE SigchldIsUnblocked'
  <2>1. PICK q \in Process, flags \in Policy \cup {"none"}, hook \in GHook :
               ForkedAs(q, c, "app", flags, hook)
    BY <1>8, ForkAppFacts
  <2>2. QED
    BY <2>1 DEF ForkedAs
<1>9. CASE SaveRoot
  BY <1>9 DEF SaveRoot
<1>10. ASSUME NEW p \in Process, SaveClean(p) PROVE SigchldIsUnblocked'
  BY <1>10 DEF SaveClean
<1>11. ASSUME NEW p \in Process, EntryRefused(p) PROVE SigchldIsUnblocked'
  BY <1>11 DEF EntryRefused
<1>12. ASSUME NEW p \in Process, PropertyGet(p) PROVE SigchldIsUnblocked'
  BY <1>12 DEF PropertyGet
<1>13. ASSUME NEW p \in Process, AppPre(p) PROVE SigchldIsUnblocked'
  BY <1>13 DEF AppPre
<1>14. ASSUME NEW p \in Process, ServerPre(p) PROVE SigchldIsUnblocked'
  BY <1>14 DEF ServerPre
<1>15. ASSUME NEW p \in Process, NEW a \in App, SpecializeAppProcess(p, a)
       PROVE  SigchldIsUnblocked'
  BY <1>15 DEF SpecializeAppProcess
<1>16. ASSUME NEW p \in Process, UpdateMountNamespace(p) PROVE SigchldIsUnblocked'
  BY <1>16 DEF UpdateMountNamespace
<1>17. ASSUME NEW p \in Process, Unshare(p) PROVE SigchldIsUnblocked'
  BY <1>17 DEF Unshare
<1>18. ASSUME NEW p \in Process, SpecializePost(p) PROVE SigchldIsUnblocked'
  BY <1>18 DEF SpecializePost, ForkPost
<1>19. ASSUME NEW p \in Process, Unload(p) PROVE SigchldIsUnblocked'
  BY <1>19 DEF Unload
<1>20. ASSUME NEW p \in Process, LateServer(p) PROVE SigchldIsUnblocked'
  BY <1>20 DEF LateServer
<1>21. CASE UNCHANGED vars
  BY <1>21 DEF vars, ctxVars, hookVars, fdVars, nsVars, cacheVars
<1>22. QED
  BY <1>1, <1>2, <1>3, <1>4, <1>5, <1>6, <1>7, <1>8, <1>9, <1>10, <1>11, <1>12, <1>13,
     <1>14, <1>15, <1>16, <1>17, <1>18, <1>19, <1>20, <1>21 DEF Next, ZygoteSteps,
     DaemonSteps, ProcessSteps

LEMMA FdStep == TypeOK /\ SweptFds /\ [Next]_vars => SweptFds'
<1> SUFFICES ASSUME TypeOK, SweptFds, [Next]_vars PROVE SweptFds'
  OBVIOUS
<1> USE Names DEF TypeOK, SweptFds
<1>1. CASE HookEntry
  BY <1>1 DEF HookEntry, ctxVars, fdVars
<1>2. CASE Strdup
  BY <1>2 DEF Strdup, ctxVars, fdVars
<1>3. CASE TriggerZygoteHooks
  BY <1>3 DEF TriggerZygoteHooks, ctxVars, fdVars
<1>4. CASE ForkReturns
  BY <1>4 DEF ForkReturns, ctxVars, fdVars
<1>5. ASSUME NEW c \in Child, ForkSystemServer(c) PROVE SweptFds'
  <2>1. PICK q \in Process : ForkedAs(q, c, "server", "none", gHook[Zygote])
    BY <1>5, ForkServerFacts
  <2>2. QED
    BY <2>1 DEF ForkedAs
<1>6. ASSUME NEW c \in Child, ForkUsap(c) PROVE SweptFds'
  BY <1>6 DEF ForkUsap, CanFork, ctxVars, fdVars
<1>7. ASSUME NEW c \in Child, ForkAgain(c) PROVE SweptFds'
  <2>1. CASE ForkedAgain(c)
    <3>1. pc[Zygote] = "original"
      BY <1>7, ForkAgainFacts
    <3>2. /\ \A q \in Process \ {c} : /\ kind'[q] = kind[q] /\ fds'[q] = fds[q]
                                       /\ ignored'[q] = ignored[q]
          /\ \A q \in Process \ {c, Zygote} : pc'[q] = pc[q]
          /\ pc'[Zygote] = "specialized"
          /\ kind'[c] = kind[Zygote] /\ fds'[c] = fds[Zygote] /\ ignored'[c] = ignored[Zygote]
          /\ unswept \subseteq unswept' /\ (c \notin unswept' => Zygote \notin unswept)
      BY <2>1 DEF ForkedAgain
    <3>3. QED
      BY <3>1, <3>2
  <2>2. CASE /\ pc' = [pc EXCEPT ![Zygote] = "specialized"]
             /\ UNCHANGED <<kind, fds, ignored, unswept>>
    BY <1>7, <2>2, ForkAgainFacts
  <2>3. QED
    BY <1>7, <2>1, <2>2, ForkAgainFacts
<1>8. ASSUME NEW c \in Child, NEW a \in App, ForkAndSpecialize(c, a) PROVE SweptFds'
  <2>1. PICK q \in Process, flags \in Policy \cup {"none"}, hook \in GHook :
               ForkedAs(q, c, "app", flags, hook)
    BY <1>8, ForkAppFacts
  <2>2. QED
    BY <2>1 DEF ForkedAs
<1>9. CASE SaveRoot
  BY <1>9 DEF SaveRoot, ctxVars, fdVars
<1>10. ASSUME NEW p \in Process, SaveClean(p) PROVE SweptFds'
  BY <1>10 DEF SaveClean, ctxVars, fdVars
<1>11. ASSUME NEW p \in Process, EntryRefused(p) PROVE SweptFds'
  BY <1>11 DEF EntryRefused, ctxVars, fdVars
<1>12. ASSUME NEW p \in Process, PropertyGet(p) PROVE SweptFds'
  BY <1>12 DEF PropertyGet, ctxVars, fdVars
<1>13. ASSUME NEW p \in Process, AppPre(p) PROVE SweptFds'
  <2>1. PICK load \in BOOLEAN : RunModulesPre(p, load)
    BY <1>13 DEF AppPre
  <2>2. pc' = [pc EXCEPT ![p] = "original"] /\ kind' = kind
    BY <1>13 DEF AppPre
  <2>3. QED
    BY <2>1, <2>2, RunModulesPreTypes
<1>14. ASSUME NEW p \in Process, ServerPre(p) PROVE SweptFds'
  <2>1. PICK load \in BOOLEAN : RunModulesPre(p, load)
    BY <1>14 DEF ServerPre, ReadModules
  <2>2. pc' = [pc EXCEPT ![p] = "original"] /\ kind' = kind
    BY <1>14 DEF ServerPre, ctxVars
  <2>3. QED
    BY <2>1, <2>2, RunModulesPreTypes
<1>15. ASSUME NEW p \in Process, NEW a \in App, SpecializeAppProcess(p, a) PROVE SweptFds'
  BY <1>15 DEF SpecializeAppProcess, RunModulesUnchecked
<1>16. ASSUME NEW p \in Process, UpdateMountNamespace(p) PROVE SweptFds'
  BY <1>16 DEF UpdateMountNamespace, ctxVars, fdVars
<1>17. ASSUME NEW p \in Process, Unshare(p) PROVE SweptFds'
  BY <1>17 DEF Unshare, ctxVars, fdVars
<1>18. ASSUME NEW p \in Process, SpecializePost(p) PROVE SweptFds'
  BY <1>18 DEF SpecializePost, ctxVars, fdVars
<1>19. ASSUME NEW p \in Process, Unload(p) PROVE SweptFds'
  BY <1>19 DEF Unload, ctxVars, fdVars
<1>20. ASSUME NEW p \in Process, LateServer(p) PROVE SweptFds'
  BY <1>20 DEF LateServer, RunModulesUnchecked, ctxVars, fdVars
<1>21. CASE UNCHANGED vars
  BY <1>21 DEF vars, ctxVars, hookVars, fdVars, nsVars, cacheVars
<1>22. QED
  BY <1>1, <1>2, <1>3, <1>4, <1>5, <1>6, <1>7, <1>8, <1>9, <1>10, <1>11, <1>12, <1>13,
     <1>14, <1>15, <1>16, <1>17, <1>18, <1>19, <1>20, <1>21 DEF Next, ZygoteSteps,
     DaemonSteps, ProcessSteps

(* A fork copies the hooks of zygote, which is past its start and has not left. *)
LEMMA HookCopied ==
  ASSUME TypeOK, HookInv, NEW p \in Process,
         pc[Zygote] \in {"idle", "original"},
         hooks'[p] = hooks[Zygote], backup'[p] = backup[Zygote],
         pc'[p] \in {"usap", "born", "original"},
         pc'[Zygote] \in {"idle", "forked", "born", "specialized"},
         \A q \in Process \ {p} : hooks'[q] = hooks[q] /\ backup'[q] = backup[q],
         \A q \in Process \ {p, Zygote} : pc'[q] = pc[q],
         mapped' \in {mapped, mapped \cup {p}}, p # Zygote => p \in mapped'
  PROVE  HookInv'
<1> USE Names DEF HookInv
<1>1. BackedUp'
  BY DEF BackedUp
<1>2. JniRestored'
  BY DEF JniRestored
<1>3. NotYetHooked'
  BY DEF NotYetHooked
<1>4. UnmappedIsUnhooked'
  BY DEF UnmappedIsUnhooked
<1>5. QED
  BY <1>1, <1>2, <1>3, <1>4

LEMMA HookStep == TypeOK /\ HookInv /\ [Next]_vars => HookInv'
<1> SUFFICES ASSUME TypeOK, HookInv, [Next]_vars PROVE HookInv'
  OBVIOUS
<1> USE Names DEF TypeOK, HookInv, BackedUp, JniRestored, NotYetHooked, UnmappedIsUnhooked
<1>1. CASE HookEntry
  BY <1>1 DEF HookEntry
<1>2. CASE Strdup
  BY <1>2 DEF Strdup, HookJniMethods, Jni
<1>3. CASE TriggerZygoteHooks
  <2>1. PICK failed \in Failing("jni") : Unhooks(Zygote, Plt \cup HookJniMethods(failed))
    BY <1>3 DEF TriggerZygoteHooks
  <2>2. Plt \cup HookJniMethods(failed) \in Hooks
    BY DEF Hooks, HookJniMethods, Jni
  <2>3. /\ pc' = [pc EXCEPT ![Zygote] = "idle"] /\ mapped' = mapped \cup {Zygote}
    BY <1>3 DEF TriggerZygoteHooks
  <2>4. QED
    BY <2>1, <2>2, <2>3, UnhooksFacts
<1>4. CASE ForkReturns
  BY <1>4 DEF ForkReturns, hookVars
<1>5. ASSUME NEW c \in Child, ForkSystemServer(c) PROVE HookInv'
  <2>1. PICK q \in Process : ForkedAs(q, c, "server", "none", gHook[Zygote])
    BY <1>5, ForkServerFacts
  <2>2. QED
    BY <2>1, HookCopied, ZenonT(40) DEF ForkedAs
<1>6. ASSUME NEW c \in Child, ForkUsap(c) PROVE HookInv'
  <2>1. /\ \A q \in Process \ {c} : pc'[q] = pc[q] /\ hooks'[q] = hooks[q] /\ backup'[q] = backup[q]
        /\ pc'[c] = "usap" /\ hooks'[c] = hooks[Zygote] /\ backup'[c] = backup[Zygote]
        /\ mapped' = mapped \cup {c} /\ pc[Zygote] = "idle"
    BY <1>6 DEF ForkUsap, CanFork
  <2>2. QED
    BY <2>1, HookCopied, SMTT(20)
<1>7. ASSUME NEW c \in Child, ForkAgain(c) PROVE HookInv'
  <2>1. pc[Zygote] = "original" /\ pc[c] = "unborn"
    BY <1>7, ForkAgainFacts
  <2>2. CASE ForkedAgain(c)
    <3>1. /\ \A q \in Process \ {c} : hooks'[q] = hooks[q] /\ backup'[q] = backup[q]
          /\ \A q \in Process \ {c, Zygote} : pc'[q] = pc[q]
          /\ pc'[c] = "original" /\ pc'[Zygote] = "specialized"
          /\ hooks'[c] = hooks[Zygote] /\ backup'[c] = backup[Zygote]
          /\ mapped' = mapped \cup {c}
      BY <2>2 DEF ForkedAgain
    <3>2. QED
      BY <2>1, <3>1, HookCopied
  <2>3. CASE pc' = [pc EXCEPT ![Zygote] = "specialized"] /\ UNCHANGED <<hooks, backup, mapped>>
    BY <2>1, <2>3
  <2>4. QED
    BY <1>7, <2>2, <2>3, ForkAgainFacts
<1>8. ASSUME NEW c \in Child, NEW a \in App, ForkAndSpecialize(c, a) PROVE HookInv'
  <2>1. PICK q \in Process, flags \in Policy \cup {"none"}, hook \in GHook :
               ForkedAs(q, c, "app", flags, hook)
    BY <1>8, ForkAppFacts
  <2>2. QED
    BY <2>1, HookCopied, ZenonT(40) DEF ForkedAs
<1>9. CASE SaveRoot
  BY <1>9 DEF SaveRoot, hookVars
<1>10. ASSUME NEW p \in Process, SaveClean(p) PROVE HookInv'
  BY <1>10 DEF SaveClean, hookVars
<1>11. ASSUME NEW p \in Process, EntryRefused(p) PROVE HookInv'
  BY <1>11 DEF EntryRefused
<1>12. ASSUME NEW p \in Process, PropertyGet(p) PROVE HookInv'
  <2>1. Unhooks(p, hooks[p]) /\ hooks[p] \in Hooks /\ "property_get" \in hooks[p]
    BY <1>12 DEF PropertyGet, Hooks
  <2>2. pc' = pc /\ mapped' = mapped /\ pc[p] \notin {"unborn", "boot", "running"}
    BY <1>12 DEF PropertyGet
  <2>3. /\ \A q \in Process \ {p} : hooks'[q] = hooks[q] /\ backup'[q] = backup[q]
        /\ hooks'[p] \subseteq backup'[p] \cup (hooks[p] \cap Jni)
    BY <2>1, UnhooksFacts
  <2>4. BackedUp'
    BY <2>3
  <2>5. JniRestored'
    <3>1. "jni" \in hooks'[p] => "jni" \in hooks[p]
      <4>1. backup' \in [Process -> SUBSET (Plt \cup {"setstacksize"})]
        BY <2>1, UnhooksFacts
      <4>2. "jni" \notin backup'[p]
        BY <4>1 DEF Plt
      <4>3. QED
        BY <2>3, <4>2
    <3>2. QED
      BY <2>2, <2>3, <3>1
  <2>6. NotYetHooked'
    BY <2>2, <2>3
  <2>7. UnmappedIsUnhooked'
    BY <2>1, <2>2, <2>3
  <2>8. QED
    BY <2>4, <2>5, <2>6, <2>7
<1>13. ASSUME NEW p \in Process, AppPre(p) PROVE HookInv'
  BY <1>13 DEF AppPre, hookVars
<1>14. ASSUME NEW p \in Process, ServerPre(p) PROVE HookInv'
  BY <1>14 DEF ServerPre, hookVars
<1>15. ASSUME NEW p \in Process, NEW a \in App, SpecializeAppProcess(p, a) PROVE HookInv'
  BY <1>15 DEF SpecializeAppProcess, hookVars
<1>16. ASSUME NEW p \in Process, UpdateMountNamespace(p) PROVE HookInv'
  BY <1>16 DEF UpdateMountNamespace, hookVars
<1>17. ASSUME NEW p \in Process, Unshare(p) PROVE HookInv'
  BY <1>17 DEF Unshare, hookVars
<1>18. ASSUME NEW p \in Process, SpecializePost(p) PROVE HookInv'
  <2>1. /\ \A q \in Process \ {p} : hooks'[q] = hooks[q] /\ pc'[q] = pc[q]
        /\ hooks'[p] \subseteq (hooks[p] \ {"jni"}) \cup {"stuck"}
        /\ "jni" \notin hooks'[p] /\ pc'[p] = "leaving" /\ UNCHANGED <<backup, mapped>>
    BY <1>18 DEF SpecializePost, DestroysContext
  <2>2. QED
    BY <2>1 DEF Jni
<1>19. ASSUME NEW p \in Process, Unload(p) PROVE HookInv'
  <2>1. PICK left \in SUBSET backup[p] :
               /\ hooks' = [hooks EXCEPT ![p] = @ \ (backup[p] \ left)]
               /\ mapped' = IF left = {} THEN mapped \ {p} ELSE mapped
    BY <1>19 DEF Unload, RestorePltHook
  <2>2. /\ pc[p] = "leaving" /\ pc' = [pc EXCEPT ![p] = "left"] /\ backup' = backup
    BY <1>19 DEF Unload
  <2>3. /\ \A q \in Process \ {p} : hooks'[q] = hooks[q] /\ pc'[q] = pc[q]
        /\ hooks'[p] = hooks[p] \ (backup[p] \ left) /\ pc'[p] = "left"
    BY <2>1, <2>2
  <2>4. BackedUp' /\ NotYetHooked' /\ JniRestored'
    BY <2>2, <2>3
  <2>5. left = {} => hooks'[p] \subseteq {"stuck"}
    BY <2>2, <2>3 DEF Jni
  <2>6. UnmappedIsUnhooked'
    BY <2>1, <2>3, <2>5
  <2>7. QED
    BY <2>4, <2>6
<1>20. ASSUME NEW p \in Process, LateServer(p) PROVE HookInv'
  BY <1>20 DEF LateServer
<1>21. CASE UNCHANGED vars
  BY <1>21 DEF vars, ctxVars, hookVars, fdVars, nsVars, cacheVars
<1>22. QED
  BY <1>1, <1>2, <1>3, <1>4, <1>5, <1>6, <1>7, <1>8, <1>9, <1>10, <1>11, <1>12, <1>13,
     <1>14, <1>15, <1>16, <1>17, <1>18, <1>19, <1>20, <1>21 DEF Next, ZygoteSteps,
     DaemonSteps, ProcessSteps

-----------------------------------------------------------------------------
(***************************************************************************)
(* The mounts.  A fork is the only thing that unmounts zygote, and every   *)
(* g_hook that knows of it was copied from zygote's own afterwards.        *)
(***************************************************************************)
LEMMA MountFork ==
  ASSUME TypeOK, HomeInv, MountInv, NEW p \in Process, NEW c \in Child, NEW k, NEW flags,
         NEW hook \in GHook, ForkedAs(p, c, k, flags, hook),
         \/ mounts' = mounts /\ hook.unmounted = gHook[Zygote].unmounted
            /\ (hook.unmounted => hook = gHook[Zygote])
         \/ /\ ~gHook[Zygote].unmounted /\ hook.unmounted
            /\ hook.traces \subseteq mounts[ns[Zygote]]
            /\ mounts' = [mounts EXCEPT ![ns[Zygote]] = hook.traces]
  PROVE  MountInv'
<1> USE Names
<1>1. /\ \A q \in Process \ {p, Zygote} : gHook'[q] = gHook[q]
      /\ gHook'[p] = hook /\ gHook'[Zygote] = hook
      /\ cache' = cache /\ deployed' = deployed
  BY DEF ForkedAs
<1>2. ns[Zygote] = Zygote /\ mounts \in [Namespace -> SUBSET Trace]
  BY DEF HomeInv, AtHome, TypeOK
<1>3. CASE mounts' = mounts /\ hook.unmounted = gHook[Zygote].unmounted
           /\ (hook.unmounted => hook = gHook[Zygote])
  BY <1>1, <1>3 DEF MountInv, CleanIsNew, UnmountedLeaves, UntouchedHas
<1>4. CASE /\ ~gHook[Zygote].unmounted /\ hook.unmounted
           /\ mounts' = [mounts EXCEPT ![ns[Zygote]] = hook.traces]
  <2>1. mounts'[Zygote] = hook.traces /\ mounts'["clean"] = mounts["clean"]
    BY <1>2, <1>4
  <2>2. QED
    BY <1>1, <1>4, <2>1 DEF MountInv, CleanIsNew, UnmountedLeaves, UntouchedHas
<1>5. QED
  BY <1>3, <1>4

LEMMA MountStep == TypeOK /\ HomeInv /\ MountInv /\ [Next]_vars => MountInv'
<1> SUFFICES ASSUME TypeOK, HomeInv, MountInv, [Next]_vars PROVE MountInv'
  OBVIOUS
<1> USE Names DEF TypeOK, HomeInv, AtHome, ZygoteStays, MountInv, CleanIsNew,
             UnmountedLeaves, UntouchedHas
<1>1. CASE HookEntry
  BY <1>1 DEF HookEntry, nsVars, cacheVars
<1>2. CASE Strdup
  BY <1>2 DEF Strdup, nsVars, cacheVars
<1>3. CASE TriggerZygoteHooks
  <2>1. PICK failed \in Failing("jni") : Unhooks(Zygote, Plt \cup HookJniMethods(failed))
    BY <1>3 DEF TriggerZygoteHooks
  <2>2. Plt \cup HookJniMethods(failed) \in Hooks
    BY DEF Hooks, HookJniMethods, Jni
  <2>3. UNCHANGED <<mounts, cache, deployed>>
    BY <1>3 DEF TriggerZygoteHooks, nsVars, cacheVars
  <2>4. \A q \in Process : /\ gHook'[q].unmounted = gHook[q].unmounted
                          /\ gHook'[q].traces = gHook[q].traces
    BY <2>1, <2>2, UnhooksFacts
  <2>5. QED
    BY <2>3, <2>4
<1>4. CASE ForkReturns
  BY <1>4 DEF ForkReturns, hookVars, nsVars, cacheVars
<1>5. ASSUME NEW c \in Child, ForkSystemServer(c) PROVE MountInv'
  <2>1. PICK q \in Process : ForkedAs(q, c, "server", "none", gHook[Zygote]) /\ mounts' = mounts
    BY <1>5, ForkServerFacts
  <2>2. gHook[Zygote] \in GHook
    BY DEF GHook
  <2>3. QED
    BY <2>1, <2>2, MountFork
<1>6. ASSUME NEW c \in Child, ForkUsap(c) PROVE MountInv'
  BY <1>6 DEF ForkUsap, nsVars, cacheVars
<1>7. ASSUME NEW c \in Child, ForkAgain(c) PROVE MountInv'
  <2>1. gHook' = gHook \/ gHook' = [gHook EXCEPT ![c] = gHook[Zygote]]
    BY <1>7, ForkAgainFacts DEF ForkedAgain
  <2>2. UNCHANGED <<mounts, cache, deployed>>
    BY <1>7, ForkAgainFacts
  <2>3. /\ \A q \in Process \ {c} : gHook'[q] = gHook[q]
        /\ gHook'[c] = gHook[c] \/ gHook'[c] = gHook[Zygote]
    BY <2>1
  <2> HIDE DEF TypeOK, HomeInv, AtHome, ZygoteStays
  <2>4. QED
    BY <2>2, <2>3
<1>8. ASSUME NEW c \in Child, NEW a \in App, ForkAndSpecialize(c, a) PROVE MountInv'
  BY <1>8, ForkAppFacts, MountFork
<1>9. CASE SaveRoot
  BY <1>9 DEF SaveRoot, hookVars, nsVars
<1>10. ASSUME NEW p \in Process, SaveClean(p) PROVE MountInv'
  BY <1>10 DEF SaveClean, CleanNamespace, Stuck, hookVars
<1>11. ASSUME NEW p \in Process, EntryRefused(p) PROVE MountInv'
  BY <1>11 DEF EntryRefused, nsVars, cacheVars
<1>12. ASSUME NEW p \in Process, PropertyGet(p) PROVE MountInv'
  <2>1. Unhooks(p, hooks[p]) /\ hooks[p] \in Hooks
    BY <1>12 DEF PropertyGet, Hooks
  <2>2. UNCHANGED <<mounts, cache, deployed>>
    BY <1>12 DEF PropertyGet, nsVars, cacheVars
  <2>3. \A q \in Process : /\ gHook'[q].unmounted = gHook[q].unmounted
                          /\ gHook'[q].traces = gHook[q].traces
    BY <2>1, UnhooksFacts, SMTT(20)
  <2>4. QED
    BY <2>2, <2>3
<1>13. ASSUME NEW p \in Process, AppPre(p) PROVE MountInv'
  BY <1>13 DEF AppPre, hookVars, nsVars, cacheVars
<1>14. ASSUME NEW p \in Process, ServerPre(p) PROVE MountInv'
  BY <1>14 DEF ServerPre, AskToCache, hookVars, nsVars
<1>15. ASSUME NEW p \in Process, NEW a \in App, SpecializeAppProcess(p, a) PROVE MountInv'
  BY <1>15 DEF SpecializeAppProcess, hookVars, nsVars, cacheVars
<1>16. ASSUME NEW p \in Process, UpdateMountNamespace(p) PROVE MountInv'
  BY <1>16 DEF UpdateMountNamespace, hookVars, cacheVars
<1>17. ASSUME NEW p \in Process, Unshare(p) PROVE MountInv'
  BY <1>17 DEF Unshare, hookVars, cacheVars
<1>18. ASSUME NEW p \in Process, SpecializePost(p) PROVE MountInv'
  BY <1>18 DEF SpecializePost, nsVars, cacheVars
<1>19. ASSUME NEW p \in Process, Unload(p) PROVE MountInv'
  BY <1>19 DEF Unload, nsVars, cacheVars
<1>20. ASSUME NEW p \in Process, LateServer(p) PROVE MountInv'
  BY <1>20 DEF LateServer, AskToCache, nsVars, cacheVars
<1>21. CASE UNCHANGED vars
  BY <1>21 DEF vars, ctxVars, hookVars, fdVars, nsVars, cacheVars
<1>22. QED
  BY <1>1, <1>2, <1>3, <1>4, <1>5, <1>6, <1>7, <1>8, <1>9, <1>10, <1>11, <1>12, <1>13,
     <1>14, <1>15, <1>16, <1>17, <1>18, <1>19, <1>20, <1>21 DEF Next, ZygoteSteps,
     DaemonSteps, ProcessSteps

(***************************************************************************)
(* What a step may do to the mounts of others: the Clean namespace gains   *)
(* nothing once it is made, zygote only loses, the Root namespace is never *)
(* replaced nor added to, and nobody's own namespace changes but by the    *)
(* unshare that makes it.                                                  *)
(***************************************************************************)
MountsMove ==
  /\ deployed' = deployed /\ mounts["clean"] \subseteq mounts'["clean"]
  /\ mounts'[Zygote] \subseteq mounts[Zygote] /\ mounts'["old"] = mounts["old"]
  /\ gHook[Zygote].unmounted => gHook'[Zygote].unmounted
  /\ cache.Root # "none" => cache'.Root = cache.Root
  /\ \A q \in Child : mounts'[q] = mounts[q] \/ Unshare(q)

LEMMA MountsMoveStep == TypeOK /\ HomeInv /\ MountInv /\ [Next]_vars => MountsMove
<1> SUFFICES ASSUME TypeOK, HomeInv, MountInv, [Next]_vars PROVE MountsMove
  OBVIOUS
<1> USE Names DEF TypeOK, HomeInv, AtHome, ZygoteStays, MountInv, CleanIsNew, MountsMove
<1>1. CASE HookEntry
  BY <1>1 DEF HookEntry, nsVars, cacheVars
<1>2. CASE Strdup
  BY <1>2 DEF Strdup, nsVars, cacheVars
<1>3. CASE TriggerZygoteHooks
  <2>1. PICK failed \in Failing("jni") : Unhooks(Zygote, Plt \cup HookJniMethods(failed))
    BY <1>3 DEF TriggerZygoteHooks
  <2>2. Plt \cup HookJniMethods(failed) \in Hooks
    BY DEF Hooks, HookJniMethods, Jni
  <2>3. UNCHANGED <<mounts, cache, deployed>>
    BY <1>3 DEF TriggerZygoteHooks, nsVars, cacheVars
  <2>4. gHook'[Zygote].unmounted = gHook[Zygote].unmounted
    BY <2>1, <2>2, UnhooksFacts
  <2>5. QED
    BY <2>3, <2>4
<1>4. CASE ForkReturns
  BY <1>4 DEF ForkReturns, hookVars, nsVars, cacheVars
<1>5. ASSUME NEW c \in Child, ForkSystemServer(c) PROVE MountsMove
  BY <1>5, ForkServerFacts DEF ForkSystemServer, ForkedAs
<1>6. ASSUME NEW c \in Child, ForkUsap(c) PROVE MountsMove
  BY <1>6 DEF ForkUsap, nsVars, cacheVars
<1>7. ASSUME NEW c \in Child, ForkAgain(c) PROVE MountsMove
  <2>1. UNCHANGED <<mounts, cache, deployed>>
    BY <1>7, ForkAgainFacts
  <2>2. gHook' = gHook \/ gHook' = [gHook EXCEPT ![c] = gHook[Zygote]]
    BY <1>7, ForkAgainFacts DEF ForkedAgain
  <2>3. gHook'[Zygote] = gHook[Zygote]
    BY <2>2
  <2>4. QED
    BY <2>1, <2>3
<1>8. ASSUME NEW c \in Child, NEW a \in App, ForkAndSpecialize(c, a) PROVE MountsMove
  <2>1. PICK q \in Process, flags \in Policy \cup {"none"}, hook \in GHook :
           /\ ForkedAs(q, c, "app", flags, hook)
           /\ \/ mounts' = mounts /\ hook.unmounted = gHook[Zygote].unmounted
                 /\ (hook.unmounted => hook = gHook[Zygote])
              \/ /\ ~gHook[Zygote].unmounted /\ hook.unmounted
                 /\ hook.traces \subseteq mounts[ns[Zygote]]
                 /\ mounts' = [mounts EXCEPT ![ns[Zygote]] = hook.traces]
    BY <1>8, ForkAppFacts
  <2>2. gHook'[Zygote] = hook /\ UNCHANGED <<cache, deployed>>
    BY <2>1 DEF ForkedAs
  <2>3. ns[Zygote] = Zygote
    OBVIOUS
  <2>4. QED
    BY <2>1, <2>2, <2>3
<1>9. CASE SaveRoot
  BY <1>9 DEF SaveRoot, hookVars, nsVars
<1>10. ASSUME NEW p \in Process, SaveClean(p) PROVE MountsMove
  BY <1>10 DEF SaveClean, CleanNamespace, Process, Zygote, hookVars
<1>11. ASSUME NEW p \in Process, EntryRefused(p) PROVE MountsMove
  BY <1>11 DEF EntryRefused, nsVars, cacheVars
<1>12. ASSUME NEW p \in Process, PropertyGet(p) PROVE MountsMove
  <2>1. Unhooks(p, hooks[p]) /\ hooks[p] \in Hooks
    BY <1>12 DEF PropertyGet, Hooks
  <2>2. UNCHANGED <<mounts, cache, deployed>>
    BY <1>12 DEF PropertyGet, nsVars, cacheVars
  <2>3. gHook'[Zygote].unmounted = gHook[Zygote].unmounted
    BY <2>1, UnhooksFacts
  <2>4. QED
    BY <2>2, <2>3
<1>13. ASSUME NEW p \in Process, AppPre(p) PROVE MountsMove
  BY <1>13 DEF AppPre, hookVars, nsVars, cacheVars
<1>14. ASSUME NEW p \in Process, ServerPre(p) PROVE MountsMove
  BY <1>14 DEF ServerPre, AskToCache, hookVars, nsVars
<1>15. ASSUME NEW p \in Process, NEW a \in App, SpecializeAppProcess(p, a) PROVE MountsMove
  BY <1>15 DEF SpecializeAppProcess, hookVars, nsVars, cacheVars
<1>16. ASSUME NEW p \in Process, UpdateMountNamespace(p) PROVE MountsMove
  BY <1>16 DEF UpdateMountNamespace, hookVars, cacheVars
<1>17. ASSUME NEW p \in Process, Unshare(p) PROVE MountsMove
  <2>1. /\ p # Zygote /\ mounts' = [mounts EXCEPT ![p] = mounts[ns[p]]]
        /\ UNCHANGED <<gHook, cache, deployed>>
    BY <1>17 DEF Unshare, hookVars, cacheVars
  <2>2. QED
    BY <1>17, <2>1 DEF Process
<1>18. ASSUME NEW p \in Process, SpecializePost(p) PROVE MountsMove
  BY <1>18 DEF SpecializePost, nsVars, cacheVars
<1>19. ASSUME NEW p \in Process, Unload(p) PROVE MountsMove
  BY <1>19 DEF Unload, nsVars, cacheVars
<1>20. ASSUME NEW p \in Process, LateServer(p) PROVE MountsMove
  BY <1>20 DEF LateServer, AskToCache, nsVars, cacheVars
<1>21. CASE UNCHANGED vars
  BY <1>21 DEF vars, ctxVars, hookVars, fdVars, nsVars, cacheVars
<1>22. QED
  BY <1>1, <1>2, <1>3, <1>4, <1>5, <1>6, <1>7, <1>8, <1>9, <1>10, <1>11, <1>12, <1>13,
     <1>14, <1>15, <1>16, <1>17, <1>18, <1>19, <1>20, <1>21 DEF Next, ZygoteSteps,
     DaemonSteps, ProcessSteps

(* The three kinds of step for a process x: it is no app that has come to  *)
(* unshare's hook, or nothing that its mounts depend on changes for it, or *)
(* it is the one that moves.                                               *)
Early(x) == \/ pc'[x] \notin {"switched", "specialized", "leaving", "left"}
            \/ kind'[x] \notin {"app", "usap"}

Kept(x) ==
  /\ kind'[x] = kind[x] /\ info'[x] = info[x] /\ ns'[x] = ns[x]
  /\ gHook'[x].unmounted = gHook[x].unmounted /\ gHook'[x].traces = gHook[x].traces
  /\ (x \in revert' <=> x \in revert) /\ (x \in refused' <=> x \in refused)
  /\ \/ pc'[x] = pc[x]
     \/ /\ pc[x] \in {"specialized", "leaving", "left"}
        /\ pc'[x] \in {"specialized", "leaving", "left"}

Moves(x) == Early(x) \/ Kept(x) \/ UpdateMountNamespace(x) \/ Unshare(x)

LEMMA MovesStep ==
  ASSUME TypeOK, HomeInv, [Next]_vars, NEW x \in Child
  PROVE  Moves(x)
<1> USE Names DEF TypeOK, HomeInv, ZygoteStays, NotYetCalled, Moves, Early, Kept
<1>1. CASE HookEntry
  BY <1>1 DEF HookEntry, ctxVars, nsVars
<1>2. CASE Strdup
  BY <1>2 DEF Strdup, ctxVars, nsVars
<1>3. CASE TriggerZygoteHooks
  <2>1. PICK failed \in Failing("jni") : Unhooks(Zygote, Plt \cup HookJniMethods(failed))
    BY <1>3 DEF TriggerZygoteHooks
  <2>2. Plt \cup HookJniMethods(failed) \in Hooks
    BY DEF Hooks, HookJniMethods, Jni
  <2>3. gHook'[x].unmounted = gHook[x].unmounted /\ gHook'[x].traces = gHook[x].traces
    BY <2>1, <2>2, UnhooksFacts
  <2>4. QED
    BY <1>3, <2>3 DEF TriggerZygoteHooks, ctxVars, nsVars
<1>4. CASE ForkReturns
  BY <1>4 DEF ForkReturns, ctxVars, hookVars, nsVars
<1>5. ASSUME NEW c \in Child, ForkSystemServer(c) PROVE Moves(x)
  <2>1. PICK q \in Process : ForkedAs(q, c, "server", "none", gHook[Zygote])
    BY <1>5, ForkServerFacts
  <2>2. QED
    BY <2>1 DEF ForkedAs
<1>6. ASSUME NEW c \in Child, ForkUsap(c) PROVE Moves(x)
  BY <1>6 DEF ForkUsap, ctxVars, nsVars
<1>7. ASSUME NEW c \in Child, ForkAgain(c) PROVE Moves(x)
  <2>1. CASE x = c
    <3>1. /\ pc[c] = "unborn"
          /\ ForkedAgain(c) \/ pc' = [pc EXCEPT ![Zygote] = "specialized"]
      BY <1>7, ForkAgainFacts
    <3>2. pc'[c] \in {"original", "unborn"}
      BY <3>1 DEF ForkedAgain
    <3>3. QED
      BY <2>1, <3>2
  <2>2. CASE x # c
    <3>1. CASE ForkedAgain(c)
      BY <1>7, <2>2, <3>1, ForkAgainFacts, ZenonT(40) DEF ForkedAgain
    <3>2. CASE /\ pc' = [pc EXCEPT ![Zygote] = "specialized"]
               /\ UNCHANGED <<kind, info, revert, gHook>>
      BY <1>7, <2>2, <3>2, ForkAgainFacts
    <3>3. QED
      BY <1>7, <3>1, <3>2, ForkAgainFacts
  <2>3. QED
    BY <2>1, <2>2
<1>8. ASSUME NEW c \in Child, NEW a \in App, ForkAndSpecialize(c, a) PROVE Moves(x)
  <2>1. PICK q \in Process, flags \in Policy \cup {"none"}, hook \in GHook :
               ForkedAs(q, c, "app", flags, hook)
    BY <1>8, ForkAppFacts
  <2>2. QED
    BY <2>1 DEF ForkedAs
<1>9. CASE SaveRoot
  BY <1>9 DEF SaveRoot, ctxVars, hookVars, nsVars
<1>10. ASSUME NEW p \in Process, SaveClean(p) PROVE Moves(x)
  BY <1>10 DEF SaveClean, ctxVars, hookVars
<1>11. ASSUME NEW p \in Process, EntryRefused(p) PROVE Moves(x)
  BY <1>11 DEF EntryRefused, ctxVars, nsVars
<1>12. ASSUME NEW p \in Process, PropertyGet(p) PROVE Moves(x)
  <2>1. Unhooks(p, hooks[p]) /\ hooks[p] \in Hooks
    BY <1>12 DEF PropertyGet, Hooks
  <2>2. gHook'[x].unmounted = gHook[x].unmounted /\ gHook'[x].traces = gHook[x].traces
    BY <2>1, UnhooksFacts
  <2>3. QED
    BY <1>12, <2>2 DEF PropertyGet, ctxVars, nsVars
<1>13. ASSUME NEW p \in Process, AppPre(p) PROVE Moves(x)
  BY <1>13 DEF AppPre, AppSpecializePre, hookVars, nsVars
<1>14. ASSUME NEW p \in Process, ServerPre(p) PROVE Moves(x)
  BY <1>14 DEF ServerPre, ctxVars, hookVars, nsVars
<1>15. ASSUME NEW p \in Process, NEW a \in App, SpecializeAppProcess(p, a) PROVE Moves(x)
  BY <1>15 DEF SpecializeAppProcess, AppSpecializePre, hookVars, nsVars
<1>16. ASSUME NEW p \in Process, UpdateMountNamespace(p) PROVE Moves(x)
  BY <1>16, ZenonT(40) DEF UpdateMountNamespace, ctxVars, hookVars
<1>17. ASSUME NEW p \in Process, Unshare(p) PROVE Moves(x)
  BY <1>17 DEF Unshare, ctxVars, hookVars
<1>18. ASSUME NEW p \in Process, SpecializePost(p) PROVE Moves(x)
  BY <1>18 DEF SpecializePost, ctxVars, nsVars
<1>19. ASSUME NEW p \in Process, Unload(p) PROVE Moves(x)
  BY <1>19 DEF Unload, ctxVars, nsVars
<1>20. ASSUME NEW p \in Process, LateServer(p) PROVE Moves(x)
  BY <1>20 DEF LateServer, ctxVars, nsVars
<1>21. CASE UNCHANGED vars
  BY <1>21 DEF vars, ctxVars, hookVars, fdVars, nsVars, cacheVars
<1>22. QED
  BY <1>1, <1>2, <1>3, <1>4, <1>5, <1>6, <1>7, <1>8, <1>9, <1>10, <1>11, <1>12, <1>13,
     <1>14, <1>15, <1>16, <1>17, <1>18, <1>19, <1>20, <1>21 DEF Next, ZygoteSteps,
     DaemonSteps, ProcessSteps

(* The Root namespace only loses, whoever made it. *)
LEMMA RootLoses ==
  ASSUME TypeOK, HomeInv, MountInv, [Next]_vars, cache.Root # "none"
  PROVE  cache'.Root = cache.Root /\ mounts'[cache.Root] \subseteq mounts[cache.Root]
<1> USE Names
<1>1. MountsMove
  BY MountsMoveStep
<1>2. cache.Root = Zygote \/ cache.Root = "old" \/ cache.Root \in Child
  BY DEF TypeOK, Process
<1>3. ASSUME cache.Root \in Child PROVE ~Unshare(cache.Root)
  BY <1>3 DEF HomeInv, RootIsSettled, UnsharedOnce, Unshare
<1>4. QED
  BY <1>1, <1>2, <1>3 DEF MountsMove

(* What an app that has specialized sees stays what it should see. *)
LEMMA SeenIsKept ==
  ASSUME TypeOK, HomeInv, MountInv, SeeInv, [Next]_vars, NEW x \in Child, Kept(x),
         Specialized(x)'
  PROVE  /\ ShouldUnmount(x)' /\ ~Stranded(x)' => mounts'[x] \subseteq mounts'["clean"]
         /\ /\ info'[x] = "root" /\ x \notin refused'
            /\ gHook'[x].unmounted = gHook'[Zygote].unmounted
            => IF gHook'[x].unmounted
               THEN cache'.Root # "none" /\ mounts'[cache'.Root] \subseteq mounts'[x]
               ELSE deployed' \subseteq mounts'[x]
<1> USE Names
<1>1. MountsMove
  BY MountsMoveStep
<1>2. Specialized(x) /\ pc[x] \in {"specialized", "leaving", "left"}
  BY DEF Specialized, Kept
<1>3. ~Unshare(x)
  BY <1>2 DEF Unshare
<1>4. mounts'[x] = mounts[x]
  BY <1>1, <1>3 DEF MountsMove
<1>5. ASSUME ShouldUnmount(x)', ~Stranded(x)'
      PROVE  mounts'[x] \subseteq mounts'["clean"]
  <2>1. ShouldUnmount(x) /\ ~Stranded(x)
    BY <1>5 DEF ShouldUnmount, Kept, Stranded, IsZygoteClean
  <2>2. mounts[x] \subseteq mounts["clean"]
    BY <1>2, <2>1 DEF SeeInv, DenylistSeesNoTrace
  <2>3. QED
    BY <1>1, <1>4, <2>2 DEF MountsMove
<1>6. ASSUME info'[x] = "root", x \notin refused',
             gHook'[x].unmounted = gHook'[Zygote].unmounted
      PROVE  IF gHook'[x].unmounted
             THEN cache'.Root # "none" /\ mounts'[cache'.Root] \subseteq mounts'[x]
             ELSE deployed' \subseteq mounts'[x]
  <2>1. info[x] = "root" /\ x \notin refused /\ gHook'[x].unmounted = gHook[x].unmounted
    BY <1>6 DEF Kept
  <2>2. CASE gHook[x].unmounted
    <3>1. gHook[x].unmounted = gHook[Zygote].unmounted
      BY <2>2 DEF MountInv, UnmountedLeaves, TypeOK
    <3>2. cache.Root # "none" /\ mounts[cache.Root] \subseteq mounts[x]
      BY <1>2, <2>1, <2>2, <3>1 DEF SeeInv, GrantedSeesMounts
    <3>3. QED
      BY <1>4, <2>1, <2>2, <3>2, RootLoses
  <2>3. CASE ~gHook[x].unmounted
    <3>1. gHook[x].unmounted = gHook[Zygote].unmounted
      <4>1. ~gHook[Zygote].unmounted
        BY <1>1, <1>6, <2>1, <2>3 DEF MountsMove
      <4>2. gHook[x].unmounted \in BOOLEAN /\ gHook[Zygote].unmounted \in BOOLEAN
        BY DEF TypeOK
      <4>3. QED
        BY <2>3, <4>1, <4>2
    <3>2. deployed \subseteq mounts[x]
      BY <1>2, <2>1, <2>3, <3>1 DEF SeeInv, GrantedSeesMounts
    <3>3. QED
      BY <1>1, <1>4, <2>1, <2>3, <3>2 DEF MountsMove
  <2>4. QED
    BY <2>2, <2>3
<1>7. QED
  BY <1>5, <1>6

(* An app between unshare's hook and the unshare stays where it was moved. *)
LEMMA SwitchedIsKept ==
  ASSUME TypeOK, HomeInv, MountInv, SeeInv, [Next]_vars, NEW x \in Child, Kept(x),
         Switched(x)'
  PROVE  /\ ShouldUnmount(x)' /\ ~Stranded(x)'
            => ns'[x] \in {Zygote, "clean"} /\ mounts'[ns'[x]] \subseteq mounts'["clean"]
         /\ info'[x] = "root" /\ x \notin refused'
            => IF gHook'[x].unmounted THEN cache'.Root # "none" /\ ns'[x] = cache'.Root
                                      ELSE ns'[x] = Zygote
<1> USE Names
<1>1. MountsMove
  BY MountsMoveStep
<1>2. /\ Switched(x) /\ ns'[x] = ns[x] /\ info'[x] = info[x]
      /\ gHook'[x].unmounted = gHook[x].unmounted
  BY DEF Kept, Switched
<1>3. ASSUME ShouldUnmount(x)', ~Stranded(x)'
      PROVE  ns'[x] \in {Zygote, "clean"} /\ mounts'[ns'[x]] \subseteq mounts'["clean"]
  <2>1. ShouldUnmount(x) /\ ~Stranded(x)
    BY <1>3 DEF ShouldUnmount, Kept, Stranded, IsZygoteClean
  <2>2. ns[x] \in {Zygote, "clean"} /\ mounts[ns[x]] \subseteq mounts["clean"]
    BY <1>2, <2>1 DEF SeeInv, SwitchedToClean
  <2>3. QED
    BY <1>1, <1>2, <2>2 DEF MountsMove
<1>4. ASSUME info'[x] = "root", x \notin refused'
      PROVE  IF gHook'[x].unmounted THEN cache'.Root # "none" /\ ns'[x] = cache'.Root
                                    ELSE ns'[x] = Zygote
  <2>1. x \notin refused
    BY <1>4 DEF Kept
  <2>2. QED
    BY <1>2, <1>4, <2>1, RootLoses DEF SeeInv, SwitchedToRoot
<1>5. QED
  BY <1>3, <1>4

(* unshare's hook moves an app to where its policy says. *)
LEMMA SwitchesRight ==
  ASSUME TypeOK, HomeInv, MountInv, [Next]_vars, NEW x \in Child, UpdateMountNamespace(x)
  PROVE  /\ ShouldUnmount(x)' /\ ~Stranded(x)'
            => ns'[x] \in {Zygote, "clean"} /\ mounts'[ns'[x]] \subseteq mounts'["clean"]
         /\ info'[x] = "root" /\ x \notin refused'
            => IF gHook'[x].unmounted THEN cache'.Root # "none" /\ ns'[x] = cache'.Root
                                      ELSE ns'[x] = Zygote
<1> USE Names
<1>1. /\ pc[x] = "original" /\ UNCHANGED <<info, revert, gHook, mounts, cache>>
      /\ ns \in [Process -> Namespace] /\ ns[x] = Zygote
  BY DEF UpdateMountNamespace, ctxVars, hookVars, cacheVars, HomeInv, AtHome, TypeOK
<1>2. \/ WantedNamespace(x) = "none" /\ ns' = ns
      \/ /\ WantedNamespace(x) # "none" /\ cache[WantedNamespace(x)] # "none"
         /\ ns' = [ns EXCEPT ![x] = cache[WantedNamespace(x)]]
      \/ WantedNamespace(x) # "none" /\ x \in refused'
  BY DEF UpdateMountNamespace
<1>3. ASSUME ShouldUnmount(x)', ~Stranded(x)'
      PROVE  ns'[x] \in {Zygote, "clean"} /\ mounts'[ns'[x]] \subseteq mounts'["clean"]
  <2>1. ShouldUnmount(x)
    BY <1>1, <1>3 DEF ShouldUnmount
  <2>2. CASE IsZygoteClean(x)
    <3>1. WantedNamespace(x) = "none"
      BY <2>1, <2>2 DEF WantedNamespace
    <3>2. mounts[Zygote] = {}
      BY <2>2 DEF IsZygoteClean, MountInv, UnmountedLeaves
    <3>3. QED
      BY <1>1, <1>2, <3>1, <3>2
  <2>3. CASE ~IsZygoteClean(x)
    <3>1. WantedNamespace(x) = "Clean" /\ x \notin refused'
      BY <1>1, <1>3, <2>1, <2>3 DEF WantedNamespace, Stranded, IsZygoteClean
    <3>2. cache.Clean = "clean" /\ ns' = [ns EXCEPT ![x] = cache.Clean]
      BY <1>2, <3>1 DEF TypeOK
    <3>3. QED
      BY <1>1, <3>2
  <2>4. QED
    BY <2>2, <2>3
<1>4. ASSUME info'[x] = "root", x \notin refused'
      PROVE  IF gHook'[x].unmounted THEN cache'.Root # "none" /\ ns'[x] = cache'.Root
                                    ELSE ns'[x] = Zygote
  <2>1. ~ShouldUnmount(x)
    BY <1>1, <1>4 DEF ShouldUnmount
  <2>2. CASE gHook[x].unmounted
    <3>1. WantedNamespace(x) = "Root"
      BY <2>1, <2>2 DEF WantedNamespace
    <3>2. QED
      BY <1>1, <1>2, <1>4, <2>2, <3>1
  <2>3. CASE ~gHook[x].unmounted
    <3>1. WantedNamespace(x) = "none"
      BY <2>1, <2>3 DEF WantedNamespace
    <3>2. QED
      BY <1>1, <1>2, <1>4, <2>3, <3>1
  <2>4. QED
    BY <2>2, <2>3
<1>5. QED
  BY <1>3, <1>4

(* The unshare gives an app what it had been moved to. *)
LEMMA UnsharesRight ==
  ASSUME TypeOK, HomeInv, MountInv, SeeInv, [Next]_vars, NEW x \in Child, Unshare(x),
         Specialized(x)'
  PROVE  /\ ShouldUnmount(x)' /\ ~Stranded(x)' => mounts'[x] \subseteq mounts'["clean"]
         /\ /\ info'[x] = "root" /\ x \notin refused' /\ gHook'[x].unmounted = gHook'[Zygote].unmounted
            => IF gHook'[x].unmounted
               THEN cache'.Root # "none" /\ mounts'[cache'.Root] \subseteq mounts'[x]
               ELSE deployed' \subseteq mounts'[x]
<1> USE Names
<1>1. /\ UNCHANGED <<kind, info, revert, gHook, cache, deployed, refused>>
      /\ mounts' = [mounts EXCEPT ![x] = mounts[ns[x]]]
      /\ mounts \in [Namespace -> SUBSET Trace] /\ ns[x] \in Namespace
  BY DEF Unshare, ctxVars, hookVars, cacheVars, TypeOK
<1>2. Switched(x) /\ pc[x] = "switched"
  BY <1>1 DEF Specialized, Switched, Unshare
<1>3. mounts'[x] = mounts[ns[x]] /\ mounts'["clean"] = mounts["clean"]
  BY <1>1
<1>4. ASSUME ShouldUnmount(x)', ~Stranded(x)' PROVE mounts'[x] \subseteq mounts'["clean"]
  <2>1. ShouldUnmount(x) /\ ~Stranded(x)
    BY <1>1, <1>4 DEF ShouldUnmount, Stranded, IsZygoteClean
  <2>2. QED
    BY <1>2, <1>3, <2>1 DEF SeeInv, SwitchedToClean
<1>5. ASSUME info'[x] = "root", x \notin refused',
             gHook'[x].unmounted = gHook'[Zygote].unmounted
      PROVE  IF gHook'[x].unmounted
             THEN cache'.Root # "none" /\ mounts'[cache'.Root] \subseteq mounts'[x]
             ELSE deployed' \subseteq mounts'[x]
  <2>1. CASE gHook[x].unmounted
    <3>1. cache.Root # "none" /\ ns[x] = cache.Root
      BY <1>1, <1>2, <1>5, <2>1 DEF SeeInv, SwitchedToRoot
    <3>2. cache.Root # x
      BY <1>2 DEF HomeInv, RootIsSettled, UnsharedOnce
    <3>3. mounts'[cache.Root] \subseteq mounts[cache.Root]
      BY <3>1, RootLoses
    <3>4. QED
      BY <1>1, <1>3, <2>1, <3>1, <3>3
  <2>2. CASE ~gHook[x].unmounted
    <3>1. ns[x] = Zygote
      BY <1>1, <1>2, <1>5, <2>2 DEF SeeInv, SwitchedToRoot
    <3>2. mounts[Zygote] = deployed
      BY <1>1, <1>5, <2>2 DEF MountInv, UntouchedHas
    <3>3. QED
      BY <1>1, <1>3, <2>2, <3>1, <3>2
  <2>3. QED
    BY <2>1, <2>2
<1>6. QED
  BY <1>4, <1>5

LEMMA SeeStep == TypeOK /\ HomeInv /\ MountInv /\ SeeInv /\ [Next]_vars => SeeInv'
<1> SUFFICES ASSUME TypeOK, HomeInv, MountInv, SeeInv, [Next]_vars PROVE SeeInv'
  OBVIOUS
<1>1. ASSUME NEW x \in Child, Switched(x)' PROVE Kept(x) \/ UpdateMountNamespace(x)
  <2>1. Moves(x) /\ ~Early(x)
    BY <1>1, MovesStep DEF Switched, Early
  <2>2. ~Unshare(x)
    BY <1>1, Names DEF Switched, Unshare, TypeOK
  <2>3. QED
    BY <2>1, <2>2 DEF Moves
<1>2. ASSUME NEW x \in Child, Specialized(x)' PROVE Kept(x) \/ Unshare(x)
  <2>1. Moves(x) /\ ~Early(x)
    BY <1>2, MovesStep DEF Specialized, Early
  <2>2. ~UpdateMountNamespace(x)
    BY <1>2, Names DEF Specialized, UpdateMountNamespace, TypeOK
  <2>3. QED
    BY <2>1, <2>2 DEF Moves
<1>3. SwitchedToClean' /\ SwitchedToRoot'
  <2>1. ASSUME NEW x \in Child, Switched(x)'
        PROVE  /\ ShouldUnmount(x)' /\ ~Stranded(x)'
                  => ns'[x] \in {Zygote, "clean"} /\ mounts'[ns'[x]] \subseteq mounts'["clean"]
               /\ info'[x] = "root" /\ x \notin refused'
                  => IF gHook'[x].unmounted THEN cache'.Root # "none" /\ ns'[x] = cache'.Root
                                            ELSE ns'[x] = Zygote
    BY <1>1, <2>1, SwitchedIsKept, SwitchesRight
  <2>2. QED
    BY <2>1 DEF SwitchedToClean, SwitchedToRoot
<1>4. DenylistSeesNoTrace' /\ GrantedSeesMounts'
  <2>1. ASSUME NEW x \in Child, Specialized(x)'
        PROVE  /\ ShouldUnmount(x)' /\ ~Stranded(x)' => mounts'[x] \subseteq mounts'["clean"]
               /\ /\ info'[x] = "root" /\ x \notin refused' /\ gHook'[x].unmounted = gHook'[Zygote].unmounted
                  => IF gHook'[x].unmounted
                     THEN cache'.Root # "none" /\ mounts'[cache'.Root] \subseteq mounts'[x]
                     ELSE deployed' \subseteq mounts'[x]
    BY <1>2, <2>1, SeenIsKept, UnsharesRight
  <2>2. QED
    BY <2>1 DEF DenylistSeesNoTrace, GrantedSeesMounts
<1>5. QED
  BY <1>3, <1>4 DEF SeeInv

-----------------------------------------------------------------------------
(***************************************************************************)
(* The theorems.                                                           *)
(***************************************************************************)
LEMMA InvInit ==
  Init => HomeInv /\ HookInv /\ SweptFds /\ SigchldIsUnblocked /\ MountInv /\ SeeInv
<1>1. SUFFICES ASSUME Init
               PROVE  HomeInv /\ HookInv /\ SweptFds /\ SigchldIsUnblocked /\ MountInv /\ SeeInv
  OBVIOUS
<1> USE Names
<1>2. /\ \A p \in Process : pc[p] \in {"unborn", "boot", "running"}
      /\ \A p \in Process : kind[p] = IF p \in Child /\ pc[p] = "running" THEN "late" ELSE "none"
      /\ \A p \in Process : ns[p] = IF kind[p] = "late" THEN p ELSE Zygote
  BY <1>1 DEF Init
<1>3. /\ requests = {} /\ caching = "none" /\ refused = {} /\ blocked = {}
      /\ cache.Root \in {"none", "old"}
      /\ \A p \in Process : gHook[p] = NewHook /\ hooks[p] = {}
  BY <1>1 DEF Init
<1>4. HomeInv
  BY <1>2, <1>3 DEF HomeInv, AtHome, ZygoteStays, OwnNamespace, UnsharedOnce, ServersAsk,
                    NotYetCalled, RootIsSettled
<1>5. HookInv
  BY <1>2, <1>3 DEF HookInv, BackedUp, JniRestored, NotYetHooked, UnmappedIsUnhooked
<1>6. SweptFds /\ SigchldIsUnblocked
  BY <1>2, <1>3 DEF SweptFds, SigchldIsUnblocked
<1>7. mounts["clean"] = {} /\ mounts[Zygote] = deployed
  BY <1>1, <1>2 DEF Init
<1>8. MountInv
  BY <1>3, <1>7 DEF MountInv, CleanIsNew, UnmountedLeaves, UntouchedHas, NewHook
<1>9. SeeInv
  BY <1>2 DEF SeeInv, SwitchedToClean, SwitchedToRoot, Switched, DenylistSeesNoTrace,
              GrantedSeesMounts, Specialized
<1>10. QED
  BY <1>4, <1>5, <1>6, <1>8, <1>9

LEMMA HomeInvariance == Spec => [](TypeOK /\ HomeInv)
<1>1. Init => TypeOK /\ HomeInv
  BY TypeInit, InvInit
<1>2. TypeOK /\ HomeInv /\ [Next]_vars => (TypeOK /\ HomeInv)'
  <2>1. HomeInv => OwnNamespace /\ ServersAsk
    BY DEF HomeInv
  <2>2. QED
    BY <2>1, TypeStep, HomeStep
<1>3. QED
  BY <1>1, <1>2, PTL DEF Spec

(***************************************************************************)
(* Every variable keeps its type.  What is not obvious of it is that the   *)
(* daemon never keeps its own Clean namespace as Root: who asks for the    *)
(* cache is a system_server, which unshare's hook moves nowhere.           *)
(***************************************************************************)
THEOREM TypeCorrect == Spec => []TypeOK
BY HomeInvariance, PTL

(***************************************************************************)
(* Nothing leads into a library that is gone (restore_plt_hook and         *)
(* restore_zygote_hook) but methods of Zygote that could not be given      *)
(* back: no PLT hook is left in a process that has unmapped libzygisk.so,  *)
(* however many could not be installed or taken back before, and no method *)
(* of Zygote unless hook_jni_methods itself failed.                        *)
(***************************************************************************)
THEOREM NoHookOutlivesLibrary == Spec => []UnmappedIsUnhooked
<1>1. Init => HookInv
  BY InvInit
<1>2. TypeOK /\ HookInv /\ [Next]_vars => HookInv'
  BY HookStep
<1>3. HookInv => UnmappedIsUnhooked
  BY DEF HookInv
<1>4. QED
  BY <1>1, <1>2, <1>3, TypeCorrect, PTL DEF Spec

(***************************************************************************)
(* The framework accepts the descriptors of every process that was forked  *)
(* and could be swept (sanitize_fds), also those that a zygote which could *)
(* not fork hands to the child of its second fork.                         *)
(***************************************************************************)
THEOREM FdsAreAccepted == Spec => []FrameworkAcceptsFds
<1>1. Init => SweptFds
  BY InvInit
<1>2. TypeOK /\ SweptFds /\ [Next]_vars => SweptFds'
  BY FdStep
<1>3. SweptFds => FrameworkAcceptsFds
  BY Names DEF SweptFds, FrameworkAcceptsFds
<1>4. QED
  BY <1>1, <1>2, <1>3, TypeCorrect, PTL DEF Spec

(***************************************************************************)
(* SIGCHLD is blocked only between fork_pre and fork_post, in zygote and   *)
(* in every child.                                                         *)
(***************************************************************************)
THEOREM SigchldComesBack == Spec => []SigchldIsUnblocked
<1>1. Init => SigchldIsUnblocked
  BY InvInit
<1>2. TypeOK /\ SigchldIsUnblocked /\ [Next]_vars => SigchldIsUnblocked'
  BY BlockedStep
<1>3. QED
  BY <1>1, <1>2, TypeCorrect, PTL DEF Spec

LEMMA SeeInvariance == Spec => [](MountInv /\ SeeInv)
<1>1. Init => MountInv /\ SeeInv
  BY InvInit
<1>2. TypeOK /\ HomeInv /\ MountInv /\ SeeInv /\ [Next]_vars => (MountInv /\ SeeInv)'
  BY MountStep, SeeStep
<1>3. QED
  BY <1>1, <1>2, HomeInvariance, PTL DEF Spec

(***************************************************************************)
(* An app that must not see the traces sees none but those the daemon      *)
(* could not unmount (update_mount_namespace, unshare's hook), whichever   *)
(* child comes first, unless zygote was not clean and the app's move to    *)
(* the Clean namespace failed.                                             *)
(***************************************************************************)
THEOREM DenylistIsServed == Spec => []DenylistSeesNoTrace
<1>1. SeeInv => DenylistSeesNoTrace
  BY DEF SeeInv
<1>2. QED
  BY <1>1, SeeInvariance, PTL

(***************************************************************************)
(* An app with root sees all that was mounted, or all that the Root        *)
(* namespace has if zygote was unmounted before it was forked, unless its  *)
(* move there failed or zygote was unmounted after it was forked.          *)
(***************************************************************************)
THEOREM GrantedIsServed == Spec => []GrantedSeesMounts
<1>1. SeeInv => GrantedSeesMounts
  BY DEF SeeInv
<1>2. QED
  BY <1>1, SeeInvariance, PTL

(* If every mount can be removed the Clean namespace has none. *)
CleanIsEmpty == mounts["clean"] = {}

LEMMA CleanIsEmptyStep ==
  ASSUME "umount" \notin Faults, TypeOK, HomeInv, CleanIsEmpty, [Next]_vars
  PROVE  CleanIsEmpty'
<1> USE Names DEF CleanIsEmpty, TypeOK
<1>1. ASSUME mounts' = mounts PROVE CleanIsEmpty'
  BY <1>1
<1>2. ASSUME NEW p \in Process, SaveClean(p) PROVE CleanIsEmpty'
  BY <1>2 DEF SaveClean, CleanNamespace, Stuck
<1>3. ASSUME NEW p \in Process, Unshare(p) PROVE CleanIsEmpty'
  BY <1>3 DEF Unshare
<1>4. ASSUME NEW c \in Child, NEW a \in App, ForkAndSpecialize(c, a) PROVE CleanIsEmpty'
  <2>1. ns[Zygote] = Zygote
    BY DEF HomeInv, AtHome
  <2>2. mounts' = mounts \/ \E left : mounts' = [mounts EXCEPT ![Zygote] = left]
    BY <1>4, <2>1, ForkAppFacts
  <2>3. QED
    BY <2>2 DEF Zygote
<1>5. CASE ZygoteSteps
  BY <1>1, <1>4, <1>5, ForkServerFacts, ForkAgainFacts
  DEF ZygoteSteps, HookEntry, Strdup, TriggerZygoteHooks, ForkReturns, ForkUsap, nsVars
<1>6. CASE DaemonSteps
  BY <1>1, <1>2, <1>6 DEF DaemonSteps, SaveRoot, nsVars
<1>7. ASSUME NEW p \in Process, ProcessSteps(p) PROVE CleanIsEmpty'
  BY <1>1, <1>3, <1>7 DEF ProcessSteps, EntryRefused, PropertyGet, AppPre, ServerPre,
     SpecializeAppProcess, UpdateMountNamespace, SpecializePost, Unload, LateServer, nsVars
<1>8. CASE UNCHANGED vars
  BY <1>1, <1>8 DEF vars, nsVars
<1>9. QED
  BY <1>5, <1>6, <1>7, <1>8 DEF Next

(***************************************************************************)
(* Where no unmount fails, an app on the denylist sees no trace at all,    *)
(* whether it was moved to the Clean namespace or left in zygote's, unless *)
(* its move failed over a zygote that was not clean.                       *)
(***************************************************************************)
THEOREM DenylistSeesNothing ==
  ASSUME "umount" \notin Faults
  PROVE  Spec => [](\A p \in Child : Specialized(p) /\ ShouldUnmount(p) /\ ~Stranded(p)
                                     => mounts[p] = {})
<1>1. Init => CleanIsEmpty
  BY Names DEF Init, CleanIsEmpty
<1>2. TypeOK /\ HomeInv /\ CleanIsEmpty /\ [Next]_vars => CleanIsEmpty'
  BY CleanIsEmptyStep
<1>3. DenylistSeesNoTrace /\ CleanIsEmpty
      => \A p \in Child : Specialized(p) /\ ShouldUnmount(p) /\ ~Stranded(p)
                          => mounts[p] = {}
  BY DEF DenylistSeesNoTrace, CleanIsEmpty
<1>4. QED
  BY <1>1, <1>2, <1>3, HomeInvariance, DenylistIsServed, PTL DEF Spec
=============================================================================
