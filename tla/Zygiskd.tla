------------------------------- MODULE Zygiskd -------------------------------
(***************************************************************************)
(* zygiskd, the daemon: its module snapshot, the companions of the modules *)
(* and the clients that ask for both.                                      *)
(*                                                                         *)
(* One thread accepts connections in order.  It serves ZygoteRestart and   *)
(* RefreshModules itself and starts a thread for ReadModules,              *)
(* RequestCompanionSocket and GetModuleDir.  The threads share the         *)
(* snapshot behind an Arc that each takes once, and one mutex per module.  *)
(*                                                                         *)
(* A client is a zygote child that reads the modules when it starts and    *)
(* then asks for at most one companion or directory, by the index of a     *)
(* module in the list it read.  A companion is named after the client      *)
(* whose request spawned it.                                               *)
(***************************************************************************)
EXTENDS Naturals, Sequences, FiniteSets, SequencesExt

CONSTANTS
  Module,        \* names of modules
  Client,        \* clients, each of them started once
  MaxEdits,      \* bound: how often a module is installed, disabled, removed
  MaxRestarts,   \* bound: how many zygote restarts are reported
  MaxMissed,     \* bound: how many zygote restarts are not
  MaxRefreshes,  \* bound: how many RefreshModules the monitor sends
  Faults         \* which of AllFaults the environment may inject

(***************************************************************************)
(*   "scan"    the module directory cannot be read                         *)
(*   "memfd"   a module's library cannot be copied                         *)
(*   "spawn"   a companion cannot be spawned                               *)
(*   "death"   a companion dies                                            *)
(*   "peer"    a client asks after it dropped to an app's uid              *)
(***************************************************************************)
AllFaults == {"scan", "memfd", "spawn", "death", "peer"}

ASSUME ModuleAssumption == Module # {} /\ IsFiniteSet(Module)
ASSUME ClientAssumption == Client # {} /\ "none" \notin Client
ASSUME BoundsAssumption == MaxEdits \in Nat /\ MaxRestarts \in Nat /\ MaxMissed \in Nat
                            /\ MaxRefreshes \in Nat
ASSUME FaultsAssumption == Faults \subseteq AllFaults

VARIABLES
  disk,       \* what the module directory holds
  edits,      \* how often it was changed
  gen,        \* how many zygote restarts were reported
  missed,     \* how many were not
  refreshes,  \* how many RefreshModules were sent
  queue,      \* connections in the order the listener got them
  main,       \* where the accepting thread is
  snaps,      \* every snapshot published, the live one last
  origin,     \* what each of them was built for
  ignore,     \* ignore_disable
  slot,       \* Module::companion of each snapshot
  lock,       \* the mutexes around them
  worker,     \* the thread that serves each client
  companion,  \* what became of each companion
  client      \* what each client knows

diskVars  == <<disk, edits>>
sentVars  == <<gen, missed, refreshes>>
snapVars  == <<snaps, origin, ignore>>
lockVars  == <<slot, lock>>
vars == <<diskVars, sentVars, queue, main, snapVars, lockVars, worker, companion, client>>

Snap    == 1..(1 + MaxRestarts + MaxRefreshes)
Home    == Snap \X Module
Index   == 1..Cardinality(Module)
List    == SetToAllKPermutations(Module)
None    == "none"

Request == [act : {"ReadModules"}, from : Client, trusted : {TRUE}]
      \cup [act : {"RequestCompanionSocket", "GetModuleDir"}, from : Client,
            trusted : BOOLEAN]
      \cup [act : {"ZygoteRestart"}]
      \cup [act : {"RefreshModules"}, ignore_disable : BOOLEAN]

Live == Len(snaps)

NoWorker == [pc |-> "none", snap |-> 0, count |-> 0, mod |-> None]

(***************************************************************************)
(* load_modules: every module with a library that is not disabled, unless  *)
(* disable does not count, in the order the directory gives them.          *)
(***************************************************************************)
Loadable(ignore_disable) ==
  {m \in Module : disk[m] = "enabled" \/ (ignore_disable /\ disk[m] = "disabled")}

LoadModules(ignore_disable) ==
  IF "memfd" \in Faults
  THEN UNION {SetToSeqs(s) : s \in SUBSET Loadable(ignore_disable)}
  ELSE SetToSeqs(Loadable(ignore_disable))

(* main(): the first scan, or no modules if it fails. *)
Init ==
  /\ disk \in [Module -> {"absent", "enabled", "disabled"}] /\ edits = 0
  /\ gen = 0 /\ missed = 0 /\ refreshes = 0
  /\ queue = <<>> /\ main = [pc |-> "accept", todo |-> <<>>, why |-> None]
  /\ \E l \in LoadModules(FALSE) \cup (IF "scan" \in Faults THEN {<<>>} ELSE {}) :
       snaps = <<l>>
  /\ origin = <<"startup">> /\ ignore = FALSE
  /\ slot = [h \in Home |-> None] /\ lock = [h \in Home |-> None]
  /\ worker = [c \in Client |-> NoWorker]
  /\ companion = [c \in Client |-> [state |-> None, home |-> <<1, None>>, gen |-> 0]]
  /\ client = [c \in Client |-> [state |-> None, gen |-> 0, list |-> <<>>,
                                 index |-> 0, got |-> None, by |-> None]]

-----------------------------------------------------------------------------
(***************************************************************************)
(* The device: the module directory, zygote and its children, the monitor. *)
(***************************************************************************)
Edit(m, to) ==
  /\ edits < MaxEdits /\ disk[m] # to
  /\ disk' = [disk EXCEPT ![m] = to] /\ edits' = edits + 1
  /\ UNCHANGED <<sentVars, queue, main, snapVars, lockVars, worker, companion, client>>

(* A restart takes every child of the zygote with it. *)
ChildrenDie ==
  client' = [c \in Client |-> IF client[c].state = None THEN client[c]
                             ELSE [client[c] EXCEPT !.state = "dead"]]

(* The injector of a zygote caught at its exec reports the restart          *)
(* (handle_trace, ZygoteRestart) and waits for no answer.                   *)
ZygoteRestarts ==
  /\ gen < MaxRestarts
  /\ gen' = gen + 1
  /\ queue' = Append(queue, [act |-> "ZygoteRestart"])
  /\ ChildrenDie
  /\ UNCHANGED <<diskVars, missed, refreshes, main, snapVars, lockVars, worker, companion>>

(* That injector cannot connect, which it logs, or there is none: a zygote  *)
(* that a rearm attaches to later was never reported.                       *)
ZygoteRestartsUnreported ==
  /\ missed < MaxMissed
  /\ missed' = missed + 1
  /\ ChildrenDie
  /\ UNCHANGED <<diskVars, gen, refreshes, queue, main, snapVars, lockVars, worker,
                 companion>>

(* The rearm of a monitor whose daemon runs already (RefreshModules). *)
MonitorRefreshes(ignore_disable) ==
  /\ refreshes < MaxRefreshes
  /\ refreshes' = refreshes + 1
  /\ queue' = Append(queue, [act |-> "RefreshModules", ignore_disable |-> ignore_disable])
  /\ UNCHANGED <<diskVars, gen, missed, main, snapVars, lockVars, worker,
                 companion, client>>

(* ReadModules, at the start of a client. *)
ClientStarts(c) ==
  /\ client[c].state = None
  /\ client' = [client EXCEPT ![c].state = "reading", ![c].gen = gen]
  /\ queue' = Append(queue, [act |-> "ReadModules", from |-> c, trusted |-> TRUE])
  /\ UNCHANGED <<diskVars, sentVars, main, snapVars, lockVars, worker, companion>>

(* ConnectCompanion and GetModuleDir, with the index of a module it has. *)
ClientAsks(c, act, i) ==
  /\ client[c].state = "loaded" /\ i \in 1..Len(client[c].list)
  /\ client' = [client EXCEPT ![c].state = "asking", ![c].index = i]
  /\ \E trusted \in BOOLEAN :
       /\ ~trusted => "peer" \in Faults
       /\ queue' = Append(queue, [act |-> act, from |-> c, trusted |-> trusted])
  /\ UNCHANGED <<diskVars, sentVars, main, snapVars, lockVars, worker, companion>>

(* A connection that ends without a service, for a client still there. *)
Refuse(c) ==
  client' = IF client[c].state = "asking"
            THEN [client EXCEPT ![c].state = "refused"] ELSE client

-----------------------------------------------------------------------------
(***************************************************************************)
(* Companions.  A retired snapshot goes with its last reader and takes its *)
(* sockets along; a companion whose socket is closed exits.                *)
(***************************************************************************)
Held(s) ==
  \/ s = Live
  \/ \E c \in Client : worker[c].pc # None /\ worker[c].snap = s

SocketOpen(c) ==
  \/ worker[c].pc = "spawned"
  \/ \E h \in Home : slot[h] = c /\ Held(h[1])

(* run_companion up to its answer: 1, or 0 without an entry point. *)
CompanionAnswers(c) ==
  /\ companion[c].state = "starting"
  /\ \E s \in {"ready", "useless"} : companion' = [companion EXCEPT ![c].state = s]
  /\ UNCHANGED <<diskVars, sentVars, queue, main, snapVars, lockVars, worker, client>>

CompanionExits(c) ==
  /\ companion[c].state = "ready" /\ ~SocketOpen(c)
  /\ companion' = [companion EXCEPT ![c].state = "exited"]
  /\ UNCHANGED <<diskVars, sentVars, queue, main, snapVars, lockVars, worker, client>>

(* A module's code ends its companion. *)
CompanionDies(c) ==
  /\ "death" \in Faults /\ companion[c].state \in {"starting", "ready"}
  /\ companion' = [companion EXCEPT ![c].state = "exited"]
  /\ UNCHANGED <<diskVars, sentVars, queue, main, snapVars, lockVars, worker, client>>

(* reap_companions: pending_companions are those spawned and not reaped. *)
Reaped == [c \in Client |-> IF companion[c].state \in {"useless", "exited"}
                            THEN [companion[c] EXCEPT !.state = "reaped"]
                            ELSE companion[c]]

-----------------------------------------------------------------------------
(***************************************************************************)
(* The accepting thread: handle_connection.                                *)
(***************************************************************************)
Accepts(act) ==
  /\ main.pc = "accept" /\ queue # <<>> /\ Head(queue).act = act
  /\ queue' = Tail(queue)

(* A peer that is neither root nor system is turned away unread. *)
AcceptsUntrusted ==
  /\ \E act \in {"RequestCompanionSocket", "GetModuleDir"} : Accepts(act)
  /\ ~Head(queue).trusted
  /\ Refuse(Head(queue).from)
  /\ UNCHANGED <<diskVars, sentVars, main, snapVars, lockVars, worker, companion>>

AcceptsThreaded ==
  /\ \E act \in {"ReadModules", "RequestCompanionSocket", "GetModuleDir"} : Accepts(act)
  /\ Head(queue).trusted
  /\ worker' = [worker EXCEPT ![Head(queue).from] = [NoWorker EXCEPT !.pc = Head(queue).act]]
  /\ UNCHANGED <<diskVars, sentVars, main, snapVars, lockVars, companion, client>>

AcceptsRestart ==
  /\ Accepts("ZygoteRestart")
  /\ main' = [pc |-> "drop", todo |-> snaps[Live], why |-> "restart"]
  /\ UNCHANGED <<diskVars, sentVars, snapVars, lockVars, worker, companion, client>>

AcceptsRefresh ==
  /\ Accepts("RefreshModules")
  /\ ignore' = Head(queue).ignore_disable
  /\ main' = [pc |-> "scan", todo |-> <<>>, why |-> "refresh"]
  /\ UNCHANGED <<diskVars, sentVars, snaps, origin, lockVars, worker, companion, client>>

(* Mutant: the companions are left to the swap of the snapshot. *)
DropCompanionNot ==
  /\ main.pc = "drop"
  /\ main' = [main EXCEPT !.pc = "scan", !.todo = <<>>]
  /\ UNCHANGED <<diskVars, sentVars, queue, snapVars, lockVars, worker, companion, client>>

(* ZygoteRestart drops the companions one by one, each under its mutex. *)
DropCompanion ==
  /\ main.pc = "drop"
  /\ IF main.todo = <<>>
     THEN main' = [main EXCEPT !.pc = "scan"] /\ UNCHANGED slot
     ELSE LET h == <<Live, Head(main.todo)>> IN
          /\ lock[h] = None
          /\ slot' = [slot EXCEPT ![h] = None]
          /\ main' = [main EXCEPT !.todo = Tail(@)]
  /\ UNCHANGED <<diskVars, sentVars, queue, snapVars, lock, worker, companion, client>>

(* Mutant: the scan adds to the set it should replace. *)
RescanOnTop ==
  /\ main.pc = "scan"
  /\ \E l \in LoadModules(ignore) : snaps' = Append(snaps, snaps[Live] \o l)
  /\ origin' = Append(origin, main.why)
  /\ companion' = Reaped
  /\ main' = [pc |-> "accept", todo |-> <<>>, why |-> None]
  /\ UNCHANGED <<diskVars, sentVars, queue, ignore, lockVars, worker, client>>

(* rescan_modules publishes a complete snapshot or keeps the last one. *)
Rescan ==
  /\ main.pc = "scan"
  /\ \/ /\ \E l \in LoadModules(ignore) : snaps' = Append(snaps, l)
        /\ origin' = Append(origin, main.why)
        /\ companion' = Reaped
     \/ /\ "scan" \in Faults
        /\ UNCHANGED <<snaps, origin, companion>>
  /\ main' = [pc |-> "accept", todo |-> <<>>, why |-> None]
  /\ UNCHANGED <<diskVars, sentVars, queue, ignore, lockVars, worker, client>>

-----------------------------------------------------------------------------
(***************************************************************************)
(* The threads: handle_threaded_action.                                    *)
(***************************************************************************)
Ends(c) == worker' = [worker EXCEPT ![c] = NoWorker]

(* handle_read_modules: reap, take the snapshot, write the count. *)
ReadBegins(c) ==
  /\ worker[c].pc = "ReadModules"
  /\ companion' = Reaped
  /\ worker' = [worker EXCEPT ![c] = [@ EXCEPT !.pc = "reply", !.snap = Live,
                                               !.count = Len(snaps[Live])]]
  /\ UNCHANGED <<diskVars, sentVars, queue, main, snapVars, lockVars, client>>

(* Mutant: the reply is taken from whatever snapshot is live. *)
ReadEntryLive(c) ==
  /\ worker[c].pc = "reply"
  /\ LET n == Len(client[c].list) + 1 IN
       IF client[c].state = "reading" /\ n <= worker[c].count /\ n <= Len(snaps[Live])
       THEN /\ client' = [client EXCEPT ![c].list = Append(@, snaps[Live][n])]
            /\ UNCHANGED worker
       ELSE /\ client' = IF client[c].state = "reading"
                         THEN [client EXCEPT ![c].state = "loaded"] ELSE client
            /\ Ends(c)
  /\ UNCHANGED <<diskVars, sentVars, queue, main, snapVars, lockVars, companion>>

(* One entry of the reply; the last one, or a dead client, ends it. *)
ReadEntry(c) ==
  /\ worker[c].pc = "reply"
  /\ LET n == Len(client[c].list) + 1 IN
       IF client[c].state = "reading" /\ n <= worker[c].count
       THEN /\ client' = [client EXCEPT ![c].list = Append(@, snaps[worker[c].snap][n])]
            /\ UNCHANGED worker
       ELSE /\ client' = IF client[c].state = "reading"
                         THEN [client EXCEPT ![c].state = "loaded"] ELSE client
            /\ Ends(c)
  /\ UNCHANGED <<diskVars, sentVars, queue, main, snapVars, lockVars, companion>>

(* module_at finds nothing: the index is past the end of the live list. *)
OutOfRange(c) ==
  /\ worker[c].pc \in {"RequestCompanionSocket", "GetModuleDir"}
  /\ client[c].index > Len(snaps[Live])
  /\ Refuse(c) /\ Ends(c)
  /\ UNCHANGED <<diskVars, sentVars, queue, main, snapVars, lockVars, companion>>

Serve(c, m, by) ==
  client' = IF client[c].state = "asking"
            THEN [client EXCEPT ![c].state = "served", ![c].got = m, ![c].by = by]
            ELSE client

(* handle_get_module_dir: by name, if the directory is still there. *)
GetModuleDir(c) ==
  /\ worker[c].pc = "GetModuleDir" /\ client[c].index <= Len(snaps[Live])
  /\ LET m == snaps[Live][client[c].index] IN
       IF disk[m] = "absent" THEN Refuse(c) ELSE Serve(c, m, None)
  /\ Ends(c)
  /\ UNCHANGED <<diskVars, sentVars, queue, main, snapVars, lockVars, companion>>

(* Mutant: the index is taken one too far. *)
ResolvesNext(c) ==
  /\ worker[c].pc = "RequestCompanionSocket" /\ client[c].index < Len(snaps[Live])
  /\ worker' = [worker EXCEPT ![c] = [@ EXCEPT !.pc = "lock", !.snap = Live,
                                               !.mod = snaps[Live][client[c].index + 1]]]
  /\ UNCHANGED <<diskVars, sentVars, queue, main, snapVars, lockVars, companion, client>>

(* handle_request_companion_socket: the snapshot and the module. *)
Resolves(c) ==
  /\ worker[c].pc = "RequestCompanionSocket" /\ client[c].index <= Len(snaps[Live])
  /\ worker' = [worker EXCEPT ![c] = [@ EXCEPT !.pc = "lock", !.snap = Live,
                                               !.mod = snaps[Live][client[c].index]]]
  /\ UNCHANGED <<diskVars, sentVars, queue, main, snapVars, lockVars, companion, client>>

Slot(c) == <<worker[c].snap, worker[c].mod>>

(* Mutant: nobody waits for the mutex. *)
LocksAnyway(c) ==
  /\ worker[c].pc = "lock"
  /\ lock' = [lock EXCEPT ![Slot(c)] = c]
  /\ worker' = [worker EXCEPT ![c].pc = "locked"]
  /\ slot' = IF slot[Slot(c)] # None /\ companion[slot[Slot(c)]].state # "ready"
             THEN [slot EXCEPT ![Slot(c)] = None] ELSE slot
  /\ UNCHANGED <<diskVars, sentVars, queue, main, snapVars, companion, client>>

(* The mutex is taken; a companion whose socket hung up is forgotten. *)
Locks(c) ==
  /\ worker[c].pc = "lock" /\ lock[Slot(c)] = None
  /\ lock' = [lock EXCEPT ![Slot(c)] = c]
  /\ worker' = [worker EXCEPT ![c].pc = "locked"]
  /\ slot' = IF slot[Slot(c)] # None /\ companion[slot[Slot(c)]].state # "ready"
             THEN [slot EXCEPT ![Slot(c)] = None] ELSE slot
  /\ UNCHANGED <<diskVars, sentVars, queue, main, snapVars, companion, client>>

Unlocks(c) == lock' = [lock EXCEPT ![Slot(c)] = None]

(* spawn_companion, up to the read of the companion's answer. *)
Spawns(c) ==
  /\ worker[c].pc = "locked" /\ slot[Slot(c)] = None
  /\ \/ /\ companion' = [companion EXCEPT ![c] = [state |-> "starting", home |-> Slot(c),
                                                  gen |-> gen]]
        /\ worker' = [worker EXCEPT ![c].pc = "spawned"]
        /\ UNCHANGED <<lock, client>>
     \/ /\ "spawn" \in Faults
        /\ Unlocks(c) /\ Refuse(c) /\ Ends(c)
        /\ UNCHANGED companion
  /\ UNCHANGED <<diskVars, sentVars, queue, main, snapVars, slot>>

(* Mutant: the daemon's own end of the pair keeps the read from its EOF. *)
ReadsAnswerOnly(c) ==
  /\ worker[c].pc = "spawned"
  /\ \/ /\ companion[c].state = "ready"
        /\ slot' = [slot EXCEPT ![Slot(c)] = c]
        /\ worker' = [worker EXCEPT ![c].pc = "locked"]
        /\ UNCHANGED <<lock, client>>
     \/ /\ companion[c].state \in {"useless"}
        /\ Unlocks(c) /\ Refuse(c) /\ Ends(c)
        /\ UNCHANGED slot
  /\ UNCHANGED <<diskVars, sentVars, queue, main, snapVars, companion>>

(* The answer, or the EOF of a companion that died before giving one. *)
ReadsAnswer(c) ==
  /\ worker[c].pc = "spawned"
  /\ \/ /\ companion[c].state = "ready"
        /\ slot' = [slot EXCEPT ![Slot(c)] = c]
        /\ worker' = [worker EXCEPT ![c].pc = "locked"]
        /\ UNCHANGED <<lock, client>>
     \/ /\ companion[c].state \in {"useless", "exited", "reaped"}
        /\ Unlocks(c) /\ Refuse(c) /\ Ends(c)
        /\ UNCHANGED slot
  /\ UNCHANGED <<diskVars, sentVars, queue, main, snapVars, companion>>

(* The client's socket goes to the companion, which answers the client; a  *)
(* companion that died since leaves the client with an EOF.                *)
Connects(c) ==
  /\ worker[c].pc = "locked" /\ slot[Slot(c)] # None
  /\ IF companion[slot[Slot(c)]].state = "ready"
     THEN Serve(c, companion[slot[Slot(c)]].home[2], slot[Slot(c)])
     ELSE Refuse(c)
  /\ Unlocks(c) /\ Ends(c)
  /\ UNCHANGED <<diskVars, sentVars, queue, main, snapVars, slot, companion>>

-----------------------------------------------------------------------------
Device ==
  \/ \E m \in Module, to \in {"absent", "enabled", "disabled"} : Edit(m, to)
  \/ ZygoteRestarts \/ ZygoteRestartsUnreported
  \/ \E ignore_disable \in BOOLEAN : MonitorRefreshes(ignore_disable)
  \/ \E c \in Client : ClientStarts(c)
  \/ \E c \in Client, i \in Index, act \in {"RequestCompanionSocket", "GetModuleDir"} :
       ClientAsks(c, act, i)

Main == AcceptsUntrusted \/ AcceptsThreaded \/ AcceptsRestart \/ AcceptsRefresh
        \/ DropCompanion \/ Rescan

Worker(c) ==
  \/ ReadBegins(c) \/ ReadEntry(c) \/ OutOfRange(c) \/ GetModuleDir(c)
  \/ Resolves(c) \/ Locks(c) \/ Spawns(c) \/ ReadsAnswer(c) \/ Connects(c)

Companion(c) == CompanionAnswers(c) \/ CompanionExits(c)

Next == Device \/ Main \/ \E c \in Client : Worker(c) \/ Companion(c) \/ CompanionDies(c)

Spec == Init /\ [][Next]_vars

(***************************************************************************)
(* Threads run when they can, a companion gets done with loading its       *)
(* library (nothing in the daemon bounds that wait) and notices that its   *)
(* socket was closed.  No companion has to die.                            *)
(***************************************************************************)
FairSpec ==
  /\ Spec
  /\ WF_vars(Main)
  /\ \A c \in Client : WF_vars(Worker(c)) /\ WF_vars(Companion(c))

-----------------------------------------------------------------------------
(* Every variable has its type. *)
TypeOK ==
  /\ disk \in [Module -> {"absent", "enabled", "disabled"}]
  /\ edits \in 0..MaxEdits /\ gen \in 0..MaxRestarts /\ refreshes \in 0..MaxRefreshes
  /\ missed \in 0..MaxMissed
  /\ queue \in Seq(Request)
  /\ main \in [pc : {"accept", "drop", "scan"}, todo : List,
               why : {None, "restart", "refresh"}]
  /\ Live \in Snap /\ snaps \in [1..Live -> List]
  /\ origin \in [1..Live -> {"startup", "restart", "refresh"}]
  /\ ignore \in BOOLEAN
  /\ slot \in [Home -> Client \cup {None}] /\ lock \in [Home -> Client \cup {None}]
  /\ worker \in [Client -> [pc : {None, "ReadModules", "RequestCompanionSocket",
                                  "GetModuleDir", "reply", "lock", "locked", "spawned"},
                            snap : {0} \cup Snap, count : 0..Cardinality(Module),
                            mod : Module \cup {None}]]
  /\ companion \in [Client -> [state : {None, "starting", "ready", "useless", "exited",
                                        "reaped"},
                               home : Snap \X (Module \cup {None}), gen : 0..MaxRestarts]]
  /\ client \in [Client -> [state : {None, "reading", "loaded", "asking", "served",
                                     "refused", "dead"},
                            gen : 0..MaxRestarts, list : List,
                            index : {0} \cup Index, got : Module \cup {None},
                            by : Client \cup {None}]]

(***************************************************************************)
(* "One snapshot for the whole reply": what a client has read is all of    *)
(* one snapshot, even if a refresh lands mid-reply (handle_read_modules).  *)
(***************************************************************************)
ReplyIsOneSnapshot ==
  \A c \in Client : client[c].state \in {"loaded", "asking", "served", "refused"} =>
    \E s \in 1..Live : client[c].list = snaps[s]

(***************************************************************************)
(* A module of a snapshot has at most one companion that is loading or has *)
(* a socket open, however many clients ask at once (Module::companion).    *)
(***************************************************************************)
OneCompanionPerModule ==
  \A c, d \in Client :
    /\ companion[c].state \in {"starting", "ready"} /\ SocketOpen(c)
    /\ companion[d].state \in {"starting", "ready"} /\ SocketOpen(d)
    /\ companion[c].home = companion[d].home
    => c = d

(***************************************************************************)
(* No client is served by a companion of before the last restart that was  *)
(* reported when it started: ZygoteRestart drops them "first and           *)
(* unconditionally", also when the rescan after it fails                   *)
(* (handle_connection).  A restart that is not reported drops none, and     *)
(* the companions of before it go on to serve whoever asks after it.        *)
(***************************************************************************)
CompanionsAreFresh ==
  \A c \in Client : client[c].state = "served" /\ client[c].by # None
    => companion[client[c].by].gen >= client[c].gen

(***************************************************************************)
(* A client gets the module it asked for: "a module handle is an index     *)
(* into the list its process read at startup", and a zygote restart is     *)
(* "the only safe point to swap the set" (handle_connection).              *)
(***************************************************************************)
RightModule ==
  \A c \in Client : client[c].state = "served" => client[c].got = client[c].list[client[c].index]

(* Zygote restarts alone never give a client another module than the one   *)
(* it asked for; it takes a RefreshModules to do that (module_at).         *)
RestartsKeepHandles == RightModule \/ \E s \in 1..Live : origin[s] = "refresh"

(* Every restart and every refresh is served: the accepting thread gets    *)
(* every mutex it waits for, and back to its queue (ZygoteRestart).        *)
AcceptsAgain == []<>(main.pc = "accept")

(***************************************************************************)
(* Every client's request is answered, served or refused, unless a restart *)
(* ends the client: no thread is left waiting for a companion that died.   *)
(***************************************************************************)
RequestsAnswered ==
  \A c \in Client : client[c].state = "asking" ~> client[c].state # "asking"

(***************************************************************************)
(* "A companion whose socket is closed has no remaining caller, so it      *)
(* exits": none outlives a restart that was reported.                      *)
(***************************************************************************)
OldCompanionsExit ==
  \A c \in Client : companion[c].gen < gen ~>
    companion[c].state \notin {"starting", "ready"} \/ companion[c].gen = gen
=============================================================================
