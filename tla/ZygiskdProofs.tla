--------------------------- MODULE ZygiskdProofs ---------------------------
(***************************************************************************)
(* What is proved of Zygiskd for every finite set of modules, every set of *)
(* clients and every bound.  The theorems are at the end; the invariant    *)
(* they rest on is given first, then what each action does field by field, *)
(* then that each part of the invariant is preserved.                      *)
(***************************************************************************)
EXTENDS Zygiskd, FiniteSetTheorems, TLAPS

(* The lists: finite sequences of modules without a repetition. *)
IsList(l) ==
  /\ l \in Seq(Module)
  /\ \A i, j \in 1..Len(l) : l[i] = l[j] => i = j

(* An order in which a directory with these modules may be read. *)
LEMMA SeqsOfSubset ==
  ASSUME NEW s \in SUBSET Module, NEW l \in SetToSeqs(s)
  PROVE  IsList(l) /\ l \in List /\ Len(l) \in 0..Cardinality(Module)
<1>1. IsFiniteSet(s) /\ Cardinality(s) \in Nat /\ Cardinality(s) <= Cardinality(Module)
      /\ Cardinality(Module) \in Nat
  BY FS_Subset, FS_CardinalityType, ModuleAssumption
<1>2. l \in [1..Cardinality(s) -> s]
      /\ \A i, j \in 1..Cardinality(s) : i # j => l[i] # l[j]
  BY DEF SetToSeqs
<1>3. l \in Seq(Module) /\ Len(l) = Cardinality(s)
  BY <1>1, <1>2
<1> QED BY <1>1, <1>2, <1>3 DEF IsList, List, SetToAllKPermutations

(* What a snapshot and a list of handles may be, seen as a sequence. *)
LEMMA ListIsList ==
  ASSUME NEW l
  PROVE  l \in List <=> IsList(l)
<1>1. ASSUME l \in List PROVE IsList(l)
  <2>1. PICK s \in SUBSET Module : l \in SetToSeqs(s)
    BY <1>1 DEF List, SetToAllKPermutations
  <2> QED BY <2>1, SeqsOfSubset
<1>2. ASSUME IsList(l) PROVE l \in List
  <2> DEFINE s == {l[i] : i \in 1..Len(l)}
  <2>1. l \in [1..Len(l) -> Module] /\ Len(l) \in Nat
    BY <1>2 DEF IsList
  <2>2. s \in SUBSET Module
    BY <2>1
  <2>3. l \in [1..Len(l) -> s] /\ \A i, j \in 1..Len(l) : l[i] = l[j] => i = j
    BY <1>2, <2>1 DEF IsList
  <2>4. ExistsBijection(1..Len(l), s)
    <3>1. l \in Injection(1..Len(l), s)
      BY <2>3 DEF Injection, IsInjective
    <3>2. l \in Surjection(1..Len(l), s)
      BY <2>3 DEF Surjection
    <3> QED BY <3>1, <3>2 DEF ExistsBijection, Bijection
  <2>5. Cardinality(s) = Len(l)
    BY <2>1, <2>4, FS_CountingElements
  <2>6. l \in SetToSeqs(s)
    BY <2>3, <2>5 DEF SetToSeqs
  <2> QED BY <2>2, <2>6 DEF List, SetToAllKPermutations
<1> QED BY <1>1, <1>2

-----------------------------------------------------------------------------
(***************************************************************************)
(* The inductive invariant, in the parts the proofs need one at a time.    *)
(***************************************************************************)
Types ==
  /\ disk \in [Module -> {"absent", "enabled", "disabled"}]
  /\ edits \in 0..MaxEdits /\ gen \in 0..MaxRestarts /\ refreshes \in 0..MaxRefreshes
  /\ queue \in Seq(Request)
  /\ main \in [pc : {"accept", "drop", "scan"}, todo : List,
               why : {None, "restart", "refresh"}]
  /\ snaps \in Seq(List) /\ snaps # <<>>
  /\ origin \in Seq({"startup", "restart", "refresh"}) /\ Len(origin) = Live
  /\ ignore \in BOOLEAN

LockTypes ==
  slot \in [Home -> Client \cup {None}] /\ lock \in [Home -> Client \cup {None}]

WorkerTypes ==
  worker \in [Client -> [pc : {None, "ReadModules", "RequestCompanionSocket",
                               "GetModuleDir", "reply", "lock", "locked", "spawned"},
                         snap : {0} \cup Snap, count : 0..Cardinality(Module),
                         mod : Module \cup {None}]]

CompanionTypes ==
  companion \in [Client -> [state : {None, "starting", "ready", "useless", "exited",
                                     "reaped"},
                            home : Snap \X (Module \cup {None}), gen : 0..MaxRestarts]]

ClientTypes ==
  client \in [Client -> [state : {None, "reading", "loaded", "asking", "served",
                                  "refused", "dead"},
                         gen : 0..MaxRestarts, list : List,
                         index : {0} \cup Index, got : Module \cup {None},
                         by : Client \cup {None}]]

ThreadTypes == LockTypes /\ WorkerTypes /\ CompanionTypes /\ ClientTypes

(* Each snapshot beyond the first is the work of a restart or a refresh    *)
(* that was taken off the queue.                                           *)
Orders(q) == {i \in 1..Len(q) : q[i].act \in {"ZygoteRestart", "RefreshModules"}}

SnapsBounded ==
  Live + Cardinality(Orders(queue)) + (IF main.pc = "accept" THEN 0 ELSE 1)
    <= 1 + gen + refreshes

(* What the accepting thread is busy with. *)
MainKnowsWhy ==
  /\ main.pc = "accept" => main.why = None
  /\ main.pc = "drop" => main.why = "restart"
  /\ main.pc = "scan" => main.why # None

Asks == {"RequestCompanionSocket", "GetModuleDir"}

(* The connection at place i of the queue is one of c's. *)
From(i, c) == queue[i].act \in Asks \cup {"ReadModules"} /\ queue[i].from = c

Place == 1..Len(queue)

(* A client has one connection at a time, and one thread serves it. *)
OneAtATime ==
  \A c \in Client :
    /\ \A i, j \in Place : From(i, c) /\ From(j, c) => i = j
    /\ worker[c].pc # None => \A i \in Place : ~From(i, c)
    /\ client[c].state \in {None, "loaded", "served", "refused"}
         => worker[c].pc = None /\ \A i \in Place : ~From(i, c)
    /\ client[c].state = "reading"
         => /\ worker[c].pc \in {None, "ReadModules", "reply"}
            /\ \A i \in Place : From(i, c) => queue[i].act = "ReadModules"

(* A request for a module carries the index of one. *)
IndexGiven ==
  \A c \in Client :
    /\ worker[c].pc \in Asks => client[c].index # 0
    /\ \A i \in Place : From(i, c) /\ queue[i].act \in Asks => client[c].index # 0
    /\ client[c].gen <= gen

(* h is the Module of a snapshot that was published. *)
Listed(h) == h[1] \in 1..Live /\ \E i \in 1..Len(snaps[h[1]]) : snaps[h[1]][i] = h[2]

HasModule(c) == worker[c].pc \in {"lock", "locked", "spawned"}

Published ==
  /\ \A h \in Home : slot[h] # None => Listed(h)
  /\ \A c \in Client : HasModule(c) => Listed(Slot(c))

(* A thread past the mutex has it. *)
HoldsLock == \A c \in Client : worker[c].pc \in {"locked", "spawned"} => lock[Slot(c)] = c

(* A companion is known to its own module only, while it is being spawned  *)
(* to nobody, and before that it is not there.                             *)
AtHome ==
  /\ \A h \in Home : slot[h] # None =>
       companion[slot[h]].home = h /\ companion[slot[h]].state # None
  /\ \A c \in Client : worker[c].pc = "spawned" =>
       /\ slot[Slot(c)] = None
       /\ companion[c].home = Slot(c) /\ companion[c].state # None

NotSpawned ==
  \A c \in Client :
    \/ client[c].state \in {None, "reading", "loaded"}
    \/ worker[c].pc \in Asks \cup {"ReadModules", "reply", "lock"}
    \/ worker[c].pc = "locked" /\ slot[Slot(c)] = None
    \/ \E i \in Place : From(i, c)
    => companion[c].state = None

(* The reply so far is a prefix of one snapshot. *)
ReplySoFar(c) ==
  /\ worker[c].pc = "reply" =>
       /\ worker[c].snap \in 1..Live
       /\ worker[c].count = Len(snaps[worker[c].snap])
       /\ client[c].state = "reading" =>
            /\ Len(client[c].list) <= worker[c].count
            /\ \A i \in 1..Len(client[c].list) :
                 client[c].list[i] = snaps[worker[c].snap][i]
  /\ client[c].state = None \/ (client[c].state = "reading" /\ worker[c].pc # "reply")
       => client[c].list = <<>>

ReplyIsPrefix == \A c \in Client : ReplySoFar(c)

-----------------------------------------------------------------------------
(***************************************************************************)
(* Freshness.  An old companion of a live module is one a client of        *)
(* framework g must not be given; it is either about to be dropped or has  *)
(* the restart that will drop it ahead of every client's connection.       *)
(***************************************************************************)
Serves(d, h) == slot[h] = d \/ (worker[d].pc = "spawned" /\ Slot(d) = h)

Old(m, g) == \E d \in Client : Serves(d, <<Live, m>>) /\ companion[d].gen < g

Dropping(m) == main.pc = "drop" /\ \E k \in 1..Len(main.todo) : main.todo[k] = m

RestartAt(i) == queue[i].act = "ZygoteRestart"

OldIsDropped ==
  \A m \in Module : Old(m, gen) => Dropping(m) \/ \E i \in Place : RestartAt(i)

RestartComesFirst ==
  \A m \in Module, c \in Client : \A i \in Place :
    From(i, c) /\ Old(m, client[c].gen) => Dropping(m) \/ \E j \in 1..(i - 1) : RestartAt(j)

FreshOnAccept ==
  \A c \in Client, m \in Module :
    worker[c].pc = "RequestCompanionSocket" => ~Old(m, client[c].gen)

FreshOnceHeld ==
  \A c, d \in Client :
    HasModule(c) /\ Serves(d, Slot(c)) => companion[d].gen >= client[c].gen

-----------------------------------------------------------------------------
(***************************************************************************)
(* Handles.  A client that lives has no restart behind it, so between its  *)
(* reading and its asking only a refresh replaces the snapshot.            *)
(***************************************************************************)
NoRestartBehind ==
  \A c \in Client :
    /\ \/ client[c].state \in {"loaded", "asking"}
       \/ client[c].state = "reading" /\ worker[c].pc # None
       => main.why # "restart" /\ \A i \in Place : ~RestartAt(i)
    /\ client[c].state = "reading"
         => \A i, j \in Place : From(i, c) /\ i < j => ~RestartAt(j)

Refreshed == \E s \in 1..Live : origin[s] = "refresh"

HandlesAreLive ==
  Refreshed \/ \A c \in Client :
    /\ client[c].state \in {"loaded", "asking"} => client[c].list = snaps[Live]
    /\ client[c].state = "reading" /\ worker[c].pc = "reply" => worker[c].snap = Live
    /\ client[c].state = "asking" /\ HasModule(c)
         => worker[c].mod = client[c].list[client[c].index]

Inv ==
  /\ Types /\ ThreadTypes /\ SnapsBounded /\ MainKnowsWhy
  /\ OneAtATime /\ IndexGiven /\ Published /\ HoldsLock /\ AtHome /\ NotSpawned
  /\ ReplyIsPrefix
  /\ OldIsDropped /\ RestartComesFirst /\ FreshOnAccept /\ FreshOnceHeld
  /\ NoRestartBehind /\ HandlesAreLive

-----------------------------------------------------------------------------
(***************************************************************************)
(* Lists and the queue.                                                    *)
(***************************************************************************)
USE DEF None

LEMMA EmptyIsList == <<>> \in List
<1>1. IsList(<<>>)
  BY DEF IsList
<1> QED BY <1>1, ListIsList

LEMMA ListFacts ==
  ASSUME NEW l \in List
  PROVE  /\ l \in Seq(Module) /\ Len(l) \in 0..Cardinality(Module)
         /\ Cardinality(Module) \in Nat
<1>1. PICK s \in SUBSET Module : l \in SetToSeqs(s)
  BY DEF List, SetToAllKPermutations
<1> QED BY <1>1, SeqsOfSubset, ListIsList, FS_CardinalityType, ModuleAssumption DEF IsList

LEMMA TailIsList ==
  ASSUME NEW l \in List, l # <<>>
  PROVE  Tail(l) \in List
<1>1. IsList(l)
  BY ListIsList
<1>2. IsList(Tail(l))
  BY <1>1 DEF IsList
<1> QED BY <1>2, ListIsList

(* One more entry of a snapshot, after those that were read before it. *)
LEMMA LongerPrefix ==
  ASSUME NEW l \in List, NEW s \in List, Len(l) < Len(s),
         \A i \in 1..Len(l) : l[i] = s[i]
  PROVE  /\ Append(l, s[Len(l) + 1]) \in List
         /\ Len(Append(l, s[Len(l) + 1])) = Len(l) + 1
         /\ \A i \in 1..(Len(l) + 1) : Append(l, s[Len(l) + 1])[i] = s[i]
<1>1. IsList(l) /\ IsList(s)
  BY ListIsList
<1> DEFINE n == Append(l, s[Len(l) + 1])
<1>2. n \in Seq(Module) /\ Len(n) = Len(l) + 1 /\ \A i \in 1..(Len(l) + 1) : n[i] = s[i]
  BY <1>1 DEF IsList
<1>3. IsList(n)
  <2>1. Len(l) \in Nat /\ Len(s) \in Nat
    BY <1>1 DEF IsList
  <2> QED BY <1>1, <1>2, <2>1 DEF IsList
<1> QED BY <1>2, <1>3, ListIsList

LEMMA SameLists ==
  ASSUME NEW l \in List, NEW s \in List, Len(l) = Len(s),
         \A i \in 1..Len(l) : l[i] = s[i]
  PROVE  l = s
<1>1. l \in Seq(Module) /\ s \in Seq(Module)
  BY ListIsList DEF IsList
<1> QED BY <1>1

(* load_modules gives a list, whatever it finds. *)
LEMMA LoadModulesGivesList ==
  ASSUME NEW b, NEW l \in LoadModules(b)
  PROVE  l \in List
<1>1. Loadable(b) \in SUBSET Module
  BY DEF Loadable
<1>2. PICK s \in SUBSET Loadable(b) : l \in SetToSeqs(s)
  BY DEF LoadModules
<1> QED BY <1>1, <1>2, SeqsOfSubset

LEMMA Enqueue ==
  ASSUME NEW q \in Seq(Request), NEW r \in Request
  PROVE  /\ Append(q, r) \in Seq(Request) /\ Len(Append(q, r)) = Len(q) + 1
         /\ \A i \in 1..Len(q) : Append(q, r)[i] = q[i]
         /\ Append(q, r)[Len(q) + 1] = r
OBVIOUS

LEMMA Dequeue ==
  ASSUME NEW q \in Seq(Request), q # <<>>
  PROVE  /\ Tail(q) \in Seq(Request) /\ Len(Tail(q)) = Len(q) - 1 /\ Len(q) \in Nat \ {0}
         /\ \A i \in 1..(Len(q) - 1) : Tail(q)[i] = q[i + 1]
         /\ Head(q) = q[1] /\ q[1] \in Request
OBVIOUS

LEMMA OrdersFinite ==
  ASSUME NEW q \in Seq(Request)
  PROVE  IsFiniteSet(Orders(q)) /\ Cardinality(Orders(q)) \in Nat
<1>1. Len(q) \in Nat
  OBVIOUS
<1>2. IsFiniteSet(1..Len(q)) /\ Orders(q) \in SUBSET (1..Len(q))
  BY <1>1, FS_Interval DEF Orders
<1> QED BY <1>2, FS_Subset, FS_CardinalityType

LEMMA OrdersEnqueue ==
  ASSUME NEW q \in Seq(Request), NEW r \in Request
  PROVE  Cardinality(Orders(Append(q, r))) =
           Cardinality(Orders(q)) +
             (IF r.act \in {"ZygoteRestart", "RefreshModules"} THEN 1 ELSE 0)
<1> DEFINE n == Append(q, r)
<1>1. Len(n) = Len(q) + 1 /\ Len(q) \in Nat /\ n[Len(q) + 1] = r
      /\ \A i \in 1..Len(q) : n[i] = q[i]
  BY Enqueue
<1> HIDE DEF n
<1>2. CASE r.act \in {"ZygoteRestart", "RefreshModules"}
  <2>1. Orders(n) = Orders(q) \cup {Len(q) + 1}
    BY <1>1, <1>2 DEF Orders
  <2>2. Len(q) + 1 \notin Orders(q)
    BY <1>1 DEF Orders
  <2> QED BY <1>2, <2>1, <2>2, OrdersFinite, FS_AddElement DEF n
<1>3. CASE r.act \notin {"ZygoteRestart", "RefreshModules"}
  <2>1. Orders(n) = Orders(q)
    BY <1>1, <1>3 DEF Orders
  <2> QED BY <1>3, <2>1, OrdersFinite DEF n
<1> QED BY <1>2, <1>3

LEMMA OrdersDequeue ==
  ASSUME NEW q \in Seq(Request), q # <<>>
  PROVE  Cardinality(Orders(Tail(q))) =
           Cardinality(Orders(q)) -
             (IF Head(q).act \in {"ZygoteRestart", "RefreshModules"} THEN 1 ELSE 0)
<1> DEFINE t == Tail(q)
<1>1. Len(t) = Len(q) - 1 /\ Len(q) \in Nat \ {0} /\ Head(q) = q[1]
      /\ t \in Seq(Request) /\ \A i \in 1..(Len(q) - 1) : t[i] = q[i + 1]
  BY Dequeue
<1> HIDE DEF t
<1>2. ExistsBijection(Orders(t), Orders(q) \ {1})
  <2> DEFINE f == [i \in Orders(t) |-> i + 1]
  <2>1. f \in [Orders(t) -> Orders(q) \ {1}]
    BY <1>1 DEF Orders
  <2>2. \A i, j \in Orders(t) : f[i] = f[j] => i = j
    BY DEF Orders
  <2>3. \A k \in Orders(q) \ {1} : \E i \in Orders(t) : f[i] = k
    <3> SUFFICES ASSUME NEW k \in Orders(q) \ {1}
                 PROVE  k - 1 \in Orders(t) /\ f[k - 1] = k
      BY Zenon
    <3> QED BY <1>1 DEF Orders
  <2>4. f \in Injection(Orders(t), Orders(q) \ {1})
    BY <2>1, <2>2 DEF Injection, IsInjective
  <2>5. f \in Surjection(Orders(t), Orders(q) \ {1})
    BY <2>1, <2>3 DEF Surjection
  <2> QED BY <2>4, <2>5 DEF ExistsBijection, Bijection
<1>3. Cardinality(Orders(t)) = Cardinality(Orders(q) \ {1})
  BY <1>1, <1>2, OrdersFinite, FS_Bijection
<1>4. 1 \in Orders(q) <=> Head(q).act \in {"ZygoteRestart", "RefreshModules"}
  BY <1>1 DEF Orders
<1>5. Cardinality(Orders(q) \ {1}) =
        IF 1 \in Orders(q) THEN Cardinality(Orders(q)) - 1 ELSE Cardinality(Orders(q))
  BY OrdersFinite, FS_RemoveElement
<1>6. Cardinality(Orders(q)) \in Nat
  BY OrdersFinite
<1> QED BY <1>3, <1>4, <1>5, <1>6 DEF t

-----------------------------------------------------------------------------
(***************************************************************************)
(* Types of the queue, of the accepting thread and of the snapshots.       *)
(***************************************************************************)
LEMMA CardinalityOfModules == Cardinality(Module) \in Nat
BY FS_CardinalityType, ModuleAssumption

(* The live snapshot, and what an action on the queue does to it. *)
LEMMA LiveFacts ==
  ASSUME Types, SnapsBounded
  PROVE  Live \in Snap /\ Live \in Nat /\ snaps[Live] \in List
<1>1. Live \in Nat /\ Live # 0
  BY DEF Types, Live
<1>2. Cardinality(Orders(queue)) \in Nat
  BY OrdersFinite DEF Types
<1>3. Live <= 1 + gen + refreshes
  BY <1>1, <1>2 DEF SnapsBounded, Types
<1>4. Live \in Snap
  BY <1>1, <1>3, BoundsAssumption DEF Types, Snap
<1> QED BY <1>1, <1>4 DEF Types, Live

LEMMA AcceptsFacts ==
  ASSUME Types, NEW act, Accepts(act)
  PROVE  /\ queue' \in Seq(Request) /\ Len(queue') = Len(queue) - 1
         /\ Len(queue) \in Nat \ {0}
         /\ \A i \in 1..(Len(queue) - 1) : queue'[i] = queue[i + 1]
         /\ Head(queue) = queue[1] /\ queue[1] \in Request /\ queue[1].act = act
         /\ main.pc = "accept"
         /\ Cardinality(Orders(queue)) \in Nat
         /\ Cardinality(Orders(queue')) = Cardinality(Orders(queue)) -
              (IF act \in {"ZygoteRestart", "RefreshModules"} THEN 1 ELSE 0)
<1>1. queue \in Seq(Request) /\ queue # <<>> /\ queue' = Tail(queue) /\ Head(queue).act = act
      /\ main.pc = "accept"
  BY DEF Types, Accepts
<1>2. /\ queue' \in Seq(Request) /\ Len(queue') = Len(queue) - 1 /\ Len(queue) \in Nat \ {0}
      /\ \A i \in 1..(Len(queue) - 1) : queue'[i] = queue[i + 1]
      /\ Head(queue) = queue[1] /\ queue[1] \in Request
  BY <1>1, Dequeue
<1>3. Cardinality(Orders(queue)) \in Nat /\ Cardinality(Orders(queue')) =
        Cardinality(Orders(queue)) -
          (IF act \in {"ZygoteRestart", "RefreshModules"} THEN 1 ELSE 0)
  BY <1>1, OrdersFinite, OrdersDequeue
<1> QED BY <1>1, <1>2, <1>3

LEMMA RequestShapes ==
  /\ \A r \in Request : r.act \in {"ReadModules"} \cup Asks => r.from \in Client
  /\ \A r \in Request : r.act \in {"ReadModules"} \cup Asks => r.trusted \in BOOLEAN
  /\ \A r \in Request : r.act = "ReadModules" => r.trusted = TRUE
  /\ \A r \in Request : r.act = "RefreshModules" => r.ignore_disable \in BOOLEAN
  /\ \A c \in Client : [act |-> "ReadModules", from |-> c, trusted |-> TRUE] \in Request
  /\ \A c \in Client, b \in BOOLEAN, a \in Asks :
       [act |-> a, from |-> c, trusted |-> b] \in Request
  /\ [act |-> "ZygoteRestart"] \in Request
  /\ \A b \in BOOLEAN : [act |-> "RefreshModules", ignore_disable |-> b] \in Request
BY DEF Request, Asks

(* What a connection that is queued looks like from the other parts. *)
LEMMA AppendFacts ==
  ASSUME Types, NEW r \in Request, queue' = Append(queue, r)
  PROVE  /\ queue' \in Seq(Request) /\ Len(queue') = Len(queue) + 1 /\ Len(queue) \in Nat
         /\ \A i \in 1..Len(queue) : queue'[i] = queue[i]
         /\ queue'[Len(queue) + 1] = r
         /\ Cardinality(Orders(queue)) \in Nat
         /\ Cardinality(Orders(queue')) = Cardinality(Orders(queue)) +
              (IF r.act \in {"ZygoteRestart", "RefreshModules"} THEN 1 ELSE 0)
<1>1. queue \in Seq(Request)
  BY DEF Types
<1>2. Len(queue) \in Nat
  BY <1>1
<1> QED BY <1>1, <1>2, Enqueue, OrdersEnqueue, OrdersFinite

(* The accepting thread, the queue and the snapshots keep their types, and *)
(* there are no more snapshots than there were reasons for one.            *)
LEMMA MainStep ==
  ASSUME Types, SnapsBounded, MainKnowsWhy, [Next]_vars
  PROVE  Types' /\ SnapsBounded' /\ MainKnowsWhy'
<1> USE BoundsAssumption
<1>0. Live \in Nat /\ Live \in Snap /\ snaps[Live] \in List
  BY LiveFacts
<1>1. ASSUME NEW m \in Module, NEW to \in {"absent", "enabled", "disabled"}, Edit(m, to)
      PROVE  Types' /\ SnapsBounded' /\ MainKnowsWhy'
  <2>1. disk' \in [Module -> {"absent", "enabled", "disabled"}] /\ edits' \in 0..MaxEdits
    BY <1>1 DEF Edit, Types
  <2>2. UNCHANGED <<sentVars, queue, main, snapVars>>
    BY <1>1 DEF Edit
  <2> QED BY <2>1, <2>2 DEF Types, SnapsBounded, MainKnowsWhy, Live, sentVars, snapVars
<1>2. CASE ZygoteRestarts
  <2>1. [act |-> "ZygoteRestart"] \in Request
    BY RequestShapes
  <2>2. /\ queue' \in Seq(Request) /\ Cardinality(Orders(queue)) \in Nat
        /\ Cardinality(Orders(queue')) = Cardinality(Orders(queue)) + 1
    BY <1>2, <2>1, AppendFacts DEF ZygoteRestarts
  <2>3. gen' = gen + 1 /\ gen' \in 0..MaxRestarts
    BY <1>2 DEF ZygoteRestarts, Types
  <2>4. UNCHANGED <<disk, edits, refreshes, main, snaps, origin, ignore>>
    BY <1>2 DEF ZygoteRestarts, diskVars, snapVars
  <2> QED BY <1>0, <2>2, <2>3, <2>4 DEF Types, SnapsBounded, MainKnowsWhy, Live
<1>u. CASE ZygoteRestartsUnreported
  <2>1. UNCHANGED <<disk, edits, gen, refreshes, queue, main, snaps, origin, ignore>>
    BY <1>u DEF ZygoteRestartsUnreported, diskVars, snapVars
  <2> QED BY <2>1 DEF Types, SnapsBounded, MainKnowsWhy, Live
<1>3. ASSUME NEW b \in BOOLEAN, MonitorRefreshes(b)
      PROVE  Types' /\ SnapsBounded' /\ MainKnowsWhy'
  <2>1. [act |-> "RefreshModules", ignore_disable |-> b] \in Request
    BY RequestShapes
  <2>2. /\ queue' \in Seq(Request) /\ Cardinality(Orders(queue)) \in Nat
        /\ Cardinality(Orders(queue')) = Cardinality(Orders(queue)) + 1
    BY <1>3, <2>1, AppendFacts DEF MonitorRefreshes
  <2>3. refreshes' = refreshes + 1 /\ refreshes' \in 0..MaxRefreshes
    BY <1>3 DEF MonitorRefreshes, Types
  <2>4. UNCHANGED <<disk, edits, gen, main, snaps, origin, ignore>>
    BY <1>3 DEF MonitorRefreshes, diskVars, snapVars
  <2> QED BY <1>0, <2>2, <2>3, <2>4 DEF Types, SnapsBounded, MainKnowsWhy, Live
<1>4. ASSUME NEW r \in Request, r.act \in Asks \cup {"ReadModules"}, queue' = Append(queue, r),
             UNCHANGED <<disk, edits, gen, refreshes, main, snaps, origin, ignore>>
      PROVE  Types' /\ SnapsBounded' /\ MainKnowsWhy'
  <2>1. /\ queue' \in Seq(Request)
        /\ Cardinality(Orders(queue')) = Cardinality(Orders(queue)) +
              (IF r.act \in {"ZygoteRestart", "RefreshModules"} THEN 1 ELSE 0)
        /\ Cardinality(Orders(queue)) \in Nat
    BY <1>4, AppendFacts
  <2>2. Cardinality(Orders(queue')) = Cardinality(Orders(queue))
    BY <1>4, <2>1 DEF Asks
  <2> QED BY <1>4, <2>1, <2>2 DEF Types, SnapsBounded, MainKnowsWhy, Live
<1>5. ASSUME NEW c \in Client, ClientStarts(c)
      PROVE  Types' /\ SnapsBounded' /\ MainKnowsWhy'
  <2> DEFINE r == [act |-> "ReadModules", from |-> c, trusted |-> TRUE]
  <2>1. r \in Request /\ r.act \in Asks \cup {"ReadModules"}
    BY RequestShapes
  <2> HIDE DEF r
  <2> QED BY <1>4, <1>5, <2>1 DEF ClientStarts, diskVars, sentVars, snapVars, r
<1>6. ASSUME NEW c \in Client, NEW i \in Index, NEW act \in Asks, ClientAsks(c, act, i)
      PROVE  Types' /\ SnapsBounded' /\ MainKnowsWhy'
  <2>1. PICK b \in BOOLEAN : queue' = Append(queue, [act |-> act, from |-> c, trusted |-> b])
    BY <1>6 DEF ClientAsks
  <2> DEFINE r == [act |-> act, from |-> c, trusted |-> b]
  <2>2. r \in Request /\ r.act \in Asks \cup {"ReadModules"}
    BY RequestShapes
  <2>3. queue' = Append(queue, r)
    BY <2>1
  <2> HIDE DEF r
  <2> QED BY <1>4, <1>6, <2>2, <2>3 DEF ClientAsks, diskVars, sentVars, snapVars
<1>7. ASSUME NEW act \in Asks \cup {"ReadModules"}, Accepts(act),
             UNCHANGED <<disk, edits, gen, refreshes, main, snaps, origin, ignore>>
      PROVE  Types' /\ SnapsBounded' /\ MainKnowsWhy'
  <2>1. act \notin {"ZygoteRestart", "RefreshModules"}
    BY DEF Asks
  <2>2. /\ queue' \in Seq(Request)
        /\ Cardinality(Orders(queue')) = Cardinality(Orders(queue)) -
              (IF act \in {"ZygoteRestart", "RefreshModules"} THEN 1 ELSE 0)
        /\ Cardinality(Orders(queue)) \in Nat
    BY <1>7, AcceptsFacts
  <2>3. Cardinality(Orders(queue')) = Cardinality(Orders(queue))
    BY <2>1, <2>2
  <2> QED BY <1>7, <2>2, <2>3 DEF Types, SnapsBounded, MainKnowsWhy, Live
<1>8. CASE AcceptsUntrusted \/ AcceptsThreaded
  BY <1>7, <1>8 DEF AcceptsUntrusted, AcceptsThreaded, diskVars, sentVars, snapVars, Asks
<1>9. CASE AcceptsRestart
  <2>1. /\ queue' \in Seq(Request) /\ Cardinality(Orders(queue)) \in Nat
        /\ Cardinality(Orders(queue')) = Cardinality(Orders(queue)) - 1
        /\ main.pc = "accept"
    BY <1>9, AcceptsFacts DEF AcceptsRestart
  <2>2. main' = [pc |-> "drop", todo |-> snaps[Live], why |-> "restart"]
    BY <1>9 DEF AcceptsRestart
  <2>3. UNCHANGED <<disk, edits, gen, refreshes, snaps, origin, ignore>>
    BY <1>9 DEF AcceptsRestart, diskVars, sentVars, snapVars
  <2> QED BY <1>0, <2>1, <2>2, <2>3 DEF Types, SnapsBounded, MainKnowsWhy, Live
<1>10. CASE AcceptsRefresh
  <2>1. /\ queue' \in Seq(Request) /\ Cardinality(Orders(queue)) \in Nat
        /\ Cardinality(Orders(queue')) = Cardinality(Orders(queue)) - 1
        /\ main.pc = "accept" /\ Head(queue) = queue[1] /\ queue[1] \in Request
        /\ queue[1].act = "RefreshModules"
    BY <1>10, AcceptsFacts DEF AcceptsRefresh
  <2>2. ignore' \in BOOLEAN
    BY <1>10, <2>1, RequestShapes DEF AcceptsRefresh
  <2>3. main' = [pc |-> "scan", todo |-> <<>>, why |-> "refresh"]
        /\ UNCHANGED <<disk, edits, gen, refreshes, snaps, origin>>
    BY <1>10 DEF AcceptsRefresh, diskVars, sentVars
  <2> QED BY <1>0, <2>1, <2>2, <2>3, EmptyIsList DEF Types, SnapsBounded, MainKnowsWhy, Live
<1>11. CASE DropCompanion
  <2>1. UNCHANGED <<disk, edits, gen, refreshes, queue, snaps, origin, ignore>>
    BY <1>11 DEF DropCompanion, diskVars, sentVars, snapVars
  <2>2. main' \in [pc : {"accept", "drop", "scan"}, todo : List,
                   why : {None, "restart", "refresh"}]
        /\ main.pc = "drop" /\ main'.why = main.why /\ main'.pc \in {"drop", "scan"}
    BY <1>11, TailIsList DEF DropCompanion, Types
  <2> QED BY <1>0, <2>1, <2>2 DEF Types, SnapsBounded, MainKnowsWhy, Live
<1>12. CASE Rescan
  <2>1. UNCHANGED <<disk, edits, gen, refreshes, queue, ignore>>
        /\ main' = [pc |-> "accept", todo |-> <<>>, why |-> None] /\ main.pc = "scan"
    BY <1>12 DEF Rescan, diskVars, sentVars
  <2>2. Cardinality(Orders(queue)) \in Nat
    BY OrdersFinite DEF Types
  <2>3. CASE UNCHANGED <<snaps, origin>>
    BY <1>0, <2>1, <2>2, <2>3, EmptyIsList DEF Types, SnapsBounded, MainKnowsWhy, Live
  <2>4. ASSUME NEW l \in LoadModules(ignore), snaps' = Append(snaps, l),
               origin' = Append(origin, main.why)
        PROVE  Types' /\ SnapsBounded' /\ MainKnowsWhy'
    <3>1. l \in List
      BY LoadModulesGivesList
    <3>2. main.why \in {"restart", "refresh"}
      BY <2>1 DEF Types, MainKnowsWhy
    <3>3. snaps' \in Seq(List) /\ snaps' # <<>> /\ Len(snaps') = Len(snaps) + 1
          /\ origin' \in Seq({"startup", "restart", "refresh"}) /\ Len(origin') = Len(snaps')
      BY <2>4, <3>1, <3>2 DEF Types, Live
    <3> QED BY <1>0, <2>1, <2>2, <3>3, EmptyIsList DEF Types, SnapsBounded, MainKnowsWhy, Live
  <2> QED BY <1>12, <2>3, <2>4 DEF Rescan
<1>13. CASE UNCHANGED <<disk, edits, gen, refreshes, queue, main, snaps, origin, ignore>>
  BY <1>13 DEF Types, SnapsBounded, MainKnowsWhy, Live
<1>14. ASSUME NEW c \in Client, Worker(c) \/ Companion(c) \/ CompanionDies(c)
       PROVE  UNCHANGED <<disk, edits, gen, refreshes, queue, main, snaps, origin, ignore>>
  BY <1>14 DEF Worker, Companion, CompanionDies, CompanionAnswers, CompanionExits,
       ReadBegins, ReadEntry, OutOfRange, GetModuleDir, Resolves, Locks, Spawns, ReadsAnswer,
       Connects, diskVars, sentVars, snapVars
<1>15. CASE UNCHANGED vars
  BY <1>13, <1>15 DEF vars, diskVars, sentVars, snapVars
<1> QED
  BY <1>u, <1>1, <1>2, <1>3, <1>5, <1>6, <1>8, <1>9, <1>10, <1>11, <1>12, <1>13, <1>14, <1>15
  DEF Next, Device, Main, Asks

-----------------------------------------------------------------------------
(***************************************************************************)
(* What the steps of a thread do to the record of each client.             *)
(***************************************************************************)
SameClient(d) ==
  /\ client'[d].gen = client[d].gen /\ client'[d].list = client[d].list
  /\ client'[d].index = client[d].index

LEMMA RefuseFacts ==
  ASSUME ClientTypes, NEW c \in Client, Refuse(c)
  PROVE  /\ ClientTypes'
         /\ \A d \in Client :
              /\ SameClient(d) /\ client'[d].got = client[d].got /\ client'[d].by = client[d].by
              /\ client'[d].state = client[d].state
                 \/ (d = c /\ client[d].state = "asking" /\ client'[d].state = "refused")
         /\ client'[c].state # "asking"
<1>1. CASE client[c].state = "asking"
  BY <1>1 DEF ClientTypes, Refuse, SameClient
<1>2. CASE client[c].state # "asking"
  BY <1>2 DEF ClientTypes, Refuse, SameClient
<1> QED BY <1>1, <1>2

LEMMA ServeFacts ==
  ASSUME ClientTypes, NEW c \in Client, NEW m \in Module \cup {None},
         NEW by \in Client \cup {None}, Serve(c, m, by)
  PROVE  /\ ClientTypes'
         /\ \A d \in Client :
              /\ SameClient(d)
              /\ \/ /\ client'[d].state = client[d].state
                    /\ client'[d].got = client[d].got /\ client'[d].by = client[d].by
                 \/ /\ d = c /\ client[d].state = "asking" /\ client'[d].state = "served"
                    /\ client'[d].got = m /\ client'[d].by = by
         /\ client'[c].state # "asking"
<1>1. CASE client[c].state = "asking"
  BY <1>1, ZenonT(40) DEF ClientTypes, Serve, SameClient
<1>2. CASE client[c].state # "asking"
  BY <1>2 DEF ClientTypes, Serve, SameClient
<1> QED BY <1>1, <1>2

LEMMA EndsFacts ==
  ASSUME WorkerTypes, NEW c \in Client, Ends(c)
  PROVE  /\ WorkerTypes' /\ worker'[c].pc = None
         /\ \A d \in Client \ {c} : worker'[d] = worker[d]
<1>1. NoWorker \in [pc : {None, "ReadModules", "RequestCompanionSocket",
                          "GetModuleDir", "reply", "lock", "locked", "spawned"},
                    snap : {0} \cup Snap, count : 0..Cardinality(Module),
                    mod : Module \cup {None}]
  BY CardinalityOfModules DEF NoWorker
<1> QED BY <1>1 DEF WorkerTypes, Ends, NoWorker

(* A companion that changes its state keeps its module and its framework. *)
SameCompanion(d) ==
  /\ companion'[d].home = companion[d].home /\ companion'[d].gen = companion[d].gen
  /\ companion'[d].state = None <=> companion[d].state = None

LEMMA ReapedFacts ==
  ASSUME CompanionTypes, companion' = Reaped
  PROVE  CompanionTypes' /\ \A d \in Client : SameCompanion(d)
BY DEF CompanionTypes, Reaped, SameCompanion

LEMMA CompanionFacts ==
  ASSUME CompanionTypes, NEW c \in Client, Companion(c) \/ CompanionDies(c)
  PROVE  CompanionTypes' /\ \A d \in Client : SameCompanion(d)
<1>1. PICK s \in {"ready", "useless", "exited"} : companion' = [companion EXCEPT ![c].state = s]
  BY DEF Companion, CompanionDies, CompanionAnswers, CompanionExits
<1>2. companion[c].state # None
  BY DEF Companion, CompanionDies, CompanionAnswers, CompanionExits
<1> QED BY <1>1, <1>2 DEF CompanionTypes, SameCompanion

(* The Module a thread works on is one of a snapshot. *)
LEMMA SlotFacts ==
  ASSUME Types, SnapsBounded, Published, WorkerTypes, LockTypes, NEW c \in Client, HasModule(c)
  PROVE  /\ Slot(c) \in Home /\ Slot(c) = <<worker[c].snap, worker[c].mod>>
         /\ worker[c].snap \in 1..Live /\ worker[c].mod \in Module
         /\ slot[Slot(c)] \in Client \cup {None} /\ lock[Slot(c)] \in Client \cup {None}
<1>1. Listed(Slot(c)) /\ Slot(c) = <<worker[c].snap, worker[c].mod>>
  BY DEF Published, Slot
<1>2. PICK i \in 1..Len(snaps[worker[c].snap]) : snaps[worker[c].snap][i] = worker[c].mod
  BY <1>1 DEF Listed
<1>3. worker[c].snap \in 1..Live
  BY <1>1 DEF Listed
<1>4. snaps[worker[c].snap] \in List
  BY <1>3 DEF Types, Live
<1>5. worker[c].mod \in Module
  BY <1>2, <1>4, ListFacts
<1>6. worker[c].snap \in Snap
  BY <1>3, LiveFacts, BoundsAssumption DEF Snap
<1>7. Slot(c) \in Home
  BY <1>1, <1>5, <1>6 DEF Home
<1> QED BY <1>1, <1>3, <1>5, <1>7 DEF LockTypes

(* The entry at a client's index, in range. *)
LEMMA EntryFacts ==
  ASSUME Types, SnapsBounded, ClientTypes, NEW c \in Client,
         client[c].index # 0, client[c].index <= Len(snaps[Live])
  PROVE  /\ client[c].index \in 1..Len(snaps[Live])
         /\ snaps[Live][client[c].index] \in Module
<1>1. snaps[Live] \in List
  BY LiveFacts
<1>2. snaps[Live] \in Seq(Module) /\ Len(snaps[Live]) \in Nat
  BY <1>1, ListFacts
<1>3. client[c].index \in Nat
  BY CardinalityOfModules DEF ClientTypes, Index
<1> QED BY <1>2, <1>3

-----------------------------------------------------------------------------
(***************************************************************************)
(* What each action does, field by field.                                  *)
(***************************************************************************)
SameThread(d) ==
  /\ worker'[d].pc = worker[d].pc /\ worker'[d].snap = worker[d].snap
  /\ worker'[d].mod = worker[d].mod /\ worker'[d].count = worker[d].count

LEMMA RestartFacts ==
  ASSUME Types, ClientTypes, ZygoteRestarts
  PROVE  /\ ClientTypes'
         /\ \A d \in Client :
              /\ SameClient(d) /\ client'[d].got = client[d].got /\ client'[d].by = client[d].by
              /\ client'[d].state = IF client[d].state = None THEN None ELSE "dead"
         /\ Len(queue') = Len(queue) + 1 /\ Len(queue) \in Nat
         /\ \A i \in 1..Len(queue) : queue'[i] = queue[i]
         /\ queue'[Len(queue) + 1].act = "ZygoteRestart"
         /\ gen' = gen + 1 /\ gen \in Nat
         /\ UNCHANGED <<main, snaps, origin, slot, lock, worker, companion>>
<1>1. ClientTypes' /\ \A d \in Client :
        /\ SameClient(d) /\ client'[d].got = client[d].got /\ client'[d].by = client[d].by
        /\ client'[d].state = IF client[d].state = None THEN None ELSE "dead"
  BY DEF ClientTypes, ZygoteRestarts, ChildrenDie, SameClient
<1>2. [act |-> "ZygoteRestart"] \in Request /\ queue' = Append(queue, [act |-> "ZygoteRestart"])
  BY RequestShapes DEF ZygoteRestarts
<1> QED BY <1>1, <1>2, AppendFacts DEF ZygoteRestarts, snapVars, lockVars, Types

(* A restart nobody hears of ends the clients and changes nothing else. *)
LEMMA UnreportedFacts ==
  ASSUME ClientTypes, ZygoteRestartsUnreported
  PROVE  /\ ClientTypes'
         /\ \A d \in Client :
              /\ SameClient(d) /\ client'[d].got = client[d].got /\ client'[d].by = client[d].by
              /\ client'[d].state = IF client[d].state = None THEN None ELSE "dead"
         /\ UNCHANGED <<gen, queue, main, snaps, origin, slot, lock, worker, companion>>
<1>1. ClientTypes' /\ \A d \in Client :
        /\ SameClient(d) /\ client'[d].got = client[d].got /\ client'[d].by = client[d].by
        /\ client'[d].state = IF client[d].state = None THEN None ELSE "dead"
  BY DEF ClientTypes, ZygoteRestartsUnreported, ChildrenDie, SameClient
<1> QED BY <1>1 DEF ZygoteRestartsUnreported, snapVars, lockVars

LEMMA RefreshFacts ==
  ASSUME Types, NEW b \in BOOLEAN, MonitorRefreshes(b)
  PROVE  /\ Len(queue') = Len(queue) + 1 /\ Len(queue) \in Nat
         /\ \A i \in 1..Len(queue) : queue'[i] = queue[i]
         /\ queue'[Len(queue) + 1].act = "RefreshModules"
         /\ UNCHANGED <<gen, main, snaps, origin, slot, lock, worker, companion, client>>
<1> DEFINE r == [act |-> "RefreshModules", ignore_disable |-> b]
<1>1. r \in Request /\ queue' = Append(queue, r) /\ r.act = "RefreshModules"
  BY RequestShapes DEF MonitorRefreshes
<1> HIDE DEF r
<1> QED BY <1>1, AppendFacts DEF MonitorRefreshes, snapVars, lockVars

LEMMA StartFacts ==
  ASSUME Types, ClientTypes, NEW c \in Client, ClientStarts(c)
  PROVE  /\ ClientTypes'
         /\ \A d \in Client \ {c} : client'[d] = client[d]
         /\ client[c].state = None /\ client'[c].state = "reading" /\ client'[c].gen = gen
         /\ client'[c].list = client[c].list /\ client'[c].index = client[c].index
         /\ client'[c].by = client[c].by /\ client'[c].got = client[c].got
         /\ Len(queue') = Len(queue) + 1 /\ Len(queue) \in Nat
         /\ \A i \in 1..Len(queue) : queue'[i] = queue[i]
         /\ queue'[Len(queue) + 1].act = "ReadModules" /\ queue'[Len(queue) + 1].from = c
         /\ UNCHANGED <<gen, main, snaps, origin, slot, lock, worker, companion>>
<1> DEFINE r == [act |-> "ReadModules", from |-> c, trusted |-> TRUE]
<1>1. r \in Request /\ queue' = Append(queue, r) /\ r.act = "ReadModules" /\ r.from = c
  BY RequestShapes DEF ClientStarts
<1> HIDE DEF r
<1>2. /\ Len(queue') = Len(queue) + 1 /\ Len(queue) \in Nat
      /\ \A i \in 1..Len(queue) : queue'[i] = queue[i]
      /\ queue'[Len(queue) + 1] = r
  BY <1>1, AppendFacts
<1>3. client' = [client EXCEPT ![c].state = "reading", ![c].gen = gen] /\ gen \in 0..MaxRestarts
  BY DEF ClientStarts, Types
<1>4. /\ ClientTypes'
      /\ \A d \in Client \ {c} : client'[d] = client[d]
      /\ client'[c].state = "reading" /\ client'[c].gen = gen
      /\ client'[c].list = client[c].list /\ client'[c].index = client[c].index
      /\ client'[c].by = client[c].by /\ client'[c].got = client[c].got
  BY <1>3 DEF ClientTypes
<1> QED BY <1>1, <1>2, <1>4 DEF ClientStarts, sentVars, snapVars, lockVars

LEMMA AskFacts ==
  ASSUME Types, ClientTypes, NEW c \in Client, NEW a \in Asks, NEW i \in Index,
         ClientAsks(c, a, i)
  PROVE  /\ ClientTypes'
         /\ \A d \in Client \ {c} : client'[d] = client[d]
         /\ client[c].state = "loaded" /\ client'[c].state = "asking"
         /\ client'[c].gen = client[c].gen
         /\ client'[c].list = client[c].list /\ client'[c].index # 0
         /\ client'[c].by = client[c].by /\ client'[c].got = client[c].got
         /\ Len(queue') = Len(queue) + 1 /\ Len(queue) \in Nat
         /\ \A k \in 1..Len(queue) : queue'[k] = queue[k]
         /\ queue'[Len(queue) + 1].act \in Asks /\ queue'[Len(queue) + 1].from = c
         /\ UNCHANGED <<gen, main, snaps, origin, slot, lock, worker, companion>>
<1>0. PICK b \in BOOLEAN : queue' = Append(queue, [act |-> a, from |-> c, trusted |-> b])
  BY DEF ClientAsks
<1> DEFINE r == [act |-> a, from |-> c, trusted |-> b]
<1>1. r \in Request /\ queue' = Append(queue, r) /\ r.act = a /\ r.from = c
  BY <1>0, RequestShapes
<1> HIDE DEF r
<1>2. /\ Len(queue') = Len(queue) + 1 /\ Len(queue) \in Nat
      /\ \A k \in 1..Len(queue) : queue'[k] = queue[k]
      /\ queue'[Len(queue) + 1] = r
  BY <1>1, AppendFacts
<1>3. client' = [client EXCEPT ![c].state = "asking", ![c].index = i] /\ i # 0
  BY CardinalityOfModules DEF ClientAsks, Index
<1>4. /\ ClientTypes'
      /\ \A d \in Client \ {c} : client'[d] = client[d]
      /\ client'[c].state = "asking" /\ client'[c].gen = client[c].gen
      /\ client'[c].list = client[c].list /\ client'[c].index = i
      /\ client'[c].by = client[c].by /\ client'[c].got = client[c].got
  BY <1>3 DEF ClientTypes
<1> QED BY <1>1, <1>2, <1>3, <1>4 DEF ClientAsks, sentVars, snapVars, lockVars

(* The first connection is taken off the queue; c is the client it is of. *)
Taken(c) ==
  /\ Len(queue') = Len(queue) - 1 /\ Len(queue) \in Nat \ {0}
  /\ \A i \in 1..(Len(queue) - 1) : queue'[i] = queue[i + 1]
  /\ main.pc = "accept" /\ From(1, c)

LEMMA UntrustedFacts ==
  ASSUME Types, ClientTypes, AcceptsUntrusted
  PROVE  \E c \in Client :
           Taken(c) /\ Refuse(c)
           /\ UNCHANGED <<gen, main, snaps, origin, slot, lock, worker, companion>>
<1>1. PICK a \in Asks : Accepts(a)
  BY DEF AcceptsUntrusted, Asks
<1>2. /\ Len(queue') = Len(queue) - 1 /\ Len(queue) \in Nat \ {0}
      /\ \A i \in 1..(Len(queue) - 1) : queue'[i] = queue[i + 1]
      /\ main.pc = "accept" /\ Head(queue) = queue[1] /\ queue[1] \in Request
      /\ queue[1].act = a
  BY <1>1, AcceptsFacts
<1>3. queue[1].from \in Client
  BY <1>2, RequestShapes
<1>4. Taken(queue[1].from)
  BY <1>2 DEF Taken, From
<1>5. Refuse(queue[1].from)
  BY <1>2 DEF AcceptsUntrusted
<1> QED BY <1>3, <1>4, <1>5 DEF AcceptsUntrusted, sentVars, snapVars, lockVars

LEMMA ThreadedFacts ==
  ASSUME Types, WorkerTypes, AcceptsThreaded
  PROVE  \E c \in Client :
           /\ Taken(c) /\ WorkerTypes'
           /\ worker'[c].pc = queue[1].act
           /\ \A d \in Client \ {c} : worker'[d] = worker[d]
           /\ UNCHANGED <<gen, main, snaps, origin, slot, lock, companion, client>>
<1>1. PICK a \in Asks \cup {"ReadModules"} : Accepts(a)
  BY DEF AcceptsThreaded, Asks
<1>2. /\ Len(queue') = Len(queue) - 1 /\ Len(queue) \in Nat \ {0}
      /\ \A i \in 1..(Len(queue) - 1) : queue'[i] = queue[i + 1]
      /\ main.pc = "accept" /\ Head(queue) = queue[1] /\ queue[1] \in Request
      /\ queue[1].act = a
  BY <1>1, AcceptsFacts
<1>3. queue[1].from \in Client
  BY <1>2, RequestShapes
<1>4. Taken(queue[1].from)
  BY <1>2 DEF Taken, From
<1>5. /\ WorkerTypes' /\ worker'[queue[1].from].pc = a
      /\ \A d \in Client \ {queue[1].from} : worker'[d] = worker[d]
  <2> DEFINE c == queue[1].from
             n == [NoWorker EXCEPT !.pc = a]
  <2>1. worker' = [worker EXCEPT ![c] = n]
    BY <1>2 DEF AcceptsThreaded
  <2>2. n \in [pc : {None, "ReadModules", "RequestCompanionSocket",
                     "GetModuleDir", "reply", "lock", "locked", "spawned"},
               snap : {0} \cup Snap, count : 0..Cardinality(Module),
               mod : Module \cup {None}]
        /\ n.pc = a
    BY CardinalityOfModules DEF NoWorker, Asks
  <2>3. c \in Client
    BY <1>3
  <2> HIDE DEF n, c
  <2>4. WorkerTypes' /\ worker'[c].pc = a /\ \A d \in Client \ {c} : worker'[d] = worker[d]
    BY <2>1, <2>2, <2>3 DEF WorkerTypes
  <2> QED BY <2>4 DEF c
<1> QED BY <1>2, <1>3, <1>4, <1>5 DEF AcceptsThreaded, sentVars, snapVars, lockVars

(* The first connection is taken off the queue; it is the monitor's or     *)
(* the zygote's.                                                           *)
TakenOrder(act) ==
  /\ Len(queue') = Len(queue) - 1 /\ Len(queue) \in Nat \ {0}
  /\ \A i \in 1..(Len(queue) - 1) : queue'[i] = queue[i + 1]
  /\ main.pc = "accept" /\ queue[1].act = act

LEMMA OrderFacts ==
  ASSUME Types
  PROVE  /\ AcceptsRestart =>
              /\ TakenOrder("ZygoteRestart")
              /\ main'.pc = "drop" /\ main'.todo = snaps[Live] /\ main'.why = "restart"
              /\ UNCHANGED <<gen, snaps, origin, slot, lock, worker, companion, client>>
         /\ AcceptsRefresh =>
              /\ TakenOrder("RefreshModules")
              /\ main'.pc = "scan" /\ main'.why = "refresh"
              /\ UNCHANGED <<gen, snaps, origin, slot, lock, worker, companion, client>>
<1>1. ASSUME AcceptsRestart
      PROVE  /\ TakenOrder("ZygoteRestart")
             /\ main'.pc = "drop" /\ main'.todo = snaps[Live] /\ main'.why = "restart"
             /\ UNCHANGED <<gen, snaps, origin, slot, lock, worker, companion, client>>
  <2>1. Accepts("ZygoteRestart")
        /\ main' = [pc |-> "drop", todo |-> snaps[Live], why |-> "restart"]
        /\ UNCHANGED <<gen, snaps, origin, slot, lock, worker, companion, client>>
    BY <1>1 DEF AcceptsRestart, sentVars, snapVars, lockVars
  <2> QED BY <2>1, AcceptsFacts DEF TakenOrder
<1>2. ASSUME AcceptsRefresh
      PROVE  /\ TakenOrder("RefreshModules")
             /\ main'.pc = "scan" /\ main'.why = "refresh"
             /\ UNCHANGED <<gen, snaps, origin, slot, lock, worker, companion, client>>
  <2>1. Accepts("RefreshModules")
        /\ main' = [pc |-> "scan", todo |-> <<>>, why |-> "refresh"]
        /\ UNCHANGED <<gen, snaps, origin, slot, lock, worker, companion, client>>
    BY <1>2 DEF AcceptsRefresh, sentVars, lockVars
  <2> QED BY <2>1, AcceptsFacts DEF TakenOrder
<1> QED BY <1>1, <1>2

(* DropCompanion: nothing is left to drop, or one companion is dropped. *)
Dropped(h) ==
  /\ h = <<Live, main.todo[1]>> /\ h \in Home /\ lock[h] = None
  /\ slot'[h] = None /\ \A g \in Home \ {h} : slot'[g] = slot[g]
  /\ main'.pc = "drop" /\ Len(main.todo) \in Nat \ {0} /\ Len(main'.todo) = Len(main.todo) - 1
  /\ \A k \in 1..(Len(main.todo) - 1) : main'.todo[k] = main.todo[k + 1]

LEMMA DropFacts ==
  ASSUME Types, SnapsBounded, LockTypes, DropCompanion
  PROVE  /\ LockTypes' /\ main.pc = "drop" /\ main'.why = main.why
         /\ UNCHANGED <<gen, queue, snaps, origin, lock, worker, companion, client>>
         /\ \/ main'.pc = "scan" /\ Len(main.todo) = 0 /\ UNCHANGED slot
            \/ \E h \in Home : Dropped(h)
<1>1. main.pc = "drop"
      /\ UNCHANGED <<gen, queue, snaps, origin, lock, worker, companion, client>>
  BY DEF DropCompanion, sentVars, snapVars
<1>2. CASE main.todo = <<>>
  <2>1. main' = [main EXCEPT !.pc = "scan"] /\ UNCHANGED slot
    BY <1>2 DEF DropCompanion
  <2> QED BY <1>1, <1>2, <2>1 DEF Types, LockTypes
<1>3. CASE main.todo # <<>>
  <2> DEFINE h == <<Live, Head(main.todo)>>
  <2>1. lock[h] = None /\ slot' = [slot EXCEPT ![h] = None]
        /\ main' = [main EXCEPT !.todo = Tail(@)]
    BY <1>3 DEF DropCompanion
  <2>2. main.todo \in Seq(Module)
    BY ListFacts DEF Types
  <2>3. /\ Head(main.todo) = main.todo[1] /\ main.todo[1] \in Module
        /\ Len(main.todo) \in Nat \ {0} /\ Len(Tail(main.todo)) = Len(main.todo) - 1
        /\ \A k \in 1..(Len(main.todo) - 1) : Tail(main.todo)[k] = main.todo[k + 1]
    BY <1>3, <2>2
  <2>4. h \in Home
    BY <2>3, LiveFacts DEF Home
  <2>5. main'.pc = main.pc /\ main'.todo = Tail(main.todo) /\ main'.why = main.why
    BY <2>1 DEF Types
  <2>6. h = <<Live, main.todo[1]>>
    BY <2>3
  <2> HIDE DEF h
  <2>7. LockTypes' /\ slot'[h] = None /\ \A g \in Home \ {h} : slot'[g] = slot[g]
    BY <1>1, <2>1, <2>4 DEF LockTypes
  <2> QED BY <1>1, <2>1, <2>3, <2>4, <2>5, <2>6, <2>7 DEF Dropped
<1> QED BY <1>2, <1>3

(* Rescan keeps the snapshot, or publishes one behind those there are. *)
Publishes ==
  /\ Len(snaps') = Len(snaps) + 1 /\ \A s \in 1..Len(snaps) : snaps'[s] = snaps[s]
  /\ \A s \in 1..Len(snaps) : origin'[s] = origin[s]
  /\ origin'[Len(snaps) + 1] = main.why

LEMMA RescanFacts ==
  ASSUME Types, CompanionTypes, Rescan
  PROVE  /\ CompanionTypes' /\ \A d \in Client : SameCompanion(d)
         /\ main.pc = "scan" /\ main'.pc = "accept" /\ main'.why = None
         /\ UNCHANGED <<gen, queue, slot, lock, worker, client>>
         /\ Publishes \/ UNCHANGED <<snaps, origin>>
<1>1. main.pc = "scan" /\ main'.pc = "accept" /\ main'.why = None
      /\ UNCHANGED <<gen, queue, slot, lock, worker, client>>
  BY DEF Rescan, sentVars, lockVars
<1>2. CASE UNCHANGED <<snaps, origin, companion>>
  BY <1>1, <1>2 DEF CompanionTypes, SameCompanion
<1>3. ASSUME NEW l \in LoadModules(ignore), snaps' = Append(snaps, l),
             origin' = Append(origin, main.why), companion' = Reaped
      PROVE  Publishes /\ CompanionTypes' /\ \A d \in Client : SameCompanion(d)
  <2>1. Publishes
    BY <1>3 DEF Types, Live, Publishes
  <2> QED BY <1>3, <2>1, ReapedFacts
<1> QED BY <1>1, <1>2, <1>3 DEF Rescan

(* Only the thread of c moves, to pc. *)
Moves(c, pc) == worker'[c].pc = pc /\ \A d \in Client \ {c} : worker'[d] = worker[d]

(* The mutex of h, and no other, changes hands. *)
Hands(h, to) == lock'[h] = to /\ \A g \in Home \ {h} : lock'[g] = lock[g]

LEMMA ReadBeginsFacts ==
  ASSUME Types, SnapsBounded, WorkerTypes, CompanionTypes, NEW c \in Client, ReadBegins(c)
  PROVE  /\ WorkerTypes' /\ CompanionTypes' /\ \A d \in Client : SameCompanion(d)
         /\ worker[c].pc = "ReadModules" /\ Moves(c, "reply")
         /\ worker'[c].snap = Live /\ worker'[c].count = Len(snaps[Live])
         /\ UNCHANGED <<gen, queue, main, snaps, origin, slot, lock, client>>
<1>1. snaps[Live] \in List /\ Live \in Snap
  BY LiveFacts
<1>2. Len(snaps[Live]) \in 0..Cardinality(Module)
  BY <1>1, ListFacts
<1>3. worker' = [worker EXCEPT ![c] = [@ EXCEPT !.pc = "reply", !.snap = Live,
                                                !.count = Len(snaps[Live])]]
      /\ companion' = Reaped /\ worker[c].pc = "ReadModules"
      /\ UNCHANGED <<gen, queue, main, snaps, origin, slot, lock, client>>
  BY DEF ReadBegins, sentVars, snapVars, lockVars
<1>4. CompanionTypes' /\ \A d \in Client : SameCompanion(d)
  BY <1>3, ReapedFacts
<1> DEFINE n == Len(snaps[Live])
           l == Live
<1>5. n \in 0..Cardinality(Module) /\ l \in Snap
      /\ worker' = [worker EXCEPT ![c] = [@ EXCEPT !.pc = "reply", !.snap = l, !.count = n]]
  BY <1>1, <1>2, <1>3
<1> HIDE DEF n, l
<1>6. WorkerTypes' /\ Moves(c, "reply") /\ worker'[c].snap = l /\ worker'[c].count = n
  BY <1>5 DEF WorkerTypes, Moves
<1> QED BY <1>3, <1>4, <1>6 DEF n, l

(* One entry is read, or the reply ends. *)
LEMMA ReadEntryFacts ==
  ASSUME Types, SnapsBounded, WorkerTypes, ClientTypes, ReplyIsPrefix,
         NEW c \in Client, ReadEntry(c)
  PROVE  /\ WorkerTypes' /\ ClientTypes' /\ worker[c].pc = "reply"
         /\ \A d \in Client \ {c} : client'[d] = client[d]
         /\ client'[c].gen = client[c].gen /\ client'[c].index = client[c].index
         /\ client'[c].got = client[c].got /\ client'[c].by = client[c].by
         /\ UNCHANGED <<gen, queue, main, snaps, origin, slot, lock, companion>>
         /\ \/ /\ UNCHANGED worker
               /\ client[c].state = "reading" /\ client'[c].state = "reading"
               /\ Len(client'[c].list) <= worker[c].count
               /\ \A i \in 1..Len(client'[c].list) :
                    client'[c].list[i] = snaps[worker[c].snap][i]
            \/ /\ Moves(c, None) /\ client'[c].list = client[c].list
               /\ \/ /\ client[c].state = "reading" /\ client'[c].state = "loaded"
                     /\ client[c].list = snaps[worker[c].snap]
                  \/ client[c].state # "reading" /\ client'[c].state = client[c].state
<1> DEFINE s == snaps[worker[c].snap]
           n == Len(client[c].list) + 1
<1>1. worker[c].pc = "reply"
      /\ UNCHANGED <<gen, queue, main, snaps, origin, slot, lock, companion>>
  BY DEF ReadEntry, sentVars, snapVars, lockVars
<1>2. worker[c].snap \in 1..Live /\ worker[c].count = Len(s)
  BY <1>1 DEF ReplyIsPrefix, ReplySoFar
<1>3. s \in List
  BY <1>2 DEF Types, Live
<1>4. client[c].list \in List /\ Len(client[c].list) \in Nat /\ Len(s) \in Nat
  BY <1>3, ListFacts DEF ClientTypes
<1>5. CASE client[c].state = "reading" /\ n <= worker[c].count
  <2>1. \A i \in 1..Len(client[c].list) : client[c].list[i] = s[i]
    BY <1>1, <1>5 DEF ReplyIsPrefix, ReplySoFar
  <2> DEFINE l == Append(client[c].list, s[n])
  <2>0. Len(client[c].list) < Len(s)
    BY <1>2, <1>4, <1>5
  <2>2. l \in List /\ Len(l) = n /\ \A i \in 1..n : l[i] = s[i]
    <3> HIDE DEF s
    <3> QED BY <1>3, <1>4, <2>0, <2>1, LongerPrefix
  <2>3. client' = [client EXCEPT ![c].list = l] /\ UNCHANGED worker
    BY <1>5 DEF ReadEntry, ClientTypes
  <2> HIDE DEF l
  <2>4. /\ ClientTypes' /\ client'[c].list = l /\ client'[c].state = client[c].state
        /\ \A d \in Client \ {c} : client'[d] = client[d]
        /\ client'[c].gen = client[c].gen /\ client'[c].index = client[c].index
        /\ client'[c].got = client[c].got /\ client'[c].by = client[c].by
    BY <2>2, <2>3 DEF ClientTypes
  <2>5. Len(client'[c].list) <= worker[c].count
        /\ \A i \in 1..Len(client'[c].list) : client'[c].list[i] = s[i]
    BY <1>5, <2>2, <2>4
  <2> QED BY <1>1, <1>5, <2>3, <2>4, <2>5 DEF WorkerTypes
<1>6. CASE client[c].state = "reading" /\ ~(n <= worker[c].count)
  <2>1. Ends(c) /\ client' = [client EXCEPT ![c].state = "loaded"]
    BY <1>6 DEF ReadEntry
  <2>2. /\ Len(client[c].list) <= worker[c].count
        /\ \A i \in 1..Len(client[c].list) : client[c].list[i] = s[i]
    BY <1>1, <1>6 DEF ReplyIsPrefix, ReplySoFar
  <2>3. Len(client[c].list) = Len(s)
    BY <1>2, <1>4, <1>6, <2>2
  <2>4. client[c].list = s
    BY <1>3, <1>4, <2>2, <2>3, SameLists
  <2>5. /\ ClientTypes' /\ client'[c].list = client[c].list /\ client'[c].state = "loaded"
        /\ \A d \in Client \ {c} : client'[d] = client[d]
        /\ client'[c].gen = client[c].gen /\ client'[c].index = client[c].index
        /\ client'[c].got = client[c].got /\ client'[c].by = client[c].by
    BY <2>1 DEF ClientTypes
  <2>6. WorkerTypes' /\ Moves(c, None)
    BY <2>1, EndsFacts DEF Moves
  <2>7. client[c].state = "reading" /\ client[c].list = snaps[worker[c].snap]
    BY <1>6, <2>4
  <2> QED BY <1>1, <2>5, <2>6, <2>7
<1>7. CASE client[c].state # "reading"
  <2>1. Ends(c) /\ client' = client
    BY <1>7 DEF ReadEntry
  <2>2. WorkerTypes' /\ Moves(c, None)
    BY <2>1, EndsFacts DEF Moves
  <2>3. ClientTypes'
    BY <2>1 DEF ClientTypes
  <2> QED BY <1>1, <1>7, <2>1, <2>2, <2>3
<1> QED BY <1>5, <1>6, <1>7

(* The request of c ends: its thread is gone, and c has what it got. *)
Answered(c) ==
  /\ Moves(c, None)
  /\ \A d \in Client : SameClient(d)
  /\ \A d \in Client : \/ /\ client'[d].state = client[d].state
                          /\ client'[d].got = client[d].got /\ client'[d].by = client[d].by
                       \/ d = c /\ client[c].state = "asking"
                               /\ client'[c].state \in {"served", "refused"}
  /\ client'[c].state # "asking"

Refused(c) == Answered(c) /\ (client'[c].state = "served" => client[c].state = "served")

LEMMA RefusedFacts ==
  ASSUME ClientTypes, WorkerTypes, NEW c \in Client, Refuse(c), Ends(c)
  PROVE  ClientTypes' /\ WorkerTypes' /\ Refused(c)
<1>1. /\ ClientTypes'
      /\ \A d \in Client :
           /\ SameClient(d) /\ client'[d].got = client[d].got /\ client'[d].by = client[d].by
           /\ client'[d].state = client[d].state
              \/ (d = c /\ client[d].state = "asking" /\ client'[d].state = "refused")
      /\ client'[c].state # "asking"
  BY RefuseFacts
<1>2. WorkerTypes' /\ Moves(c, None)
  BY EndsFacts DEF Moves
<1>3. client'[c].state = "served" => client[c].state = "served"
  BY <1>1
<1> QED BY <1>1, <1>2, <1>3 DEF Answered, Refused

LEMMA ServedFacts ==
  ASSUME ClientTypes, WorkerTypes, NEW c \in Client, NEW m \in Module \cup {None},
         NEW by \in Client \cup {None}, Serve(c, m, by), Ends(c)
  PROVE  /\ ClientTypes' /\ WorkerTypes' /\ Answered(c)
         /\ client[c].state # "served" /\ client'[c].state = "served" =>
              client'[c].got = m /\ client'[c].by = by
<1>1. /\ ClientTypes'
      /\ \A d \in Client :
           /\ SameClient(d)
           /\ \/ /\ client'[d].state = client[d].state
                 /\ client'[d].got = client[d].got /\ client'[d].by = client[d].by
              \/ /\ d = c /\ client[d].state = "asking" /\ client'[d].state = "served"
                 /\ client'[d].got = m /\ client'[d].by = by
      /\ client'[c].state # "asking"
  BY ServeFacts
<1>2. WorkerTypes' /\ Moves(c, None)
  BY EndsFacts DEF Moves
<1>3. client[c].state # "served" /\ client'[c].state = "served" =>
        client'[c].got = m /\ client'[c].by = by
  BY <1>1
<1> QED BY <1>1, <1>2, <1>3 DEF Answered

LEMMA OutOfRangeFacts ==
  ASSUME ClientTypes, WorkerTypes, NEW c \in Client, OutOfRange(c)
  PROVE  /\ ClientTypes' /\ WorkerTypes' /\ Refused(c) /\ worker[c].pc \in Asks
         /\ UNCHANGED <<gen, queue, main, snaps, origin, slot, lock, companion>>
<1>1. Refuse(c) /\ Ends(c) /\ worker[c].pc \in Asks
      /\ UNCHANGED <<gen, queue, main, snaps, origin, slot, lock, companion>>
  BY DEF OutOfRange, Asks, sentVars, snapVars, lockVars
<1> QED BY <1>1, RefusedFacts

LEMMA GetModuleDirFacts ==
  ASSUME Types, SnapsBounded, ClientTypes, WorkerTypes, IndexGiven,
         NEW c \in Client, GetModuleDir(c)
  PROVE  /\ ClientTypes' /\ WorkerTypes' /\ Answered(c) /\ worker[c].pc \in Asks
         /\ client[c].state # "served" /\ client'[c].state = "served" =>
              client'[c].got = snaps[Live][client[c].index] /\ client'[c].by = None
         /\ UNCHANGED <<gen, queue, main, snaps, origin, slot, lock, companion>>
<1> DEFINE m == snaps[Live][client[c].index]
<1>1. Ends(c) /\ worker[c].pc \in Asks /\ (Refuse(c) \/ Serve(c, m, None))
      /\ client[c].index <= Len(snaps[Live])
      /\ UNCHANGED <<gen, queue, main, snaps, origin, slot, lock, companion>>
  BY DEF GetModuleDir, Asks, sentVars, snapVars, lockVars
<1>2. m \in Module
  BY <1>1, EntryFacts DEF IndexGiven
<1> HIDE DEF m
<1>3. CASE Refuse(c)
  BY <1>1, <1>3, RefusedFacts DEF Refused
<1>4. CASE Serve(c, m, None)
  <2>1. /\ ClientTypes' /\ WorkerTypes' /\ Answered(c)
        /\ client[c].state # "served" /\ client'[c].state = "served" =>
              client'[c].got = m /\ client'[c].by = None
    BY <1>1, <1>2, <1>4, ServedFacts
  <2> QED BY <1>1, <2>1 DEF m
<1> QED BY <1>1, <1>3, <1>4

LEMMA ResolvesFacts ==
  ASSUME Types, SnapsBounded, ClientTypes, WorkerTypes, IndexGiven,
         NEW c \in Client, Resolves(c)
  PROVE  /\ WorkerTypes' /\ worker[c].pc = "RequestCompanionSocket" /\ Moves(c, "lock")
         /\ worker'[c].snap = Live /\ worker'[c].mod = snaps[Live][client[c].index]
         /\ client[c].index \in 1..Len(snaps[Live]) /\ worker'[c].mod \in Module
         /\ UNCHANGED <<gen, queue, main, snaps, origin, slot, lock, companion, client>>
<1> DEFINE m == snaps[Live][client[c].index]
           l == Live
<1>1. /\ worker[c].pc = "RequestCompanionSocket" /\ client[c].index <= Len(snaps[Live])
      /\ worker' = [worker EXCEPT ![c] = [@ EXCEPT !.pc = "lock", !.snap = l, !.mod = m]]
      /\ UNCHANGED <<gen, queue, main, snaps, origin, slot, lock, companion, client>>
  BY DEF Resolves, sentVars, snapVars, lockVars
<1>2. client[c].index # 0
  BY <1>1 DEF IndexGiven, Asks
<1>3. client[c].index \in 1..Len(snaps[Live]) /\ m \in Module /\ l \in Snap
  BY <1>1, <1>2, EntryFacts, LiveFacts
<1> HIDE DEF m, l
<1>4. /\ WorkerTypes' /\ Moves(c, "lock") /\ worker'[c].snap = l /\ worker'[c].mod = m
  BY <1>1, <1>3 DEF WorkerTypes, Moves
<1> QED BY <1>1, <1>3, <1>4 DEF m, l

(* The thread of c moves on with the Module it has. *)
Stays(c) == worker'[c].snap = worker[c].snap /\ worker'[c].mod = worker[c].mod

LEMMA LocksFacts ==
  ASSUME Types, SnapsBounded, LockTypes, WorkerTypes, Published, NEW c \in Client, Locks(c)
  PROVE  /\ WorkerTypes' /\ LockTypes' /\ worker[c].pc = "lock" /\ Moves(c, "locked")
         /\ Stays(c) /\ Slot(c) \in Home /\ lock[Slot(c)] = None /\ Hands(Slot(c), c)
         /\ \A g \in Home : slot'[g] = slot[g] \/ (g = Slot(c) /\ slot'[g] = None)
         /\ UNCHANGED <<gen, queue, main, snaps, origin, companion, client>>
<1> DEFINE h == Slot(c)
<1>1. /\ worker[c].pc = "lock" /\ lock[h] = None
      /\ worker' = [worker EXCEPT ![c].pc = "locked"] /\ lock' = [lock EXCEPT ![h] = c]
      /\ slot' = slot \/ slot' = [slot EXCEPT ![h] = None]
      /\ UNCHANGED <<gen, queue, main, snaps, origin, companion, client>>
  BY DEF Locks, sentVars, snapVars
<1>2. HasModule(c)
  BY <1>1 DEF HasModule
<1>3. h \in Home
  BY <1>2, SlotFacts
<1> HIDE DEF h
<1>4. WorkerTypes' /\ Moves(c, "locked") /\ Stays(c)
  BY <1>1 DEF WorkerTypes, Moves, Stays
<1>5. /\ LockTypes' /\ Hands(h, c)
      /\ \A g \in Home : slot'[g] = slot[g] \/ (g = h /\ slot'[g] = None)
  BY <1>1, <1>3 DEF LockTypes, Hands
<1> QED BY <1>1, <1>3, <1>4, <1>5 DEF h

(* A thread that ends with the mutex in its hands gives it back. *)
LEMMA UnlocksFacts ==
  ASSUME LockTypes, NEW c \in Client, Slot(c) \in Home, Unlocks(c), UNCHANGED slot
  PROVE  LockTypes' /\ Hands(Slot(c), None)
<1> DEFINE h == Slot(c)
<1>1. h \in Home /\ lock' = [lock EXCEPT ![h] = None] /\ slot' = slot
  BY DEF Unlocks
<1> HIDE DEF h
<1>2. LockTypes' /\ Hands(h, None)
  BY <1>1 DEF LockTypes, Hands
<1> QED BY <1>2 DEF h

LEMMA SpawnsFacts ==
  ASSUME Types, SnapsBounded, ThreadTypes, Published, NEW c \in Client, Spawns(c)
  PROVE  /\ ThreadTypes' /\ worker[c].pc = "locked" /\ Slot(c) \in Home /\ slot[Slot(c)] = None
         /\ UNCHANGED <<gen, queue, main, snaps, origin, slot>>
         /\ \/ /\ Moves(c, "spawned") /\ Stays(c)
               /\ \A d \in Client \ {c} : companion'[d] = companion[d]
               /\ companion'[c].home = Slot(c) /\ companion'[c].gen = gen
               /\ companion'[c].state # None
               /\ UNCHANGED <<lock, client>>
            \/ Refused(c) /\ Hands(Slot(c), None) /\ UNCHANGED companion
<1> USE DEF ThreadTypes
<1> DEFINE h == Slot(c)
<1>1. worker[c].pc = "locked" /\ slot[h] = None
      /\ UNCHANGED <<gen, queue, main, snaps, origin, slot>>
  BY DEF Spawns, sentVars, snapVars
<1>2. HasModule(c)
  BY <1>1 DEF HasModule
<1>3. h \in Home
  BY <1>2, SlotFacts
<1>4. CASE /\ companion' = [companion EXCEPT ![c] = [state |-> "starting", home |-> h,
                                                     gen |-> gen]]
           /\ worker' = [worker EXCEPT ![c].pc = "spawned"]
           /\ UNCHANGED <<lock, client>>
  <2>1. h \in Snap \X (Module \cup {None}) /\ gen \in 0..MaxRestarts
    BY <1>3 DEF Home, Types
  <2> HIDE DEF h
  <2>2. WorkerTypes' /\ Moves(c, "spawned") /\ Stays(c)
    BY <1>4 DEF WorkerTypes, Moves, Stays
  <2>3. /\ CompanionTypes' /\ \A d \in Client \ {c} : companion'[d] = companion[d]
    BY <1>4, <2>1 DEF CompanionTypes
  <2>4. companion'[c].home = h /\ companion'[c].gen = gen /\ companion'[c].state = "starting"
    BY <1>4 DEF CompanionTypes
  <2>5. LockTypes' /\ ClientTypes'
    BY <1>1, <1>4 DEF LockTypes, ClientTypes
  <2> QED BY <1>1, <1>3, <1>4, <2>2, <2>3, <2>4, <2>5 DEF h
<1>5. CASE Unlocks(c) /\ Refuse(c) /\ Ends(c) /\ UNCHANGED companion
  <2>1. ClientTypes' /\ WorkerTypes' /\ Refused(c)
    BY <1>5, RefusedFacts
  <2>2. LockTypes' /\ Hands(h, None)
    BY <1>1, <1>3, <1>5, UnlocksFacts
  <2>3. CompanionTypes'
    BY <1>5 DEF CompanionTypes
  <2> QED BY <1>1, <1>3, <1>5, <2>1, <2>2, <2>3
<1> QED BY <1>4, <1>5 DEF Spawns

LEMMA ReadsAnswerFacts ==
  ASSUME Types, SnapsBounded, ThreadTypes, Published, NEW c \in Client, ReadsAnswer(c)
  PROVE  /\ ThreadTypes' /\ worker[c].pc = "spawned" /\ Slot(c) \in Home
         /\ UNCHANGED <<gen, queue, main, snaps, origin, companion>>
         /\ \/ /\ Moves(c, "locked") /\ Stays(c)
               /\ slot'[Slot(c)] = c /\ \A g \in Home \ {Slot(c)} : slot'[g] = slot[g]
               /\ UNCHANGED <<lock, client>>
            \/ Refused(c) /\ Hands(Slot(c), None) /\ UNCHANGED slot
<1> USE DEF ThreadTypes
<1> DEFINE h == Slot(c)
<1>1. worker[c].pc = "spawned"
      /\ UNCHANGED <<gen, queue, main, snaps, origin, companion>>
  BY DEF ReadsAnswer, sentVars, snapVars
<1>2. HasModule(c)
  BY <1>1 DEF HasModule
<1>3. h \in Home
  BY <1>2, SlotFacts
<1>4. CASE /\ slot' = [slot EXCEPT ![h] = c]
           /\ worker' = [worker EXCEPT ![c].pc = "locked"]
           /\ UNCHANGED <<lock, client>>
  <2> HIDE DEF h
  <2>1. WorkerTypes' /\ Moves(c, "locked") /\ Stays(c)
    BY <1>4 DEF WorkerTypes, Moves, Stays
  <2>2. LockTypes' /\ slot'[h] = c /\ \A g \in Home \ {h} : slot'[g] = slot[g]
    BY <1>3, <1>4 DEF LockTypes
  <2>3. CompanionTypes' /\ ClientTypes'
    BY <1>1, <1>4 DEF CompanionTypes, ClientTypes
  <2> QED BY <1>1, <1>3, <1>4, <2>1, <2>2, <2>3 DEF h
<1>5. CASE Unlocks(c) /\ Refuse(c) /\ Ends(c) /\ UNCHANGED slot
  <2>1. ClientTypes' /\ WorkerTypes' /\ Refused(c)
    BY <1>5, RefusedFacts
  <2>2. LockTypes' /\ Hands(h, None)
    BY <1>3, <1>5, UnlocksFacts
  <2>3. CompanionTypes'
    BY <1>1 DEF CompanionTypes
  <2> QED BY <1>1, <1>3, <1>5, <2>1, <2>2, <2>3
<1> QED BY <1>4, <1>5 DEF ReadsAnswer

LEMMA ConnectsFacts ==
  ASSUME Types, SnapsBounded, ThreadTypes, Published, AtHome, NEW c \in Client, Connects(c)
  PROVE  /\ ThreadTypes' /\ worker[c].pc = "locked" /\ Slot(c) \in Home
         /\ UNCHANGED <<gen, queue, main, snaps, origin, slot, companion>>
         /\ Answered(c) /\ Hands(Slot(c), None) /\ slot[Slot(c)] \in Client
         /\ client[c].state # "served" /\ client'[c].state = "served" =>
              client'[c].got = worker[c].mod /\ client'[c].by = slot[Slot(c)]
<1> USE DEF ThreadTypes
<1> DEFINE d == slot[Slot(c)]
<1>1. /\ worker[c].pc = "locked" /\ d # None /\ Unlocks(c) /\ Ends(c)
      /\ Serve(c, companion[d].home[2], d) \/ Refuse(c)
      /\ UNCHANGED <<gen, queue, main, snaps, origin, slot, companion>>
  BY DEF Connects, sentVars, snapVars
<1>2. HasModule(c)
  BY <1>1 DEF HasModule
<1>3. /\ Slot(c) \in Home /\ Slot(c) = <<worker[c].snap, worker[c].mod>>
      /\ worker[c].mod \in Module /\ d \in Client \cup {None}
  BY <1>2, SlotFacts
<1>4. d \in Client /\ companion[d].home = Slot(c)
  BY <1>1, <1>3 DEF AtHome
<1>5. companion[d].home[2] = worker[c].mod
  BY <1>3, <1>4
<1>6. LockTypes' /\ Hands(Slot(c), None)
  BY <1>1, <1>3, UnlocksFacts
<1>7. CompanionTypes'
  BY <1>1 DEF CompanionTypes
<1> HIDE DEF d
<1>8. CASE Refuse(c)
  <2>1. ClientTypes' /\ WorkerTypes' /\ Answered(c)
        /\ (client'[c].state = "served" => client[c].state = "served")
    BY <1>1, <1>8, RefusedFacts DEF Refused
  <2> QED BY <1>1, <1>3, <1>4, <1>6, <1>7, <2>1 DEF d
<1>9. CASE Serve(c, worker[c].mod, d)
  <2>1. /\ ClientTypes' /\ WorkerTypes' /\ Answered(c)
        /\ client[c].state # "served" /\ client'[c].state = "served" =>
              client'[c].got = worker[c].mod /\ client'[c].by = d
    BY <1>1, <1>3, <1>4, <1>9, ServedFacts
  <2> QED BY <1>1, <1>3, <1>4, <1>6, <1>7, <2>1 DEF d
<1> QED BY <1>1, <1>5, <1>8, <1>9

-----------------------------------------------------------------------------
(***************************************************************************)
(* The invariant is inductive, one part after the other.                   *)
(***************************************************************************)
Rest == <<gen, queue, main, snaps, origin, slot, lock, worker, companion, client>>

LEMMA StepCases ==
  ASSUME [Next]_vars
  PROVE  \/ UNCHANGED Rest
         \/ ZygoteRestarts \/ ZygoteRestartsUnreported
         \/ \E b \in BOOLEAN : MonitorRefreshes(b)
         \/ \E c \in Client : ClientStarts(c)
         \/ \E c \in Client, i \in Index, a \in Asks : ClientAsks(c, a, i)
         \/ AcceptsUntrusted \/ AcceptsThreaded \/ AcceptsRestart \/ AcceptsRefresh
         \/ DropCompanion \/ Rescan
         \/ \E c \in Client :
              \/ ReadBegins(c) \/ ReadEntry(c) \/ OutOfRange(c) \/ GetModuleDir(c)
              \/ Resolves(c) \/ Locks(c) \/ Spawns(c) \/ ReadsAnswer(c) \/ Connects(c)
         \/ \E c \in Client : Companion(c) \/ CompanionDies(c)
<1>1. ASSUME NEW m \in Module, NEW to \in {"absent", "enabled", "disabled"}, Edit(m, to)
      PROVE  UNCHANGED Rest
  BY <1>1 DEF Edit, Rest, sentVars, snapVars, lockVars
<1>2. CASE UNCHANGED vars
  BY <1>2 DEF vars, Rest, sentVars, snapVars, lockVars
<1> QED BY <1>1, <1>2 DEF Next, Device, Main, Worker, Asks

LEMMA CompanionUnchanged ==
  ASSUME NEW c \in Client, Companion(c) \/ CompanionDies(c)
  PROVE  UNCHANGED <<gen, queue, main, snaps, origin, slot, lock, worker, client>>
BY DEF Companion, CompanionDies, CompanionAnswers, CompanionExits, sentVars, snapVars, lockVars

LEMMA ThreadTypesStep ==
  ASSUME Inv, [Next]_vars
  PROVE  ThreadTypes'
<1> USE DEF ThreadTypes
<1>0. /\ Types /\ SnapsBounded /\ LockTypes /\ WorkerTypes /\ CompanionTypes /\ ClientTypes
      /\ IndexGiven /\ Published /\ AtHome /\ ReplyIsPrefix /\ ThreadTypes
  BY DEF Inv
<1>1. CASE UNCHANGED Rest
  BY <1>0, <1>1 DEF Rest, LockTypes, WorkerTypes, CompanionTypes, ClientTypes
<1>2. CASE ZygoteRestarts
  BY <1>0, <1>2, RestartFacts DEF LockTypes, WorkerTypes, CompanionTypes
<1>u. CASE ZygoteRestartsUnreported
  BY <1>0, <1>u, UnreportedFacts DEF LockTypes, WorkerTypes, CompanionTypes
<1>3. ASSUME NEW b \in BOOLEAN, MonitorRefreshes(b) PROVE ThreadTypes'
  BY <1>0, <1>3, RefreshFacts DEF LockTypes, WorkerTypes, CompanionTypes, ClientTypes
<1>4. ASSUME NEW c \in Client, ClientStarts(c) PROVE ThreadTypes'
  BY <1>0, <1>4, StartFacts DEF LockTypes, WorkerTypes, CompanionTypes
<1>5. ASSUME NEW c \in Client, NEW i \in Index, NEW a \in Asks, ClientAsks(c, a, i)
      PROVE  ThreadTypes'
  BY <1>0, <1>5, AskFacts DEF LockTypes, WorkerTypes, CompanionTypes
<1>6. CASE AcceptsUntrusted
  BY <1>0, <1>6, UntrustedFacts, RefuseFacts DEF LockTypes, WorkerTypes, CompanionTypes
<1>7. CASE AcceptsThreaded
  BY <1>0, <1>7, ThreadedFacts DEF LockTypes, CompanionTypes, ClientTypes
<1>8. CASE AcceptsRestart \/ AcceptsRefresh
  BY <1>0, <1>8, OrderFacts DEF LockTypes, WorkerTypes, CompanionTypes, ClientTypes
<1>9. CASE DropCompanion
  BY <1>0, <1>9, DropFacts DEF WorkerTypes, CompanionTypes, ClientTypes
<1>10. CASE Rescan
  BY <1>0, <1>10, RescanFacts DEF LockTypes, WorkerTypes, ClientTypes
<1>11. ASSUME NEW c \in Client, ReadBegins(c) PROVE ThreadTypes'
  BY <1>0, <1>11, ReadBeginsFacts DEF LockTypes, ClientTypes
<1>12. ASSUME NEW c \in Client, ReadEntry(c) PROVE ThreadTypes'
  <2>1. WorkerTypes' /\ ClientTypes' /\ UNCHANGED <<slot, lock, companion>>
    BY <1>0, <1>12, ReadEntryFacts
  <2> QED BY <1>0, <2>1 DEF LockTypes, CompanionTypes
<1>13. ASSUME NEW c \in Client, OutOfRange(c) PROVE ThreadTypes'
  BY <1>0, <1>13, OutOfRangeFacts DEF LockTypes, CompanionTypes
<1>14. ASSUME NEW c \in Client, GetModuleDir(c) PROVE ThreadTypes'
  BY <1>0, <1>14, GetModuleDirFacts DEF LockTypes, CompanionTypes
<1>15. ASSUME NEW c \in Client, Resolves(c) PROVE ThreadTypes'
  BY <1>0, <1>15, ResolvesFacts DEF LockTypes, CompanionTypes, ClientTypes
<1>16. ASSUME NEW c \in Client, Locks(c) PROVE ThreadTypes'
  BY <1>0, <1>16, LocksFacts DEF CompanionTypes, ClientTypes
<1>17. ASSUME NEW c \in Client, Spawns(c) PROVE ThreadTypes'
  BY <1>0, <1>17, SpawnsFacts
<1>18. ASSUME NEW c \in Client, ReadsAnswer(c) PROVE ThreadTypes'
  BY <1>0, <1>18, ReadsAnswerFacts
<1>19. ASSUME NEW c \in Client, Connects(c) PROVE ThreadTypes'
  BY <1>0, <1>19, ConnectsFacts
<1>20. ASSUME NEW c \in Client, Companion(c) \/ CompanionDies(c) PROVE ThreadTypes'
  BY <1>0, <1>20, CompanionFacts, CompanionUnchanged DEF LockTypes, WorkerTypes, ClientTypes
<1> QED BY <1>u, <1>1, <1>2, <1>3, <1>4, <1>5, <1>6, <1>7, <1>8, <1>9, <1>10, <1>11, <1>12, <1>13,
          <1>14, <1>15, <1>16, <1>17, <1>18, <1>19, <1>20, StepCases


(* A queue that loses its first connection: place i was place i + 1. *)
Shifts ==
  /\ \A i \in Place' :
       /\ i + 1 \in Place /\ i \in Nat \ {0}
       /\ \A c \in Client : From(i, c)' <=> From(i + 1, c)
       /\ RestartAt(i)' <=> RestartAt(i + 1)
       /\ queue'[i].act = queue[i + 1].act
  /\ \A j \in Place \ {1} : j - 1 \in Place' /\ (RestartAt(j) => RestartAt(j - 1)')

LEMMA TakenShifts ==
  /\ \A act : TakenOrder(act) => Shifts /\ 1 \in Place
  /\ \A c \in Client : Taken(c) => Shifts /\ 1 \in Place
BY DEF TakenOrder, Taken, Shifts, Place, From, RestartAt

(* A queue that gets a connection: the others keep their places. *)
NewFrom(d) ==
  /\ queue'[Len(queue) + 1].act \in Asks \cup {"ReadModules"}
  /\ queue'[Len(queue) + 1].from = d

Grows ==
  /\ Len(queue) + 1 \in Place' /\ Place \subseteq Place' /\ Len(queue) \in Nat
  /\ \A i \in Place' : i \in Place \/ (i = Len(queue) + 1
                                       /\ \A c \in Client : From(i, c)' <=> NewFrom(c))
  /\ \A i \in Place :
       /\ i < Len(queue) + 1 /\ i \in Nat \ {0}
       /\ \A c \in Client : From(i, c)' <=> From(i, c)
       /\ RestartAt(i)' <=> RestartAt(i)
       /\ queue'[i].act = queue[i].act

LEMMA QueueGrows ==
  ASSUME Len(queue') = Len(queue) + 1, Len(queue) \in Nat,
         \A i \in 1..Len(queue) : queue'[i] = queue[i]
  PROVE  Grows
BY DEF Grows, Place, From, RestartAt, NewFrom

LEMMA OneAtATimeStep ==
  ASSUME Inv, [Next]_vars
  PROVE  OneAtATime' /\ IndexGiven'
<1>0. /\ Types /\ SnapsBounded /\ LockTypes /\ WorkerTypes /\ CompanionTypes /\ ClientTypes
      /\ IndexGiven /\ Published /\ AtHome /\ ReplyIsPrefix /\ ThreadTypes /\ OneAtATime
  BY DEF Inv, ThreadTypes
<1> USE DEF OneAtATime, IndexGiven, From, Place
<1>1. CASE UNCHANGED <<gen, queue, worker, client>>
  BY <1>0, <1>1
<1>2. CASE ZygoteRestarts
  <2>1. \A d \in Client : client[d].gen \in Nat
    BY <1>0, BoundsAssumption DEF ClientTypes
  <2>2. Grows /\ \A d \in Client : ~NewFrom(d)
    BY <1>0, <1>2, RestartFacts, QueueGrows DEF NewFrom, Asks
  <2>3. /\ \A d \in Client : /\ client'[d].gen = client[d].gen /\ client'[d].index = client[d].index
                            /\ client'[d].state \in {client[d].state, "dead"}
        /\ gen' = gen + 1 /\ gen \in Nat /\ UNCHANGED worker
    BY <1>0, <1>2, RestartFacts DEF SameClient
  <2> HIDE DEF From, Place
  <2> QED BY <1>0, <2>1, <2>2, <2>3 DEF Grows
<1>u. CASE ZygoteRestartsUnreported
  <2>1. /\ \A d \in Client : /\ client'[d].gen = client[d].gen /\ client'[d].index = client[d].index
                            /\ client'[d].state \in {client[d].state, "dead"}
        /\ UNCHANGED <<gen, queue, worker>>
    BY <1>0, <1>u, UnreportedFacts DEF SameClient
  <2> QED BY <1>0, <2>1
<1>3. ASSUME NEW b \in BOOLEAN, MonitorRefreshes(b) PROVE OneAtATime' /\ IndexGiven'
  <2>1. Grows /\ \A d \in Client : ~NewFrom(d)
    BY <1>0, <1>3, RefreshFacts, QueueGrows DEF NewFrom, Asks
  <2>2. UNCHANGED <<gen, worker, client>>
    BY <1>0, <1>3, RefreshFacts
  <2> HIDE DEF From, Place
  <2> QED BY <1>0, <2>1, <2>2 DEF Grows
<1>4. ASSUME NEW c \in Client, ClientStarts(c) PROVE OneAtATime' /\ IndexGiven'
  <2>1. gen \in Nat
    BY <1>0 DEF Types
  <2>2. Grows
    BY <1>0, <1>4, StartFacts, QueueGrows
  <2>3. /\ \A d \in Client \ {c} : client'[d] = client[d]
        /\ client[c].state = None /\ client'[c].state = "reading" /\ client'[c].gen = gen
        /\ queue'[Len(queue) + 1].act = "ReadModules" /\ queue'[Len(queue) + 1].from = c
        /\ UNCHANGED <<gen, worker>>
    BY <1>0, <1>4, StartFacts
  <2>4. \A d \in Client : NewFrom(d) <=> d = c
    BY <2>3 DEF NewFrom
  <2> HIDE DEF From, Place
  <2> QED BY <1>0, <2>1, <2>2, <2>3, <2>4 DEF Grows, Asks
<1>5. ASSUME NEW c \in Client, NEW i \in Index, NEW a \in Asks, ClientAsks(c, a, i)
      PROVE  OneAtATime' /\ IndexGiven'
  BY <1>0, <1>5, AskFacts, SMTT(20)
<1>6. CASE AcceptsUntrusted
  <2>1. PICK c \in Client :
          Taken(c) /\ Refuse(c)
          /\ UNCHANGED <<gen, main, snaps, origin, slot, lock, worker, companion>>
    BY <1>0, <1>6, UntrustedFacts
  <2>2. \A d \in Client : SameClient(d) /\ (client'[d].state = client[d].state \/ d = c)
    BY <1>0, <2>1, RefuseFacts
  <2>3. worker[c].pc = None
    BY <1>0, <2>1 DEF Taken
  <2>4. Shifts /\ 1 \in Place /\ From(1, c)
    BY <2>1, TakenShifts DEF Taken
  <2> HIDE DEF From, Place
  <2> QED BY <1>0, <2>1, <2>2, <2>3, <2>4 DEF Shifts, SameClient
<1>7. CASE AcceptsThreaded
  <2>1. PICK c \in Client :
           /\ Taken(c) /\ worker'[c].pc = queue[1].act
           /\ \A d \in Client \ {c} : worker'[d] = worker[d]
           /\ UNCHANGED <<gen, main, snaps, origin, slot, lock, companion, client>>
    BY <1>0, <1>7, ThreadedFacts
  <2>2. Shifts /\ 1 \in Place /\ From(1, c) /\ queue[1].act \in Asks \cup {"ReadModules"}
    BY <2>1, TakenShifts DEF Taken
  <2> HIDE DEF From, Place
  <2> QED BY <1>0, <2>1, <2>2 DEF Shifts, Asks
<1>8. CASE AcceptsRestart \/ AcceptsRefresh
  <2>1. Shifts /\ UNCHANGED <<gen, worker, client>>
    BY <1>0, <1>8, OrderFacts, TakenShifts
  <2> HIDE DEF From, Place
  <2> QED BY <1>0, <2>1 DEF Shifts
<1>9. CASE DropCompanion
  BY <1>0, <1>1, <1>9, DropFacts
<1>10. CASE Rescan
  BY <1>0, <1>1, <1>10, RescanFacts
<1>11. ASSUME NEW c \in Client, ReadBegins(c) PROVE OneAtATime' /\ IndexGiven'
  BY <1>0, <1>11, ReadBeginsFacts DEF Moves, Asks
<1>12. ASSUME NEW c \in Client, ReadEntry(c) PROVE OneAtATime' /\ IndexGiven'
  <2>1. /\ worker[c].pc = "reply" /\ \A d \in Client \ {c} : client'[d] = client[d]
        /\ client'[c].gen = client[c].gen /\ client'[c].index = client[c].index
        /\ UNCHANGED <<gen, queue>>
        /\ \/ UNCHANGED worker /\ client'[c].state = client[c].state
           \/ Moves(c, None)
    BY <1>0, <1>12, ReadEntryFacts
  <2> QED BY <1>0, <2>1 DEF Moves, Asks
<1>13. ASSUME NEW c \in Client, Answered(c), worker[c].pc # None, UNCHANGED <<gen, queue>>
       PROVE  OneAtATime' /\ IndexGiven'
  <2>1. \A d \in Client : SameClient(d) /\ (client'[d].state = client[d].state \/ d = c)
    BY <1>13 DEF Answered
  <2>2. Moves(c, None)
    BY <1>13 DEF Answered
  <2> QED BY <1>0, <1>13, <2>1, <2>2 DEF Moves, SameClient, Asks
<1>14. ASSUME NEW c \in Client, OutOfRange(c) \/ GetModuleDir(c)
       PROVE  OneAtATime' /\ IndexGiven'
  BY <1>0, <1>13, <1>14, OutOfRangeFacts, GetModuleDirFacts DEF Refused, Asks
<1>15. ASSUME NEW c \in Client, NEW p \in {"lock", "locked", "spawned"}, Moves(c, p),
              worker[c].pc \in Asks \cup {"lock", "locked", "spawned"},
              UNCHANGED <<gen, queue, client>>
       PROVE  OneAtATime' /\ IndexGiven'
  BY <1>0, <1>15 DEF Moves, Asks
<1>16. ASSUME NEW c \in Client, Resolves(c) \/ Locks(c) PROVE OneAtATime' /\ IndexGiven'
  BY <1>0, <1>15, <1>16, ResolvesFacts, LocksFacts DEF Asks
<1>17. ASSUME NEW c \in Client, Spawns(c) PROVE OneAtATime' /\ IndexGiven'
  <2>1. /\ worker[c].pc = "locked" /\ UNCHANGED <<gen, queue>>
        /\ \/ Moves(c, "spawned") /\ UNCHANGED client
           \/ Answered(c)
    BY <1>0, <1>17, SpawnsFacts DEF Refused
  <2> QED BY <1>13, <1>15, <2>1
<1>18. ASSUME NEW c \in Client, ReadsAnswer(c) PROVE OneAtATime' /\ IndexGiven'
  <2>1. /\ worker[c].pc = "spawned" /\ UNCHANGED <<gen, queue>>
        /\ \/ Moves(c, "locked") /\ UNCHANGED client
           \/ Answered(c)
    BY <1>0, <1>18, ReadsAnswerFacts DEF Refused
  <2> QED BY <1>13, <1>15, <2>1
<1>19. ASSUME NEW c \in Client, Connects(c) PROVE OneAtATime' /\ IndexGiven'
  BY <1>0, <1>13, <1>19, ConnectsFacts
<1>20. ASSUME NEW c \in Client, Companion(c) \/ CompanionDies(c)
       PROVE  OneAtATime' /\ IndexGiven'
  BY <1>0, <1>1, <1>20, CompanionUnchanged
<1>21. CASE UNCHANGED Rest
  BY <1>1, <1>21 DEF Rest
<1> HIDE DEF OneAtATime, IndexGiven, From, Place
<1> QED BY <1>u, <1>2, <1>3, <1>4, <1>5, <1>6, <1>7, <1>8, <1>9, <1>10, <1>11, <1>12,
          <1>14, <1>16, <1>17, <1>18, <1>19, <1>20, <1>21, StepCases

(* What was published stays published. *)
LEMMA ListedStays ==
  ASSUME Types, UNCHANGED <<snaps, origin>> \/ Publishes, NEW h, Listed(h)
  PROVE  Listed(h)'
<1>1. Live \in Nat
  BY DEF Types, Live
<1>2. CASE UNCHANGED <<snaps, origin>>
  BY <1>2 DEF Listed, Live
<1>3. CASE Publishes
  BY <1>1, <1>3 DEF Publishes, Listed, Live
<1> QED BY <1>2, <1>3

LEMMA PublishedStep ==
  ASSUME Inv, [Next]_vars
  PROVE  Published'
<1>0. /\ Types /\ SnapsBounded /\ LockTypes /\ WorkerTypes /\ CompanionTypes /\ ClientTypes
      /\ IndexGiven /\ Published /\ AtHome /\ ReplyIsPrefix /\ ThreadTypes
  BY DEF Inv, ThreadTypes
<1>1. CASE UNCHANGED <<snaps, slot, worker>>
  BY <1>0, <1>1 DEF Published, Listed, Live, HasModule, Slot
<1>2. ASSUME NEW c \in Client, NEW p \in {None, "reply"} \cup Asks \cup {"ReadModules"},
             Moves(c, p), UNCHANGED <<snaps, slot>>
      PROVE  Published'
  BY <1>0, <1>2 DEF Published, Listed, Live, HasModule, Slot, Moves, Asks
<1>3. CASE ZygoteRestarts
  BY <1>0, <1>1, <1>3, RestartFacts
<1>u. CASE ZygoteRestartsUnreported
  BY <1>0, <1>1, <1>u, UnreportedFacts
<1>4. ASSUME NEW b \in BOOLEAN, MonitorRefreshes(b) PROVE Published'
  BY <1>0, <1>1, <1>4, RefreshFacts
<1>5. ASSUME NEW c \in Client, ClientStarts(c) PROVE Published'
  BY <1>0, <1>1, <1>5, StartFacts
<1>6. ASSUME NEW c \in Client, NEW i \in Index, NEW a \in Asks, ClientAsks(c, a, i)
      PROVE  Published'
  BY <1>0, <1>1, <1>6, AskFacts
<1>7. CASE AcceptsUntrusted
  BY <1>0, <1>1, <1>7, UntrustedFacts
<1>8. CASE AcceptsThreaded
  BY <1>0, <1>2, <1>8, ThreadedFacts DEF Taken, From, Moves
<1>9. CASE AcceptsRestart \/ AcceptsRefresh
  BY <1>0, <1>1, <1>9, OrderFacts
<1>10. CASE DropCompanion
  <2>1. UNCHANGED <<snaps, worker>> /\ \A g \in Home : slot'[g] = slot[g] \/ slot'[g] = None
    BY <1>0, <1>10, DropFacts DEF Dropped
  <2> QED BY <1>0, <2>1 DEF Published, Listed, Live, HasModule, Slot
<1>11. CASE Rescan
  <2>1. UNCHANGED <<slot, worker>> /\ (UNCHANGED <<snaps, origin>> \/ Publishes)
    BY <1>0, <1>11, RescanFacts
  <2>2. \A c \in Client : HasModule(c)' <=> HasModule(c)
    BY <2>1 DEF HasModule
  <2>3. \A c \in Client : Slot(c)' = Slot(c)
    BY <2>1 DEF Slot
  <2>4. \A h \in Home : slot'[h] # None => Listed(h)'
    BY <1>0, <2>1, ListedStays DEF Published
  <2>5. \A c \in Client : HasModule(c) => Listed(Slot(c))
    BY <1>0 DEF Published
  <2>6. ASSUME NEW c \in Client, HasModule(c)' PROVE Listed(Slot(c))'
    <3>1. Listed(<<worker[c].snap, worker[c].mod>>)
      BY <2>2, <2>5, <2>6 DEF Slot
    <3>2. Listed(<<worker[c].snap, worker[c].mod>>)'
      BY <1>0, <2>1, <2>2, <2>5, <2>6, ListedStays DEF Slot, Listed, Publishes, Live, Types
    <3> QED BY <2>1, <3>2 DEF Slot
  <2> QED BY <2>4, <2>6 DEF Published
<1>12. ASSUME NEW c \in Client, ReadBegins(c) PROVE Published'
  BY <1>0, <1>2, <1>12, ReadBeginsFacts
<1>13. ASSUME NEW c \in Client, ReadEntry(c) PROVE Published'
  BY <1>0, <1>1, <1>2, <1>13, ReadEntryFacts
<1>14. ASSUME NEW c \in Client, OutOfRange(c) \/ GetModuleDir(c) PROVE Published'
  BY <1>0, <1>2, <1>14, OutOfRangeFacts, GetModuleDirFacts DEF Refused, Answered
<1>15. ASSUME NEW e \in Client, Resolves(e) PROVE Published'
  <2>1. /\ Moves(e, "lock") /\ worker'[e].snap = Live
        /\ worker'[e].mod = snaps[Live][client[e].index]
        /\ client[e].index \in 1..Len(snaps[Live]) /\ UNCHANGED <<snaps, slot>>
    BY <1>0, <1>15, ResolvesFacts
  <2>2. Live \in 1..Live
    BY <1>0, LiveFacts DEF Snap
  <2>3. Listed(Slot(e))'
    BY <2>1, <2>2 DEF Listed, Slot, Live
  <2>4. \A h : Listed(h)' <=> Listed(h)
    BY <2>1 DEF Listed, Live
  <2>5. \A c \in Client \ {e} : (HasModule(c)' <=> HasModule(c)) /\ Slot(c)' = Slot(c)
    BY <2>1 DEF HasModule, Slot, Moves
  <2> HIDE DEF Listed, HasModule, Slot
  <2> QED BY <1>0, <2>1, <2>3, <2>4, <2>5 DEF Published
<1>16. ASSUME NEW c \in Client, NEW p, HasModule(c), Moves(c, p), Stays(c), UNCHANGED snaps,
              \A g \in Home : slot'[g] \in {slot[g], None} \/ g = Slot(c)
       PROVE  Published'
  <2>1. Listed(Slot(c)) /\ Slot(c)' = Slot(c)
    BY <1>0, <1>16 DEF Published, Stays, Slot
  <2>2. \A h : Listed(h)' <=> Listed(h)
    BY <1>16 DEF Listed, Live
  <2>3. \A h \in Home : slot'[h] # None => Listed(h)'
    BY <1>0, <1>16, <2>1, <2>2 DEF Published
  <2>4. ASSUME NEW d \in Client, HasModule(d)' PROVE Listed(Slot(d))'
    <3>1. Slot(d)' = Slot(d) /\ HasModule(d)
      BY <1>16, <2>1, <2>4 DEF Moves, Slot, HasModule
    <3>2. Listed(Slot(d))
      BY <1>0, <3>1 DEF Published
    <3> QED BY <1>16, <3>1, <3>2 DEF Listed, Live
  <2> QED BY <2>3, <2>4 DEF Published
<1>17. ASSUME NEW c \in Client, Locks(c) PROVE Published'
  BY <1>0, <1>16, <1>17, LocksFacts DEF HasModule
<1>18. ASSUME NEW c \in Client, Spawns(c) PROVE Published'
  <2>1. /\ worker[c].pc = "locked" /\ UNCHANGED <<snaps, slot>>
        /\ (Moves(c, "spawned") /\ Stays(c)) \/ Moves(c, None)
    BY <1>0, <1>18, SpawnsFacts DEF Refused, Answered
  <2> QED BY <1>2, <1>16, <2>1 DEF HasModule
<1>19. ASSUME NEW c \in Client, ReadsAnswer(c) PROVE Published'
  <2>1. /\ worker[c].pc = "spawned" /\ UNCHANGED snaps
        /\ \/ /\ Moves(c, "locked") /\ Stays(c)
              /\ \A g \in Home : slot'[g] = slot[g] \/ g = Slot(c)
           \/ Moves(c, None) /\ UNCHANGED slot
    BY <1>0, <1>19, ReadsAnswerFacts DEF Refused, Answered
  <2> QED BY <1>2, <1>16, <2>1 DEF HasModule
<1>20. ASSUME NEW c \in Client, Connects(c) PROVE Published'
  BY <1>0, <1>2, <1>20, ConnectsFacts DEF Answered
<1>21. ASSUME NEW c \in Client, Companion(c) \/ CompanionDies(c) PROVE Published'
  BY <1>1, <1>21, CompanionUnchanged
<1>22. CASE UNCHANGED Rest
  BY <1>1, <1>22 DEF Rest
<1> QED BY <1>u, <1>3, <1>4, <1>5, <1>6, <1>7, <1>8, <1>9, <1>10, <1>11, <1>12, <1>13, <1>14,
          <1>15, <1>17, <1>18, <1>19, <1>20, <1>21, <1>22, StepCases

LEMMA OthersStay ==
  ASSUME NEW c \in Client, NEW p, Moves(c, p)
  PROVE  \A d \in Client \ {c} : Slot(d)' = Slot(d) /\ worker'[d].pc = worker[d].pc
BY DEF Moves, Slot

LEMMA SlotsInHome ==
  ASSUME Inv
  PROVE  \A d \in Client : HasModule(d) => Slot(d) \in Home
BY SlotFacts DEF Inv, ThreadTypes

LEMMA HoldsLockStep ==
  ASSUME Inv, [Next]_vars
  PROVE  HoldsLock'
<1>0. /\ Types /\ SnapsBounded /\ LockTypes /\ WorkerTypes /\ CompanionTypes /\ ClientTypes
      /\ IndexGiven /\ Published /\ AtHome /\ ReplyIsPrefix /\ ThreadTypes /\ HoldsLock
  BY DEF Inv, ThreadTypes
<1>1. \A d \in Client : HasModule(d) => Slot(d) \in Home
  BY SlotsInHome
<1>2. CASE UNCHANGED <<lock, worker>>
  BY <1>0, <1>2 DEF HoldsLock, Slot
<1>3. ASSUME NEW c \in Client, NEW p, p \notin {"locked", "spawned"}, Moves(c, p),
             UNCHANGED lock
      PROVE  HoldsLock'
  BY <1>0, <1>3, OthersStay DEF HoldsLock, Moves
<1>4. ASSUME NEW c \in Client, NEW p, Moves(c, p), Stays(c), UNCHANGED lock,
             worker[c].pc \in {"locked", "spawned"}
      PROVE  HoldsLock'
  <2>1. Slot(c)' = Slot(c)
    BY <1>4 DEF Stays, Slot
  <2> QED BY <1>0, <1>4, <2>1, OthersStay DEF HoldsLock
<1>5. ASSUME NEW c \in Client, Moves(c, None), Hands(Slot(c), None),
             worker[c].pc \in {"locked", "spawned"}
      PROVE  HoldsLock'
  <2>1. lock[Slot(c)] = c
    BY <1>0, <1>5 DEF HoldsLock
  <2> SUFFICES ASSUME NEW d \in Client, worker'[d].pc \in {"locked", "spawned"}
               PROVE  lock'[Slot(d)'] = d
    BY DEF HoldsLock
  <2>2. d # c
    BY <1>5 DEF Moves
  <2>3. Slot(d)' = Slot(d) /\ worker[d].pc \in {"locked", "spawned"}
    BY <1>5, <2>2, OthersStay
  <2>4. lock[Slot(d)] = d /\ Slot(d) \in Home
    BY <1>0, <1>1, <2>3 DEF HoldsLock, HasModule
  <2>5. Slot(d) # Slot(c)
    BY <2>1, <2>2, <2>4
  <2> QED BY <1>5, <2>3, <2>4, <2>5 DEF Hands
<1>6. CASE ZygoteRestarts
  BY <1>0, <1>2, <1>6, RestartFacts
<1>u. CASE ZygoteRestartsUnreported
  BY <1>0, <1>2, <1>u, UnreportedFacts
<1>7. ASSUME NEW b \in BOOLEAN, MonitorRefreshes(b) PROVE HoldsLock'
  BY <1>0, <1>2, <1>7, RefreshFacts
<1>8. ASSUME NEW c \in Client, ClientStarts(c) PROVE HoldsLock'
  BY <1>0, <1>2, <1>8, StartFacts
<1>9. ASSUME NEW c \in Client, NEW i \in Index, NEW a \in Asks, ClientAsks(c, a, i)
      PROVE  HoldsLock'
  BY <1>0, <1>2, <1>9, AskFacts
<1>10. CASE AcceptsUntrusted
  BY <1>0, <1>2, <1>10, UntrustedFacts
<1>11. CASE AcceptsThreaded
  BY <1>0, <1>3, <1>11, ThreadedFacts DEF Taken, From, Moves, Asks
<1>12. CASE AcceptsRestart \/ AcceptsRefresh
  BY <1>0, <1>2, <1>12, OrderFacts
<1>13. CASE DropCompanion
  BY <1>0, <1>2, <1>13, DropFacts
<1>14. CASE Rescan
  BY <1>0, <1>2, <1>14, RescanFacts
<1>15. ASSUME NEW c \in Client, ReadBegins(c) PROVE HoldsLock'
  BY <1>0, <1>3, <1>15, ReadBeginsFacts
<1>16. ASSUME NEW c \in Client, ReadEntry(c) PROVE HoldsLock'
  BY <1>0, <1>2, <1>3, <1>16, ReadEntryFacts
<1>17. ASSUME NEW c \in Client, OutOfRange(c) \/ GetModuleDir(c) PROVE HoldsLock'
  BY <1>0, <1>3, <1>17, OutOfRangeFacts, GetModuleDirFacts DEF Refused, Answered
<1>18. ASSUME NEW c \in Client, Resolves(c) PROVE HoldsLock'
  BY <1>0, <1>3, <1>18, ResolvesFacts
<1>19. ASSUME NEW c \in Client, Locks(c) PROVE HoldsLock'
  <2>1. /\ Moves(c, "locked") /\ Stays(c) /\ lock[Slot(c)] = None /\ Hands(Slot(c), c)
        /\ worker[c].pc = "lock"
    BY <1>0, <1>19, LocksFacts
  <2>2. Slot(c)' = Slot(c)
    BY <2>1 DEF Stays, Slot
  <2> SUFFICES ASSUME NEW d \in Client, worker'[d].pc \in {"locked", "spawned"}
               PROVE  lock'[Slot(d)'] = d
    BY DEF HoldsLock
  <2>3. CASE d = c
    BY <2>1, <2>2, <2>3 DEF Hands
  <2>4. CASE d # c
    <3>1. Slot(d)' = Slot(d) /\ worker[d].pc \in {"locked", "spawned"}
      BY <2>1, <2>4, OthersStay
    <3>2. lock[Slot(d)] = d /\ Slot(d) \in Home
      BY <1>0, <1>1, <3>1 DEF HoldsLock, HasModule
    <3>3. Slot(d) # Slot(c)
      BY <2>1, <3>2, ClientAssumption
    <3> QED BY <2>1, <3>1, <3>2, <3>3 DEF Hands
  <2> QED BY <2>3, <2>4
<1>20. ASSUME NEW c \in Client, Spawns(c) PROVE HoldsLock'
  <2>1. /\ worker[c].pc = "locked"
        /\ \/ Moves(c, "spawned") /\ Stays(c) /\ UNCHANGED lock
           \/ Moves(c, None) /\ Hands(Slot(c), None)
    BY <1>0, <1>20, SpawnsFacts DEF Refused, Answered
  <2> QED BY <1>4, <1>5, <2>1
<1>21. ASSUME NEW c \in Client, ReadsAnswer(c) PROVE HoldsLock'
  <2>1. /\ worker[c].pc = "spawned"
        /\ \/ Moves(c, "locked") /\ Stays(c) /\ UNCHANGED lock
           \/ Moves(c, None) /\ Hands(Slot(c), None)
    BY <1>0, <1>21, ReadsAnswerFacts DEF Refused, Answered
  <2> QED BY <1>4, <1>5, <2>1
<1>22. ASSUME NEW c \in Client, Connects(c) PROVE HoldsLock'
  BY <1>0, <1>5, <1>22, ConnectsFacts DEF Answered
<1>23. ASSUME NEW c \in Client, Companion(c) \/ CompanionDies(c) PROVE HoldsLock'
  BY <1>2, <1>23, CompanionUnchanged
<1>24. CASE UNCHANGED Rest
  BY <1>2, <1>24 DEF Rest
<1> QED BY <1>u, <1>6, <1>7, <1>8, <1>9, <1>10, <1>11, <1>12, <1>13, <1>14, <1>15, <1>16, <1>17,
          <1>18, <1>19, <1>20, <1>21, <1>22, <1>23, <1>24, StepCases

LEMMA AtHomeStep ==
  ASSUME Inv, [Next]_vars
  PROVE  AtHome'
<1>0. /\ Types /\ SnapsBounded /\ LockTypes /\ WorkerTypes /\ CompanionTypes /\ ClientTypes
      /\ IndexGiven /\ Published /\ AtHome /\ ReplyIsPrefix /\ ThreadTypes /\ HoldsLock
      /\ NotSpawned
  BY DEF Inv, ThreadTypes
<1>1. \A d \in Client : HasModule(d) => Slot(d) \in Home
  BY SlotsInHome
<1>2. \A h \in Home : slot[h] # None => slot[h] \in Client
  BY <1>0 DEF LockTypes
<1>3. ASSUME UNCHANGED <<slot, worker>>,
             UNCHANGED companion \/ \A d \in Client : SameCompanion(d)
      PROVE  AtHome'
  BY <1>0, <1>2, <1>3 DEF AtHome, SameCompanion, Slot
<1>4. ASSUME NEW c \in Client, NEW p, p # "spawned", Moves(c, p), UNCHANGED slot,
             UNCHANGED companion \/ \A d \in Client : SameCompanion(d)
      PROVE  AtHome'
  <2>1. ASSUME NEW d \in Client, worker'[d].pc = "spawned"
        PROVE  /\ slot'[Slot(d)'] = None
               /\ companion'[d].home = Slot(d)' /\ companion'[d].state # None
    <3>1. d # c
      BY <1>4, <2>1 DEF Moves
    <3>2. Slot(d)' = Slot(d) /\ worker[d].pc = "spawned"
      BY <1>4, <2>1, <3>1, OthersStay
    <3> QED BY <1>0, <1>4, <3>2 DEF AtHome, SameCompanion
  <2>2. \A h \in Home : slot'[h] # None =>
          companion'[slot'[h]].home = h /\ companion'[slot'[h]].state # None
    BY <1>0, <1>2, <1>4 DEF AtHome, SameCompanion
  <2> QED BY <2>1, <2>2 DEF AtHome
<1>6. CASE ZygoteRestarts
  BY <1>0, <1>3, <1>6, RestartFacts
<1>u. CASE ZygoteRestartsUnreported
  BY <1>0, <1>3, <1>u, UnreportedFacts
<1>7. ASSUME NEW b \in BOOLEAN, MonitorRefreshes(b) PROVE AtHome'
  BY <1>0, <1>3, <1>7, RefreshFacts
<1>8. ASSUME NEW c \in Client, ClientStarts(c) PROVE AtHome'
  BY <1>0, <1>3, <1>8, StartFacts
<1>9. ASSUME NEW c \in Client, NEW i \in Index, NEW a \in Asks, ClientAsks(c, a, i)
      PROVE  AtHome'
  BY <1>0, <1>3, <1>9, AskFacts
<1>10. CASE AcceptsUntrusted
  BY <1>0, <1>3, <1>10, UntrustedFacts
<1>11. CASE AcceptsThreaded
  BY <1>0, <1>4, <1>11, ThreadedFacts DEF Taken, From, Moves, Asks
<1>12. CASE AcceptsRestart \/ AcceptsRefresh
  BY <1>0, <1>3, <1>12, OrderFacts
<1>13. ASSUME UNCHANGED <<worker, companion>>,
              \A g \in Home : slot'[g] = slot[g] \/ slot'[g] = None
       PROVE  AtHome'
  <2>1. \A d \in Client : Slot(d)' = Slot(d)
    BY <1>13 DEF Slot
  <2>2. ASSUME NEW d \in Client, worker'[d].pc = "spawned" PROVE slot'[Slot(d)] = None
    <3>1. Slot(d) \in Home /\ slot[Slot(d)] = None
      BY <1>0, <1>1, <1>13, <2>2 DEF AtHome, HasModule
    <3> QED BY <1>13, <3>1
  <2> QED BY <1>0, <1>13, <2>1, <2>2 DEF AtHome
<1>14. CASE DropCompanion
  BY <1>0, <1>3, <1>13, <1>14, DropFacts DEF Dropped
<1>15. CASE Rescan
  BY <1>0, <1>3, <1>15, RescanFacts
<1>16. ASSUME NEW c \in Client, ReadBegins(c) PROVE AtHome'
  BY <1>0, <1>4, <1>16, ReadBeginsFacts
<1>17. ASSUME NEW c \in Client, ReadEntry(c) PROVE AtHome'
  BY <1>0, <1>3, <1>4, <1>17, ReadEntryFacts
<1>18. ASSUME NEW c \in Client, OutOfRange(c) \/ GetModuleDir(c) PROVE AtHome'
  BY <1>0, <1>4, <1>18, OutOfRangeFacts, GetModuleDirFacts DEF Refused, Answered
<1>19. ASSUME NEW c \in Client, Resolves(c) PROVE AtHome'
  BY <1>0, <1>4, <1>19, ResolvesFacts
<1>20. ASSUME NEW c \in Client, Locks(c) PROVE AtHome'
  <2>1. /\ Moves(c, "locked") /\ UNCHANGED companion
        /\ \A g \in Home : slot'[g] = slot[g] \/ slot'[g] = None
    BY <1>0, <1>20, LocksFacts
  <2>2. ASSUME NEW d \in Client, worker'[d].pc = "spawned"
        PROVE  /\ slot'[Slot(d)'] = None
               /\ companion'[d].home = Slot(d)' /\ companion'[d].state # None
    <3>1. d # c
      BY <2>1, <2>2 DEF Moves
    <3>2. Slot(d)' = Slot(d) /\ worker[d].pc = "spawned"
      BY <2>1, <2>2, <3>1, OthersStay
    <3>3. Slot(d) \in Home /\ slot[Slot(d)] = None
      BY <1>0, <1>1, <3>2 DEF AtHome, HasModule
    <3> QED BY <1>0, <2>1, <3>2, <3>3 DEF AtHome
  <2>3. \A h \in Home : slot'[h] # None =>
          companion'[slot'[h]].home = h /\ companion'[slot'[h]].state # None
    BY <1>0, <2>1 DEF AtHome
  <2> QED BY <2>2, <2>3 DEF AtHome
<1>21. ASSUME NEW c \in Client, Spawns(c) PROVE AtHome'
  <2>1. CASE Refused(c) /\ UNCHANGED <<slot, companion>>
    BY <1>4, <2>1 DEF Refused, Answered
  <2>2. CASE /\ Moves(c, "spawned") /\ Stays(c) /\ worker[c].pc = "locked"
             /\ slot[Slot(c)] = None /\ UNCHANGED slot
             /\ \A d \in Client \ {c} : companion'[d] = companion[d]
             /\ companion'[c].home = Slot(c) /\ companion'[c].state # None
    <3>1. companion[c].state = None
      BY <1>0, <2>2 DEF NotSpawned
    <3>2. \A h \in Home : slot[h] # None => slot[h] # c
      BY <1>0, <3>1 DEF AtHome
    <3>3. \A h \in Home : slot'[h] # None =>
            companion'[slot'[h]].home = h /\ companion'[slot'[h]].state # None
      BY <1>0, <1>2, <2>2, <3>2 DEF AtHome
    <3>4. Slot(c)' = Slot(c)
      BY <2>2 DEF Stays, Slot
    <3>5. ASSUME NEW d \in Client, worker'[d].pc = "spawned"
          PROVE  /\ slot'[Slot(d)'] = None
                 /\ companion'[d].home = Slot(d)' /\ companion'[d].state # None
      <4>1. CASE d = c
        BY <2>2, <3>4, <4>1
      <4>2. CASE d # c
        <5>1. Slot(d)' = Slot(d) /\ worker[d].pc = "spawned"
          BY <2>2, <3>5, <4>2, OthersStay
        <5> QED BY <1>0, <2>2, <4>2, <5>1 DEF AtHome
      <4> QED BY <4>1, <4>2
    <3> QED BY <3>3, <3>5 DEF AtHome
  <2> QED BY <1>0, <1>21, <2>1, <2>2, SpawnsFacts
<1>22. ASSUME NEW c \in Client, ReadsAnswer(c) PROVE AtHome'
  <2>1. CASE Refused(c) /\ UNCHANGED <<slot, companion>>
    BY <1>4, <2>1 DEF Refused, Answered
  <2>2. CASE /\ Moves(c, "locked") /\ worker[c].pc = "spawned" /\ UNCHANGED companion
             /\ slot'[Slot(c)] = c /\ \A g \in Home \ {Slot(c)} : slot'[g] = slot[g]
    <3>1. companion[c].home = Slot(c) /\ companion[c].state # None
      BY <1>0, <2>2 DEF AtHome
    <3>2. \A h \in Home : slot'[h] # None =>
            companion'[slot'[h]].home = h /\ companion'[slot'[h]].state # None
      BY <1>0, <2>2, <3>1 DEF AtHome
    <3>3. ASSUME NEW d \in Client, worker'[d].pc = "spawned"
          PROVE  /\ slot'[Slot(d)'] = None
                 /\ companion'[d].home = Slot(d)' /\ companion'[d].state # None
      <4>1. d # c
        BY <2>2, <3>3 DEF Moves
      <4>2. Slot(d)' = Slot(d) /\ worker[d].pc = "spawned"
        BY <2>2, <3>3, <4>1, OthersStay
      <4>3. lock[Slot(d)] = d /\ lock[Slot(c)] = c /\ Slot(d) \in Home
        BY <1>0, <1>1, <2>2, <4>2 DEF HoldsLock, HasModule
      <4>4. Slot(d) # Slot(c)
        BY <4>1, <4>3
      <4> QED BY <1>0, <2>2, <4>2, <4>3, <4>4 DEF AtHome
    <3> QED BY <3>2, <3>3 DEF AtHome
  <2> QED BY <1>0, <1>22, <2>1, <2>2, ReadsAnswerFacts
<1>23. ASSUME NEW c \in Client, Connects(c) PROVE AtHome'
  BY <1>0, <1>4, <1>23, ConnectsFacts DEF Answered
<1>24. ASSUME NEW c \in Client, Companion(c) \/ CompanionDies(c) PROVE AtHome'
  BY <1>0, <1>3, <1>24, CompanionUnchanged, CompanionFacts
<1>25. CASE UNCHANGED Rest
  BY <1>3, <1>25 DEF Rest
<1> QED BY <1>u, <1>6, <1>7, <1>8, <1>9, <1>10, <1>11, <1>12, <1>14, <1>15, <1>16, <1>17,
          <1>18, <1>19, <1>20, <1>21, <1>22, <1>23, <1>24, <1>25, StepCases

(* c has not come to the point where its companion would be spawned. *)
Before(c) ==
  \/ client[c].state \in {None, "reading", "loaded"}
  \/ worker[c].pc \in Asks \cup {"ReadModules", "reply", "lock"}
  \/ worker[c].pc = "locked" /\ slot[Slot(c)] = None
  \/ \E i \in Place : From(i, c)

LEMMA NotSpawnedStep ==
  ASSUME Inv, [Next]_vars
  PROVE  NotSpawned'
<1>0. /\ Types /\ SnapsBounded /\ LockTypes /\ WorkerTypes /\ CompanionTypes /\ ClientTypes
      /\ IndexGiven /\ Published /\ AtHome /\ ReplyIsPrefix /\ ThreadTypes /\ HoldsLock
      /\ OneAtATime /\ \A d \in Client : Before(d) => companion[d].state = None
  BY DEF Inv, ThreadTypes, NotSpawned, Before
<1>1. \A d \in Client : HasModule(d) => Slot(d) \in Home
  BY SlotsInHome
<1>2. ASSUME \A d \in Client : Before(d)' => Before(d),
             UNCHANGED companion \/ \A d \in Client : SameCompanion(d)
      PROVE  NotSpawned'
  <2>1. \A d \in Client : Before(d)' => companion'[d].state = None
    BY <1>0, <1>2 DEF SameCompanion
  <2> QED BY <2>1 DEF NotSpawned, Before
<1>3. ASSUME Grows, UNCHANGED <<slot, worker, companion>>,
             \A d \in Client : \/ client'[d].state = client[d].state
                               \/ client[d].state \in {None, "reading", "loaded"}
                               \/ client'[d].state \notin {None, "reading", "loaded"},
             \A d \in Client : NewFrom(d) =>
                                 client[d].state \in {None, "reading", "loaded"}
      PROVE  NotSpawned'
  <2>1. ASSUME NEW d \in Client, Before(d)' PROVE Before(d)
    <3>1. CASE client'[d].state \in {None, "reading", "loaded"}
      BY <1>3, <3>1 DEF Before
    <3>2. CASE worker'[d].pc \in Asks \cup {"ReadModules", "reply", "lock"}
      BY <1>3, <3>2 DEF Before
    <3>3. CASE worker'[d].pc = "locked" /\ slot'[Slot(d)'] = None
      BY <1>3, <3>3 DEF Before, Slot
    <3>4. ASSUME NEW i \in Place', From(i, d)' PROVE Before(d)
      BY <1>3, <3>4 DEF Before, Grows
    <3> QED BY <2>1, <3>1, <3>2, <3>3, <3>4 DEF Before
  <2> QED BY <1>2, <1>3, <2>1
<1>4. CASE ZygoteRestarts
  <2>1. Grows
    BY <1>0, <1>4, RestartFacts, QueueGrows
  <2>2. \A d \in Client : ~NewFrom(d)
    BY <1>0, <1>4, RestartFacts DEF NewFrom, Asks
  <2> QED BY <1>0, <1>3, <1>4, <2>1, <2>2, RestartFacts
<1>u. CASE ZygoteRestartsUnreported
  <2>1. /\ UNCHANGED <<queue, slot, worker, companion>>
        /\ \A d \in Client : \/ client'[d].state = client[d].state
                             \/ client'[d].state \notin {None, "reading", "loaded"}
    BY <1>0, <1>u, UnreportedFacts
  <2>2. \A d \in Client : Before(d)' => Before(d)
    BY <2>1 DEF Before, Slot, Place, From
  <2> QED BY <1>2, <2>1, <2>2
<1>5. ASSUME NEW b \in BOOLEAN, MonitorRefreshes(b) PROVE NotSpawned'
  <2>1. Grows
    BY <1>0, <1>5, RefreshFacts, QueueGrows
  <2>2. \A d \in Client : ~NewFrom(d)
    BY <1>0, <1>5, RefreshFacts DEF NewFrom, Asks
  <2> QED BY <1>0, <1>3, <1>5, <2>1, <2>2, RefreshFacts
<1>6. ASSUME NEW c \in Client, ClientStarts(c) PROVE NotSpawned'
  <2>1. Grows
    BY <1>0, <1>6, StartFacts, QueueGrows
  <2>2. \A d \in Client : NewFrom(d) => d = c
    BY <1>0, <1>6, StartFacts DEF NewFrom, Asks
  <2> QED BY <1>0, <1>3, <1>6, <2>1, <2>2, StartFacts
<1>7. ASSUME NEW c \in Client, NEW i \in Index, NEW a \in Asks, ClientAsks(c, a, i)
      PROVE  NotSpawned'
  <2>1. Grows
    BY <1>0, <1>7, AskFacts, QueueGrows
  <2>2. \A d \in Client : NewFrom(d) => d = c
    BY <1>0, <1>7, AskFacts DEF NewFrom
  <2> QED BY <1>0, <1>3, <1>7, <2>1, <2>2, AskFacts
<1>8. ASSUME Shifts, UNCHANGED <<slot, companion>>, NEW c \in Client,
             UNCHANGED worker \/ (Moves(c, queue[1].act) /\ From(1, c) /\ 1 \in Place),
             \A d \in Client : \/ client'[d].state = client[d].state
                               \/ client'[d].state \notin {None, "reading", "loaded"}
      PROVE  NotSpawned'
  <2>1. ASSUME NEW d \in Client, Before(d)' PROVE Before(d)
    <3>0. CASE d = c /\ From(1, c) /\ 1 \in Place
      BY <3>0 DEF Before
    <3>a. CASE worker'[d] = worker[d]
      <4>1. CASE client'[d].state \in {None, "reading", "loaded"}
        BY <1>8, <4>1 DEF Before
      <4>2. CASE worker'[d].pc \in Asks \cup {"ReadModules", "reply", "lock"}
        BY <3>a, <4>2 DEF Before
      <4>3. CASE worker'[d].pc = "locked" /\ slot'[Slot(d)'] = None
        BY <1>8, <3>a, <4>3 DEF Before, Slot
      <4>4. ASSUME NEW i \in Place', From(i, d)' PROVE Before(d)
        BY <1>8, <4>4 DEF Before, Shifts
      <4> QED BY <2>1, <4>1, <4>2, <4>3, <4>4 DEF Before
    <3> QED BY <1>8, <3>0, <3>a DEF Moves
  <2> QED BY <1>2, <1>8, <2>1
<1>9. CASE AcceptsUntrusted
  <2>1. PICK c \in Client : Taken(c) /\ Refuse(c) /\ UNCHANGED <<slot, worker, companion>>
    BY <1>0, <1>9, UntrustedFacts
  <2>2. Shifts
    BY <2>1, TakenShifts
  <2>3. \A d \in Client : \/ client'[d].state = client[d].state
                          \/ client'[d].state = "refused"
    BY <1>0, <2>1, RefuseFacts
  <2> QED BY <1>8, <2>1, <2>2, <2>3
<1>10. CASE AcceptsThreaded
  <2>1. PICK c \in Client :
          Taken(c) /\ Moves(c, queue[1].act) /\ UNCHANGED <<slot, companion, client>>
    BY <1>0, <1>10, ThreadedFacts DEF Moves
  <2>2. Shifts /\ From(1, c) /\ 1 \in Place
    BY <2>1, TakenShifts DEF Taken
  <2> QED BY <1>8, <2>1, <2>2
<1>11. CASE AcceptsRestart \/ AcceptsRefresh
  <2>1. Shifts /\ UNCHANGED <<slot, worker, companion, client>>
    BY <1>0, <1>11, OrderFacts, TakenShifts
  <2>2. \E c \in Client : TRUE
    BY ClientAssumption
  <2> QED BY <1>8, <2>1, <2>2
<1>12. ASSUME UNCHANGED <<queue, slot, worker, client>>,
              UNCHANGED companion \/ \A d \in Client : SameCompanion(d)
       PROVE  NotSpawned'
  BY <1>2, <1>12 DEF Before, Slot, From, Place
<1>13. CASE DropCompanion
  <2>1. UNCHANGED <<queue, worker, companion, client>>
        /\ (UNCHANGED slot \/ \E h \in Home : Dropped(h))
    BY <1>0, <1>13, DropFacts
  <2>2. ASSUME NEW h \in Home, Dropped(h) PROVE NotSpawned'
    <3>1. \A d \in Client : worker[d].pc = "locked" => Slot(d) \in Home /\ Slot(d) # h
      BY <1>0, <1>1, <2>2, ClientAssumption DEF Dropped, HoldsLock, HasModule
    <3>2. \A d \in Client : worker[d].pc = "locked" => slot'[Slot(d)] = slot[Slot(d)]
      BY <2>2, <3>1 DEF Dropped
    <3>3. \A d \in Client : Slot(d)' = Slot(d) /\ \A i : From(i, d)' <=> From(i, d)
      BY <2>1 DEF Slot, From
    <3>4. Place' = Place
      BY <2>1 DEF Place
    <3> QED BY <1>2, <2>1, <3>2, <3>3, <3>4 DEF Before
  <2> QED BY <1>12, <2>1, <2>2
<1>14. CASE Rescan
  BY <1>0, <1>12, <1>14, RescanFacts
<1>15. ASSUME NEW c \in Client, NEW p, Moves(c, p), UNCHANGED queue,
              \A d \in Client : \/ client'[d].state = client[d].state
                                \/ client'[d].state \notin {None, "reading", "loaded"}
                                \/ d = c /\ Before(c),
              \/ p = None \/ Before(c),
              \A d \in Client \ {c} : worker[d].pc = "locked" => slot'[Slot(d)] = slot[Slot(d)],
              UNCHANGED companion \/ \A d \in Client : SameCompanion(d)
       PROVE  NotSpawned'
  <2>1. ASSUME NEW d \in Client, Before(d)' PROVE Before(d)
    <3>0. CASE d = c
      <4>1. CASE Before(c)
        BY <3>0, <4>1
      <4>2. CASE p = None /\ ~Before(c)
        <5>1. worker'[c].pc = None
          BY <1>15, <4>2 DEF Moves
        <5>2. client'[c].state \in {None, "reading", "loaded"} => Before(c)
          BY <1>15, <4>2 DEF Before
        <5>3. (\E i \in Place' : From(i, c)') => Before(c)
          BY <1>15 DEF Before, Place, From
        <5> QED BY <2>1, <3>0, <5>1, <5>2, <5>3 DEF Before, Asks
      <4> QED BY <1>15, <4>1, <4>2
    <3>a. CASE d # c
      <4>0. worker'[d] = worker[d] /\ Slot(d)' = Slot(d)
        BY <1>15, <3>a DEF Moves, Slot
      <4>1. CASE client'[d].state \in {None, "reading", "loaded"}
        BY <1>15, <3>a, <4>1 DEF Before
      <4>2. CASE worker'[d].pc \in Asks \cup {"ReadModules", "reply", "lock"}
        BY <4>0, <4>2 DEF Before
      <4>3. CASE worker'[d].pc = "locked" /\ slot'[Slot(d)'] = None
        BY <1>15, <3>a, <4>0, <4>3 DEF Before
      <4>4. ASSUME NEW i \in Place', From(i, d)' PROVE Before(d)
        BY <1>15, <4>4 DEF Before, Place, From
      <4> QED BY <2>1, <4>1, <4>2, <4>3, <4>4 DEF Before
    <3> QED BY <3>0, <3>a
  <2> QED BY <1>2, <1>15, <2>1
<1>16. ASSUME NEW c \in Client, Answered(c), UNCHANGED <<queue, slot, companion>>
       PROVE  NotSpawned'
  <2>1. \A d \in Client : \/ client'[d].state = client[d].state
                          \/ client'[d].state \notin {None, "reading", "loaded"}
    BY <1>16 DEF Answered
  <2>2. Moves(c, None)
    BY <1>16 DEF Answered
  <2> QED BY <1>15, <1>16, <2>1, <2>2
<1>17. ASSUME NEW c \in Client, ReadBegins(c) PROVE NotSpawned'
  BY <1>0, <1>15, <1>17, ReadBeginsFacts DEF Before
<1>18. ASSUME NEW c \in Client, ReadEntry(c) PROVE NotSpawned'
  <2>1. /\ Before(c) /\ \A d \in Client \ {c} : client'[d] = client[d]
        /\ UNCHANGED <<queue, slot, companion>>
        /\ \/ UNCHANGED worker /\ client'[c].state = client[c].state
           \/ Moves(c, None)
    BY <1>0, <1>18, ReadEntryFacts DEF Before
  <2>2. CASE UNCHANGED worker /\ client'[c].state = client[c].state
    <3>1. \A d \in Client : client'[d].state = client[d].state
      BY <2>1, <2>2
    <3> QED BY <1>2, <2>1, <2>2, <3>1 DEF Before, Slot, From, Place
  <2> QED BY <1>15, <2>1, <2>2
<1>19. ASSUME NEW c \in Client, OutOfRange(c) \/ GetModuleDir(c) PROVE NotSpawned'
  BY <1>0, <1>16, <1>19, OutOfRangeFacts, GetModuleDirFacts DEF Refused
<1>20. ASSUME NEW c \in Client, Resolves(c) PROVE NotSpawned'
  BY <1>0, <1>15, <1>20, ResolvesFacts DEF Before, Asks
<1>21. ASSUME NEW c \in Client, Locks(c) PROVE NotSpawned'
  <2>1. /\ worker[c].pc = "lock" /\ Moves(c, "locked") /\ lock[Slot(c)] = None
        /\ \A g \in Home : slot'[g] = slot[g] \/ g = Slot(c)
        /\ UNCHANGED <<queue, companion, client>>
    BY <1>0, <1>21, LocksFacts
  <2>2. Before(c)
    BY <2>1 DEF Before
  <2>3. \A d \in Client : worker[d].pc = "locked" => Slot(d) \in Home /\ Slot(d) # Slot(c)
    BY <1>0, <1>1, <2>1, ClientAssumption DEF HoldsLock, HasModule
  <2> QED BY <1>15, <2>1, <2>2, <2>3
<1>22. ASSUME NEW c \in Client, Spawns(c) PROVE NotSpawned'
  <2>1. CASE Refused(c) /\ UNCHANGED <<queue, slot, companion>>
    BY <1>16, <2>1 DEF Refused
  <2>2. CASE /\ Moves(c, "spawned") /\ worker[c].pc = "locked"
             /\ UNCHANGED <<queue, slot, client>>
             /\ \A d \in Client \ {c} : companion'[d] = companion[d]
    <3>1. ~Before(c)'
      <4>1. client[c].state \notin {None, "reading", "loaded"}
        BY <1>0, <2>2 DEF OneAtATime
      <4>2. \A i \in Place : ~From(i, c)
        BY <1>0, <2>2 DEF OneAtATime
      <4>3. worker'[c].pc = "spawned"
        BY <2>2 DEF Moves
      <4>4. \A i \in Place' : ~From(i, c)'
        BY <2>2, <4>2 DEF Place, From
      <4> QED BY <2>2, <4>1, <4>3, <4>4 DEF Before, Asks
    <3>2. ASSUME NEW d \in Client \ {c}, Before(d)' PROVE Before(d)
      <4>1. worker'[d] = worker[d] /\ Slot(d)' = Slot(d)
        BY <2>2, <3>2 DEF Moves, Slot
      <4> QED BY <2>2, <3>2, <4>1 DEF Before, Place, From
    <3>3. \A d \in Client : Before(d)' => companion'[d].state = None
      BY <1>0, <2>2, <3>1, <3>2
    <3> QED BY <3>3 DEF NotSpawned, Before
  <2> QED BY <1>0, <1>22, <2>1, <2>2, SpawnsFacts
<1>23. ASSUME NEW c \in Client, ReadsAnswer(c) PROVE NotSpawned'
  <2>1. CASE Refused(c) /\ UNCHANGED <<queue, slot, companion>>
    BY <1>16, <2>1 DEF Refused
  <2>2. CASE /\ Moves(c, "locked") /\ Stays(c) /\ worker[c].pc = "spawned"
             /\ slot'[Slot(c)] = c /\ \A g \in Home \ {Slot(c)} : slot'[g] = slot[g]
             /\ UNCHANGED <<queue, companion, client>>
    <3>1. ASSUME NEW d \in Client, Before(d)' PROVE Before(d)
      <4>1. CASE d = c
        <5>1. Slot(c)' = Slot(c) /\ worker'[c].pc = "locked"
          BY <2>2 DEF Stays, Slot, Moves
        <5>2. slot'[Slot(c)'] # None
          BY <2>2, <5>1, ClientAssumption
        <5> QED BY <2>2, <3>1, <4>1, <5>1, <5>2 DEF Before, Asks, Place, From
      <4>2. CASE d # c
        <5>1. worker'[d] = worker[d] /\ Slot(d)' = Slot(d)
          BY <2>2, <4>2 DEF Moves, Slot
        <5>2. worker[d].pc = "locked" => Slot(d) \in Home /\ Slot(d) # Slot(c)
          BY <1>0, <1>1, <2>2, <4>2 DEF HoldsLock, HasModule
        <5> QED BY <2>2, <3>1, <5>1, <5>2 DEF Before, Place, From
      <4> QED BY <4>1, <4>2
    <3> QED BY <1>2, <2>2, <3>1
  <2> QED BY <1>0, <1>23, <2>1, <2>2, ReadsAnswerFacts
<1>24. ASSUME NEW c \in Client, Connects(c) PROVE NotSpawned'
  BY <1>0, <1>16, <1>24, ConnectsFacts
<1>25. ASSUME NEW c \in Client, Companion(c) \/ CompanionDies(c) PROVE NotSpawned'
  BY <1>0, <1>12, <1>25, CompanionUnchanged, CompanionFacts
<1>26. CASE UNCHANGED Rest
  BY <1>12, <1>26 DEF Rest
<1> QED BY <1>u, <1>4, <1>5, <1>6, <1>7, <1>9, <1>10, <1>11, <1>13, <1>14, <1>17, <1>18, <1>19,
          <1>20, <1>21, <1>22, <1>23, <1>24, <1>25, <1>26, StepCases

LEMMA ReplyStep ==
  ASSUME Inv, [Next]_vars
  PROVE  ReplyIsPrefix'
<1>0. /\ Types /\ SnapsBounded /\ LockTypes /\ WorkerTypes /\ CompanionTypes /\ ClientTypes
      /\ IndexGiven /\ Published /\ AtHome /\ ReplyIsPrefix /\ ThreadTypes /\ OneAtATime
  BY DEF Inv, ThreadTypes
<1>1. CASE UNCHANGED <<snaps, worker, client>>
  BY <1>0, <1>1 DEF ReplyIsPrefix, ReplySoFar, Live
<1>2. ASSUME UNCHANGED <<snaps, worker>>,
             \A d \in Client : /\ client'[d].list = client[d].list
                               /\ \/ client'[d].state = client[d].state
                                  \/ client'[d].state \notin {None, "reading"}
                                  \/ client[d].state = None /\ worker[d].pc = None
      PROVE  ReplyIsPrefix'
  <2>1. ASSUME NEW d \in Client, client'[d].state = None \/ client'[d].state = "reading",
               worker[d].pc # "reply" \/ client'[d].state = None
        PROVE  client'[d].list = <<>>
    <3>1. client[d].state = None \/ client'[d].state = client[d].state
      BY <1>2, <2>1
    <3>2. client[d].list = <<>>
      BY <1>0, <2>1, <3>1 DEF ReplyIsPrefix, ReplySoFar
    <3> QED BY <1>2, <3>2
  <2>2. ASSUME NEW d \in Client, worker[d].pc = "reply", client'[d].state = "reading"
        PROVE  client[d].state = "reading" /\ client'[d].list = client[d].list
    BY <1>2, <2>2
  <2> QED BY <1>0, <1>2, <2>1, <2>2 DEF ReplyIsPrefix, ReplySoFar, Live
<1>3. ASSUME NEW c \in Client, NEW p, p # "reply", Moves(c, p), worker[c].pc # "reply",
             UNCHANGED snaps,
             \A d \in Client : /\ client'[d].list = client[d].list
                               /\ \/ client'[d].state = client[d].state
                                  \/ client'[d].state \notin {None, "reading"}
      PROVE  ReplyIsPrefix'
  <2>1. ASSUME NEW d \in Client \ {c} PROVE ReplySoFar(d)'
    <3>1. worker'[d] = worker[d] /\ ReplySoFar(d)
      BY <1>0, <1>3 DEF Moves, ReplyIsPrefix
    <3>2. client'[d].list = client[d].list
          /\ (client'[d].state = client[d].state \/ client'[d].state \notin {None, "reading"})
      BY <1>3
    <3> QED BY <1>3, <3>1, <3>2 DEF ReplySoFar, Live
  <2>2. ReplySoFar(c)'
    <3>1. worker'[c].pc = p /\ ReplySoFar(c)
      BY <1>0, <1>3 DEF Moves, ReplyIsPrefix
    <3>2. client'[c].list = client[c].list
          /\ (client'[c].state = client[c].state \/ client'[c].state \notin {None, "reading"})
      BY <1>3
    <3> QED BY <1>3, <3>1, <3>2 DEF ReplySoFar
  <2> QED BY <2>1, <2>2 DEF ReplyIsPrefix
<1>4. CASE ZygoteRestarts
  <2>1. UNCHANGED <<snaps, worker>> /\
        \A d \in Client : /\ client'[d].list = client[d].list
                          /\ \/ client'[d].state = client[d].state
                             \/ client'[d].state \notin {None, "reading"}
    BY <1>0, <1>4, RestartFacts DEF SameClient
  <2> QED BY <1>2, <2>1
<1>u. CASE ZygoteRestartsUnreported
  <2>1. UNCHANGED <<snaps, worker>> /\
        \A d \in Client : /\ client'[d].list = client[d].list
                          /\ \/ client'[d].state = client[d].state
                             \/ client'[d].state \notin {None, "reading"}
    BY <1>0, <1>u, UnreportedFacts DEF SameClient
  <2> QED BY <1>2, <2>1
<1>5. ASSUME NEW b \in BOOLEAN, MonitorRefreshes(b) PROVE ReplyIsPrefix'
  BY <1>0, <1>1, <1>5, RefreshFacts
<1>6. ASSUME NEW c \in Client, ClientStarts(c) PROVE ReplyIsPrefix'
  <2>1. /\ \A d \in Client \ {c} : client'[d] = client[d]
        /\ client[c].state = None /\ client'[c].list = client[c].list
        /\ UNCHANGED <<snaps, worker>>
    BY <1>0, <1>6, StartFacts
  <2>2. worker[c].pc = None
    BY <1>0, <2>1 DEF OneAtATime
  <2> QED BY <1>2, <2>1, <2>2
<1>7. ASSUME NEW c \in Client, NEW i \in Index, NEW a \in Asks, ClientAsks(c, a, i)
      PROVE  ReplyIsPrefix'
  <2>1. /\ \A d \in Client \ {c} : client'[d] = client[d]
        /\ client'[c].state = "asking" /\ client'[c].list = client[c].list
        /\ UNCHANGED <<snaps, worker>>
    BY <1>0, <1>7, AskFacts
  <2> QED BY <1>2, <2>1
<1>8. CASE AcceptsUntrusted
  <2>1. PICK c \in Client : Refuse(c) /\ UNCHANGED <<snaps, worker>>
    BY <1>0, <1>8, UntrustedFacts
  <2>2. \A d \in Client : /\ client'[d].list = client[d].list
                          /\ \/ client'[d].state = client[d].state
                             \/ client'[d].state = "refused"
    BY <1>0, <2>1, RefuseFacts DEF SameClient
  <2> QED BY <1>2, <2>1, <2>2
<1>9. CASE AcceptsThreaded
  <2>1. PICK c \in Client : /\ Taken(c) /\ Moves(c, queue[1].act) /\ UNCHANGED <<snaps, client>>
    BY <1>0, <1>9, ThreadedFacts DEF Moves
  <2>2. queue[1].act # "reply" /\ From(1, c) /\ 1 \in Place
    BY <2>1, TakenShifts DEF Taken, From, Asks
  <2>3. worker[c].pc = None
    BY <1>0, <2>2 DEF OneAtATime
  <2> QED BY <1>3, <2>1, <2>2, <2>3
<1>10. CASE AcceptsRestart \/ AcceptsRefresh
  BY <1>0, <1>1, <1>10, OrderFacts
<1>11. CASE DropCompanion
  BY <1>0, <1>1, <1>11, DropFacts
<1>12. CASE Rescan
  <2>1. UNCHANGED <<worker, client>> /\ (Publishes \/ UNCHANGED <<snaps, origin>>)
    BY <1>0, <1>12, RescanFacts
  <2>2. CASE Publishes
    <3>1. Len(snaps) \in Nat /\ Len(snaps') = Len(snaps) + 1
          /\ \A s \in 1..Len(snaps) : snaps'[s] = snaps[s]
      BY <1>0, <2>2 DEF Types, Publishes
    <3>2. \A d \in Client : worker[d].pc = "reply" =>
            worker[d].snap \in 1..Len(snaps) /\ worker[d].snap \in 1..Len(snaps')
            /\ snaps'[worker[d].snap] = snaps[worker[d].snap]
      BY <1>0, <3>1 DEF ReplyIsPrefix, ReplySoFar, Live
    <3> QED BY <1>0, <2>1, <3>2 DEF ReplyIsPrefix, ReplySoFar, Live
  <2> QED BY <1>1, <2>1, <2>2
<1>13. ASSUME NEW c \in Client, ReadBegins(c) PROVE ReplyIsPrefix'
  <2>1. /\ worker[c].pc = "ReadModules" /\ Moves(c, "reply")
        /\ worker'[c].snap = Live /\ worker'[c].count = Len(snaps[Live])
        /\ UNCHANGED <<snaps, client>>
    BY <1>0, <1>13, ReadBeginsFacts
  <2>2. Live \in 1..Live /\ Len(snaps[Live]) \in Nat
    BY <1>0, LiveFacts, ListFacts DEF Snap
  <2>3. client[c].state = "reading" => client[c].list = <<>>
    BY <1>0, <2>1 DEF ReplyIsPrefix, ReplySoFar
  <2>4. client[c].state # None
    BY <1>0, <2>1 DEF OneAtATime
  <2> QED BY <1>0, <2>1, <2>2, <2>3, <2>4 DEF ReplyIsPrefix, ReplySoFar, Live, Moves
<1>14. ASSUME NEW c \in Client, ReadEntry(c) PROVE ReplyIsPrefix'
  <2>1. /\ worker[c].pc = "reply" /\ \A d \in Client \ {c} : client'[d] = client[d]
        /\ UNCHANGED snaps
        /\ \/ /\ UNCHANGED worker
              /\ client[c].state = "reading" /\ client'[c].state = "reading"
              /\ Len(client'[c].list) <= worker[c].count
              /\ \A i \in 1..Len(client'[c].list) :
                   client'[c].list[i] = snaps[worker[c].snap][i]
           \/ /\ Moves(c, None) /\ client'[c].list = client[c].list
              /\ client'[c].state # "reading"
              /\ client'[c].state \in {"loaded", client[c].state}
    BY <1>0, <1>14, ReadEntryFacts
  <2>2. client[c].state # None
    BY <1>0, <2>1 DEF OneAtATime
  <2>3. CASE /\ UNCHANGED worker
             /\ client[c].state = "reading" /\ client'[c].state = "reading"
             /\ Len(client'[c].list) <= worker[c].count
             /\ \A i \in 1..Len(client'[c].list) :
                  client'[c].list[i] = snaps[worker[c].snap][i]
    BY <1>0, <2>1, <2>3 DEF ReplyIsPrefix, ReplySoFar, Live
  <2>4. CASE Moves(c, None) /\ client'[c].state \in {"loaded", client[c].state}
             /\ client'[c].state # "reading"
    <3>1. ASSUME NEW d \in Client \ {c} PROVE ReplySoFar(d)'
      <4>1. /\ worker'[d] = worker[d] /\ client'[d] = client[d] /\ UNCHANGED snaps
            /\ ReplySoFar(d)
        BY <1>0, <2>1, <2>4 DEF Moves, ReplyIsPrefix
      <4> QED BY <4>1 DEF ReplySoFar, Live
    <3>2. ReplySoFar(c)'
      BY <2>2, <2>4 DEF Moves, ReplySoFar
    <3> QED BY <3>1, <3>2 DEF ReplyIsPrefix
  <2> QED BY <2>1, <2>3, <2>4
<1>15. ASSUME NEW c \in Client, Answered(c), worker[c].pc # "reply", UNCHANGED snaps
       PROVE  ReplyIsPrefix'
  <2>1. Moves(c, None) /\
        \A d \in Client : /\ client'[d].list = client[d].list
                          /\ \/ client'[d].state = client[d].state
                             \/ client'[d].state \in {"served", "refused"}
    BY <1>15 DEF Answered, SameClient
  <2> QED BY <1>3, <1>15, <2>1
<1>16. ASSUME NEW c \in Client, OutOfRange(c) \/ GetModuleDir(c) PROVE ReplyIsPrefix'
  BY <1>0, <1>15, <1>16, OutOfRangeFacts, GetModuleDirFacts DEF Refused, Asks
<1>17. ASSUME NEW c \in Client, Resolves(c) \/ Locks(c) PROVE ReplyIsPrefix'
  BY <1>0, <1>3, <1>17, ResolvesFacts, LocksFacts
<1>18. ASSUME NEW c \in Client, Spawns(c) PROVE ReplyIsPrefix'
  <2>1. /\ worker[c].pc = "locked" /\ UNCHANGED snaps
        /\ (Moves(c, "spawned") /\ UNCHANGED client) \/ Answered(c)
    BY <1>0, <1>18, SpawnsFacts DEF Refused
  <2> QED BY <1>3, <1>15, <2>1
<1>19. ASSUME NEW c \in Client, ReadsAnswer(c) PROVE ReplyIsPrefix'
  <2>1. /\ worker[c].pc = "spawned" /\ UNCHANGED snaps
        /\ (Moves(c, "locked") /\ UNCHANGED client) \/ Answered(c)
    BY <1>0, <1>19, ReadsAnswerFacts DEF Refused
  <2> QED BY <1>3, <1>15, <2>1
<1>20. ASSUME NEW c \in Client, Connects(c) PROVE ReplyIsPrefix'
  BY <1>0, <1>15, <1>20, ConnectsFacts
<1>21. ASSUME NEW c \in Client, Companion(c) \/ CompanionDies(c) PROVE ReplyIsPrefix'
  BY <1>1, <1>21, CompanionUnchanged
<1>22. CASE UNCHANGED Rest
  BY <1>1, <1>22 DEF Rest
<1> QED BY <1>u, <1>4, <1>5, <1>6, <1>7, <1>8, <1>9, <1>10, <1>11, <1>12, <1>13, <1>14, <1>16,
          <1>17, <1>18, <1>19, <1>20, <1>21, <1>22, StepCases

-----------------------------------------------------------------------------
(***************************************************************************)
(* Freshness: a step gives a module no companion but one of the framework  *)
(* that is there now.                                                      *)
(***************************************************************************)
NoneOlder ==
  \A h \in Home, d \in Client :
    Serves(d, h)' => \/ Serves(d, h) /\ companion'[d].gen = companion[d].gen
                     \/ companion'[d].gen = gen

LEMMA NoneOlderStep ==
  ASSUME Inv, [Next]_vars
  PROVE  NoneOlder
<1>0. /\ Types /\ SnapsBounded /\ LockTypes /\ WorkerTypes /\ CompanionTypes /\ ClientTypes
      /\ IndexGiven /\ Published /\ AtHome /\ ReplyIsPrefix /\ ThreadTypes
  BY DEF Inv, ThreadTypes
<1>1. ASSUME UNCHANGED worker, UNCHANGED companion \/ \A d \in Client : SameCompanion(d),
             \A h \in Home : slot'[h] \in {slot[h], None}
      PROVE  NoneOlder
  BY <1>1, ClientAssumption DEF NoneOlder, Serves, Slot, SameCompanion
<1>2. ASSUME NEW c \in Client, NEW p, p # "spawned", Moves(c, p),
             UNCHANGED companion \/ \A d \in Client : SameCompanion(d),
             \A h \in Home : slot'[h] \in {slot[h], None}
      PROVE  NoneOlder
  <2> SUFFICES ASSUME NEW h \in Home, NEW d \in Client, Serves(d, h)'
               PROVE  Serves(d, h) /\ companion'[d].gen = companion[d].gen
    BY DEF NoneOlder
  <2>1. CASE slot'[h] = d
    BY <1>2, <2>1, ClientAssumption DEF Serves, SameCompanion
  <2>2. CASE worker'[d].pc = "spawned" /\ Slot(d)' = h
    <3>1. d # c
      BY <1>2, <2>2 DEF Moves
    <3> QED BY <1>2, <2>2, <3>1, OthersStay DEF Serves, SameCompanion
  <2> QED BY <2>1, <2>2 DEF Serves
<1>3. CASE ZygoteRestarts
  BY <1>0, <1>1, <1>3, RestartFacts
<1>u. CASE ZygoteRestartsUnreported
  BY <1>0, <1>1, <1>u, UnreportedFacts
<1>4. ASSUME NEW b \in BOOLEAN, MonitorRefreshes(b) PROVE NoneOlder
  BY <1>0, <1>1, <1>4, RefreshFacts
<1>5. ASSUME NEW c \in Client, ClientStarts(c) PROVE NoneOlder
  BY <1>0, <1>1, <1>5, StartFacts
<1>6. ASSUME NEW c \in Client, NEW i \in Index, NEW a \in Asks, ClientAsks(c, a, i)
      PROVE  NoneOlder
  BY <1>0, <1>1, <1>6, AskFacts
<1>7. CASE AcceptsUntrusted
  BY <1>0, <1>1, <1>7, UntrustedFacts
<1>8. CASE AcceptsThreaded
  BY <1>0, <1>2, <1>8, ThreadedFacts DEF Taken, From, Moves, Asks
<1>9. CASE AcceptsRestart \/ AcceptsRefresh
  BY <1>0, <1>1, <1>9, OrderFacts
<1>10. CASE DropCompanion
  <2>1. UNCHANGED <<worker, companion>> /\ \A h \in Home : slot'[h] \in {slot[h], None}
    BY <1>0, <1>10, DropFacts DEF Dropped
  <2> QED BY <1>1, <2>1
<1>11. CASE Rescan
  BY <1>0, <1>1, <1>11, RescanFacts
<1>12. ASSUME NEW c \in Client, ReadBegins(c) PROVE NoneOlder
  BY <1>0, <1>2, <1>12, ReadBeginsFacts
<1>13. ASSUME NEW c \in Client, ReadEntry(c) PROVE NoneOlder
  BY <1>0, <1>1, <1>2, <1>13, ReadEntryFacts
<1>14. ASSUME NEW c \in Client, OutOfRange(c) \/ GetModuleDir(c) PROVE NoneOlder
  BY <1>0, <1>2, <1>14, OutOfRangeFacts, GetModuleDirFacts DEF Refused, Answered
<1>15. ASSUME NEW c \in Client, Resolves(c) PROVE NoneOlder
  BY <1>0, <1>2, <1>15, ResolvesFacts
<1>16. ASSUME NEW c \in Client, Locks(c) PROVE NoneOlder
  <2>1. /\ Moves(c, "locked") /\ UNCHANGED companion
        /\ \A h \in Home : slot'[h] \in {slot[h], None}
    BY <1>0, <1>16, LocksFacts
  <2> QED BY <1>2, <2>1
<1>17. ASSUME NEW c \in Client, Spawns(c) PROVE NoneOlder
  <2>1. CASE Refused(c) /\ UNCHANGED <<slot, companion>>
    BY <1>2, <2>1 DEF Refused, Answered
  <2>2. CASE /\ Moves(c, "spawned") /\ UNCHANGED slot /\ companion'[c].gen = gen
             /\ \A d \in Client \ {c} : companion'[d] = companion[d]
    BY <2>2, OthersStay DEF NoneOlder, Serves
  <2> QED BY <1>0, <1>17, <2>1, <2>2, SpawnsFacts
<1>18. ASSUME NEW c \in Client, ReadsAnswer(c) PROVE NoneOlder
  <2>1. CASE Refused(c) /\ UNCHANGED <<slot, companion>>
    BY <1>2, <2>1 DEF Refused, Answered
  <2>2. CASE /\ Moves(c, "locked") /\ worker[c].pc = "spawned" /\ UNCHANGED companion
             /\ slot'[Slot(c)] = c /\ \A g \in Home \ {Slot(c)} : slot'[g] = slot[g]
    <3> SUFFICES ASSUME NEW h \in Home, NEW d \in Client, Serves(d, h)'
                 PROVE  Serves(d, h)
      BY <2>2 DEF NoneOlder
    <3>1. CASE slot'[h] = d
      BY <2>2, <3>1 DEF Serves
    <3>2. CASE worker'[d].pc = "spawned" /\ Slot(d)' = h
      <4>1. d # c
        BY <2>2, <3>2 DEF Moves
      <4> QED BY <2>2, <3>2, <4>1, OthersStay DEF Serves
    <3> QED BY <3>1, <3>2 DEF Serves
  <2> QED BY <1>0, <1>18, <2>1, <2>2, ReadsAnswerFacts
<1>19. ASSUME NEW c \in Client, Connects(c) PROVE NoneOlder
  BY <1>0, <1>2, <1>19, ConnectsFacts DEF Answered
<1>20. ASSUME NEW c \in Client, Companion(c) \/ CompanionDies(c) PROVE NoneOlder
  BY <1>0, <1>1, <1>20, CompanionUnchanged, CompanionFacts
<1>21. CASE UNCHANGED Rest
  BY <1>1, <1>21 DEF Rest
<1> QED BY <1>u, <1>3, <1>4, <1>5, <1>6, <1>7, <1>8, <1>9, <1>10, <1>11, <1>12, <1>13, <1>14,
          <1>15, <1>16, <1>17, <1>18, <1>19, <1>20, <1>21, StepCases

(* What a live module's old companion is known by. *)
LEMMA OldFacts ==
  ASSUME Inv, NEW m \in Module, NEW g \in 0..gen, Old(m, g)
  PROVE  Old(m, gen) /\ Listed(<<Live, m>>)
<1>0. Types /\ SnapsBounded /\ CompanionTypes /\ Published
  BY DEF Inv, ThreadTypes
<1>1. PICK d \in Client : Serves(d, <<Live, m>>) /\ companion[d].gen < g
  BY DEF Old
<1>2. gen \in Nat /\ companion[d].gen \in Nat
  BY <1>0, BoundsAssumption DEF Types, CompanionTypes
<1>3. companion[d].gen < gen
  BY <1>1, <1>2
<1>4. <<Live, m>> \in Home
  BY <1>0, LiveFacts DEF Home
<1>5. CASE slot[<<Live, m>>] = d
  BY <1>0, <1>1, <1>3, <1>4, <1>5, ClientAssumption DEF Published, Old
<1>6. CASE worker[d].pc = "spawned" /\ Slot(d) = <<Live, m>>
  <2>1. Listed(Slot(d))
    BY <1>0, <1>6 DEF Published, HasModule
  <2> QED BY <1>1, <1>3, <1>6, <2>1 DEF Old
<1> QED BY <1>1, <1>5, <1>6 DEF Serves

(* Only a rescan changes the snapshots, and it adds one. *)
LEMMA PublishStep ==
  ASSUME Types, CompanionTypes, [Next]_vars
  PROVE  \/ UNCHANGED <<snaps, origin>>
         \/ Publishes /\ main.pc = "scan" /\ UNCHANGED <<client, worker, queue>>
<1>1. CASE Device \/ UNCHANGED vars
  BY <1>1 DEF Device, Edit, ZygoteRestarts, ZygoteRestartsUnreported, MonitorRefreshes,
       ClientStarts, ClientAsks, vars, snapVars
<1>2. CASE Main
  BY <1>2, RescanFacts DEF Main, AcceptsUntrusted, AcceptsThreaded, AcceptsRestart,
       AcceptsRefresh, DropCompanion, snapVars
<1>3. ASSUME NEW c \in Client, Worker(c) \/ Companion(c) \/ CompanionDies(c)
      PROVE  UNCHANGED <<snaps, origin>>
  BY <1>3 DEF Worker, Companion, CompanionDies, CompanionAnswers, CompanionExits,
       ReadBegins, ReadEntry, OutOfRange, GetModuleDir, Resolves, Locks, Spawns, ReadsAnswer,
       Connects, snapVars
<1> QED BY <1>1, <1>2, <1>3 DEF Next

LEMMA OldShrinks ==
  ASSUME Inv, [Next]_vars, NEW m \in Module, NEW g \in 0..gen, Old(m, g)'
  PROVE  Old(m, g)
<1>0. Types /\ SnapsBounded /\ CompanionTypes /\ Published /\ NoneOlder /\ ClientTypes
  BY NoneOlderStep DEF Inv, ThreadTypes
<1>1. PICK d \in Client : Serves(d, <<Live, m>>)' /\ companion'[d].gen < g
  BY DEF Old
<1>2. gen \in Nat
  BY <1>0 DEF Types
<1>3. Types' /\ SnapsBounded'
  BY MainStep DEF Inv
<1>4. Live' \in Snap
  <2>1. Len(snaps') \in Nat /\ Len(snaps') # 0 /\ queue' \in Seq(Request)
        /\ gen' \in 0..MaxRestarts /\ refreshes' \in 0..MaxRefreshes
    BY <1>3 DEF Types
  <2>2. Cardinality(Orders(queue')) \in Nat
    BY <2>1, OrdersFinite
  <2>3. Len(snaps') <= 1 + gen' + refreshes'
    BY <1>3, <2>1, <2>2 DEF SnapsBounded, Live
  <2> QED BY <2>1, <2>3, BoundsAssumption DEF Snap, Live
<1>5. <<Live', m>> \in Home
  BY <1>4 DEF Home
<1>6. Serves(d, <<Live', m>>) /\ companion'[d].gen = companion[d].gen
  BY <1>0, <1>1, <1>2, <1>5 DEF NoneOlder, Serves
<1>7. Live' = Live
  <2>1. <<Live', m>>[1] \in 1..Live
    BY <1>0, <1>5, <1>6, ClientAssumption DEF Serves, Published, HasModule, Listed
  <2>2. UNCHANGED <<snaps, origin>> \/ Publishes
    BY <1>0, PublishStep
  <2> QED BY <1>0, <2>1, <2>2 DEF Publishes, Live, Types
<1> QED BY <1>1, <1>6, <1>7 DEF Old

(* What a step does to the queue and to the accepting thread. *)
QueueCases ==
  \/ UNCHANGED <<queue, main>>
  \/ Grows /\ UNCHANGED main
  \/ Shifts /\ UNCHANGED main /\ main.pc = "accept" /\ ~RestartAt(1)
  \/ Shifts /\ main.pc = "accept" /\ main'.pc = "drop" /\ main'.todo = snaps[Live]
     /\ UNCHANGED <<snaps, slot, worker, companion, client>> /\ main'.why = "restart"
     /\ 1 \in Place /\ RestartAt(1)
  \/ Shifts /\ main.pc = "accept" /\ ~RestartAt(1) /\ main'.why = "refresh"
  \/ UNCHANGED queue /\ main.pc = "drop" /\ Len(main.todo) = 0 /\ main'.why = main.why
  \/ UNCHANGED <<queue, snaps, lock, worker, companion, client>> /\ main.pc = "drop"
     /\ main'.why = main.why /\ \E h \in Home : Dropped(h)
  \/ UNCHANGED <<queue, client, worker>> /\ main.pc = "scan" /\ main'.why = None

LEMMA QueueStep ==
  ASSUME Inv, [Next]_vars
  PROVE  QueueCases
<1>0. /\ Types /\ SnapsBounded /\ LockTypes /\ WorkerTypes /\ CompanionTypes /\ ClientTypes
  BY DEF Inv, ThreadTypes
<1>1. CASE UNCHANGED <<queue, main>>
  BY <1>1 DEF QueueCases
<1>2. CASE ZygoteRestarts
  <2>1. Grows /\ UNCHANGED main
    BY <1>0, <1>2, RestartFacts, QueueGrows
  <2> QED BY <2>1 DEF QueueCases
<1>u. CASE ZygoteRestartsUnreported
  BY <1>0, <1>1, <1>u, UnreportedFacts
<1>3. ASSUME NEW b \in BOOLEAN, MonitorRefreshes(b) PROVE QueueCases
  <2>1. Grows /\ UNCHANGED main
    BY <1>0, <1>3, RefreshFacts, QueueGrows
  <2> QED BY <2>1 DEF QueueCases
<1>4. ASSUME NEW c \in Client, ClientStarts(c) PROVE QueueCases
  <2>1. Grows /\ UNCHANGED main
    BY <1>0, <1>4, StartFacts, QueueGrows
  <2> QED BY <2>1 DEF QueueCases
<1>5. ASSUME NEW c \in Client, NEW i \in Index, NEW a \in Asks, ClientAsks(c, a, i)
      PROVE  QueueCases
  <2>1. Grows /\ UNCHANGED main
    BY <1>0, <1>5, AskFacts, QueueGrows
  <2> QED BY <2>1 DEF QueueCases
<1>6. CASE AcceptsUntrusted \/ AcceptsThreaded
  <2>1. PICK c \in Client : Taken(c) /\ UNCHANGED main
    BY <1>0, <1>6, UntrustedFacts, ThreadedFacts
  <2>2. Shifts /\ main.pc = "accept" /\ ~RestartAt(1)
    BY <2>1, TakenShifts DEF Taken, From, RestartAt, Asks
  <2> QED BY <2>1, <2>2 DEF QueueCases
<1>7. CASE AcceptsRestart
  <2>1. /\ TakenOrder("ZygoteRestart") /\ main'.pc = "drop" /\ main'.todo = snaps[Live]
        /\ UNCHANGED <<snaps, slot, worker, companion, client>> /\ main'.why = "restart"
    BY <1>0, <1>7, OrderFacts
  <2>2. Shifts /\ main.pc = "accept" /\ 1 \in Place /\ RestartAt(1)
    BY <2>1, TakenShifts DEF TakenOrder, RestartAt
  <2> QED BY <2>1, <2>2 DEF QueueCases
<1>8. CASE AcceptsRefresh
  <2>1. TakenOrder("RefreshModules") /\ main'.why = "refresh"
    BY <1>0, <1>8, OrderFacts
  <2>2. Shifts /\ main.pc = "accept" /\ ~RestartAt(1)
    BY <2>1, TakenShifts DEF TakenOrder, RestartAt
  <2> QED BY <2>1, <2>2 DEF QueueCases
<1>9. CASE DropCompanion
  BY <1>0, <1>9, DropFacts DEF QueueCases
<1>10. CASE Rescan
  BY <1>0, <1>10, RescanFacts DEF QueueCases
<1>11. ASSUME NEW c \in Client, Worker(c) \/ Companion(c) \/ CompanionDies(c)
       PROVE  UNCHANGED <<queue, main>>
  BY <1>11 DEF Worker, Companion, CompanionDies, CompanionAnswers, CompanionExits,
       ReadBegins, ReadEntry, OutOfRange, GetModuleDir, Resolves, Locks, Spawns, ReadsAnswer,
       Connects
<1>12. CASE UNCHANGED Rest
  BY <1>1, <1>12 DEF Rest
<1> QED BY <1>u, <1>1, <1>2, <1>3, <1>4, <1>5, <1>6, <1>7, <1>8, <1>9, <1>10, <1>11, <1>12, StepCases
    DEF Worker

(* The companion that is dropped is nobody's any more. *)
LEMMA DroppedIsGone ==
  ASSUME Inv, NEW h \in Home, Dropped(h), UNCHANGED <<snaps, worker>>,
         NEW m \in Module, m = main.todo[1], NEW g, Old(m, g)'
  PROVE  FALSE
<1>0. LockTypes /\ HoldsLock
  BY DEF Inv, ThreadTypes
<1>1. Live' = Live /\ h = <<Live, m>> /\ slot'[h] = None /\ lock[h] = None
  BY DEF Dropped, Live
<1>2. PICK d \in Client : Serves(d, <<Live, m>>)'
  BY DEF Old
<1>3. slot'[h] = d \/ (worker[d].pc = "spawned" /\ Slot(d) = h)
  BY <1>1, <1>2 DEF Serves, Slot
<1> QED BY <1>0, <1>1, <1>3, ClientAssumption DEF HoldsLock

(* A promise to drop an old companion is kept. *)
LEMMA DroppingStays ==
  ASSUME Inv, [Next]_vars, NEW m \in Module, NEW g, Old(m, g)', Dropping(m)
  PROVE  Dropping(m)'
<1>1. PICK k \in 1..Len(main.todo) : main.todo[k] = m
  BY DEF Dropping
<1>2. main.pc = "drop" /\ Len(main.todo) \in Nat
  BY ListFacts DEF Dropping, Inv, Types
<1>3. CASE UNCHANGED main
  BY <1>3 DEF Dropping
<1>4. ASSUME NEW h \in Home, Dropped(h), UNCHANGED <<snaps, worker>> PROVE Dropping(m)'
  <2>1. k # 1
    BY <1>1, <1>4, DroppedIsGone
  <2>2. /\ main'.pc = "drop" /\ Len(main'.todo) = Len(main.todo) - 1
        /\ \A j \in 1..(Len(main.todo) - 1) : main'.todo[j] = main.todo[j + 1]
    BY <1>4 DEF Dropped
  <2>3. k - 1 \in 1..Len(main'.todo) /\ main'.todo[k - 1] = m
    BY <1>1, <1>2, <2>1, <2>2
  <2> QED BY <2>2, <2>3 DEF Dropping
<1> QED BY <1>1, <1>2, <1>3, <1>4, QueueStep DEF QueueCases

(* A client's framework is fixed when it starts. *)
LEMMA ClientGenStep ==
  ASSUME Inv, [Next]_vars, NEW c \in Client
  PROVE  \/ client'[c].gen = client[c].gen /\ gen' \in {gen, gen + 1}
         \/ /\ client[c].state = None /\ client'[c].gen = gen /\ gen' = gen
            /\ worker'[c].pc = None
<1>0. /\ Types /\ SnapsBounded /\ LockTypes /\ WorkerTypes /\ CompanionTypes /\ ClientTypes
      /\ IndexGiven /\ Published /\ AtHome /\ ReplyIsPrefix /\ ThreadTypes /\ OneAtATime
  BY DEF Inv, ThreadTypes
<1>1. CASE UNCHANGED <<gen, client>>
  BY <1>1
<1>2. CASE ZygoteRestarts
  BY <1>0, <1>2, RestartFacts DEF SameClient
<1>u. CASE ZygoteRestartsUnreported
  BY <1>0, <1>u, UnreportedFacts DEF SameClient
<1>3. ASSUME NEW b \in BOOLEAN, MonitorRefreshes(b) PROVE UNCHANGED <<gen, client>>
  BY <1>0, <1>3, RefreshFacts
<1>4. ASSUME NEW d \in Client, ClientStarts(d)
      PROVE  \/ client'[c].gen = client[c].gen /\ gen' = gen
             \/ /\ client[c].state = None /\ client'[c].gen = gen /\ gen' = gen
                /\ worker'[c].pc = None
  BY <1>0, <1>4, StartFacts DEF OneAtATime
<1>5. ASSUME NEW d \in Client, NEW i \in Index, NEW a \in Asks, ClientAsks(d, a, i)
      PROVE  client'[c].gen = client[c].gen /\ gen' = gen
  BY <1>0, <1>5, AskFacts
<1>6. CASE AcceptsUntrusted
  BY <1>0, <1>6, UntrustedFacts, RefuseFacts DEF SameClient
<1>7. CASE AcceptsThreaded \/ AcceptsRestart \/ AcceptsRefresh \/ DropCompanion \/ Rescan
  BY <1>0, <1>7, ThreadedFacts, OrderFacts, DropFacts, RescanFacts
<1>8. ASSUME NEW d \in Client, Answered(d), gen' = gen
      PROVE  client'[c].gen = client[c].gen /\ gen' = gen
  BY <1>8 DEF Answered, SameClient
<1>9. ASSUME NEW d \in Client, ReadBegins(d) \/ Resolves(d) \/ Locks(d)
      PROVE  UNCHANGED <<gen, client>>
  BY <1>0, <1>9, ReadBeginsFacts, ResolvesFacts, LocksFacts
<1>10. ASSUME NEW d \in Client, ReadEntry(d)
       PROVE  client'[c].gen = client[c].gen /\ gen' = gen
  BY <1>0, <1>10, ReadEntryFacts
<1>11. ASSUME NEW d \in Client, OutOfRange(d) \/ GetModuleDir(d) \/ Connects(d)
       PROVE  client'[c].gen = client[c].gen /\ gen' = gen
  BY <1>0, <1>8, <1>11, OutOfRangeFacts, GetModuleDirFacts, ConnectsFacts DEF Refused
<1>12. ASSUME NEW d \in Client, Spawns(d) \/ ReadsAnswer(d)
       PROVE  client'[c].gen = client[c].gen /\ gen' = gen
  <2>1. gen' = gen /\ (UNCHANGED client \/ Answered(d))
    BY <1>0, <1>12, SpawnsFacts, ReadsAnswerFacts DEF Refused
  <2> QED BY <1>8, <2>1
<1>13. ASSUME NEW d \in Client, Companion(d) \/ CompanionDies(d) PROVE UNCHANGED <<gen, client>>
  BY <1>13, CompanionUnchanged
<1>14. CASE UNCHANGED Rest
  BY <1>1, <1>14 DEF Rest
<1> QED BY <1>u, <1>1, <1>2, <1>3, <1>4, <1>5, <1>6, <1>7, <1>9, <1>10, <1>11, <1>12, <1>13, <1>14,
          StepCases

(* The restart at the head of the queue is the one that drops it. *)
LEMMA FirstIsDropped ==
  ASSUME Inv, [Next]_vars, NEW m \in Module, NEW g \in 0..gen, Old(m, g)', RestartAt(1),
         ~UNCHANGED queue, ~Grows
  PROVE  Dropping(m)'
<1>1. Listed(<<Live, m>>)
  BY OldShrinks, OldFacts
<1>2. main'.pc = "drop" /\ main'.todo = snaps[Live]
  BY QueueStep DEF QueueCases
<1> QED BY <1>1, <1>2 DEF Listed, Dropping

(* Nor is a restart lost from the queue. *)
LEMMA OldIsKept ==
  ASSUME Inv, [Next]_vars, NEW m \in Module, NEW g \in 0..gen, Old(m, g)',
         NEW j \in Place, RestartAt(j)
  PROVE  Dropping(m)' \/ \E i \in Place' : RestartAt(i)'
<1>1. CASE UNCHANGED queue
  BY <1>1 DEF Place, RestartAt
<1>2. CASE Grows
  BY <1>2 DEF Grows
<1>3. CASE Shifts /\ ~UNCHANGED queue /\ ~Grows
  <2>1. CASE j = 1
    BY <1>3, <2>1, FirstIsDropped
  <2>2. CASE j # 1
    BY <1>3, <2>2 DEF Shifts
  <2> QED BY <2>1, <2>2
<1> QED BY <1>1, <1>2, <1>3, QueueStep DEF QueueCases

LEMMA OldIsDroppedStep ==
  ASSUME Inv, [Next]_vars
  PROVE  OldIsDropped'
<1>0. Types /\ OldIsDropped /\ gen \in Nat
  BY DEF Inv, Types
<1> SUFFICES ASSUME NEW m \in Module, Old(m, gen)'
             PROVE  Dropping(m)' \/ \E i \in Place' : RestartAt(i)'
  BY DEF OldIsDropped
<1>1. CASE ZygoteRestarts
  <2>1. Grows /\ queue'[Len(queue) + 1].act = "ZygoteRestart"
    BY <1>0, <1>1, RestartFacts, QueueGrows DEF Inv, ThreadTypes
  <2>2. Len(queue) + 1 \in Place'
    BY <2>1 DEF Grows
  <2> QED BY <2>1, <2>2 DEF RestartAt
<1>2. CASE gen' = gen
  <2>1. PICK g \in 0..gen : g = gen
    BY <1>0
  <2>2. Old(m, g)'
    BY <1>2, <2>1 DEF Old
  <2>3. Old(m, gen)
    BY <2>1, <2>2, OldShrinks
  <2>4. CASE Dropping(m)
    BY <2>2, <2>4, DroppingStays
  <2>5. ASSUME NEW j \in Place, RestartAt(j)
        PROVE  Dropping(m)' \/ \E i \in Place' : RestartAt(i)'
    BY <2>2, <2>3, <2>5, OldIsKept
  <2> QED BY <1>0, <2>3, <2>4, <2>5 DEF OldIsDropped
<1>3. gen' = gen \/ ZygoteRestarts
  BY <1>0, StepCases DEF Rest, ZygoteRestartsUnreported, MonitorRefreshes, ClientStarts, ClientAsks, AcceptsUntrusted,
       AcceptsThreaded, AcceptsRestart, AcceptsRefresh, DropCompanion, Rescan, ReadBegins,
       ReadEntry, OutOfRange, GetModuleDir, Resolves, Locks, Spawns, ReadsAnswer, Connects,
       Companion, CompanionDies, CompanionAnswers, CompanionExits, sentVars
<1> QED BY <1>1, <1>2, <1>3

LEMMA RestartComesFirstStep ==
  ASSUME Inv, [Next]_vars
  PROVE  RestartComesFirst'
<1>0. Types /\ OldIsDropped /\ RestartComesFirst /\ OneAtATime /\ IndexGiven /\ gen \in Nat
      /\ ClientTypes
  BY DEF Inv, Types, ThreadTypes
<1> SUFFICES ASSUME NEW m \in Module, NEW c \in Client, NEW i \in Place',
                    From(i, c)', Old(m, client[c].gen)'
             PROVE  Dropping(m)' \/ \E j \in 1..(i - 1) : RestartAt(j)'
  BY DEF RestartComesFirst
<1>1. PICK g \in 0..gen : g = client'[c].gen
  <2>1. client[c].gen \in 0..gen
    BY <1>0, BoundsAssumption DEF IndexGiven, ClientTypes
  <2> QED BY <1>0, <2>1, ClientGenStep
<1>2. Old(m, g)'
  BY <1>1 DEF Old
<1>3. Old(m, g)
  BY <1>2, OldShrinks
<1>4. CASE Dropping(m)
  BY <1>2, <1>4, DroppingStays
(* The connection is new: the restart is somewhere in the queue. *)
<1>5. CASE Grows /\ i \notin Place
  <2>1. Old(m, gen)
    BY <1>3, OldFacts
  <2>2. i = Len(queue) + 1
    BY <1>5 DEF Grows
  <2>3. CASE \E j \in Place : RestartAt(j)
    <3>1. PICK j \in Place : RestartAt(j)
      BY <2>3
    <3>2. RestartAt(j)' /\ j \in 1..(i - 1)
      BY <1>5, <2>2, <3>1 DEF Grows
    <3> QED BY <3>2
  <2> QED BY <1>0, <1>4, <2>1, <2>3 DEF OldIsDropped
(* The connection was at place k. *)
<1>6. ASSUME NEW k \in Place, From(k, c)
      PROVE  Dropping(m) \/ \E j \in 1..(k - 1) : RestartAt(j)
  <2>1. client[c].state # None
    BY <1>0, <1>6 DEF OneAtATime
  <2>2. g = client[c].gen
    BY <1>1, <2>1, ClientGenStep
  <2> QED BY <1>0, <1>3, <1>6, <2>2 DEF RestartComesFirst
<1>7. CASE Grows /\ i \in Place
  <2>1. From(i, c) /\ i \in Nat
    BY <1>7 DEF Grows
  <2>2. CASE \E j \in 1..(i - 1) : RestartAt(j)
    <3>1. PICK j \in 1..(i - 1) : RestartAt(j)
      BY <2>2
    <3>2. j \in Place
      BY <1>7, <2>1, <3>1 DEF Grows, Place
    <3> QED BY <1>7, <3>1, <3>2 DEF Grows
  <2> QED BY <1>4, <1>6, <1>7, <2>1, <2>2
<1>8. CASE UNCHANGED queue
  <2>1. From(i, c) /\ i \in Place /\ \A j : RestartAt(j)' <=> RestartAt(j)
    BY <1>8 DEF From, Place, RestartAt
  <2> QED BY <1>4, <1>6, <2>1
<1>9. CASE Shifts /\ ~UNCHANGED queue /\ ~Grows
  <2>1. From(i + 1, c) /\ i + 1 \in Place /\ i \in Nat \ {0}
    BY <1>9 DEF Shifts
  <2>2. ASSUME NEW j \in 1..i, RestartAt(j)
        PROVE  Dropping(m)' \/ \E l \in 1..(i - 1) : RestartAt(l)'
    <3>1. j \in Place
      BY <1>0, <2>1 DEF Place, Types
    <3>2. CASE j = 1
      BY <1>2, <1>3, <2>2, <3>1, <3>2, <1>9, FirstIsDropped
    <3>3. CASE j # 1
      <4>1. RestartAt(j - 1)' /\ j - 1 \in 1..(i - 1)
        BY <1>9, <2>1, <2>2, <3>1, <3>3 DEF Shifts
      <4> QED BY <4>1
    <3> QED BY <3>2, <3>3
  <2> QED BY <1>4, <1>6, <2>1, <2>2
<1> QED BY <1>5, <1>7, <1>8, <1>9, QueueStep DEF QueueCases

-----------------------------------------------------------------------------
(***************************************************************************)
(* What a step does to one thread, and to one client.                      *)
(***************************************************************************)
ThreadCases(c) ==
  \/ worker'[c] = worker[c]
  \/ worker'[c].pc = None
  \/ Taken(c) /\ worker'[c].pc = queue[1].act
     /\ UNCHANGED <<gen, main, snaps, origin, slot, companion, client>>
  \/ worker[c].pc = "ReadModules" /\ worker'[c].pc = "reply" /\ worker'[c].snap = Live
     /\ UNCHANGED <<gen, queue, main, snaps, origin, client>>
  \/ worker[c].pc = "RequestCompanionSocket" /\ worker'[c].pc = "lock"
     /\ worker'[c].snap = Live /\ worker'[c].mod = snaps[Live][client[c].index]
     /\ worker'[c].mod \in Module
     /\ UNCHANGED <<gen, queue, main, snaps, origin, slot, companion, client>>
  \/ HasModule(c) /\ HasModule(c)' /\ Stays(c)
     /\ UNCHANGED <<gen, queue, main, snaps, origin, client>>

LEMMA ThreadStep ==
  ASSUME Inv, [Next]_vars, NEW c \in Client
  PROVE  ThreadCases(c)
<1>0. /\ Types /\ SnapsBounded /\ LockTypes /\ WorkerTypes /\ CompanionTypes /\ ClientTypes
      /\ IndexGiven /\ Published /\ AtHome /\ ReplyIsPrefix /\ ThreadTypes
  BY DEF Inv, ThreadTypes
<1>1. CASE worker'[c] = worker[c] \/ worker'[c].pc = None
  BY <1>1 DEF ThreadCases
<1>2. ASSUME NEW d \in Client, d # c, NEW p, Moves(d, p) PROVE worker'[c] = worker[c]
  BY <1>2 DEF Moves
<1>3. CASE ZygoteRestarts
  BY <1>0, <1>1, <1>3, RestartFacts
<1>u. CASE ZygoteRestartsUnreported
  BY <1>0, <1>1, <1>u, UnreportedFacts
<1>4. ASSUME NEW b \in BOOLEAN, MonitorRefreshes(b) PROVE ThreadCases(c)
  BY <1>0, <1>1, <1>4, RefreshFacts
<1>5. ASSUME NEW d \in Client, ClientStarts(d) PROVE ThreadCases(c)
  BY <1>0, <1>1, <1>5, StartFacts
<1>6. ASSUME NEW d \in Client, NEW i \in Index, NEW a \in Asks, ClientAsks(d, a, i)
      PROVE  ThreadCases(c)
  BY <1>0, <1>1, <1>6, AskFacts
<1>7. CASE AcceptsUntrusted
  BY <1>0, <1>1, <1>7, UntrustedFacts
<1>8. CASE AcceptsThreaded
  BY <1>0, <1>1, <1>8, ThreadedFacts DEF ThreadCases
<1>9. CASE AcceptsRestart \/ AcceptsRefresh
  BY <1>0, <1>1, <1>9, OrderFacts
<1>10. CASE DropCompanion
  BY <1>0, <1>1, <1>10, DropFacts
<1>11. CASE Rescan
  BY <1>0, <1>1, <1>11, RescanFacts
<1>12. ASSUME NEW d \in Client, ReadBegins(d) PROVE ThreadCases(c)
  <2>1. CASE d = c
    BY <1>0, <1>12, <2>1, ReadBeginsFacts DEF ThreadCases, Moves
  <2> QED BY <1>0, <1>1, <1>2, <1>12, <2>1, ReadBeginsFacts
<1>13. ASSUME NEW d \in Client, Resolves(d) PROVE ThreadCases(c)
  <2>1. CASE d = c
    BY <1>0, <1>13, <2>1, ResolvesFacts DEF ThreadCases, Moves
  <2> QED BY <1>0, <1>1, <1>2, <1>13, <2>1, ResolvesFacts
<1>14. ASSUME NEW d \in Client, Moves(d, None) \/ UNCHANGED worker PROVE ThreadCases(c)
  BY <1>1, <1>14 DEF Moves
<1>15. ASSUME NEW d \in Client, ReadEntry(d) PROVE ThreadCases(c)
  BY <1>0, <1>14, <1>15, ReadEntryFacts
<1>16. ASSUME NEW d \in Client, OutOfRange(d) \/ GetModuleDir(d) \/ Connects(d)
       PROVE  ThreadCases(c)
  BY <1>0, <1>14, <1>16, OutOfRangeFacts, GetModuleDirFacts, ConnectsFacts DEF Refused, Answered
<1>17. ASSUME NEW d \in Client, NEW p \in {"locked", "spawned"}, HasModule(d), Moves(d, p),
              Stays(d), UNCHANGED <<gen, queue, main, snaps, origin, client>>
       PROVE  ThreadCases(c)
  <2>1. CASE d = c
    BY <1>17, <2>1 DEF ThreadCases, Moves, HasModule
  <2> QED BY <1>1, <1>2, <1>17, <2>1
<1>18. ASSUME NEW d \in Client, Locks(d) PROVE ThreadCases(c)
  BY <1>0, <1>17, <1>18, LocksFacts DEF HasModule
<1>19. ASSUME NEW d \in Client, Spawns(d) \/ ReadsAnswer(d) PROVE ThreadCases(c)
  <2>1. /\ HasModule(d)
        /\ \/ Moves(d, None)
           \/ \E p \in {"locked", "spawned"} : Moves(d, p) /\ Stays(d)
                /\ UNCHANGED <<gen, queue, main, snaps, origin, client>>
    BY <1>0, <1>19, SpawnsFacts, ReadsAnswerFacts DEF HasModule, Refused, Answered
  <2> QED BY <1>14, <1>17, <2>1
<1>20. ASSUME NEW d \in Client, Companion(d) \/ CompanionDies(d) PROVE ThreadCases(c)
  BY <1>1, <1>20, CompanionUnchanged
<1>21. CASE UNCHANGED Rest
  BY <1>1, <1>21 DEF Rest
<1> QED BY <1>u, <1>3, <1>4, <1>5, <1>6, <1>7, <1>8, <1>9, <1>10, <1>11, <1>12, <1>13, <1>15, <1>16,
          <1>18, <1>19, <1>20, <1>21, StepCases

(* A client's own framework is one that was there. *)
LEMMA ClientGenIsPast ==
  ASSUME Inv, [Next]_vars, NEW c \in Client
  PROVE  client[c].gen \in 0..gen /\ client'[c].gen \in 0..gen /\ gen \in Nat
<1>1. gen \in Nat /\ client[c].gen \in 0..gen
  BY BoundsAssumption DEF Inv, Types, IndexGiven, ThreadTypes, ClientTypes
<1> QED BY <1>1, ClientGenStep

LEMMA FreshOnAcceptStep ==
  ASSUME Inv, [Next]_vars
  PROVE  FreshOnAccept'
<1>0. RestartComesFirst /\ FreshOnAccept /\ OneAtATime /\ Types
  BY DEF Inv
<1> SUFFICES ASSUME NEW c \in Client, NEW m \in Module,
                    worker'[c].pc = "RequestCompanionSocket", Old(m, client[c].gen)'
             PROVE  FALSE
  BY DEF FreshOnAccept
<1>1. PICK g \in 0..gen : g = client'[c].gen
  BY ClientGenIsPast
<1>2. Old(m, g)'
  BY <1>1 DEF Old
<1>3. Old(m, g)
  BY <1>2, OldShrinks
<1>4. g = client[c].gen
  BY <1>1, ClientGenStep
<1>5. CASE Taken(c)
  <2>1. 1 \in Place /\ From(1, c) /\ main.pc = "accept"
    BY <1>5, TakenShifts DEF Taken
  <2>2. Dropping(m) \/ \E j \in 1..(1 - 1) : RestartAt(j)
    BY <1>0, <1>3, <1>4, <2>1 DEF RestartComesFirst
  <2> QED BY <2>1, <2>2 DEF Dropping
<1>6. CASE worker'[c] = worker[c]
  BY <1>0, <1>3, <1>4, <1>6 DEF FreshOnAccept
<1> QED BY <1>5, <1>6, ThreadStep DEF ThreadCases, HasModule

LEMMA FreshOnceHeldStep ==
  ASSUME Inv, [Next]_vars
  PROVE  FreshOnceHeld'
<1>0. /\ FreshOnAccept /\ FreshOnceHeld /\ Types /\ SnapsBounded /\ Published /\ WorkerTypes
      /\ LockTypes /\ CompanionTypes /\ NoneOlder
  BY NoneOlderStep DEF Inv, ThreadTypes
<1> SUFFICES ASSUME NEW c \in Client, NEW d \in Client, HasModule(c)', Serves(d, Slot(c))'
             PROVE  companion'[d].gen >= client'[c].gen
  BY DEF FreshOnceHeld
<1>1. client'[c].gen = client[c].gen /\ client[c].gen \in 0..gen /\ gen \in Nat
  BY ClientGenIsPast, ClientGenStep DEF HasModule
<1>2. companion[d].gen \in Nat
  BY <1>0, BoundsAssumption DEF CompanionTypes
<1>3. ASSUME NEW h \in Home, h = Slot(c)'
      PROVE  (Serves(d, h) /\ companion'[d].gen = companion[d].gen) \/ companion'[d].gen = gen
  BY <1>0, <1>3 DEF NoneOlder, Serves
<1>4. CASE HasModule(c) /\ Slot(c)' = Slot(c)
  <2>1. Slot(c) \in Home
    BY <1>0, <1>4, SlotFacts
  <2>2. (Serves(d, Slot(c)) /\ companion'[d].gen = companion[d].gen) \/ companion'[d].gen = gen
    BY <1>3, <1>4, <2>1
  <2> QED BY <1>0, <1>1, <1>2, <1>4, <2>2 DEF FreshOnceHeld
<1>5. CASE /\ worker[c].pc = "RequestCompanionSocket" /\ worker'[c].snap = Live
           /\ worker'[c].mod \in Module
  <2>1. PICK m \in Module : m = worker'[c].mod
    BY <1>5
  <2>2. <<Live, m>> \in Home /\ <<Live, m>> = Slot(c)'
    BY <1>0, <1>5, <2>1, LiveFacts DEF Home, Slot
  <2>3. \/ Serves(d, <<Live, m>>) /\ companion'[d].gen = companion[d].gen
        \/ companion'[d].gen = gen
    BY <1>3, <2>2
  <2>4. ~Old(m, client[c].gen)
    BY <1>0, <1>5 DEF FreshOnAccept
  <2> QED BY <1>1, <1>2, <2>3, <2>4 DEF Old
<1>6. CASE worker'[c] = worker[c]
  BY <1>4, <1>6 DEF HasModule, Slot
<1>7. CASE HasModule(c) /\ Stays(c)
  BY <1>4, <1>7 DEF Stays, Slot
<1>8. CASE Taken(c) /\ worker'[c].pc = queue[1].act
  BY <1>8 DEF Taken, From, HasModule, Asks
<1> QED BY <1>5, <1>6, <1>7, <1>8, ThreadStep DEF ThreadCases, HasModule

-----------------------------------------------------------------------------
Kept(c) == SameClient(c) /\ client'[c].got = client[c].got /\ client'[c].by = client[c].by

ClientCases(c) ==
  \/ Kept(c) /\ client'[c].state = client[c].state
  \/ SameClient(c) /\ client'[c].state \in {"dead", "refused"}
     /\ (client'[c].state = "refused" => client[c].state = "asking")
  \/ /\ client[c].state = None /\ client'[c].state = "reading"
     /\ queue'[Len(queue) + 1].act = "ReadModules" /\ Grows
     /\ UNCHANGED <<main, snaps, origin, worker>>
  \/ /\ client[c].state = "loaded" /\ client'[c].state = "asking"
     /\ client'[c].list = client[c].list
     /\ queue'[Len(queue) + 1].act \in Asks /\ Grows
     /\ UNCHANGED <<main, snaps, origin, worker>>
  \/ /\ client[c].state = "reading" /\ client'[c].state = "reading"
     /\ UNCHANGED <<queue, main, snaps, origin, worker>>
  \/ /\ client[c].state = "reading" /\ client'[c].state = "loaded"
     /\ worker[c].pc = "reply" /\ worker'[c].pc = None
     /\ client'[c].list = client[c].list /\ client[c].list = snaps[worker[c].snap]
     /\ UNCHANGED <<queue, main, snaps, origin>>
  \/ /\ SameClient(c) /\ client[c].state = "asking" /\ client'[c].state = "served"
     /\ \/ worker[c].pc \in Asks /\ client'[c].got = snaps[Live][client[c].index]
           /\ client'[c].by = None
        \/ worker[c].pc = "locked" /\ client'[c].got = worker[c].mod
           /\ client'[c].by = slot[Slot(c)] /\ slot[Slot(c)] \in Client
     /\ UNCHANGED <<queue, main, snaps, origin, slot, companion>>

LEMMA ClientStep ==
  ASSUME Inv, [Next]_vars, NEW c \in Client
  PROVE  ClientCases(c)
<1>0. /\ Types /\ SnapsBounded /\ LockTypes /\ WorkerTypes /\ CompanionTypes /\ ClientTypes
      /\ IndexGiven /\ Published /\ AtHome /\ ReplyIsPrefix /\ ThreadTypes
  BY DEF Inv, ThreadTypes
<1>1. CASE client'[c] = client[c]
  BY <1>1 DEF ClientCases, Kept, SameClient
<1>2. CASE ZygoteRestarts
  BY <1>0, <1>2, RestartFacts DEF ClientCases, Kept, SameClient
<1>u. CASE ZygoteRestartsUnreported
  BY <1>0, <1>u, UnreportedFacts DEF ClientCases, Kept, SameClient
<1>3. ASSUME NEW b \in BOOLEAN, MonitorRefreshes(b) PROVE ClientCases(c)
  BY <1>0, <1>1, <1>3, RefreshFacts
<1>4. ASSUME NEW d \in Client, ClientStarts(d) PROVE ClientCases(c)
  <2>1. CASE d = c
    BY <1>0, <1>4, <2>1, StartFacts, QueueGrows DEF ClientCases
  <2> QED BY <1>0, <1>1, <1>4, <2>1, StartFacts
<1>5. ASSUME NEW d \in Client, NEW i \in Index, NEW a \in Asks, ClientAsks(d, a, i)
      PROVE  ClientCases(c)
  <2>1. CASE d = c
    BY <1>0, <1>5, <2>1, AskFacts, QueueGrows DEF ClientCases
  <2> QED BY <1>0, <1>1, <1>5, <2>1, AskFacts
<1>6. CASE AcceptsUntrusted
  BY <1>0, <1>6, UntrustedFacts, RefuseFacts DEF ClientCases, Kept
<1>7. CASE AcceptsThreaded \/ AcceptsRestart \/ AcceptsRefresh \/ DropCompanion \/ Rescan
  BY <1>0, <1>1, <1>7, ThreadedFacts, OrderFacts, DropFacts, RescanFacts
<1>8. ASSUME NEW d \in Client, ReadBegins(d) \/ Resolves(d) \/ Locks(d) PROVE ClientCases(c)
  BY <1>0, <1>1, <1>8, ReadBeginsFacts, ResolvesFacts, LocksFacts
<1>9. ASSUME NEW d \in Client, ReadEntry(d) PROVE ClientCases(c)
  <2>1. CASE d = c
    BY <1>0, <1>9, <2>1, ReadEntryFacts DEF ClientCases, Moves, Kept, SameClient
  <2> QED BY <1>0, <1>1, <1>9, <2>1, ReadEntryFacts
<1>10. ASSUME NEW d \in Client, Answered(d),
              client[c].state # "served" /\ client'[c].state = "served" => FALSE
       PROVE  ClientCases(c)
  BY <1>10 DEF Answered, ClientCases, Kept
<1>11. ASSUME NEW d \in Client, Refused(d) PROVE ClientCases(c)
  BY <1>10, <1>11 DEF Refused, Answered
<1>12. ASSUME NEW d \in Client, OutOfRange(d) PROVE ClientCases(c)
  BY <1>0, <1>11, <1>12, OutOfRangeFacts
<1>13. ASSUME NEW d \in Client, GetModuleDir(d) PROVE ClientCases(c)
  <2>1. CASE client[c].state # "served" /\ client'[c].state = "served"
    BY <1>0, <1>13, <2>1, GetModuleDirFacts DEF ClientCases, Answered
  <2> QED BY <1>0, <1>10, <1>13, <2>1, GetModuleDirFacts
<1>14. ASSUME NEW d \in Client, Connects(d) PROVE ClientCases(c)
  <2>1. CASE client[c].state # "served" /\ client'[c].state = "served"
    BY <1>0, <1>14, <2>1, ConnectsFacts DEF ClientCases, Answered
  <2> QED BY <1>0, <1>10, <1>14, <2>1, ConnectsFacts
<1>15. ASSUME NEW d \in Client, Spawns(d) \/ ReadsAnswer(d) PROVE ClientCases(c)
  <2>1. UNCHANGED client \/ Refused(d)
    BY <1>0, <1>15, SpawnsFacts, ReadsAnswerFacts
  <2> QED BY <1>1, <1>11, <2>1
<1>16. ASSUME NEW d \in Client, Companion(d) \/ CompanionDies(d) PROVE ClientCases(c)
  BY <1>1, <1>16, CompanionUnchanged
<1>17. CASE UNCHANGED Rest
  BY <1>1, <1>17 DEF Rest
<1> QED BY <1>u, <1>2, <1>3, <1>4, <1>5, <1>6, <1>7, <1>8, <1>9, <1>12, <1>13, <1>14, <1>15, <1>16,
          <1>17, StepCases

-----------------------------------------------------------------------------
(***************************************************************************)
(* A step that is not a restart queues none.                               *)
(***************************************************************************)
LEMMA NoNewRestart ==
  ASSUME Inv, [Next]_vars, ~ZygoteRestarts
  PROVE  \/ UNCHANGED queue
         \/ Grows /\ queue'[Len(queue) + 1].act # "ZygoteRestart" /\ UNCHANGED main
         \/ Shifts /\ 1 \in Place /\ main.pc = "accept"
<1>0. /\ Types /\ SnapsBounded /\ LockTypes /\ WorkerTypes /\ CompanionTypes /\ ClientTypes
  BY DEF Inv, ThreadTypes
<1>u. CASE ZygoteRestartsUnreported
  BY <1>u DEF ZygoteRestartsUnreported
<1>1. ASSUME NEW b \in BOOLEAN, MonitorRefreshes(b)
      PROVE  Grows /\ queue'[Len(queue) + 1].act # "ZygoteRestart" /\ UNCHANGED main
  BY <1>0, <1>1, RefreshFacts, QueueGrows
<1>2. ASSUME NEW c \in Client, ClientStarts(c)
      PROVE  Grows /\ queue'[Len(queue) + 1].act # "ZygoteRestart" /\ UNCHANGED main
  BY <1>0, <1>2, StartFacts, QueueGrows
<1>3. ASSUME NEW c \in Client, NEW i \in Index, NEW a \in Asks, ClientAsks(c, a, i)
      PROVE  Grows /\ queue'[Len(queue) + 1].act # "ZygoteRestart" /\ UNCHANGED main
  <2>1. Grows /\ UNCHANGED main
    BY <1>0, <1>3, AskFacts, QueueGrows
  <2>2. queue'[Len(queue) + 1].act \in Asks
    BY <1>0, <1>3, AskFacts
  <2> QED BY <2>1, <2>2 DEF Asks
<1>4. CASE AcceptsUntrusted \/ AcceptsThreaded
  <2>1. PICK c \in Client : Taken(c)
    BY <1>0, <1>4, UntrustedFacts, ThreadedFacts
  <2> QED BY <2>1, TakenShifts DEF Taken
<1>5. CASE AcceptsRestart \/ AcceptsRefresh
  <2>1. PICK act : TakenOrder(act)
    BY <1>0, <1>5, OrderFacts
  <2> QED BY <2>1, TakenShifts DEF TakenOrder
<1>6. CASE DropCompanion \/ Rescan
  BY <1>6 DEF DropCompanion, Rescan
<1>7. ASSUME NEW c \in Client, Worker(c) \/ Companion(c) \/ CompanionDies(c)
      PROVE  UNCHANGED queue
  BY <1>7 DEF Worker, Companion, CompanionDies, CompanionAnswers, CompanionExits,
       ReadBegins, ReadEntry, OutOfRange, GetModuleDir, Resolves, Locks, Spawns, ReadsAnswer,
       Connects
<1> QED BY <1>u, <1>1, <1>2, <1>3, <1>4, <1>5, <1>6, <1>7, StepCases DEF Worker, Rest

(* Where there was none, there is none. *)
NoRestart == main.why # "restart" /\ \A i \in Place : ~RestartAt(i)

LEMMA NoRestartStays ==
  ASSUME Inv, [Next]_vars, ~ZygoteRestarts, NoRestart
  PROVE  NoRestart'
<1>1. \A i \in Place' : ~RestartAt(i)'
  <2>1. CASE UNCHANGED queue
    BY <2>1 DEF NoRestart, Place, RestartAt
  <2>2. CASE Grows /\ queue'[Len(queue) + 1].act # "ZygoteRestart"
    BY <2>2 DEF NoRestart, Grows, RestartAt
  <2>3. CASE Shifts
    BY <2>3 DEF NoRestart, Shifts
  <2> QED BY <2>1, <2>2, <2>3, NoNewRestart
<1>2. main'.why # "restart"
  <2>1. CASE UNCHANGED main \/ main'.why \in {main.why, "refresh", None}
    BY <2>1 DEF NoRestart
  <2>2. CASE 1 \in Place /\ RestartAt(1)
    BY <2>2 DEF NoRestart
  <2> QED BY <2>1, <2>2, QueueStep DEF QueueCases
<1> QED BY <1>1, <1>2 DEF NoRestart

LEMMA NoRestartBehindStep ==
  ASSUME Inv, [Next]_vars
  PROVE  NoRestartBehind'
<1>0. Types /\ ClientTypes /\ OneAtATime /\ NoRestartBehind /\ MainKnowsWhy
  BY DEF Inv, ThreadTypes
<1>1. CASE ZygoteRestarts
  <2>1. \A c \in Client : client'[c].state \in {None, "dead"}
    BY <1>0, <1>1, RestartFacts
  <2> QED BY <2>1 DEF NoRestartBehind
<1>2. ASSUME ~ZygoteRestarts, NEW c \in Client,
             \/ client'[c].state \in {"loaded", "asking"}
             \/ client'[c].state = "reading" /\ worker'[c].pc # None
      PROVE  NoRestart'
  <2>1. CASE \/ client[c].state \in {"loaded", "asking"}
             \/ client[c].state = "reading" /\ worker[c].pc # None
    <3>1. NoRestart
      BY <1>0, <2>1 DEF NoRestartBehind, NoRestart
    <3> QED BY <1>2, <3>1, NoRestartStays
  <2>2. CASE client[c].state = "reading" /\ worker[c].pc = None
    <3>1. client'[c].state = "reading" /\ worker'[c].pc # None
      BY <1>2, <2>2, ClientStep DEF ClientCases
    <3>2. Taken(c) /\ UNCHANGED main
      BY <2>2, <3>1, ThreadStep DEF ThreadCases, HasModule
    <3>3. From(1, c) /\ 1 \in Place /\ Shifts /\ main.why = None
      BY <1>0, <3>2, TakenShifts DEF Taken, MainKnowsWhy
    <3>4. \A j \in Place : 1 < j => ~RestartAt(j)
      BY <1>0, <2>2, <3>3 DEF NoRestartBehind
    <3>5. \A i \in Place' : ~RestartAt(i)'
      BY <3>3, <3>4 DEF Shifts
    <3> QED BY <3>2, <3>3, <3>5 DEF NoRestart
  <2>3. CASE client[c].state = None
    <3>1. worker[c].pc = None
      BY <1>0, <2>3 DEF OneAtATime
    <3>2. client'[c].state = "reading" /\ UNCHANGED worker
      BY <1>2, <2>3, ClientStep DEF ClientCases
    <3> QED BY <1>2, <3>1, <3>2
  <2> QED BY <1>2, <2>1, <2>2, <2>3, ClientStep DEF ClientCases
<1>3. ASSUME ~ZygoteRestarts, NEW c \in Client, client'[c].state = "reading",
             NEW i \in Place', NEW j \in Place', From(i, c)', i < j
      PROVE  ~RestartAt(j)'
  <2>1. CASE client[c].state = "reading"
    <3>1. \A k, l \in Place : From(k, c) /\ k < l => ~RestartAt(l)
      BY <1>0, <2>1 DEF NoRestartBehind
    <3>2. CASE UNCHANGED queue
      BY <1>3, <3>1, <3>2 DEF Place, From, RestartAt
    <3>3. CASE Grows /\ queue'[Len(queue) + 1].act # "ZygoteRestart"
      <4>1. CASE j \in Place
        BY <1>3, <3>1, <3>3, <4>1 DEF Grows
      <4>2. CASE j \notin Place
        BY <3>3, <4>2 DEF Grows, RestartAt
      <4> QED BY <4>1, <4>2
    <3>4. CASE Shifts
      <4>1. From(i + 1, c) /\ i + 1 \in Place /\ j + 1 \in Place /\ i + 1 < j + 1
        BY <1>3, <3>4 DEF Shifts
      <4> QED BY <3>1, <3>4, <4>1 DEF Shifts
    <3> QED BY <1>3, <3>2, <3>3, <3>4, NoNewRestart
  <2>2. CASE client[c].state = None
    <3>1. Grows /\ \A k \in Place : ~From(k, c)
      BY <1>0, <1>3, <2>2, ClientStep DEF ClientCases, OneAtATime
    <3>2. i = Len(queue) + 1
      BY <1>3, <3>1 DEF Grows
    <3> QED BY <1>3, <3>1, <3>2 DEF Grows
  <2> QED BY <1>3, <2>1, <2>2, ClientStep DEF ClientCases
<1> QED BY <1>1, <1>2, <1>3 DEF NoRestartBehind, NoRestart

-----------------------------------------------------------------------------
(***************************************************************************)
(* Handles.                                                                *)
(***************************************************************************)
(* A snapshot that was published stays where it is. *)
LEMMA SnapsStay ==
  ASSUME Types, CompanionTypes, [Next]_vars
  PROVE  \A s \in 1..Live : s \in 1..Live' /\ snaps'[s] = snaps[s] /\ origin'[s] = origin[s]
<1>1. Len(snaps) \in Nat
  BY DEF Types
<1>2. CASE UNCHANGED <<snaps, origin>>
  BY <1>2 DEF Live
<1>3. CASE Publishes
  BY <1>1, <1>3 DEF Publishes, Live
<1> QED BY <1>2, <1>3, PublishStep

LEMMA RefreshedStays ==
  ASSUME Types, CompanionTypes, [Next]_vars, Refreshed
  PROVE  Refreshed'
BY SnapsStay DEF Refreshed

(* Only a refresh replaces the snapshot under a client that lives. *)
LEMMA LiveStays ==
  ASSUME Inv, [Next]_vars, ~Refreshed', NEW c \in Client,
         \/ client'[c].state \in {"loaded", "asking"}
         \/ client'[c].state = "reading" /\ worker'[c].pc # None
  PROVE  UNCHANGED <<snaps, origin>>
<1>0. Types /\ CompanionTypes /\ NoRestartBehind /\ MainKnowsWhy
  BY DEF Inv, ThreadTypes
<1>1. CASE Publishes /\ main.pc = "scan" /\ UNCHANGED <<client, worker, queue>>
  <2>1. main.why # "restart"
    BY <1>0, <1>1 DEF NoRestartBehind
  <2>2. main.why = "refresh"
    BY <1>0, <1>1, <2>1 DEF MainKnowsWhy, Types
  <2>3. Len(snaps) + 1 \in 1..Live' /\ origin'[Len(snaps) + 1] = "refresh"
    BY <1>0, <1>1, <2>2 DEF Publishes, Live, Types
  <2> QED BY <2>3 DEF Refreshed
<1> QED BY <1>0, <1>1, PublishStep

LEMMA HandlesAreLiveStep ==
  ASSUME Inv, [Next]_vars
  PROVE  HandlesAreLive'
<1>0. /\ Types /\ CompanionTypes /\ ClientTypes /\ WorkerTypes /\ OneAtATime /\ HandlesAreLive
  BY DEF Inv, ThreadTypes
<1> SUFFICES ASSUME ~Refreshed', NEW c \in Client
             PROVE  /\ client'[c].state \in {"loaded", "asking"} =>
                         client'[c].list = snaps'[Live']
                    /\ client'[c].state = "reading" /\ worker'[c].pc = "reply" =>
                         worker'[c].snap = Live'
                    /\ client'[c].state = "asking" /\ HasModule(c)'
                         => worker'[c].mod = client'[c].list[client'[c].index]
  BY DEF HandlesAreLive
<1>1. /\ client[c].state \in {"loaded", "asking"} => client[c].list = snaps[Live]
      /\ client[c].state = "reading" /\ worker[c].pc = "reply" => worker[c].snap = Live
      /\ client[c].state = "asking" /\ HasModule(c)
           => worker[c].mod = client[c].list[client[c].index]
  BY <1>0, RefreshedStays DEF HandlesAreLive
<1>2. ASSUME client'[c].state \in {"loaded", "asking"}
      PROVE  client'[c].list = snaps'[Live']
  <2>1. UNCHANGED snaps /\ Live' = Live
    BY <1>2, LiveStays DEF Live
  <2>2. CASE client[c].state = client'[c].state /\ client'[c].list = client[c].list
    BY <1>1, <1>2, <2>1, <2>2
  <2>3. CASE client[c].state = "loaded" /\ client'[c].list = client[c].list
    BY <1>1, <2>1, <2>3
  <2>4. CASE /\ client[c].state = "reading" /\ worker[c].pc = "reply"
             /\ client'[c].list = client[c].list /\ client[c].list = snaps[worker[c].snap]
    BY <1>1, <2>1, <2>4
  <2> QED BY <1>2, <2>2, <2>3, <2>4, ClientStep DEF ClientCases, Kept, SameClient
<1>3. ASSUME client'[c].state = "reading", worker'[c].pc = "reply"
      PROVE  worker'[c].snap = Live'
  <2>1. UNCHANGED snaps /\ Live' = Live
    BY <1>3, LiveStays DEF Live
  <2>2. CASE worker'[c] = worker[c]
    <3>1. client[c].state \in {None, "reading"}
      BY <1>3, ClientStep DEF ClientCases
    <3>2. client[c].state = "reading"
      BY <1>0, <1>3, <2>2, <3>1 DEF OneAtATime
    <3> QED BY <1>1, <1>3, <2>1, <2>2, <3>2
  <2>3. CASE worker'[c].snap = Live
    BY <2>1, <2>3
  <2> QED BY <1>3, <2>2, <2>3, ThreadStep DEF ThreadCases, HasModule, Taken, From, Asks
<1>4. ASSUME client'[c].state = "asking", HasModule(c)'
      PROVE  worker'[c].mod = client'[c].list[client'[c].index]
  <2>1. UNCHANGED snaps /\ Live' = Live
    BY <1>4, LiveStays DEF Live
  <2>2. client[c].state = "asking" /\ SameClient(c)
    <3>1. CASE client[c].state = "loaded" /\ UNCHANGED worker
      BY <1>0, <1>4, <3>1 DEF OneAtATime, HasModule
    <3> QED BY <1>4, <3>1, ClientStep DEF ClientCases, Kept
  <2>3. CASE HasModule(c) /\ worker'[c].mod = worker[c].mod
    BY <1>1, <2>2, <2>3 DEF SameClient
  <2>4. CASE worker'[c].mod = snaps[Live][client[c].index]
    BY <1>1, <2>2, <2>4 DEF SameClient
  <2>5. CASE Taken(c) /\ worker'[c].pc = queue[1].act
    BY <1>4, <2>5 DEF Taken, From, Asks, HasModule
  <2> QED BY <1>4, <2>3, <2>4, <2>5, ThreadStep DEF ThreadCases, HasModule, Stays
<1> QED BY <1>2, <1>3, <1>4

-----------------------------------------------------------------------------
(***************************************************************************)
(* The invariant.                                                          *)
(***************************************************************************)
LEMMA InitInv ==
  ASSUME Init
  PROVE  Inv
<1>1. PICK l \in List : snaps = <<l>>
  BY LoadModulesGivesList, EmptyIsList DEF Init
<1>2. Live = 1 /\ Len(queue) = 0 /\ snaps[1] = l
  BY <1>1 DEF Init, Live
<1>3. Types
  <2>1. snaps \in Seq(List) /\ snaps # <<>>
    BY <1>1
  <2>2. origin \in Seq({"startup", "restart", "refresh"}) /\ Len(origin) = 1
    BY DEF Init
  <2>3. queue \in Seq(Request)
    BY DEF Init
  <2>4. edits \in 0..MaxEdits /\ gen \in 0..MaxRestarts /\ refreshes \in 0..MaxRefreshes
    BY BoundsAssumption DEF Init
  <2>5. main \in [pc : {"accept", "drop", "scan"}, todo : List,
                 why : {None, "restart", "refresh"}]
    BY EmptyIsList DEF Init
  <2> QED BY <1>2, <2>1, <2>2, <2>3, <2>4, <2>5 DEF Init, Types
<1>4. Cardinality(Orders(queue)) = 0
  <2>1. Orders(queue) = {}
    BY <1>2 DEF Orders
  <2> QED BY <2>1, FS_EmptySet
<1>5. SnapsBounded /\ MainKnowsWhy
  BY <1>2, <1>4 DEF Init, SnapsBounded, MainKnowsWhy
<1>6. ThreadTypes
  <2>1. 1 \in Snap /\ 0 \in 0..MaxRestarts
    BY BoundsAssumption DEF Snap
  <2>2. LockTypes
    BY DEF Init, LockTypes
  <2>3. WorkerTypes
    BY CardinalityOfModules DEF Init, WorkerTypes, NoWorker
  <2>4. CompanionTypes
    BY <2>1 DEF Init, CompanionTypes
  <2>5. ClientTypes
    BY <2>1, EmptyIsList DEF Init, ClientTypes
  <2> QED BY <2>2, <2>3, <2>4, <2>5 DEF ThreadTypes
<1>7. Place = {}
  BY <1>2 DEF Place
<1>8. \A c \in Client : worker[c].pc = None /\ client[c].state = None /\ client[c].gen = 0
                        /\ client[c].list = <<>> /\ companion[c].state = None
                        /\ companion[c].gen = 0
  BY DEF Init, NoWorker
<1>9. gen = 0 /\ \A h \in Home : slot[h] = None
  BY DEF Init
<1>10. OneAtATime /\ IndexGiven
  BY <1>7, <1>8, <1>9 DEF OneAtATime, IndexGiven, Asks
<1>11. Published /\ HoldsLock /\ AtHome /\ NotSpawned
  BY <1>7, <1>8, <1>9 DEF Published, HoldsLock, AtHome, NotSpawned, HasModule
<1>12. ReplyIsPrefix
  BY <1>8 DEF ReplyIsPrefix, ReplySoFar
<1>13. ASSUME NEW m, NEW g \in {0}, Old(m, g) PROVE FALSE
  BY <1>8, <1>13 DEF Old
<1>14. OldIsDropped
  BY <1>9, <1>13 DEF OldIsDropped
<1>15. RestartComesFirst /\ FreshOnAccept /\ FreshOnceHeld
  BY <1>7, <1>8 DEF RestartComesFirst, FreshOnAccept, FreshOnceHeld, HasModule
<1>16. NoRestartBehind /\ HandlesAreLive
  BY <1>7, <1>8 DEF NoRestartBehind, HandlesAreLive
<1> QED BY <1>3, <1>5, <1>6, <1>10, <1>11, <1>12, <1>14, <1>15, <1>16 DEF Inv

LEMMA StepInv ==
  ASSUME Inv, [Next]_vars
  PROVE  Inv'
BY MainStep, ThreadTypesStep, OneAtATimeStep, PublishedStep, HoldsLockStep, AtHomeStep,
   NotSpawnedStep, ReplyStep, OldIsDroppedStep, RestartComesFirstStep, FreshOnAcceptStep,
   FreshOnceHeldStep, NoRestartBehindStep, HandlesAreLiveStep DEF Inv

LEMMA Invariance == Spec => []Inv
<1>1. Init => Inv
  BY InitInv
<1>2. Inv /\ [Next]_vars => Inv'
  BY StepInv
<1> QED BY <1>1, <1>2, PTL DEF Spec

(* What is noted of the restarts nobody reported. *)
MissedTypes == missed \in 0..MaxMissed

LEMMA MissedStep ==
  ASSUME MissedTypes, [Next]_vars
  PROVE  MissedTypes'
<1>1. CASE ZygoteRestartsUnreported
  BY <1>1, BoundsAssumption DEF MissedTypes, ZygoteRestartsUnreported
<1>2. CASE UNCHANGED missed
  BY <1>2 DEF MissedTypes
<1>3. CASE Device \/ UNCHANGED vars
  BY <1>1, <1>2, <1>3 DEF Device, Edit, ZygoteRestarts, MonitorRefreshes, ClientStarts,
       ClientAsks, vars, sentVars
<1>4. CASE Main
  BY <1>2, <1>4 DEF Main, AcceptsUntrusted, AcceptsThreaded, AcceptsRestart, AcceptsRefresh,
       DropCompanion, Rescan, sentVars
<1>5. ASSUME NEW c \in Client, Worker(c) \/ Companion(c) \/ CompanionDies(c)
      PROVE  UNCHANGED missed
  BY <1>5 DEF Worker, Companion, CompanionDies, CompanionAnswers, CompanionExits,
       ReadBegins, ReadEntry, OutOfRange, GetModuleDir, Resolves, Locks, Spawns, ReadsAnswer,
       Connects, sentVars
<1> QED BY <1>2, <1>3, <1>4, <1>5 DEF Next

-----------------------------------------------------------------------------
(***************************************************************************)
(* The properties of the module.                                           *)
(***************************************************************************)

(* Every variable of the daemon keeps its type: in particular the accepting *)
(* thread publishes no more snapshots than restarts and refreshes ask for,  *)
(* and every list a client reads is one without a repetition.               *)
THEOREM TypeCorrect == Spec => []TypeOK
<1>1. ASSUME Inv, MissedTypes PROVE TypeOK
  <2>1. Live \in Snap
    BY <1>1, LiveFacts DEF Inv
  <2>2. snaps \in [1..Live -> List] /\ origin \in [1..Live -> {"startup", "restart", "refresh"}]
    BY <1>1 DEF Inv, Types, Live
  <2> QED BY <1>1, <2>1, <2>2 DEF Inv, Types, ThreadTypes, LockTypes, WorkerTypes,
            CompanionTypes, ClientTypes, MissedTypes, TypeOK
<1>2. Init => MissedTypes
  BY BoundsAssumption DEF Init, MissedTypes
<1>3. MissedTypes /\ [Next]_vars => MissedTypes'
  BY MissedStep
<1> QED BY <1>1, <1>2, <1>3, Invariance, PTL DEF Spec

(* However many clients ask for a module's companion at once, a module of a *)
(* snapshot never has two of them loading or with a socket open: the mutex  *)
(* is held from the look at the slot to the answer of the companion.        *)
THEOREM OneCompanion == Spec => []OneCompanionPerModule
<1>1. ASSUME Inv PROVE OneCompanionPerModule
  <2>0. AtHome /\ HoldsLock
    BY <1>1 DEF Inv
  <2>1. ASSUME NEW c \in Client, SocketOpen(c)
        PROVE  \/ worker[c].pc = "spawned" /\ companion[c].home = Slot(c)
                  /\ lock[companion[c].home] = c /\ slot[companion[c].home] = None
               \/ slot[companion[c].home] = c
    <3>1. CASE worker[c].pc = "spawned"
      BY <2>0, <3>1 DEF AtHome, HoldsLock
    <3>2. ASSUME NEW h \in Home, slot[h] = c PROVE slot[companion[c].home] = c
      BY <2>0, <3>2, ClientAssumption DEF AtHome
    <3> QED BY <2>1, <3>1, <3>2 DEF SocketOpen
  <2>2. ASSUME NEW c \in Client, NEW d \in Client, SocketOpen(c), SocketOpen(d),
               companion[c].home = companion[d].home
        PROVE  c = d
    BY <2>1, <2>2, ClientAssumption
  <2> QED BY <2>2 DEF OneCompanionPerModule
<1> QED BY <1>1, Invariance, PTL

(* What a client has read is all of one snapshot, whatever was published    *)
(* while the reply was written: handle_read_modules takes the Arc once.     *)
THEOREM OneSnapshotPerReply == Spec => []ReplyIsOneSnapshot
<1>1. ASSUME Init PROVE ReplyIsOneSnapshot
  BY <1>1 DEF Init, ReplyIsOneSnapshot
<1>2. ASSUME Inv, [Next]_vars, ReplyIsOneSnapshot PROVE ReplyIsOneSnapshot'
  <2>0. Types /\ CompanionTypes /\ ReplyIsPrefix
    BY <1>2 DEF Inv, ThreadTypes
  <2> SUFFICES ASSUME NEW c \in Client,
                      client'[c].state \in {"loaded", "asking", "served", "refused"}
               PROVE  \E s \in 1..Live' : client'[c].list = snaps'[s]
    BY DEF ReplyIsOneSnapshot
  <2>1. CASE /\ client[c].state \in {"loaded", "asking", "served", "refused"}
             /\ client'[c].list = client[c].list
    <3>1. PICK s \in 1..Live : client[c].list = snaps[s]
      BY <1>2, <2>1 DEF ReplyIsOneSnapshot
    <3> QED BY <1>2, <2>0, <2>1, <3>1, SnapsStay
  <2>2. CASE /\ worker[c].pc = "reply" /\ client'[c].list = client[c].list
             /\ client[c].list = snaps[worker[c].snap]
    <3>1. worker[c].snap \in 1..Live
      BY <2>0, <2>2 DEF ReplyIsPrefix, ReplySoFar
    <3> QED BY <1>2, <2>0, <2>2, <3>1, SnapsStay
  <2> QED BY <1>2, <2>1, <2>2, ClientStep DEF ClientCases, Kept, SameClient
<1> QED BY <1>1, <1>2, Invariance, PTL DEF Spec

(* A companion that is spawned is one of the framework that runs now. *)
LEMMA CompanionGenStep ==
  ASSUME Inv, [Next]_vars, NEW d \in Client
  PROVE  companion'[d].gen \in {companion[d].gen, gen}
<1>0. /\ Types /\ SnapsBounded /\ ThreadTypes /\ CompanionTypes /\ Published
  BY DEF Inv, ThreadTypes
<1>1. CASE UNCHANGED companion
  BY <1>1
<1>2. CASE Rescan \/ \E c \in Client : ReadBegins(c) \/ Companion(c) \/ CompanionDies(c)
  BY <1>0, <1>2, RescanFacts, ReapedFacts, CompanionFacts DEF SameCompanion, ReadBegins
<1>3. ASSUME NEW c \in Client, Spawns(c) PROVE companion'[d].gen \in {companion[d].gen, gen}
  BY <1>0, <1>3, SpawnsFacts
<1>4. \/ UNCHANGED companion \/ Rescan
      \/ \E c \in Client : ReadBegins(c) \/ Companion(c) \/ CompanionDies(c) \/ Spawns(c)
  BY StepCases DEF Rest, ZygoteRestarts, ZygoteRestartsUnreported, MonitorRefreshes,
       ClientStarts, ClientAsks,
       AcceptsUntrusted, AcceptsThreaded, AcceptsRestart, AcceptsRefresh, DropCompanion,
       ReadEntry, OutOfRange, GetModuleDir, Resolves, Locks, ReadsAnswer, Connects
<1> QED BY <1>1, <1>2, <1>3, <1>4

(* No client is served by a companion of before the last reported restart: *)
(* the report is in the queue before any connection of a new client, and   *)
(* handle_connection drops the companions before it takes the next one.    *)
THEOREM FreshCompanions == Spec => []CompanionsAreFresh
<1>1. ASSUME Init PROVE CompanionsAreFresh
  BY <1>1 DEF Init, CompanionsAreFresh
<1>2. ASSUME Inv, [Next]_vars, CompanionsAreFresh PROVE CompanionsAreFresh'
  <2>0. FreshOnceHeld /\ CompanionTypes /\ ClientTypes
    BY <1>2 DEF Inv, ThreadTypes
  <2> SUFFICES ASSUME NEW c \in Client, client'[c].state = "served", client'[c].by # None
               PROVE  companion'[client'[c].by].gen >= client'[c].gen
    BY DEF CompanionsAreFresh
  <2>1. client[c].gen \in 0..gen /\ gen \in Nat
    BY <1>2, ClientGenIsPast
  <2>2. CASE Kept(c) /\ client[c].state = "served"
    <3>1. client[c].by \in Client /\ client'[c].by = client[c].by
          /\ client'[c].gen = client[c].gen
      BY <2>0, <2>2 DEF Kept, SameClient, ClientTypes
    <3>2. companion[client[c].by].gen >= client[c].gen
      BY <1>2, <2>2, <3>1, ClientAssumption DEF CompanionsAreFresh
    <3>3. companion'[client[c].by].gen \in {companion[client[c].by].gen, gen}
      BY <1>2, <3>1, CompanionGenStep
    <3> QED BY <2>1, <3>1, <3>2, <3>3
  <2>3. CASE /\ SameClient(c) /\ worker[c].pc = "locked" /\ client'[c].by = slot[Slot(c)]
             /\ slot[Slot(c)] \in Client /\ UNCHANGED companion
    <3>1. HasModule(c) /\ Serves(slot[Slot(c)], Slot(c))
      BY <2>3 DEF HasModule, Serves
    <3> QED BY <2>0, <2>3, <3>1 DEF FreshOnceHeld, SameClient
  <2> QED BY <1>2, <2>2, <2>3, ClientStep DEF ClientCases
<1> QED BY <1>1, <1>2, Invariance, PTL DEF Spec

(* A client gets the module whose handle it has unless a RefreshModules     *)
(* replaced the list: a restart ends every client that holds a handle       *)
(* before the snapshot is replaced.                                         *)
THEOREM HandlesSurviveRestarts == Spec => []RestartsKeepHandles
<1>1. ASSUME Init PROVE RestartsKeepHandles
  BY <1>1 DEF Init, RestartsKeepHandles, RightModule
<1>2. ASSUME Inv, [Next]_vars, RestartsKeepHandles PROVE RestartsKeepHandles'
  <2>0. Types /\ CompanionTypes /\ HandlesAreLive
    BY <1>2 DEF Inv, ThreadTypes
  <2> SUFFICES ASSUME ~Refreshed', NEW c \in Client, client'[c].state = "served"
               PROVE  client'[c].got = client'[c].list[client'[c].index]
    BY DEF RestartsKeepHandles, RightModule, Refreshed
  <2>1. ~Refreshed
    BY <1>2, <2>0, RefreshedStays
  <2>2. /\ client[c].state = "asking" => client[c].list = snaps[Live]
        /\ client[c].state = "asking" /\ HasModule(c)
             => worker[c].mod = client[c].list[client[c].index]
    BY <2>0, <2>1 DEF HandlesAreLive
  <2>3. CASE Kept(c) /\ client[c].state = "served"
    <3>1. client[c].got = client[c].list[client[c].index]
      BY <1>2, <2>1, <2>3 DEF RestartsKeepHandles, RightModule, Refreshed
    <3> QED BY <2>3, <3>1 DEF Kept, SameClient
  <2>4. CASE /\ SameClient(c) /\ client[c].state = "asking"
             /\ \/ client'[c].got = snaps[Live][client[c].index]
                \/ worker[c].pc = "locked" /\ client'[c].got = worker[c].mod
    BY <2>2, <2>4 DEF SameClient, HasModule
  <2> QED BY <1>2, <2>3, <2>4, ClientStep DEF ClientCases
<1> QED BY <1>1, <1>2, Invariance, PTL DEF Spec
=============================================================================
