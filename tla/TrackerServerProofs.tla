------------------------ MODULE TrackerServerProofs ------------------------
(***************************************************************************)
(* Proofs about TrackerServer, for any sets of trackers, connections,      *)
(* tasks, ports and calls.                                                 *)
(***************************************************************************)
EXTENDS TrackerServer, FiniteSetTheorems, TLAPS

(***************************************************************************)
(* Type correctness: one lemma per group of actions, and under each action *)
(* one step per part of TypeOK it can disturb.                             *)
(***************************************************************************)

(* What an action leaves alone keeps its type.                             *)
LEMMA Untouched ==
    /\ ServerTypeOK /\ UNCHANGED serverVars => ServerTypeOK'
    /\ ConnTypeOK /\ UNCHANGED connVars => ConnTypeOK'
    /\ RegistryTypeOK /\ UNCHANGED registryVars => RegistryTypeOK'
    /\ TaskTypeOK /\ UNCHANGED taskVars => TaskTypeOK'
    /\ ObserverTypeOK /\ UNCHANGED observers => ObserverTypeOK'
<1>1. ServerTypeOK /\ UNCHANGED serverVars => ServerTypeOK'
  BY DEF ServerTypeOK, serverVars
<1>2. ConnTypeOK /\ UNCHANGED connVars => ConnTypeOK'
  BY DEF ConnTypeOK, connVars
<1>3. RegistryTypeOK /\ UNCHANGED registryVars => RegistryTypeOK'
  BY DEF RegistryTypeOK, registryVars
<1>4. TaskTypeOK /\ UNCHANGED taskVars => TaskTypeOK'
  BY DEF TaskTypeOK, taskVars
<1>5. ObserverTypeOK /\ UNCHANGED observers => ObserverTypeOK'
  BY DEF ObserverTypeOK, observers
<1>. QED BY <1>1, <1>2, <1>3, <1>4, <1>5

(* Telling tasks to stop only changes `killed`, within its type.           *)
LEMMA KillType ==
    ASSUME NEW ts, killed \in [Ticks -> BOOLEAN], Kill(ts)
    PROVE  killed' \in [Ticks -> BOOLEAN]
BY DEF Kill

LEMMA ServerType ==
    ASSUME TypeOK, ServerNext
    PROVE  TypeOK'
<1>. USE Untouched DEF TypeOK
<1>1. ASSUME NEW k \in Calls, NEW p \in Ports, StartCheck(k, p) PROVE TypeOK'
  <2>1. ServerTypeOK'
    BY <1>1 DEF ServerTypeOK, StartCheck
  <2>. QED BY <1>1, <2>1 DEF StartCheck
<1>2. ASSUME NEW k \in Calls, StartBind(k) PROVE TypeOK'
  <2>1. ServerTypeOK'
    BY <1>2 DEF ServerTypeOK, StartBind, CallReturns
  <2>. QED BY <1>2, <2>1 DEF StartBind
<1>3. ASSUME NEW k \in Calls, StartCommit(k) PROVE TypeOK'
  <2>1. ServerTypeOK'
    BY <1>3 DEF ServerTypeOK, StartCommit, CallReturns
  <2>. QED BY <1>3, <2>1 DEF StartCommit
<1>4. CASE StopTake
  <2>1. ServerTypeOK'
    BY <1>4 DEF ServerTypeOK, StopTake
  <2>. QED BY <1>4, <2>1 DEF StopTake
<1>5. CASE StopDrain
  <2>1. ServerTypeOK' /\ RegistryTypeOK' /\ ObserverTypeOK'
    BY <1>5 DEF ServerTypeOK, RegistryTypeOK, ObserverTypeOK, StopDrain
  <2>2. TaskTypeOK'
    BY <1>5, KillType DEF TaskTypeOK, StopDrain, Payloads
  <2>. QED BY <1>5, <2>1, <2>2 DEF StopDrain
<1>6. ASSUME NEW p \in Ports, AxumShutdown(p) PROVE TypeOK'
  <2>1. ServerTypeOK'
    BY <1>6 DEF ServerTypeOK, AxumShutdown
  <2>. QED BY <1>6, <2>1 DEF AxumShutdown
<1>. QED BY <1>1, <1>2, <1>3, <1>4, <1>5, <1>6 DEF ServerNext

LEMMA ConnectionType ==
    ASSUME TypeOK, ConnectionNext
    PROVE  TypeOK'
<1>. USE Untouched DEF TypeOK
<1>1. ASSUME NEW c \in Conns, NEW s \in Slugs, Accept(c, s) PROVE TypeOK'
  <2>1. ConnTypeOK'
    BY <1>1 DEF ConnTypeOK, Accept
  <2>. QED BY <1>1, <2>1 DEF Accept
<1>2. ASSUME NEW c \in Conns, UpgradeFails(c) PROVE TypeOK'
  <2>1. ConnTypeOK'
    BY <1>2 DEF ConnTypeOK, UpgradeFails, ConnectionEnds
  <2>. QED BY <1>2, <2>1 DEF UpgradeFails
<1>3. ASSUME NEW c \in Conns, Attach(c) PROVE TypeOK'
  <2>. DEFINE s == connSlug[c]
  <2>0. s \in Slugs /\ RegistryAttach(s)
    BY <1>3 DEF ConnTypeOK, Attach
  <2>1. ConnTypeOK'
    BY <1>3 DEF ConnTypeOK, Attach
  <2>2. RegistryTypeOK'
    BY <2>0 DEF RegistryTypeOK, RegistryAttach
  <2>3. TaskTypeOK'
    <3>. HIDE DEF s
    <3>1. CASE count[s] = 0
      <4>1. PICK t \in Ticks : Spawn(t, s)
        BY <2>0, <3>1 DEF RegistryAttach
      <4>2. killed' \in [Ticks -> BOOLEAN]
        BY <2>0, <3>1, KillType DEF RegistryAttach, TaskTypeOK
      <4>3. payload' = payload
        BY <2>0 DEF RegistryAttach
      <4>4. taskPc' \in [Ticks -> {"free", "top", "working"}]
        BY <4>1 DEF TaskTypeOK, Spawn
      <4>5. /\ taskSlug' \in [Ticks -> Slugs \cup {NoSlug}]
            /\ \A u \in Ticks : taskPc'[u] # "free" => taskSlug'[u] \in Slugs
        BY <2>0, <4>1 DEF TaskTypeOK, Spawn
      <4>6. last' \in [Ticks -> Payloads] /\ late' \in [Ticks -> 0..2]
        BY <4>1 DEF TaskTypeOK, Spawn, Payloads
      <4>. QED BY <4>2, <4>3, <4>4, <4>5, <4>6 DEF TaskTypeOK
    <3>2. CASE count[s] # 0
      BY <2>0, <3>2 DEF RegistryAttach, taskVars
    <3>. QED BY <3>1, <3>2
  <2>4. ObserverTypeOK'
    BY <1>3 DEF ObserverTypeOK, Attach
  <2>. QED BY <1>3, <2>1, <2>2, <2>3, <2>4 DEF Attach
<1>4. ASSUME NEW c \in Conns, Close(c) PROVE TypeOK'
  <2>. DEFINE s == connSlug[c]
  <2>0. s \in Slugs /\ RegistryDetach(s)
    BY <1>4 DEF ConnTypeOK, Close
  <2>1. ConnTypeOK'
    BY <1>4 DEF ConnTypeOK, Close, ConnectionEnds
  <2>2. RegistryTypeOK'
    BY <2>0 DEF RegistryTypeOK, RegistryDetach, Left, StopTick, registryVars
  <2>3. TaskTypeOK'
    <3>. HIDE DEF s
    <3>1. CASE StopTick(s)
      <4>1. killed' \in [Ticks -> BOOLEAN]
        BY <3>1, KillType DEF StopTick, TaskTypeOK
      <4>. QED BY <2>0, <3>1, <4>1 DEF TaskTypeOK, StopTick, Payloads
    <3>2. CASE UNCHANGED taskVars
      BY <3>2
    <3>. QED BY <2>0, <3>1, <3>2 DEF RegistryDetach
  <2>4. ObserverTypeOK'
    BY <1>4, <2>0 DEF ObserverTypeOK, Close
  <2>. QED BY <1>4, <2>1, <2>2, <2>3, <2>4 DEF Close
<1>. QED BY <1>1, <1>2, <1>3, <1>4 DEF ConnectionNext

LEMMA TickType ==
    ASSUME TypeOK, TickNext
    PROVE  TypeOK'
<1>. USE Untouched DEF TypeOK
<1>1. ASSUME NEW t \in Ticks, TickCheck(t) PROVE TypeOK'
  <2>1. TaskTypeOK'
    BY <1>1 DEF TaskTypeOK, TickCheck, TickReturns, TickContinues, Payloads
  <2>. QED BY <1>1, <2>1 DEF TickCheck
<1>2. ASSUME NEW t \in Ticks, NEW p \in Payloads, TickRead(t, p) PROVE TypeOK'
  <2>1. TaskTypeOK'
    BY <1>2 DEF TaskTypeOK, TickRead, IterationEnds, Send
  <2>. QED BY <1>2, <2>1 DEF TickRead, IterationEnds
<1>3. ASSUME NEW t \in Ticks, TickNoGame(t) PROVE TypeOK'
  <2>1. TaskTypeOK'
    BY <1>3 DEF TaskTypeOK, TickNoGame, IterationEnds, Send, Idle, Payloads
  <2>. QED BY <1>3, <2>1 DEF TickNoGame, IterationEnds
<1>. QED BY <1>1, <1>2, <1>3 DEF TickNext

LEMMA TypeStep == TypeOK /\ [Next]_vars => TypeOK'
<1>. SUFFICES ASSUME TypeOK, [Next]_vars PROVE TypeOK'
  OBVIOUS
<1>1. CASE Next
  BY <1>1, ServerType, ConnectionType, TickType DEF Next
<1>2. CASE UNCHANGED vars
  BY <1>2, Untouched DEF TypeOK, vars
<1>. QED BY <1>1, <1>2

LEMMA TypeInit == Init => TypeOK
<1>. SUFFICES ASSUME Init PROVE TypeOK
  OBVIOUS
<1>1. ServerTypeOK /\ ConnTypeOK /\ RegistryTypeOK
  BY DEF Init, ServerTypeOK, ConnTypeOK, RegistryTypeOK
<1>2. TaskTypeOK /\ ObserverTypeOK
  BY DEF Init, TaskTypeOK, ObserverTypeOK, Payloads
<1>. QED BY <1>1, <1>2 DEF TypeOK

(* Every variable keeps its type, however calls, connections and tasks     *)
(* interleave.                                                             *)
THEOREM TypeCorrect == Spec => []TypeOK
BY TypeInit, TypeStep, PTL DEF Spec

(***************************************************************************)
(* Ownership of the tick tasks.  AliveTickIsOwned says that a live task is *)
(* the one its tracker's entry holds; to carry it through an attach, the   *)
(* converse is needed: the task an entry holds is a live one of that       *)
(* tracker, so an entry that counts nobody holds none.                     *)
(***************************************************************************)
HeldTickIsAlive ==
    \A s \in Slugs : tick[s] # NoTick =>
        /\ s \in entries /\ count[s] > 0
        /\ Alive(tick[s]) /\ taskSlug[tick[s]] = s

FreeIsNotKilled == \A t \in Ticks : taskPc[t] = "free" => ~killed[t]

OwnerInv == HeldTickIsAlive /\ AliveTickIsOwned /\ FreeIsNotKilled

LEMMA OwnerInit == Init => OwnerInv
BY DEF Init, OwnerInv, HeldTickIsAlive, AliveTickIsOwned, FreeIsNotKilled, Alive

(* Only the registry, the tasks' positions and their signals matter.       *)
LEMMA OwnerUntouched ==
    OwnerInv /\ UNCHANGED <<registryVars, taskPc, taskSlug, killed>> => OwnerInv'
BY DEF OwnerInv, HeldTickIsAlive, AliveTickIsOwned, FreeIsNotKilled, Alive,
       registryVars

LEMMA OwnerDrain ==
    ASSUME TypeOK, OwnerInv, StopDrain
    PROVE  OwnerInv'
<1>1. \A t \in Ticks : ~Alive(t)'
  BY DEF StopDrain, Kill, OwnerInv, AliveTickIsOwned, Alive, TypeOK, TaskTypeOK
<1>2. FreeIsNotKilled'
  BY Distinct DEF StopDrain, Kill, OwnerInv, FreeIsNotKilled, HeldTickIsAlive, Alive,
         TypeOK, TaskTypeOK, RegistryTypeOK
<1>3. HeldTickIsAlive'
  BY DEF StopDrain, HeldTickIsAlive
<1>. QED BY <1>1, <1>2, <1>3 DEF OwnerInv, AliveTickIsOwned

LEMMA OwnerAttach ==
    ASSUME TypeOK, OwnerInv, NEW s \in Slugs, RegistryAttach(s)
    PROVE  OwnerInv'
<1>1. CASE count[s] = 0
  <2>1. PICK t \in Ticks : Spawn(t, s) /\ tick' = [tick EXCEPT ![s] = t]
    BY <1>1 DEF RegistryAttach
  <2>2. tick[s] = NoTick
    BY <1>1 DEF OwnerInv, HeldTickIsAlive
  <2>3. killed' = killed
    BY <1>1, <2>2, Distinct DEF RegistryAttach, Kill, TypeOK, TaskTypeOK
  <2>4. taskPc[t] = "free" /\ ~killed[t]
    BY <2>1 DEF Spawn, OwnerInv, FreeIsNotKilled
  <2>5. count' = [count EXCEPT ![s] = @ + 1] /\ entries' = entries \cup {s}
    BY DEF RegistryAttach
  <2>6. HeldTickIsAlive'
    <3>1. /\ tick'[s] = t /\ s \in entries' /\ count'[s] > 0
          /\ taskPc'[t] = "top" /\ ~killed'[t] /\ taskSlug'[t] = s
      BY <1>1, <2>1, <2>3, <2>4, <2>5 DEF Spawn, TypeOK, TaskTypeOK, RegistryTypeOK
    <3>2. ASSUME NEW u \in Slugs, u # s, tick'[u] # NoTick
          PROVE  /\ u \in entries' /\ count'[u] > 0
                 /\ taskPc'[tick'[u]] # "free" /\ ~killed'[tick'[u]] /\ taskSlug'[tick'[u]] = u
      <4>1. tick'[u] = tick[u] /\ tick[u] \in Ticks /\ tick[u] # t
        BY <2>1, <2>4, <3>2 DEF OwnerInv, HeldTickIsAlive, Alive, TypeOK, RegistryTypeOK
      <4>2. u \in entries' /\ count'[u] > 0
        BY <2>5, <3>2, <4>1 DEF OwnerInv, HeldTickIsAlive, TypeOK, RegistryTypeOK
      <4>3. /\ taskPc'[tick[u]] = taskPc[tick[u]] /\ killed'[tick[u]] = killed[tick[u]]
            /\ taskSlug'[tick[u]] = taskSlug[tick[u]]
        BY <2>1, <2>3, <4>1 DEF Spawn, TypeOK, TaskTypeOK
      <4>. QED BY <3>2, <4>1, <4>2, <4>3 DEF OwnerInv, HeldTickIsAlive, Alive
    <3>. QED BY <3>1, <3>2 DEF HeldTickIsAlive, Alive
  <2>7. AliveTickIsOwned'
    <3>1. ASSUME NEW u \in Ticks, Alive(u)', u # t
          PROVE  /\ taskSlug'[u] \in entries' /\ tick'[taskSlug'[u]] = u
                 /\ count'[taskSlug'[u]] > 0
      <4>1. Alive(u) /\ taskSlug'[u] = taskSlug[u] /\ taskSlug[u] \in Slugs
        BY <2>1, <2>3, <3>1 DEF Alive, Spawn, TypeOK, TaskTypeOK
      <4>2. /\ taskSlug[u] \in entries /\ tick[taskSlug[u]] = u
            /\ count[taskSlug[u]] > 0
        BY <4>1 DEF OwnerInv, AliveTickIsOwned
      <4>3. taskSlug[u] # s
        BY <4>2, <1>1
      <4>. QED BY <2>1, <2>5, <4>1, <4>2, <4>3 DEF TypeOK, RegistryTypeOK
    <3>2. taskSlug'[t] = s /\ s \in entries' /\ tick'[s] = t /\ count'[s] > 0
      BY <1>1, <2>1, <2>5 DEF Spawn, TypeOK, TaskTypeOK, RegistryTypeOK
    <3>. QED BY <3>1, <3>2 DEF AliveTickIsOwned
  <2>8. FreeIsNotKilled'
    BY <2>1, <2>3 DEF OwnerInv, FreeIsNotKilled, Spawn, TypeOK, TaskTypeOK
  <2>. QED BY <2>6, <2>7, <2>8 DEF OwnerInv
<1>2. CASE count[s] # 0
  <2>1. /\ UNCHANGED <<tick, taskPc, taskSlug, killed>>
        /\ count' = [count EXCEPT ![s] = @ + 1] /\ entries' = entries \cup {s}
    BY <1>2 DEF RegistryAttach
  <2>. QED BY <2>1 DEF OwnerInv, HeldTickIsAlive, AliveTickIsOwned, FreeIsNotKilled,
       Alive, TypeOK, TaskTypeOK, RegistryTypeOK
<1>. QED BY <1>1, <1>2

LEMMA OwnerDetach ==
    ASSUME TypeOK, OwnerInv, NEW s \in Slugs, RegistryDetach(s)
    PROVE  OwnerInv'
<1>1. CASE s \notin entries
  BY <1>1, OwnerUntouched DEF RegistryDetach, taskVars
<1>2. CASE s \in entries /\ Left(s) = 0
  <2>1. StopTick(s) /\ count' = [count EXCEPT ![s] = 0] /\ UNCHANGED entries
    BY <1>2 DEF RegistryDetach
  <2>2. HeldTickIsAlive'
    BY <2>1, Distinct DEF OwnerInv, HeldTickIsAlive, Alive, StopTick, Kill,
       TypeOK, TaskTypeOK, RegistryTypeOK
  <2>3. AliveTickIsOwned'
    BY <2>1 DEF OwnerInv, AliveTickIsOwned, Alive, StopTick, Kill,
       TypeOK, TaskTypeOK, RegistryTypeOK
  <2>4. FreeIsNotKilled'
    BY <2>1, Distinct DEF OwnerInv, FreeIsNotKilled, HeldTickIsAlive, Alive, StopTick,
       Kill, TypeOK, TaskTypeOK, RegistryTypeOK
  <2>. QED BY <2>2, <2>3, <2>4 DEF OwnerInv
<1>3. CASE s \in entries /\ Left(s) # 0
  <2>1. /\ UNCHANGED <<entries, tick, taskPc, taskSlug, killed>>
        /\ count' = [count EXCEPT ![s] = Left(s)]
    BY <1>3 DEF RegistryDetach, taskVars
  <2>2. \A u \in Slugs : count[u] > 0 => count'[u] > 0
    BY <1>3, <2>1 DEF Left, TypeOK, RegistryTypeOK
  <2>. QED BY <2>1, <2>2 DEF OwnerInv, HeldTickIsAlive, AliveTickIsOwned,
       FreeIsNotKilled, Alive, TypeOK, TaskTypeOK, RegistryTypeOK
<1>. QED BY <1>1, <1>2, <1>3

LEMMA OwnerTick ==
    ASSUME TypeOK, OwnerInv, TickNext
    PROVE  OwnerInv'
<1>. USE DEF OwnerInv, HeldTickIsAlive, AliveTickIsOwned, FreeIsNotKilled, Alive,
             TypeOK, TaskTypeOK, RegistryTypeOK, registryVars
<1>1. ASSUME NEW t \in Ticks, TickCheck(t) PROVE OwnerInv'
  <2>1. CASE killed[t]
    BY <1>1, <2>1, Distinct DEF TickCheck, TickReturns
  <2>2. CASE ~killed[t]
    BY <1>1, <2>2, Distinct DEF TickCheck, TickContinues
  <2>. QED BY <2>1, <2>2
<1>2. ASSUME NEW t \in Ticks, IterationEnds(t) PROVE OwnerInv'
  BY <1>2, Distinct DEF IterationEnds
<1>. QED BY <1>1, <1>2 DEF TickNext, TickRead, TickNoGame

LEMMA OwnerStep == TypeOK /\ OwnerInv /\ [Next]_vars => OwnerInv'
<1>. SUFFICES ASSUME TypeOK, OwnerInv, [Next]_vars PROVE OwnerInv'
  OBVIOUS
<1>1. CASE ServerNext
  <2>1. CASE StopDrain
    BY <2>1, OwnerDrain
  <2>2. CASE UNCHANGED <<registryVars, taskVars>>
    BY <2>2, OwnerUntouched DEF taskVars
  <2>. QED BY <1>1, <2>1, <2>2 DEF ServerNext, StartCheck, StartBind, StartCommit,
       StopTake, AxumShutdown
<1>2. ASSUME NEW c \in Conns, NEW s \in Slugs, Accept(c, s) PROVE OwnerInv'
  BY <1>2, OwnerUntouched DEF Accept, taskVars
<1>3. ASSUME NEW c \in Conns, UpgradeFails(c) PROVE OwnerInv'
  BY <1>3, OwnerUntouched DEF UpgradeFails, taskVars
<1>4. ASSUME NEW c \in Conns, Attach(c) PROVE OwnerInv'
  BY <1>4, OwnerAttach DEF Attach, TypeOK, ConnTypeOK
<1>5. ASSUME NEW c \in Conns, Close(c) PROVE OwnerInv'
  BY <1>5, OwnerDetach DEF Close, TypeOK, ConnTypeOK
<1>6. CASE TickNext
  BY <1>6, OwnerTick
<1>7. CASE UNCHANGED vars
  BY <1>7, OwnerUntouched DEF vars, taskVars
<1>. QED BY <1>1, <1>2, <1>3, <1>4, <1>5, <1>6, <1>7 DEF Next, ConnectionNext

(* No tick task is ever orphaned: one that was not told to stop belongs to *)
(* an entry that counts a consumer and holds its shutdown sender           *)
(* (consumers.rs attach, detach, shutdown_all).                            *)
THEOREM NoOrphanTick == Spec => []AliveTickIsOwned
<1>1. OwnerInv => AliveTickIsOwned
  BY DEF OwnerInv
<1>. QED BY <1>1, TypeCorrect, OwnerInit, OwnerStep, PTL DEF Spec

(***************************************************************************)
(* Late payloads.  A task is only between its check and its payload        *)
(* ("working") while it has published nothing late, and once it has, its   *)
(* next step is the check that ends it.                                    *)
(***************************************************************************)
LateInv ==
    \A t \in Ticks :
        /\ late[t] <= 1
        /\ late[t] = 1 /\ taskPc[t] # "free" => taskPc[t] = "top" /\ killed[t]

LEMMA LateInit == Init => LateInv
BY DEF Init, LateInv

(* A task stays at its place and only its signal may be raised.            *)
LEMMA LateKilled ==
    ASSUME TypeOK, LateInv, UNCHANGED <<taskPc, late>>,
           \A t \in Ticks : killed[t] => killed'[t]
    PROVE  LateInv'
BY DEF LateInv, TypeOK, TaskTypeOK

LEMMA LateSpawn ==
    ASSUME TypeOK, LateInv, NEW t \in Ticks, NEW s, Spawn(t, s),
           \A u \in Ticks : killed[u] => killed'[u]
    PROVE  LateInv'
BY DEF LateInv, Spawn, TypeOK, TaskTypeOK

LEMMA LateTick ==
    ASSUME TypeOK, LateInv, TickNext
    PROVE  LateInv'
<1>. USE DEF LateInv, TypeOK, TaskTypeOK
<1>1. ASSUME NEW t \in Ticks, TickCheck(t) PROVE LateInv'
  BY <1>1 DEF TickCheck, TickReturns, TickContinues
<1>2. ASSUME NEW t \in Ticks, IterationEnds(t), late' = late PROVE LateInv'
  BY <1>2 DEF IterationEnds
<1>3. ASSUME NEW t \in Ticks, NEW p, IterationEnds(t), Send(t, p) PROVE LateInv'
  BY <1>3 DEF IterationEnds, Send
<1>. QED BY <1>1, <1>2, <1>3 DEF TickNext, TickRead, TickNoGame

LEMMA LateStep == TypeOK /\ LateInv /\ [Next]_vars => LateInv'
<1>. SUFFICES ASSUME TypeOK, LateInv, [Next]_vars PROVE LateInv'
  OBVIOUS
<1>1. CASE UNCHANGED taskVars
  BY <1>1, LateKilled DEF taskVars
<1>2. CASE StopDrain
  BY <1>2, LateKilled DEF StopDrain, Kill, TypeOK, TaskTypeOK
<1>3. ASSUME NEW c \in Conns, Attach(c), ~UNCHANGED taskVars PROVE LateInv'
  <2>1. PICK t \in Ticks : Spawn(t, connSlug[c])
    BY <1>3 DEF Attach, RegistryAttach, taskVars
  <2>2. \A u \in Ticks : killed[u] => killed'[u]
    BY <1>3 DEF Attach, RegistryAttach, Kill, TypeOK, TaskTypeOK
  <2>. QED BY <2>1, <2>2, LateSpawn
<1>4. ASSUME NEW c \in Conns, Close(c), ~UNCHANGED taskVars PROVE LateInv'
  <2>1. StopTick(connSlug[c])
    BY <1>4 DEF Close, RegistryDetach, taskVars
  <2>. QED BY <2>1, LateKilled DEF StopTick, Kill, TypeOK, TaskTypeOK
<1>5. CASE TickNext
  BY <1>5, LateTick
<1>6. ServerNext => StopDrain \/ UNCHANGED taskVars
  BY DEF ServerNext, StartCheck, StartBind, StartCommit, StopTake, AxumShutdown
<1>7. ConnectionNext /\ ~UNCHANGED taskVars => \E c \in Conns : Attach(c) \/ Close(c)
  BY DEF ConnectionNext, Accept, UpgradeFails
<1>8. UNCHANGED vars => UNCHANGED taskVars
  BY DEF vars
<1>. QED BY <1>1, <1>2, <1>3, <1>4, <1>5, <1>6, <1>7, <1>8 DEF Next

(* A task that was told to stop overwrites the reset of its tracker's      *)
(* payload at most once (tick_task.rs spawn).                              *)
THEOREM LatePublishOnce == Spec => []OneLatePublish
<1>1. LateInv => OneLatePublish
  BY DEF LateInv, OneLatePublish
<1>. QED BY <1>1, TypeCorrect, LateInit, LateStep, PTL DEF Spec

(***************************************************************************)
(* The server.  NoLostServer is inductive as it stands.                    *)
(***************************************************************************)
LEMMA ServerStep == TypeOK /\ NoLostServer /\ [Next]_vars => NoLostServer'
<1>. SUFFICES ASSUME TypeOK, NoLostServer, [Next]_vars PROVE NoLostServer'
  OBVIOUS
<1>. USE DEF NoLostServer, TypeOK, ServerTypeOK
<1>1. ASSUME NEW k \in Calls, NEW p \in Ports, StartCheck(k, p) PROVE NoLostServer'
  BY <1>1 DEF StartCheck
<1>2. ASSUME NEW k \in Calls, StartBind(k) PROVE NoLostServer'
  BY <1>2 DEF StartBind, CallReturns
<1>3. ASSUME NEW k \in Calls, StartCommit(k) PROVE NoLostServer'
  BY <1>3, Distinct DEF StartCommit, CallReturns
<1>4. CASE StopTake
  BY <1>4, Distinct DEF StopTake
<1>5. ASSUME NEW p \in Ports, AxumShutdown(p) PROVE NoLostServer'
  BY <1>5 DEF AxumShutdown
<1>6. CASE UNCHANGED <<running, listening, told, callPc, callPort>>
  BY <1>6
<1>7. StopDrain \/ ConnectionNext \/ TickNext \/ UNCHANGED vars
        => UNCHANGED <<running, listening, told, callPc, callPort>>
  BY DEF StopDrain, ConnectionNext, Accept, UpgradeFails, Attach, Close, TickNext,
     TickCheck, TickRead, TickNoGame, IterationEnds, vars, serverVars
<1>. QED BY <1>1, <1>2, <1>3, <1>4, <1>5, <1>6, <1>7 DEF Next, ServerNext

(* Overlapping start and stop calls never leave a server listening that    *)
(* nobody can stop (mod.rs start_tracker_server, stop_tracker_server).     *)
THEOREM ServerIsStoppable == Spec => []NoLostServer
<1>1. Init => NoLostServer
  BY DEF Init, NoLostServer
<1>. QED BY <1>1, TypeCorrect, ServerStep, PTL DEF Spec

(***************************************************************************)
(* Counting.  The count is compared with a cardinality, so what an attach  *)
(* and a close do to the set of counted connections is established first.  *)
(***************************************************************************)
OwedInv ==
    /\ IsFiniteSet(owed)
    /\ \A c \in owed : connPc[c] = "attached"

CountInv ==
    /\ OwedInv
    /\ \A s \in Slugs : s \notin entries => count[s] = 0
    /\ CountIsOwed
    /\ ExactUnlessStale

LEMMA AttachedFinite ==
    ASSUME OwedInv, NEW s
    PROVE  IsFiniteSet(Attached(s)) /\ Cardinality(Attached(s)) \in Nat
<1>1. Attached(s) \in SUBSET owed
  BY DEF Attached
<1>2. IsFiniteSet(Attached(s))
  BY <1>1, FS_Subset DEF OwedInv
<1>. QED BY <1>2, FS_CardinalityType

LEMMA CountInit == Init => CountInv
<1>. SUFFICES ASSUME Init PROVE CountInv
  OBVIOUS
<1>1. IsFiniteSet({}) /\ Cardinality({}) = 0
  BY FS_EmptySet
<1>2. \A s : Attached(s) = {}
  BY DEF Init, Attached
<1>3. OwedInv
  BY <1>1 DEF Init, OwedInv
<1>4. CountIsOwed /\ ExactUnlessStale
  BY <1>1, <1>2 DEF Init, CountIsOwed, ExactUnlessStale
<1>. QED BY <1>3, <1>4 DEF Init, CountInv

(* Steps that touch neither the registry nor an attached connection.       *)
LEMMA CountUntouched ==
    ASSUME TypeOK, CountInv,
           UNCHANGED <<entries, count, owed, staleDrop>>,
           \A c \in owed : connPc'[c] = connPc[c] /\ connSlug'[c] = connSlug[c]
    PROVE  CountInv'
<1>1. \A s : Attached(s)' = Attached(s)
  BY DEF Attached
<1>2. OwedInv'
  BY DEF CountInv, OwedInv
<1>3. CountIsOwed' /\ ExactUnlessStale'
  BY <1>1 DEF CountInv, CountIsOwed, ExactUnlessStale
<1>. QED BY <1>2, <1>3 DEF CountInv

LEMMA CountDrain ==
    ASSUME TypeOK, CountInv, StopDrain
    PROVE  CountInv'
<1>1. IsFiniteSet({}) /\ Cardinality({}) = 0
  BY FS_EmptySet
<1>2. \A s : Attached(s)' = {}
  BY DEF StopDrain, Attached
<1>3. OwedInv'
  BY <1>1 DEF StopDrain, OwedInv
<1>4. CountIsOwed' /\ ExactUnlessStale'
  BY <1>1, <1>2 DEF StopDrain, CountIsOwed, ExactUnlessStale
<1>. QED BY <1>3, <1>4 DEF StopDrain, CountInv

LEMMA CountAttach ==
    ASSUME TypeOK, CountInv, NEW c \in Conns, Attach(c),
           NEW s \in Slugs, s = connSlug[c]
    PROVE  CountInv'
<1>1. c \notin owed
  BY DEF Attach, TypeOK, ConnTypeOK, CountInv, OwedInv
<1>2. OwedInv'
  BY FS_AddElement DEF Attach, CountInv, OwedInv, TypeOK, ConnTypeOK
<1>3. Attached(s)' = Attached(s) \cup {c}
  BY DEF Attach, Attached
<1>4. Cardinality(Attached(s)') = Cardinality(Attached(s)) + 1
  <2>1. IsFiniteSet(Attached(s)) /\ c \notin Attached(s)
    BY <1>1, AttachedFinite DEF Attached, CountInv
  <2>. QED BY <1>3, <2>1, FS_AddElement
<1>5. \A u : u # s => Attached(u)' = Attached(u)
  BY DEF Attach, Attached
<1>6. Cardinality(Attached(s)) \in Nat
  BY AttachedFinite DEF CountInv
<1>7. /\ count' = [count EXCEPT ![s] = @ + 1] /\ entries' = entries \cup {s}
      /\ staleDrop' = staleDrop
  BY DEF Attach, RegistryAttach
<1>8. CountIsOwed'
  <2>. SUFFICES ASSUME NEW u \in Slugs PROVE count'[u] <= Cardinality(Attached(u)')
    BY DEF CountIsOwed
  <2>1. CASE u = s
    BY <1>1, <1>4, <1>6, <1>7, <2>1 DEF CountInv, CountIsOwed, TypeOK, RegistryTypeOK
  <2>2. CASE u # s
    BY <1>5, <1>7, <2>2 DEF CountInv, CountIsOwed, TypeOK, RegistryTypeOK
  <2>. QED BY <2>1, <2>2
<1>9. ExactUnlessStale'
  <2>. SUFFICES ASSUME NEW u \in Slugs, ~staleDrop[u]
                PROVE  count'[u] = Cardinality(Attached(u)')
    BY <1>7 DEF ExactUnlessStale
  <2>1. CASE u = s
    BY <1>1, <1>4, <1>6, <1>7, <2>1 DEF CountInv, ExactUnlessStale, TypeOK,
       RegistryTypeOK
  <2>2. CASE u # s
    BY <1>5, <1>7, <2>2 DEF CountInv, ExactUnlessStale, TypeOK, RegistryTypeOK
  <2>. QED BY <2>1, <2>2
<1>10. \A u \in Slugs : u \notin entries' => count'[u] = 0
  BY <1>7 DEF CountInv, TypeOK, RegistryTypeOK
<1>. QED BY <1>2, <1>8, <1>9, <1>10 DEF CountInv

LEMMA CountClose ==
    ASSUME TypeOK, CountInv, NEW c \in Conns, Close(c),
           NEW s \in Slugs, s = connSlug[c]
    PROVE  CountInv'
<1>2. OwedInv'
  BY FS_RemoveElement DEF Close, ConnectionEnds, CountInv, OwedInv, TypeOK, ConnTypeOK
<1>3. /\ Attached(s)' = Attached(s) \ {c}
      /\ \A u : u # s => Attached(u)' = Attached(u)
  BY DEF Close, ConnectionEnds, Attached, TypeOK, ConnTypeOK
<1>4. /\ Cardinality(Attached(s)) \in Nat
      /\ c \in owed => c \in Attached(s)
      /\ Cardinality(Attached(s)') = IF c \in owed THEN Cardinality(Attached(s)) - 1
                                                   ELSE Cardinality(Attached(s))
  <2>1. IsFiniteSet(Attached(s)) /\ Cardinality(Attached(s)) \in Nat
    BY AttachedFinite DEF CountInv
  <2>2. c \in owed <=> c \in Attached(s)
    BY DEF Attached
  <2>. QED BY <1>3, <2>1, <2>2, FS_RemoveElement
<1>5. /\ count' = [count EXCEPT ![s] = Left(s)] /\ entries' = entries
  <2>1. s \notin entries => count[s] = 0
    BY DEF CountInv
  <2>2. RegistryDetach(s)
    BY DEF Close
  <2>. QED BY <2>1, <2>2 DEF RegistryDetach, Left, registryVars, TypeOK,
       RegistryTypeOK
<1>6. staleDrop' = [staleDrop EXCEPT ![s] = @ \/ c \notin owed]
  BY DEF Close
<1>7. count[s] \in Nat /\ count[s] <= Cardinality(Attached(s))
  BY DEF CountInv, CountIsOwed, TypeOK, RegistryTypeOK
<1>8. CountIsOwed'
  <2>. SUFFICES ASSUME NEW u \in Slugs PROVE count'[u] <= Cardinality(Attached(u)')
    BY DEF CountIsOwed
  <2>1. CASE u = s
    <3>1. count'[s] = Left(s) /\ (c \notin owed => Left(s) <= count[s])
      BY <1>5, <1>7 DEF Left, TypeOK, RegistryTypeOK
    <3>2. CASE c \in owed
      <4>1. Cardinality(Attached(s)) > 0
        BY <1>4, <3>2, AttachedFinite, FS_EmptySet DEF CountInv
      <4>. QED BY <1>4, <1>7, <2>1, <3>1, <3>2, <4>1 DEF Left
    <3>3. CASE c \notin owed
      BY <1>4, <1>7, <2>1, <3>1, <3>3 DEF Left
    <3>. QED BY <3>2, <3>3
  <2>2. CASE u # s
    BY <1>3, <1>5, <2>2 DEF CountInv, CountIsOwed, TypeOK, RegistryTypeOK
  <2>. QED BY <2>1, <2>2
<1>9. ExactUnlessStale'
  <2>. SUFFICES ASSUME NEW u \in Slugs, ~staleDrop'[u]
                PROVE  count'[u] = Cardinality(Attached(u)')
    BY DEF ExactUnlessStale
  <2>1. CASE u = s
    <3>1. ~staleDrop[s] /\ c \in owed
      BY <1>6, <2>1 DEF TypeOK, ObserverTypeOK
    <3>2. count[s] = Cardinality(Attached(s))
      BY <3>1 DEF CountInv, ExactUnlessStale
    <3>3. Cardinality(Attached(s)) > 0
      <4>1. IsFiniteSet(Attached(s)) /\ Attached(s) # {}
        BY <1>4, <3>1, AttachedFinite DEF CountInv
      <4>. QED BY <1>4, <4>1, FS_EmptySet
    <3>. QED BY <1>4, <1>5, <2>1, <3>1, <3>2, <3>3 DEF Left, TypeOK,
         RegistryTypeOK
  <2>2. CASE u # s
    BY <1>3, <1>5, <1>6, <2>2 DEF CountInv, ExactUnlessStale, TypeOK, RegistryTypeOK,
       ObserverTypeOK
  <2>. QED BY <2>1, <2>2
<1>10. \A u \in Slugs : u \notin entries' => count'[u] = 0
  BY <1>5 DEF CountInv, Left, TypeOK, RegistryTypeOK
<1>. QED BY <1>2, <1>8, <1>9, <1>10 DEF CountInv

LEMMA CountStep == TypeOK /\ CountInv /\ [Next]_vars => CountInv'
<1>. SUFFICES ASSUME TypeOK, CountInv, [Next]_vars PROVE CountInv'
  OBVIOUS
<1>1. CASE StopDrain
  BY <1>1, CountDrain
<1>2. ASSUME NEW c \in Conns, Attach(c) PROVE CountInv'
  BY <1>2, CountAttach DEF Attach, TypeOK, ConnTypeOK
<1>3. ASSUME NEW c \in Conns, Close(c) PROVE CountInv'
  BY <1>3, CountClose DEF Close, TypeOK, ConnTypeOK
<1>4. ASSUME NEW c \in Conns, NEW s \in Slugs, Accept(c, s) PROVE CountInv'
  <2>1. \A d \in owed : connPc'[d] = connPc[d] /\ connSlug'[d] = connSlug[d]
    BY <1>4 DEF Accept, CountInv, OwedInv, TypeOK, ConnTypeOK
  <2>. QED BY <1>4, <2>1, CountUntouched DEF Accept, registryVars, observers
<1>5. ASSUME NEW c \in Conns, UpgradeFails(c) PROVE CountInv'
  <2>1. \A d \in owed : connPc'[d] = connPc[d] /\ connSlug'[d] = connSlug[d]
    BY <1>5 DEF UpgradeFails, ConnectionEnds, CountInv, OwedInv, TypeOK, ConnTypeOK
  <2>. QED BY <1>5, <2>1, CountUntouched DEF UpgradeFails, registryVars, observers
<1>6. CASE UNCHANGED <<connVars, registryVars, observers>>
  BY <1>6, CountUntouched DEF connVars, registryVars, observers
<1>7. ServerNext => StopDrain \/ UNCHANGED <<connVars, registryVars, observers>>
  BY DEF ServerNext, StartCheck, StartBind, StartCommit, StopTake, AxumShutdown
<1>8. TickNext \/ UNCHANGED vars => UNCHANGED <<connVars, registryVars, observers>>
  BY DEF TickNext, TickCheck, TickRead, TickNoGame, IterationEnds, vars
<1>. QED BY <1>1, <1>2, <1>3, <1>4, <1>5, <1>6, <1>7, <1>8 DEF Next, ConnectionNext

(* No mix of stops and of guards that outlive them makes the registry      *)
(* count a consumer that is gone (consumers.rs attach, detach,             *)
(* shutdown_all).                                                          *)
THEOREM CountNeverTooHigh == Spec => []CountIsOwed
<1>1. CountInv => CountIsOwed
  BY DEF CountInv
<1>. QED BY <1>1, TypeCorrect, CountInit, CountStep, PTL DEF Spec

(* As long as no guard of an earlier generation was dropped, the count is  *)
(* the exact number of open connections (consumers.rs attach, detach).     *)
THEOREM CountIsExact == Spec => []ExactUnlessStale
<1>1. CountInv => ExactUnlessStale
  BY DEF CountInv
<1>. QED BY <1>1, TypeCorrect, CountInit, CountStep, PTL DEF Spec

(***************************************************************************)
(* Service.  A counted consumer has a task: an entry that counts somebody  *)
(* holds a sender, which HeldTickIsAlive takes to a live task.  That a     *)
(* connection is counted at all is ExactUnlessStale.                       *)
(***************************************************************************)
CountedHasTick == \A s \in Slugs : count[s] > 0 => tick[s] # NoTick

LEMMA CountedStep == TypeOK /\ CountedHasTick /\ [Next]_vars => CountedHasTick'
<1>. SUFFICES ASSUME TypeOK, CountedHasTick, [Next]_vars PROVE CountedHasTick'
  OBVIOUS
<1>. USE DEF CountedHasTick, TypeOK, RegistryTypeOK
<1>1. CASE UNCHANGED <<count, tick>>
  BY <1>1
<1>2. CASE StopDrain
  BY <1>2 DEF StopDrain
<1>3. ASSUME NEW s \in Slugs, RegistryAttach(s) PROVE CountedHasTick'
  <2>1. CASE count[s] = 0
    BY <1>3, <2>1, Distinct DEF RegistryAttach
  <2>2. CASE count[s] # 0
    BY <1>3, <2>2 DEF RegistryAttach
  <2>. QED BY <2>1, <2>2
<1>4. ASSUME NEW s \in Slugs, RegistryDetach(s) PROVE CountedHasTick'
  <2>1. CASE s \in entries /\ Left(s) = 0
    BY <1>4, <2>1 DEF RegistryDetach, StopTick
  <2>2. CASE s \in entries /\ Left(s) # 0
    BY <1>4, <2>2 DEF RegistryDetach, Left, taskVars
  <2>. QED BY <1>1, <1>4, <2>1, <2>2 DEF RegistryDetach, registryVars
<1>5. ServerNext => StopDrain \/ UNCHANGED <<count, tick>>
  BY DEF ServerNext, StartCheck, StartBind, StartCommit, StopTake, AxumShutdown,
     registryVars
<1>6. ASSUME NEW c \in Conns, Attach(c) \/ Close(c) PROVE CountedHasTick'
  BY <1>3, <1>4, <1>6 DEF Attach, Close, ConnTypeOK
<1>7. ConnectionNext => \/ \E c \in Conns : Attach(c) \/ Close(c)
                        \/ UNCHANGED <<count, tick>>
  BY DEF ConnectionNext, Accept, UpgradeFails, registryVars
<1>8. TickNext \/ UNCHANGED vars => UNCHANGED <<count, tick>>
  BY DEF TickNext, TickCheck, TickRead, TickNoGame, IterationEnds, vars, registryVars
<1>. QED BY <1>1, <1>2, <1>5, <1>6, <1>7, <1>8 DEF Next

LEMMA ServedState ==
    ASSUME TypeOK, OwnerInv, CountInv, CountedHasTick
    PROVE  ViewerIsServed
<1>. SUFFICES ASSUME NEW c \in owed, ~staleDrop[connSlug[c]]
              PROVE  \E t \in Ticks : Alive(t) /\ taskSlug[t] = connSlug[c]
  BY DEF ViewerIsServed
<1>. DEFINE s == connSlug[c]
<1>1. s \in Slugs
  BY DEF TypeOK, ObserverTypeOK, ConnTypeOK, CountInv, OwedInv
<1>2. IsFiniteSet(Attached(s)) /\ Attached(s) # {}
  BY AttachedFinite DEF Attached, CountInv
<1>3. Cardinality(Attached(s)) # 0
  BY <1>2, FS_EmptySet
<1>4. count[s] > 0
  BY <1>1, <1>3 DEF CountInv, ExactUnlessStale, TypeOK, RegistryTypeOK
<1>5. tick[s] # NoTick /\ tick[s] \in Ticks
  BY <1>1, <1>4 DEF CountedHasTick, TypeOK, RegistryTypeOK
<1>. QED BY <1>1, <1>5 DEF OwnerInv, HeldTickIsAlive

(* An open connection that attached since the last drain has a live tick   *)
(* task until it closes, unless a guard of an earlier generation was       *)
(* dropped for its tracker (consumers.rs attach, detach, shutdown_all).    *)
THEOREM ViewersServed == Spec => []ViewerIsServed
<1>1. Init => CountedHasTick
  BY DEF Init, CountedHasTick
<1>. QED BY <1>1, TypeCorrect, OwnerInit, OwnerStep, CountInit, CountStep, CountedStep,
         ServedState, PTL DEF Spec
=============================================================================
