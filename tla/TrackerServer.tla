--------------------------- MODULE TrackerServer ---------------------------
(***************************************************************************)
(* The tracker server of the desktop app: the HTTP/WebSocket server the    *)
(* user starts and stops, the WebSocket connections of tracker windows and *)
(* OBS browser sources, the registry that counts them per tracker, the     *)
(* tick tasks the registry spawns and kills on the 0 <-> 1 edges, and the  *)
(* payload each tracker last published.                                    *)
(*                                                                         *)
(* Every operation that runs under one lock in the code is one action.     *)
(* Starting the server is three actions and stopping it two, because the   *)
(* code releases the lock in between.                                      *)
(***************************************************************************)
EXTENDS Naturals, FiniteSets

CONSTANTS
    Slugs,      (* the registered trackers                                 *)
    Conns,      (* WebSocket connections (a closed one may connect again)  *)
    Ticks,      (* slots for tick tasks: bounds how many exist at once     *)
    Ports,      (* ports a start call may ask for                          *)
    Calls,      (* start_tracker_server calls that may be in flight        *)
    Labels,     (* what a tracker displays while it reads the game         *)
    NoSlug, NoTick, NoPort, Empty, Detached

ASSUME Distinct ==
    /\ NoSlug \notin Slugs /\ NoTick \notin Ticks /\ NoPort \notin Ports
    /\ Empty \notin Labels /\ Detached \notin Labels /\ Empty # Detached

VARIABLES
    (* the server: mod.rs RunningServer, server.rs serve *)
    running,    (* the port of the RunningServer, or NoPort                *)
    listening,  (* ports an axum task is bound to                          *)
    told,       (* listening servers whose shutdown signal has been sent   *)
    callPc,     (* where a start call stands: "idle", "bind" or "commit"   *)
    callPort,   (* the port it asks for                                    *)
    stopping,   (* stop_tracker_server is past its lock, before the drain  *)
    (* the connections: server.rs ws_tracker, handle_ws *)
    connPc,     (* "closed", "upgrading" (no guard yet) or "attached"      *)
    connSlug,   (* the tracker it watches                                  *)
    (* the registry: consumers.rs *)
    entries,    (* trackers that have an entry in the map                  *)
    count,      (* ConsumerEntry.count (0 without an entry)                *)
    tick,       (* ConsumerEntry.tick_shutdown (NoTick without an entry)   *)
    (* the tick tasks: tick_task.rs spawn *)
    taskPc,     (* "free" (no task), "top" of the loop or "working"        *)
    taskSlug,   (* the tracker it runs for                                 *)
    killed,     (* its shutdown signal has been sent, or its sender dropped *)
    last,       (* last_payload                                            *)
    payload,    (* per tracker: the value in its payload watch channel     *)
    (* observation only: no guard of an action reads these *)
    owed,       (* connections attached since the last drain               *)
    staleDrop,  (* trackers detached by a guard older than the last drain  *)
    late        (* payloads a task published after it was killed, up to 2  *)

serverVars == <<running, listening, told, callPc, callPort, stopping>>
connVars == <<connPc, connSlug>>
registryVars == <<entries, count, tick>>
taskVars == <<taskPc, taskSlug, killed, last, payload, late>>
observers == <<owed, staleDrop>>
vars == <<serverVars, connVars, registryVars, taskVars, observers>>

Payloads == Labels \cup {Empty, Detached}

ServerTypeOK ==
    /\ running \in Ports \cup {NoPort}
    /\ listening \subseteq Ports /\ told \subseteq Ports
    /\ callPc \in [Calls -> {"idle", "bind", "commit"}]
    /\ callPort \in [Calls -> Ports \cup {NoPort}]
    /\ \A k \in Calls : callPc[k] # "idle" => callPort[k] \in Ports
    /\ stopping \in BOOLEAN

ConnTypeOK ==
    /\ connPc \in [Conns -> {"closed", "upgrading", "attached"}]
    /\ connSlug \in [Conns -> Slugs \cup {NoSlug}]
    /\ \A c \in Conns : connPc[c] # "closed" => connSlug[c] \in Slugs

RegistryTypeOK ==
    /\ entries \subseteq Slugs
    /\ count \in [Slugs -> Nat]
    /\ tick \in [Slugs -> Ticks \cup {NoTick}]

TaskTypeOK ==
    /\ taskPc \in [Ticks -> {"free", "top", "working"}]
    /\ taskSlug \in [Ticks -> Slugs \cup {NoSlug}]
    /\ \A t \in Ticks : taskPc[t] # "free" => taskSlug[t] \in Slugs
    /\ killed \in [Ticks -> BOOLEAN]
    /\ last \in [Ticks -> Payloads]
    /\ payload \in [Slugs -> Payloads]
    /\ late \in [Ticks -> 0..2]

ObserverTypeOK ==
    /\ owed \subseteq Conns
    /\ staleDrop \in [Slugs -> BOOLEAN]

TypeOK ==
    ServerTypeOK /\ ConnTypeOK /\ RegistryTypeOK /\ TaskTypeOK /\ ObserverTypeOK

Init ==
    /\ running = NoPort /\ listening = {} /\ told = {} /\ stopping = FALSE
    /\ callPc = [k \in Calls |-> "idle"]
    /\ callPort = [k \in Calls |-> NoPort]
    /\ connPc = [c \in Conns |-> "closed"]
    /\ connSlug = [c \in Conns |-> NoSlug]
    /\ entries = {}
    /\ count = [s \in Slugs |-> 0]
    /\ tick = [s \in Slugs |-> NoTick]
    /\ taskPc = [t \in Ticks |-> "free"]
    /\ taskSlug = [t \in Ticks |-> NoSlug]
    /\ killed = [t \in Ticks |-> FALSE]
    /\ last = [t \in Ticks |-> Empty]
    /\ payload = [s \in Slugs |-> Empty]
    /\ owed = {}
    /\ staleDrop = [s \in Slugs |-> FALSE]
    /\ late = [t \in Ticks |-> 0]
-----------------------------------------------------------------------------
(* Starting and stopping the server (mod.rs, server.rs).                   *)

(* start_tracker_server reads `running` under the lock, then lets it go to *)
(* bind the port.  When a server runs it returns without a step.           *)
StartCheck(k, p) ==
    /\ callPc[k] = "idle"
    /\ running = NoPort
    /\ callPc' = [callPc EXCEPT ![k] = "bind"]
    /\ callPort' = [callPort EXCEPT ![k] = p]
    /\ UNCHANGED <<running, listening, told, stopping, connVars, registryVars,
                   taskVars, observers>>

CallReturns(k) ==
    /\ callPc' = [callPc EXCEPT ![k] = "idle"]
    /\ callPort' = [callPort EXCEPT ![k] = NoPort]

(* TcpListener::bind fails while another server holds the port.            *)
StartBind(k) ==
    /\ callPc[k] = "bind"
    /\ \/ /\ callPort[k] \in listening
          /\ CallReturns(k)
          /\ UNCHANGED listening
       \/ /\ callPort[k] \notin listening
          /\ callPc' = [callPc EXCEPT ![k] = "commit"]
          /\ listening' = listening \cup {callPort[k]}
          /\ UNCHANGED callPort
    /\ UNCHANGED <<running, told, stopping, connVars, registryVars, taskVars,
                   observers>>

(* Variant: the overwritten server's sender is kept alive somewhere.       *)
CommitWithoutDrop(k) ==
    /\ callPc[k] = "commit"
    /\ running' = callPort[k]
    /\ CallReturns(k)
    /\ UNCHANGED <<listening, told, stopping, connVars, registryVars, taskVars,
                   observers>>

(* Storing the new RunningServer drops the sender of one that got there    *)
(* first, and a dropped sender ends that server like a signal does.        *)
StartCommit(k) ==
    /\ callPc[k] = "commit"
    /\ running' = callPort[k]
    /\ told' = told \cup ({running} \ {NoPort})
    /\ CallReturns(k)
    /\ UNCHANGED <<listening, stopping, connVars, registryVars, taskVars, observers>>

(* stop_tracker_server up to `drop(guard)`.                                *)
StopTake ==
    /\ ~stopping
    /\ running' = NoPort
    /\ told' = told \cup ({running} \ {NoPort})
    /\ stopping' = TRUE
    /\ UNCHANGED <<listening, callPc, callPort, connVars, registryVars, taskVars,
                   observers>>

(* The axum task sees its signal and drops the listener.  Upgraded         *)
(* connections are tasks of their own and live on.                         *)
AxumShutdown(p) ==
    /\ p \in told
    /\ listening' = listening \ {p}
    /\ told' = told \ {p}
    /\ UNCHANGED <<running, callPc, callPort, stopping, connVars, registryVars,
                   taskVars, observers>>
-----------------------------------------------------------------------------
(* The registry (consumers.rs) and what it does to tasks and payloads.     *)

Kill(ts) == killed' = [t \in Ticks |-> killed[t] \/ t \in ts]

(* Variant: shutdown_all iterates over the entries without draining them.  *)
DrainWithoutClearing ==
    /\ stopping
    /\ stopping' = FALSE
    /\ Kill({tick[s] : s \in entries})
    /\ payload' = [s \in Slugs |-> IF s \in entries THEN Empty ELSE payload[s]]
    /\ tick' = [s \in Slugs |-> NoTick]
    /\ owed' = {}
    /\ staleDrop' = [s \in Slugs |-> FALSE]
    /\ UNCHANGED <<running, listening, told, callPc, callPort, connVars, entries,
                   count, taskPc, taskSlug, last, late>>

(* shutdown_all: every entry goes, its task is told to stop, its payload   *)
(* is reset.  The guards of connections still open now belong to nobody.   *)
StopDrain ==
    /\ stopping
    /\ stopping' = FALSE
    /\ Kill({tick[s] : s \in entries})
    /\ payload' = [s \in Slugs |-> IF s \in entries THEN Empty ELSE payload[s]]
    /\ entries' = {}
    /\ count' = [s \in Slugs |-> 0]
    /\ tick' = [s \in Slugs |-> NoTick]
    /\ owed' = {}
    /\ staleDrop' = [s \in Slugs |-> FALSE]
    /\ UNCHANGED <<running, listening, told, callPc, callPort, connVars,
                   taskPc, taskSlug, last, late>>

(* slot.spawn_tick into a free slot t.                                     *)
Spawn(t, s) ==
    /\ taskPc[t] = "free"
    /\ taskPc' = [taskPc EXCEPT ![t] = "top"]
    /\ taskSlug' = [taskSlug EXCEPT ![t] = s]
    /\ last' = [last EXCEPT ![t] = Empty]
    /\ late' = [late EXCEPT ![t] = 0]

(* ConsumerRegistry::attach.  On the 0 -> 1 edge a tick task is spawned,   *)
(* and storing its sender drops the one stored before, if any.             *)
RegistryAttach(s) ==
    /\ entries' = entries \cup {s}
    /\ count' = [count EXCEPT ![s] = @ + 1]
    /\ \/ /\ count[s] = 0
          /\ \E t \in Ticks : /\ Spawn(t, s)
                              /\ tick' = [tick EXCEPT ![s] = t]
          /\ Kill({tick[s]})
       \/ /\ count[s] # 0
          /\ UNCHANGED <<tick, taskPc, taskSlug, killed, last, late>>
    /\ UNCHANGED payload

(* One guard less, never below zero (saturating_sub).                      *)
Left(s) == IF count[s] = 0 THEN 0 ELSE count[s] - 1

StopTick(s) ==
    /\ tick' = [tick EXCEPT ![s] = NoTick]
    /\ Kill({tick[s]})
    /\ payload' = [payload EXCEPT ![s] = Empty]
    /\ UNCHANGED <<taskPc, taskSlug, last, late>>

(* Variant: the sender is not taken out of the entry on the 1 -> 0 edge.   *)
DetachKeepingTask(s) ==
    /\ s \in entries
    /\ count' = [count EXCEPT ![s] = Left(s)]
    /\ UNCHANGED <<entries, tick, taskVars>>

(* Variant: any detach counts as the last one.                             *)
DetachToZero(s) ==
    /\ s \in entries
    /\ count' = [count EXCEPT ![s] = 0]
    /\ StopTick(s)
    /\ UNCHANGED entries

(* ConsumerRegistry::detach: without an entry nothing happens; at 0 the    *)
(* task is told to stop and the payload reset, and the entry stays.        *)
RegistryDetach(s) ==
    \/ /\ s \notin entries
       /\ UNCHANGED <<registryVars, taskVars>>
    \/ /\ s \in entries
       /\ count' = [count EXCEPT ![s] = Left(s)]
       /\ IF Left(s) = 0 THEN StopTick(s) ELSE UNCHANGED <<tick, taskVars>>
       /\ UNCHANGED entries
-----------------------------------------------------------------------------
(* The connections (server.rs).                                            *)

(* ws_tracker answers the upgrade request on a listening server; `attach`  *)
(* only runs later, in the on_upgrade task.                                *)
Accept(c, s) ==
    /\ connPc[c] = "closed"
    /\ listening # {}
    /\ connPc' = [connPc EXCEPT ![c] = "upgrading"]
    /\ connSlug' = [connSlug EXCEPT ![c] = s]
    /\ UNCHANGED <<serverVars, registryVars, taskVars, observers>>

ConnectionEnds(c) ==
    /\ connPc' = [connPc EXCEPT ![c] = "closed"]
    /\ connSlug' = [connSlug EXCEPT ![c] = NoSlug]

UpgradeFails(c) ==
    /\ connPc[c] = "upgrading"
    /\ ConnectionEnds(c)
    /\ UNCHANGED <<serverVars, registryVars, taskVars, observers>>

Attach(c) ==
    /\ connPc[c] = "upgrading"
    /\ connPc' = [connPc EXCEPT ![c] = "attached"]
    /\ RegistryAttach(connSlug[c])
    /\ owed' = owed \cup {c}
    /\ UNCHANGED <<serverVars, connSlug, staleDrop>>

(* handle_ws returns (client gone, send failed) and drops the guard.       *)
Close(c) ==
    /\ connPc[c] = "attached"
    /\ ConnectionEnds(c)
    /\ RegistryDetach(connSlug[c])
    /\ owed' = owed \ {c}
    /\ staleDrop' = [staleDrop EXCEPT ![connSlug[c]] = @ \/ c \notin owed]
    /\ UNCHANGED serverVars
-----------------------------------------------------------------------------
(* The tick tasks (tick_task.rs spawn): an iteration is a check, then work.*)

TickContinues(t) ==
    /\ taskPc' = [taskPc EXCEPT ![t] = "working"]
    /\ UNCHANGED <<taskSlug, killed, last>>

TickReturns(t) ==
    /\ taskPc' = [taskPc EXCEPT ![t] = "free"]
    /\ taskSlug' = [taskSlug EXCEPT ![t] = NoSlug]
    /\ killed' = [killed EXCEPT ![t] = FALSE]
    /\ last' = [last EXCEPT ![t] = Empty]

(* Variant: the loop never looks at its signal.                            *)
TickIgnoresKill(t) ==
    /\ taskPc[t] = "top"
    /\ TickContinues(t)
    /\ UNCHANGED <<serverVars, connVars, registryVars, payload, late, observers>>

(* The signal is looked at once per iteration, at its top.                 *)
TickCheck(t) ==
    /\ taskPc[t] = "top"
    /\ IF killed[t] THEN TickReturns(t) ELSE TickContinues(t)
    /\ UNCHANGED <<serverVars, connVars, registryVars, payload, late, observers>>

(* The payload of an iteration without a reading; `last` differs from      *)
(* Empty exactly when the task has ever read the game (ever_attached).     *)
Idle(t) == IF last[t] = Empty THEN Empty ELSE Detached

Send(t, p) ==
    /\ payload' = [payload EXCEPT ![taskSlug[t]] = p]
    /\ late' = [late EXCEPT ![t] = IF killed[t] /\ @ < 2 THEN @ + 1 ELSE @]

IterationEnds(t) ==
    /\ taskPc[t] = "working"
    /\ taskPc' = [taskPc EXCEPT ![t] = "top"]
    /\ UNCHANGED <<serverVars, connVars, registryVars, taskSlug, killed, observers>>

(* A process is attached and was read (p a label) or not (p idle): sent    *)
(* unless equal to what this task itself sent last.                        *)
TickRead(t, p) ==
    /\ IterationEnds(t)
    /\ p \in Labels \cup {Idle(t)}
    /\ last' = [last EXCEPT ![t] = p]
    /\ IF p = last[t] THEN UNCHANGED <<payload, late>> ELSE Send(t, p)

(* No process could be attached: the idle payload is compared with the     *)
(* shared channel, not with `last`.  The iteration that lost the process   *)
(* has already replaced a label.                                           *)
TickNoGame(t) ==
    /\ IterationEnds(t)
    /\ last[t] \notin Labels
    /\ IF payload[taskSlug[t]] = Idle(t) THEN UNCHANGED <<payload, late>>
                                         ELSE Send(t, Idle(t))
    /\ UNCHANGED last
-----------------------------------------------------------------------------
ServerNext ==
    \/ \E k \in Calls : \/ \E p \in Ports : StartCheck(k, p)
                        \/ StartBind(k)
                        \/ StartCommit(k)
    \/ StopTake
    \/ StopDrain
    \/ \E p \in Ports : AxumShutdown(p)

ConnectionNext ==
    \E c \in Conns : \/ \E s \in Slugs : Accept(c, s)
                     \/ UpgradeFails(c)
                     \/ Attach(c)
                     \/ Close(c)

TickNext ==
    \E t \in Ticks : \/ TickCheck(t)
                     \/ \E p \in Payloads : TickRead(t, p)
                     \/ TickNoGame(t)

Next == ServerNext \/ ConnectionNext \/ TickNext

Spec == Init /\ [][Next]_vars
-----------------------------------------------------------------------------
(* Properties                                                              *)

Attached(s) == {c \in owed : connSlug[c] = s}
Alive(t) == taskPc[t] # "free" /\ ~killed[t]

(* The count of a tracker never exceeds the open connections that attached *)
(* since the last drain, whatever mix of old and new guards is dropped: a  *)
(* stop, or guards that outlive it, can never leave a tick task running    *)
(* for nobody (consumers.rs attach, detach, shutdown_all).                 *)
CountIsOwed == \A s \in Slugs : count[s] <= Cardinality(Attached(s))

(* As long as no guard from before the last drain was dropped, the count   *)
(* is exactly the number of open connections, so a connection is served    *)
(* until it closes (consumers.rs attach, detach).                          *)
ExactUnlessStale ==
    \A s \in Slugs : ~staleDrop[s] => count[s] = Cardinality(Attached(s))

(* A connection that attached after the last drain has a live tick task of *)
(* its tracker from the end of its upgrade until it closes, whatever else  *)
(* attaches, closes, starts or stops, unless a guard from before that      *)
(* drain was dropped for its tracker (consumers.rs attach, detach,         *)
(* shutdown_all).                                                          *)
ViewerIsServed ==
    \A c \in owed : ~staleDrop[connSlug[c]] =>
        \E t \in Ticks : Alive(t) /\ taskSlug[t] = connSlug[c]

(* Every tick task that has not been told to stop is the one its tracker's *)
(* entry can tell to stop, and that entry counts a consumer: no task is    *)
(* ever orphaned (consumers.rs attach, detach, shutdown_all).              *)
AliveTickIsOwned ==
    \A t \in Ticks : Alive(t) => /\ taskSlug[t] \in entries
                                 /\ tick[taskSlug[t]] = t
                                 /\ count[taskSlug[t]] > 0

(* A task that was told to stop publishes at most one payload more: the    *)
(* reset of its tracker can be overwritten, but only once per task         *)
(* (tick_task.rs spawn, the check at the top of the loop).                 *)
OneLatePublish == \A t \in Ticks : late[t] <= 1

(* A server that still accepts connections and was not told to shut down   *)
(* is the one `running` names or one whose start call is about to commit:  *)
(* overlapping start and stop calls never lose a server (mod.rs            *)
(* start_tracker_server, stop_tracker_server).                             *)
NoLostServer ==
    \A p \in listening \ told :
        \/ running = p
        \/ \E k \in Calls : callPc[k] = "commit" /\ callPort[k] = p

(* What consumers.rs:81-83 says of guards that outlive a stop, "guards     *)
(* that fire later (WS handlers finishing) just find their entry drained   *)
(* and noop": a connection that attached after the stop keeps its task.    *)
ConsumerHasTick == \A c \in owed : tick[connSlug[c]] # NoTick
=============================================================================
