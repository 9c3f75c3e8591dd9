----------------------------- MODULE FyiSocket -----------------------------
(***************************************************************************)
(* The push socket to spelunky.fyi: the connection itself and its message  *)
(* loop (web_socket.rs), the retries between connections (backoff.rs), how *)
(* it is told to stop, and how its status reaches the pill (fyi_ws.rs).    *)
(* Who starts and stops sockets, with which token, is in AccountLink.      *)
(*                                                                         *)
(* Time is not counted.  A timer may run out whenever it is set, with one  *)
(* restriction (see TimerEnds): a loop that waits for nothing but its      *)
(* select! takes a message long before a timer of ten seconds runs out,    *)
(* and so does a site that is there answer a ping.  What is sent is short  *)
(* and never waits for room.                                               *)
(***************************************************************************)
EXTENDS Sequences, Naturals, FiniteSets

CONSTANTS
  MaxStarts, \* bound on how many sockets are started
  MaxCalls,  \* bound on how many calls of `refresh` are under way at once
  MaxInbox,  \* bound on what the site has sent and the loop has not read
  Pushed     \* bound on which sockets the site has something to push to

ASSUME BoundsAssumption == {MaxStarts, MaxCalls, MaxInbox} \subseteq Nat \ {0}

Sockets  == 1..MaxStarts
NoHandle == 0

\* what a site sends: `hello` stands for all that is handled at once, be it
\* answered, as a greeting is, or only logged
Pushes == {"hello", "install", "close"}
Kinds  == Pushes \cup {"pong"}

VARIABLES
  slot,     \* FyiWsSlot: the socket whose handle it holds
  taken,    \* the sockets whose handle `stop` has taken and not used yet
  owed,     \* how many calls of `stop` have yet to emit
  stopped,  \* how many calls of `refresh` have come to start_if_configured
  spawned,  \* the sockets that run and are not in the slot yet
  pill,     \* the last fyi-ws-status event
  pc,       \* where the client task of each socket is
  told,     \* its shutdown was requested
  link,     \* its connection, as the world has it
  inbox,    \* what has arrived on it
  pinged,   \* a ping is on its way to the site
  check,    \* check_state
  rang,     \* check_sleep has run out
  status,   \* its watch channel
  unseen,   \* whose value its watcher has not seen
  refused,  \* the site refused its credentials (observer)
  busy,     \* an install was waited for since the last ping (observer)
  clean     \* a socket that was spawned when no earlier watcher was left and
            \* no other call under way, and none came since (observer)

commandVars == << slot, taken, owed, stopped, spawned, clean >>
connection  == << link, inbox, pinged, check, rang, busy >>
clientVars == << commandVars, pill, pc, told, connection, status, unseen, refused >>

Running(s) == pc[s] \notin {"none", "done"}
Watched(s) == Running(s) \/ unseen[s]

\* start_if_configured of the setup has left a socket in the slot, or none.
ClientInit ==
  /\ slot \in {NoHandle, 1} /\ clean = slot
  /\ taken = {} /\ owed = 0 /\ stopped = 0 /\ spawned = {}
  /\ pill = "disconnected"
  /\ pc = [s \in Sockets |-> IF s = slot THEN "wait" ELSE "none"]
  /\ told = [s \in Sockets |-> FALSE]
  /\ link = [s \in Sockets |-> "none"]
  /\ inbox = [s \in Sockets |-> << >>]
  /\ pinged = [s \in Sockets |-> FALSE]
  /\ check = [s \in Sockets |-> "ping"]
  /\ rang = [s \in Sockets |-> FALSE]
  /\ status = [s \in Sockets |-> "connecting"]
  /\ unseen = [s \in Sockets |-> s = slot]
  /\ refused = [s \in Sockets |-> FALSE]
  /\ busy = [s \in Sockets |-> FALSE]

SetStatus(s, new) ==
  /\ status' = [status EXCEPT ![s] = new]
  /\ unseen' = [unseen EXCEPT ![s] = TRUE]

\* The stream is dropped, and the state of the loop with it.
DroppedStream(s) ==
  /\ link' = [link EXCEPT ![s] = "none"]
  /\ inbox' = [inbox EXCEPT ![s] = << >>]
  /\ pinged' = [pinged EXCEPT ![s] = FALSE]
  /\ check' = [check EXCEPT ![s] = "ping"]
  /\ rang' = [rang EXCEPT ![s] = FALSE]
  /\ busy' = [busy EXCEPT ![s] = FALSE]

(***************************************************************************)
(* The slot (fyi_ws.rs)                                                    *)
(***************************************************************************)

\* The slot is under a lock, and nothing else that a call does.  An oneshot
\* that fires is a shutdown at once: the forwarder, which requests it of what
\* runs beside it, is not a step of its own, as every select! may overlook a
\* request that long.
ShutDown(s) == told' = [told EXCEPT ![s] = TRUE]

\* the calls of `refresh` that are under way
Calls == Cardinality(taken) + owed + stopped + Cardinality(spawned)

\* A refresh begins with `stop`: it takes the handle, if there is one ...
StopClient ==
  /\ Calls < MaxCalls
  /\ slot' = NoHandle /\ clean' = NoHandle
  /\ IF slot = NoHandle
     THEN owed' = owed + 1 /\ UNCHANGED taken
     ELSE taken' = taken \cup {slot} /\ UNCHANGED owed
  /\ UNCHANGED << stopped, spawned, pill, pc, told, connection, status, unseen,
                  refused >>

\* ... shuts down what it has taken ...
StopTaken(s) ==
  /\ s \in taken
  /\ taken' = taken \ {s} /\ owed' = owed + 1
  /\ ShutDown(s)
  /\ UNCHANGED << slot, stopped, spawned, clean, pill, pc, connection, status,
                  unseen, refused >>

\* ... and emits, whatever others have started meanwhile.
EmitStopped ==
  /\ owed > 0 /\ owed' = owed - 1 /\ stopped' = stopped + 1
  /\ pill' = "disconnected"
  /\ UNCHANGED << slot, taken, spawned, clean, pc, told, connection, status,
                  unseen, refused >>

\* start_if_configured finds no token or no manager.
StartsNothing ==
  /\ stopped > 0 /\ stopped' = stopped - 1
  /\ UNCHANGED << slot, taken, owed, spawned, clean, pill, pc, told, connection,
                  status, unseen, refused >>

\* It finds both: the client and its watcher run before ...
SpawnClient(s) ==
  /\ \A t \in Sockets : t < s <=> pc[t] # "none"
  /\ stopped > 0 /\ stopped' = stopped - 1
  /\ spawned' = spawned \cup {s}
  /\ pc' = [pc EXCEPT ![s] = "wait"]
  /\ SetStatus(s, "connecting")
  /\ clean' = IF Calls = 1 /\ \A t \in Sockets : ~Watched(t) THEN s ELSE NoHandle
  /\ UNCHANGED << slot, taken, owed, pill, told, connection, refused >>

\* ... the handle is in the slot.  One that is there already is shut down
\* under the lock.
PlaceClient(s) ==
  /\ s \in spawned /\ spawned' = spawned \ {s}
  /\ slot' = s
  /\ told' = [t \in Sockets |-> told[t] \/ t = slot]
  /\ UNCHANGED << taken, owed, stopped, clean, pill, pc, connection, status,
                  unseen, refused >>

\* Variant: shutdowns are waited for without a limit.
NeverAborts(s) == FALSE /\ UNCHANGED clientVars

\* The Toplevel gives up after SHUTDOWN_GRACE and drops its subsystems
\* wherever they are; the status channel closes as it stands.
Abort(s) ==
  /\ told[s] /\ Running(s)
  /\ pc' = [pc EXCEPT ![s] = "done"]
  /\ DroppedStream(s)
  /\ UNCHANGED << commandVars, pill, told, status, unseen, refused >>

\* Variant: a watcher that looks for the end of the channel first.
EmitWhileOpen(s) ==
  /\ unseen[s]
  /\ pill' = IF Running(s) THEN status[s] ELSE pill
  /\ unseen' = [unseen EXCEPT ![s] = FALSE]
  /\ UNCHANGED << commandVars, pc, told, connection, status, refused >>

\* The watcher emits; it has ended once the channel is closed and seen.
Emit(s) ==
  /\ unseen[s]
  /\ pill' = status[s]
  /\ unseen' = [unseen EXCEPT ![s] = FALSE]
  /\ UNCHANGED << commandVars, pc, told, connection, status, refused >>


(***************************************************************************)
(* The connections of a socket (web_socket.rs, try_connecting)             *)
(***************************************************************************)
CommandsIdle == UNCHANGED << commandVars, pill, told >>

\* connect_and_run is over, with or without an error worth a retry.
Disconnects(s) ==
  /\ pc' = [pc EXCEPT ![s] = "wait"]
  /\ SetStatus(s, "disconnected")
  /\ DroppedStream(s)
  /\ UNCHANGED refused

\* run returns, or the select! of try_connecting sees the shutdown
Returns(s) ==
  /\ pc' = [pc EXCEPT ![s] = "done"]
  /\ SetStatus(s, "disconnected")
  /\ DroppedStream(s)

Leave(s) ==
  /\ pc[s] = "wait" /\ told[s]
  /\ Returns(s)
  /\ CommandsIdle /\ UNCHANGED refused

\* The wait of the RetryPolicy is over; a shutdown may have to wait for the
\* attempt, as the select! takes either.
Retry(s) ==
  /\ pc[s] = "wait"
  /\ pc' = [pc EXCEPT ![s] = "connect"]
  /\ SetStatus(s, "connecting")
  /\ CommandsIdle /\ UNCHANGED << connection, refused >>

Upgrade(s) ==
  /\ pc[s] = "connect"
  /\ pc' = [pc EXCEPT ![s] = "loop"]
  /\ link' = [link EXCEPT ![s] = "up"]
  /\ SetStatus(s, "connected")
  /\ CommandsIdle
  /\ UNCHANGED << inbox, pinged, check, rang, busy, refused >>

\* The site cannot be reached, or is overloaded.
UpgradeFails(s) ==
  /\ pc[s] = "connect"
  /\ Disconnects(s)
  /\ CommandsIdle

\* 401, 403 or 404 instead of an upgrade, or an address that is none: the
\* RetryPolicy hands the error back.
Refuse(s) ==
  /\ pc[s] = "connect"
  /\ Returns(s)
  /\ refused' = [refused EXCEPT ![s] = TRUE]
  /\ CommandsIdle

(***************************************************************************)
(* The message loop (handle_messages)                                      *)
(***************************************************************************)
Broken(s) == link[s] = "reset"

Close(s) ==
  /\ pc[s] = "loop" /\ told[s]
  /\ Disconnects(s)
  /\ CommandsIdle

\* Variant: check_state stays at Ping.
SendPings(s) ==
  /\ pc[s] = "loop" /\ check[s] = "ping"
  /\ \/ Broken(s) /\ Disconnects(s)
     \/ /\ ~Broken(s)
        /\ pinged' = [pinged EXCEPT ![s] = TRUE]
        /\ UNCHANGED << pc, link, inbox, check, rang, busy, status, unseen,
                        refused >>
  /\ CommandsIdle

SendPing(s) ==
  /\ pc[s] = "loop" /\ check[s] = "ping"
  /\ \/ Broken(s) /\ Disconnects(s)
     \/ /\ ~Broken(s)
        /\ pinged' = [pinged EXCEPT ![s] = TRUE]
        /\ check' = [check EXCEPT ![s] = "pong"]
        /\ UNCHANGED << pc, link, inbox, rang, busy, status, unseen, refused >>
  /\ CommandsIdle

PongTimeout(s) ==
  /\ pc[s] = "loop" /\ rang[s] /\ check[s] = "pong"
  /\ Disconnects(s)
  /\ CommandsIdle

\* Variant: a pong that sets the timer again and nothing else.
PongedOnce(s) ==
  /\ rang' = [rang EXCEPT ![s] = FALSE]
  /\ UNCHANGED << check, busy >>

\* Any pong will do.
Ponged(s) ==
  /\ check' = [check EXCEPT ![s] = "ping"]
  /\ rang' = [rang EXCEPT ![s] = FALSE]
  /\ busy' = [busy EXCEPT ![s] = FALSE]

\* What the loop does with a message.  An answer may fail on a connection
\* that is broken, and the error ends the loop.
Handle(s, kind) ==
  \/ /\ kind = "close" \/ (kind = "hello" /\ Broken(s))
     /\ Disconnects(s)
  \/ /\ kind = "pong"
     /\ inbox' = [inbox EXCEPT ![s] = Tail(@)]
     /\ Ponged(s)
     /\ UNCHANGED << pc, link, pinged, status, unseen, refused >>
  \/ /\ kind = "install"
     /\ inbox' = [inbox EXCEPT ![s] = Tail(@)]
     /\ pc' = [pc EXCEPT ![s] = "install"]
     /\ busy' = [busy EXCEPT ![s] = check[s] = "pong"]
     /\ UNCHANGED << link, pinged, check, rang, status, unseen, refused >>
  \/ /\ kind = "hello"
     /\ inbox' = [inbox EXCEPT ![s] = Tail(@)]
     /\ UNCHANGED << pc, link, pinged, check, rang, busy, status, unseen,
                     refused >>

Receive(s) ==
  /\ pc[s] = "loop" /\ inbox[s] # << >>
  /\ Handle(s, Head(inbox[s]))
  /\ CommandsIdle

\* Variant: a reset is taken for an error that no retry mends.
ReceiveLastError(s) ==
  /\ pc[s] = "loop" /\ inbox[s] = << >> /\ Broken(s)
  /\ Returns(s)
  /\ CommandsIdle /\ UNCHANGED refused

ReceiveError(s) ==
  /\ pc[s] = "loop" /\ inbox[s] = << >> /\ Broken(s)
  /\ Disconnects(s)
  /\ CommandsIdle

\* handle_install: the manager has answered; only a success is reported, and
\* reporting it on a broken connection ends the loop.
InstallEnds(s, ok) ==
  /\ pc[s] = "install"
  /\ IF ok /\ Broken(s)
     THEN Disconnects(s)
     ELSE /\ pc' = [pc EXCEPT ![s] = "loop"]
          /\ UNCHANGED << connection, status, unseen, refused >>
  /\ CommandsIdle

(***************************************************************************)
(* The clock and the site                                                  *)
(***************************************************************************)

\* A pong is not missed by a loop that is free to take it, nor late from a
\* site that is there.
InTime(s) ==
  /\ pc[s] = "loop" => inbox[s] = << >>
  /\ link[s] = "up" => ~pinged[s]

TimerEnds(s) ==
  /\ pc[s] \in {"loop", "install"} /\ check[s] = "pong" /\ ~rang[s]
  /\ InTime(s)
  /\ rang' = [rang EXCEPT ![s] = TRUE]
  /\ UNCHANGED << commandVars, pill, pc, told, link, inbox, pinged, check,
                  busy, status, unseen, refused >>

Arrives(s, kind) ==
  /\ link[s] = "up" /\ Len(inbox[s]) < MaxInbox
  /\ inbox' = [inbox EXCEPT ![s] = Append(@, kind)]
  /\ UNCHANGED << commandVars, pill, pc, told, check, rang, busy, status,
                  unseen, refused >>

SiteAnswers(s) ==
  /\ pinged[s] /\ pinged' = [pinged EXCEPT ![s] = FALSE]
  /\ Arrives(s, "pong") /\ UNCHANGED link

SitePushes(s, kind) ==
  /\ s \in Pushed
  /\ Arrives(s, kind)
  /\ link' = [link EXCEPT ![s] = IF kind = "close" THEN "silent" ELSE @]
  /\ UNCHANGED pinged

\* The site, or the way to it, is gone without a word, or with an error; a
\* site that has sent a Close has said its last word too.
LinkBreaks(s, how) ==
  /\ link[s] \in {"up", "silent"} /\ link[s] # how
  /\ link' = [link EXCEPT ![s] = how]
  /\ UNCHANGED << commandVars, pill, pc, told, inbox, pinged, check, rang,
                  busy, status, unseen, refused >>

-----------------------------------------------------------------------------
LoopStep(s) ==
  Close(s) \/ SendPing(s) \/ PongTimeout(s) \/ Receive(s) \/ ReceiveError(s)

ConnectStep(s) == Upgrade(s) \/ UpgradeFails(s) \/ Refuse(s)

SiteStep(s) ==
  \/ SiteAnswers(s)
  \/ \E kind \in Pushes : SitePushes(s, kind)
  \/ \E how \in {"silent", "reset"} : LinkBreaks(s, how)

\* what happens to a socket without a call on the slot
SocketStep(s) ==
  \/ Abort(s) \/ Emit(s)
  \/ Leave(s) \/ Retry(s) \/ ConnectStep(s)
  \/ LoopStep(s) \/ TimerEnds(s)
  \/ \E ok \in BOOLEAN : InstallEnds(s, ok)
  \/ SiteStep(s)

\* the calls on the slot
CallStep ==
  \/ StopClient \/ EmitStopped \/ StartsNothing
  \/ \E s \in Sockets : StopTaken(s) \/ SpawnClient(s) \/ PlaceClient(s)

ClientNext == CallStep \/ \E s \in Sockets : SocketStep(s)

\* Threads go on, the runtime polls what is ready and its timers run out.
\* Neither the site, nor the manager, nor an attempt to connect, which has no
\* time limit, owes an end.
ClientFairness ==
  \A s \in Sockets :
    /\ WF_clientVars(StopTaken(s)) /\ WF_clientVars(PlaceClient(s))
    /\ WF_clientVars(Abort(s)) /\ WF_clientVars(Emit(s))
    /\ WF_clientVars(Leave(s) \/ Retry(s))
    /\ WF_clientVars(LoopStep(s)) /\ WF_clientVars(TimerEnds(s))

ClientSpec == ClientInit /\ [][ClientNext]_clientVars /\ ClientFairness

-----------------------------------------------------------------------------
(* Types; every connection starts with an empty stream and a fresh check   *)
(* (handle_messages), and a handle is in one place and its socket was not  *)
(* told.                                                                   *)
ClientTypeOK ==
  /\ slot \in Sockets \cup {NoHandle} /\ clean \in Sockets \cup {NoHandle}
  /\ taken \subseteq Sockets /\ spawned \subseteq Sockets
  /\ owed \in Nat /\ stopped \in Nat
  /\ taken \cap spawned = {} /\ slot \notin taken \cup spawned
  /\ pill \in {"disconnected", "connecting", "connected"}
  /\ pc \in [Sockets -> {"none", "wait", "connect", "loop", "install", "done"}]
  /\ link \in [Sockets -> {"none", "up", "silent", "reset"}]
  /\ inbox \in [Sockets -> Seq(Kinds)]
  /\ status \in [Sockets -> {"disconnected", "connecting", "connected"}]
  /\ check \in [Sockets -> {"ping", "pong"}]
  /\ \A f \in {told, pinged, rang, unseen, refused, busy} :
       f \in [Sockets -> BOOLEAN]
  /\ \A s \in Sockets :
       /\ s \in {slot} \cup taken \cup spawned => pc[s] # "none" /\ ~told[s]
       /\ Len(inbox[s]) <= MaxInbox
       /\ pc[s] \notin {"loop", "install"} =>
            link[s] = "none" /\ inbox[s] = << >> /\ check[s] = "ping"
       /\ rang[s] \/ busy[s] \/ pinged[s] => check[s] = "pong"

(* No socket outlives its handle: one that is neither in the slot nor      *)
(* about to be put there ends, whoever took or replaced its handle, and    *)
(* whatever the site, the manager and an attempt to connect that never     *)
(* returns do (fyi_ws.rs, stop, start_if_configured and SHUTDOWN_GRACE).   *)
StoppedSocketEnds ==
  \A s \in Sockets :
    (Running(s) /\ slot # s /\ s \notin spawned) ~> ~Running(s)

(* A site that is gone without a word is noticed by the pings, unless the  *)
(* loop is in an install that never ends (handle_messages).                *)
DeadSiteIsNoticed ==
  \A s \in Sockets :
    link[s] = "silent" ~> (link[s] # "silent" \/ [](pc[s] = "install"))

(* A connection is taken for dead only if the site is gone, or an install  *)
(* kept the loop from reading the answer to a ping (handle_messages).      *)
LiveSiteIsKept ==
  [][\A s \in Sockets : PongTimeout(s) => link[s] # "up" \/ busy[s]]_clientVars

(* Between those, a socket gives up only when it has been told to or the   *)
(* site has refused it: whatever else ends a connection is tried again     *)
(* (as_backoff_kind, wait_to_retry).                                       *)
OnlyRefusalEnds ==
  [][\A s \in Sockets :
       pc[s] # "done" /\ pc'[s] = "done" => refused'[s] \/ told[s]]_clientVars

(* Once its watcher has caught up, the pill shows where the socket in the  *)
(* slot stands, if no watcher of an earlier one was left and no other call *)
(* under way from when it was spawned: a `stop` emits after it has let go  *)
(* of the slot, and may do so after another call's socket has connected    *)
(* (spawn_subsystem, stop).                                                *)
StatusIsShown ==
  \A s \in Sockets :
    slot = s /\ clean = s /\ ~unseen[s] => pill = status[s]
=============================================================================
