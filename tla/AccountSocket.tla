--------------------------- MODULE AccountSocket ---------------------------
(***************************************************************************)
(* AccountLink and FyiSocket together.  AccountLink has who stops and      *)
(* starts sockets, with which token, and knows of a socket only what the   *)
(* slot holds; FyiSocket has the sockets themselves, those that are still  *)
(* ending with them, and the parts of the two calls on the slot            *)
(* (fyi_ws.rs).  They meet where a call takes the slot's lock: a Stop of   *)
(* the one is a StopClient of the other, and a Connect is a PlaceClient.   *)
(* In between, a worker has a handle in its hands or an event to emit,     *)
(* which this module keeps.                                                *)
(***************************************************************************)
EXTENDS AccountLink, FyiSocket

VARIABLES
  given,    \* the token each socket was started with
  holds,    \* the socket whose handle a worker has taken, or not yet placed
  owes      \* a worker's `stop` has an event to emit

bothVars == << vars, clientVars, given, holds, owes >>

BothInit ==
  /\ Init /\ ClientInit
  /\ socket.up <=> slot # NoHandle
  /\ given = [s \in Sockets |->
                IF s = slot THEN socket.token ELSE NoToken]
  /\ holds = [w \in Workers |-> NoHandle]
  /\ owes = [w \in Workers |-> FALSE]

\* `stop`: under the lock, and after it
StopSocket(w) ==
  /\ Stop(w) /\ StopClient
  /\ holds' = [holds EXCEPT ![w] = slot]
  /\ owes' = [owes EXCEPT ![w] = slot = NoHandle]
  /\ UNCHANGED given

TellSocket(w) ==
  /\ job[w].step = "token" /\ holds[w] # NoHandle
  /\ StopTaken(holds[w])
  /\ holds' = [holds EXCEPT ![w] = NoHandle]
  /\ owes' = [owes EXCEPT ![w] = TRUE]
  /\ UNCHANGED << vars, given >>

EmitSocket(w) ==
  /\ owes[w] /\ EmitStopped
  /\ owes' = [owes EXCEPT ![w] = FALSE]
  /\ UNCHANGED << vars, given, holds >>

\* start_if_configured: a token and a manager, or an end without a socket, ...
LookFor(w) ==
  /\ holds[w] = NoHandle /\ ~owes[w]
  /\ ReadToken(w) \/ ReadHandle(w) \/ ConnectFails(w)
  /\ IF job'[w] = NoJob THEN StartsNothing ELSE UNCHANGED clientVars
  /\ UNCHANGED << given, holds, owes >>

\* ... the client, before the lock is taken and under it
SpawnSocket(w, s) ==
  /\ job[w].step = "connect" /\ holds[w] = NoHandle
  /\ SpawnClient(s)
  /\ holds' = [holds EXCEPT ![w] = s]
  /\ given' = [given EXCEPT ![s] = job[w].token]
  /\ UNCHANGED << vars, owes >>

StartSocket(w) ==
  /\ Connect(w) /\ PlaceClient(holds[w])
  /\ holds' = [holds EXCEPT ![w] = NoHandle]
  /\ UNCHANGED << given, owes >>

Refresh(w) ==
  \/ StopSocket(w) \/ TellSocket(w) \/ EmitSocket(w) \/ LookFor(w)
  \/ StartSocket(w) \/ \E s \in Sockets : SpawnSocket(w, s)

\* AccountLink goes on, and leaves the slot alone.
AppStep ==
  /\ \/ \E a \in Attempts : Attempt(a)
     \/ Window
     \/ \E w \in Workers : Load(w) \/ Swap(w)
  /\ UNCHANGED << clientVars, given, holds, owes >>

\* So do the sockets.
ClientStep ==
  /\ \E s \in Sockets : SocketStep(s)
  /\ UNCHANGED << vars, given, holds, owes >>

BothNext == AppStep \/ ClientStep \/ \E w \in Workers : Refresh(w)

BothSpec == BothInit /\ [][BothNext]_bothVars

-----------------------------------------------------------------------------
\* The composition is one of AccountLink and one of FyiSocket, so that what is
\* true of either is true in it.
ImplementsAccount == Init /\ [][Next]_vars
ImplementsSocket  == ClientInit /\ [][ClientNext]_clientVars

\* What AccountLink takes for the socket is the one in the slot; every other
\* that runs has been told to stop, or some worker has its handle and is about
\* to tell it or to place it (fyi_ws.rs, stop and start_if_configured).
SlotsAgree ==
  /\ socket.up <=> slot # NoHandle
  /\ \A s \in Sockets :
       /\ s = slot => given[s] = socket.token
       /\ Running(s) /\ ~told[s] /\ s # slot =>
            \E w \in Workers : holds[w] = s /\ job[w].step \in {"token", "connect"}

\* Credentials that were replaced are not listened with: after an undisturbed
\* link, or a save that changed them, every socket that was not told to stop,
\* whatever was started before it, uses those of the configuration (link.rs,
\* SettingsModal.tsx handleSave).
OldListenersAreTold ==
  [][\A w \in Attempts \cup {"settings"} :
       job[w].alone /\ job'[w] = NoJob /\ ~ConnectFails(w) =>
         \A s \in Sockets :
           (Running(s) /\ ~told[s])' => given'[s] = config'.token]_bothVars
=============================================================================
