---------------------------- MODULE AccountLink ----------------------------
(***************************************************************************)
(* Connecting a spelunky.fyi account (link.rs), and what has to follow a   *)
(* change of credentials: the mod subsystem is rebuilt (mods.rs) and the   *)
(* push socket is connected again (fyi_ws.rs).  A link attempt is a        *)
(* command and the task it spawns to wait for the browser, on the workers  *)
(* of the runtime.  The Settings modal saves through sync commands, which  *)
(* run one at a time on the main thread, and rebuilds through an async     *)
(* one; SetupContext rebuilds; the status pill reconnects.                 *)
(*                                                                         *)
(* A configuration is written as one step here; ConfigStore has its parts. *)
(* The mod subsystem is the token it was built with, and `live` says that  *)
(* a ModManagerHandle is the current subsystem's and not an aborted one's. *)
(***************************************************************************)
EXTENDS Naturals, FiniteSets

CONSTANTS
  Attempts,     \* link attempts under way
  Tokens,       \* API tokens
  NoToken,
  NoAttempt,
  MaxBusy       \* how many workers are under way at once

ASSUME LinkAssumption ==
  /\ NoToken \notin Tokens
  /\ NoAttempt \notin Attempts
  /\ Attempts \cap {"settings", "setup", "pill"} = {}

\* what rebuilds the subsystem or connects the socket: the waiting tasks, a
\* save, SetupContext, and the pill
Workers == Attempts \cup {"settings", "setup", "pill"}

AnyToken == Tokens \cup {NoToken}

VARIABLES
  config,       \* the token, and is there an install folder
  session,      \* SESSION: the attempt whose sender is in the slot
  starter,      \* the command of each attempt
  waiter,       \* its task
  cancelled,    \* its sender was used or dropped while it waited
  manager,      \* the ModsSlot: is a subsystem running, and its token
  socket,       \* the FyiWsSlot: is one running, its token, and its handle
  job,          \* the rebuild and the refresh that each worker is in
  form,         \* the Settings modal: the token it opened with, and edited
  news          \* an attempt linked, and the modal has not been told yet

vars == << config, session, starter, waiter, cancelled, manager, socket,
           job, form, news >>

NoManager == [up |-> FALSE, token |-> NoToken]
NoSocket  == [up |-> FALSE, token |-> NoToken, live |-> FALSE]
\* setup_from_config: there is no subsystem without a folder
Subsystem(dir, token) ==
  IF dir THEN [up |-> TRUE, token |-> token] ELSE NoManager

\* the socket that follows it
Connection(dir, token) ==
  IF dir /\ token # NoToken
  THEN [up |-> TRUE, token |-> token, live |-> TRUE] ELSE NoSocket

NoForm == [open |-> FALSE, initial |-> NoToken, token |-> NoToken]

\* `refresh`: the socket follows the rebuild; `alone`: it does, and there was
\* no other worker and no write of the configuration since the job began
NoJob == [ step |-> "idle", token |-> NoToken, dir |-> FALSE, live |-> FALSE,
           refresh |-> FALSE, alone |-> FALSE ]

Idle(w) == job[w].step = "idle"

\* The bound of the model: fewer than MaxBusy attempts, saves (from the modal
\* on), rebuilds and reconnects are under way.
Busy(w) ==
  \/ ~Idle(w)
  \/ w = "settings" /\ form.open
  \/ w \in Attempts /\ (starter[w] # "idle" \/ waiter[w] # "idle")

Room == Cardinality({w \in Workers : Busy(w)}) < MaxBusy

\* The main thread is inside refresh_fyi_ws, and runs no other command.
MainFree == \A w \in {"settings", "pill"} :
              job[w].step \notin {"token", "handle", "connect"}

\* no other worker is at it
Quiet(w) == \A u \in Workers \ {w} : Idle(u)

\* the jobs after w began one, and after the configuration was written
Begun(w, step, refresh) ==
  [v \in Workers |->
     IF v = w
     THEN [NoJob EXCEPT
             !.step = step, !.refresh = refresh,
             !.alone = refresh /\ Quiet(w)]
     ELSE [job[v] EXCEPT !.alone = FALSE]]

Disturbed == [v \in Workers |-> [job[v] EXCEPT !.alone = FALSE]]

(***************************************************************************)
(* A link attempt                                                          *)
(***************************************************************************)

\* the attempts when the sender of s is used
Told(s) ==
  [a \in Attempts |-> cancelled[a] \/ (a = s /\ waiter[a] = "waiting")]

\* were a sender that is dropped, and not used, no reason to stop waiting
OnlyTold(s) == cancelled

\* The branch of the select! takes a sender that is dropped as it takes one
\* that is used.
Dropped(s) == Told(s)

\* cancel_account_link: a button, or a page with one that goes away
Cancel ==
  /\ session # NoAttempt
  /\ MainFree
  /\ session' = NoAttempt
  /\ cancelled' = Told(session)
  /\ UNCHANGED << config, starter, waiter, manager, socket, job, form, news >>

\* start_account_link cancels, and goes on to bind a port
Start(a) ==
  /\ starter[a] = "idle" /\ waiter[a] = "idle" /\ Room
  /\ starter' = [starter EXCEPT ![a] = "binding"]
  /\ session' = NoAttempt
  /\ cancelled' = Told(session)
  /\ UNCHANGED << config, waiter, manager, socket, job, form, news >>

\* The port is bound, and the waiting task and the server are spawned.
Bind(a) ==
  /\ starter[a] = "binding"
  /\ starter' = [starter EXCEPT ![a] = "storing"]
  /\ waiter' = [waiter EXCEPT ![a] = "waiting"]
  /\ UNCHANGED << config, session, cancelled, manager, socket, job, form,
                  news >>

BindFails(a) ==
  /\ starter[a] = "binding"
  /\ starter' = [starter EXCEPT ![a] = "idle"]
  /\ UNCHANGED << config, session, waiter, cancelled, manager, socket, job,
                  form, news >>

\* Only now the session is stored.  One that is there already is dropped.
Store(a) ==
  /\ starter[a] = "storing"
  /\ starter' = [starter EXCEPT ![a] = "idle"]
  /\ session' = a
  /\ cancelled' = Dropped(session)
  /\ UNCHANGED << config, waiter, manager, socket, job, form, news >>

\* The browser comes back with a code and the right state.  The select! may
\* take it although the attempt was cancelled.
Callback(a) ==
  /\ waiter[a] = "waiting"
  /\ waiter' = [waiter EXCEPT ![a] = "exchanging"]
  /\ cancelled' = [cancelled EXCEPT ![a] = FALSE]
  /\ UNCHANGED << config, session, starter, manager, socket, job, form, news >>

GivesUp(a) ==
  /\ waiter' = [waiter EXCEPT ![a] = "given up"]
  /\ cancelled' = [cancelled EXCEPT ![a] = FALSE]
  /\ UNCHANGED << config, session, starter, manager, socket, job, form, news >>

\* the user declined, or somebody else called
Refused(a) == waiter[a] = "waiting" /\ GivesUp(a)
WasCancelled(a) == waiter[a] = "waiting" /\ cancelled[a] /\ GivesUp(a)

\* were there no timeout
NeverTimesOut(a) == FALSE

\* LINK_TIMEOUT
TimesOut(a) == waiter[a] = "waiting" /\ GivesUp(a)

\* The request has no timeout, and nobody looks at the cancel channel.
ExchangeFails(a) == waiter[a] = "exchanging" /\ GivesUp(a)

Exchange(a, token) ==
  /\ waiter[a] = "exchanging"
  /\ waiter' = [waiter EXCEPT ![a] = "saved"]
  /\ config' = [config EXCEPT !.token = token]
  /\ job' = Disturbed
  /\ UNCHANGED << session, starter, cancelled, manager, socket, form, news >>

\* The task takes the session, whoever's it is by now, and drops it.  After
\* a success it rebuilds and refreshes, else it announces the end at once.
TakeSession(a) ==
  /\ waiter[a] \in {"given up", "saved"}
  /\ session' = NoAttempt
  /\ cancelled' = Dropped(session)
  /\ IF waiter[a] = "saved"
     THEN /\ waiter' = [waiter EXCEPT ![a] = "working"]
          /\ job' = Begun(a, "load", TRUE)
     ELSE /\ waiter' = [waiter EXCEPT ![a] = "idle"]
          /\ UNCHANGED job
  /\ UNCHANGED << config, starter, manager, socket, form, news >>

\* the account-link event of a success
Announce(a) ==
  /\ waiter[a] = "linked"
  /\ waiter' = [waiter EXCEPT ![a] = "idle"]
  /\ news' = (news \/ form.open)
  /\ UNCHANGED << config, session, starter, cancelled, manager, socket, job,
                  form >>

(***************************************************************************)
(* The Settings modal, SetupContext, and the status pill                   *)
(***************************************************************************)
UnchangedLink == UNCHANGED << session, starter, waiter, cancelled, manager,
                              socket >>

OpenForm ==
  /\ ~form.open /\ Idle("settings") /\ MainFree /\ Room
  /\ form' = [open |-> TRUE, initial |-> config.token, token |-> config.token]
  /\ news' = FALSE
  /\ UNCHANGED << config, job >> /\ UnchangedLink

EditForm(token) ==
  /\ form.open
  /\ form' = [form EXCEPT !.token = token]
  /\ UNCHANGED << config, job, news >> /\ UnchangedLink

CloseForm ==
  /\ form.open
  /\ form' = NoForm
  /\ news' = FALSE
  /\ UNCHANGED << config, job >> /\ UnchangedLink

\* were the event no reason to read the configuration again
IgnoreLinked ==
  /\ news /\ MainFree
  /\ news' = FALSE
  /\ UNCHANGED << config, job, form >> /\ UnchangedLink

\* The event reaches the modal, which reads the token again.
HandleLinked ==
  /\ news /\ MainFree
  /\ form' = [form EXCEPT !.initial = config.token, !.token = config.token]
  /\ news' = FALSE
  /\ UNCHANGED << config, job >> /\ UnchangedLink

\* handleSave writes all fields.  The folder may be another one, and there or
\* not (`moved`, `dir`), and the root another one (`auth`).  The modal closes,
\* in fact once the rebuild is over.
SaveForm(dir, moved, auth) ==
  /\ form.open /\ Idle("settings") /\ MainFree
  /\ dir # config.dir => moved
  /\ form.token # form.initial => auth
  /\ config' = [token |-> form.token, dir |-> dir]
  /\ form' = NoForm
  /\ news' = FALSE
  /\ job' = IF moved \/ auth THEN Begun("settings", "load", auth)
            ELSE Disturbed
  /\ UnchangedLink

\* SetupContext: a folder, and no subsystem
SetupRebuild ==
  /\ Idle("setup") /\ MainFree /\ Room
  /\ config.dir /\ ~manager.up
  /\ job' = Begun("setup", "load", FALSE)
  /\ UNCHANGED << config, form, news >> /\ UnchangedLink

Reconnect ==
  /\ Idle("pill") /\ MainFree /\ Room
  /\ job' = Begun("pill", "stop", FALSE)
  /\ UNCHANGED << config, form, news >> /\ UnchangedLink

(***************************************************************************)
(* rebuild (mods.rs) and refresh (fyi_ws.rs)                               *)
(***************************************************************************)
UnchangedUI == UNCHANGED << config, session, starter, cancelled, form, news >>

Finish(w) ==
  /\ job' = [job EXCEPT ![w] = NoJob]
  /\ waiter' = [a \in Attempts |-> IF a = w THEN "linked" ELSE waiter[a]]

\* The configuration is read, and a subsystem is built of it.
Load(w) ==
  /\ job[w].step = "load"
  /\ job' = [job EXCEPT ![w].step = "swap", ![w].token = config.token,
                        ![w].dir = config.dir]
  /\ UNCHANGED << waiter, manager, socket >> /\ UnchangedUI

\* were the socket left alone after a rebuild
NoRefresh(w) == FALSE

\* is the socket connected again after the rebuild
Refreshes(w) == job[w].refresh

\* The slot is swapped and the old subsystem aborted.  Without a folder there
\* is no new one.
Swap(w) ==
  LET aborted == [v \in Workers |-> [job[v] EXCEPT !.live = FALSE]] IN
  /\ job[w].step = "swap"
  /\ manager' = Subsystem(job[w].dir, job[w].token)
  /\ socket' = [socket EXCEPT !.live = FALSE]
  /\ IF Refreshes(w)
     THEN /\ job' = [aborted EXCEPT ![w].step = "stop",
                               ![w].token = NoToken, ![w].dir = FALSE]
          /\ UNCHANGED waiter
     ELSE /\ job' = [aborted EXCEPT ![w] = NoJob]
          /\ waiter' = [a \in Attempts |->
                          IF a = w THEN "linked" ELSE waiter[a]]
  /\ UnchangedUI

Stop(w) ==
  /\ job[w].step = "stop"
  /\ w \in Attempts \/ MainFree
  /\ socket' = NoSocket
  /\ job' = [job EXCEPT ![w].step = "token"]
  /\ UNCHANGED << waiter, manager >> /\ UnchangedUI

\* is there anything to connect with
Configured(token) == token # NoToken

\* start_if_configured
ReadToken(w) ==
  /\ job[w].step = "token"
  /\ IF Configured(config.token)
     THEN /\ job' = [job EXCEPT ![w].step = "handle",
                                ![w].token = config.token]
          /\ UNCHANGED waiter
     ELSE Finish(w)
  /\ UNCHANGED << manager, socket >> /\ UnchangedUI

ReadHandle(w) ==
  /\ job[w].step = "handle"
  /\ IF manager.up
     THEN /\ job' = [job EXCEPT ![w].step = "connect", ![w].live = TRUE]
          /\ UNCHANGED waiter
     ELSE Finish(w)
  /\ UNCHANGED << manager, socket >> /\ UnchangedUI

\* A socket that somebody else has put into the slot meanwhile is shut down.
Connect(w) ==
  /\ job[w].step = "connect"
  /\ socket' = [up |-> TRUE, token |-> job[w].token, live |-> job[w].live]
  /\ Finish(w)
  /\ UNCHANGED manager /\ UnchangedUI

\* The root or the token is not fit for a request, which is logged.
ConnectFails(w) ==
  /\ job[w].step = "connect"
  /\ Finish(w)
  /\ UNCHANGED << manager, socket >> /\ UnchangedUI

\* setup in lib.rs has built the subsystem and started the socket.
Init ==
  /\ config \in [token: AnyToken, dir: BOOLEAN]
  /\ manager = Subsystem(config.dir, config.token)
  /\ socket = Connection(config.dir, config.token)
  /\ session = NoAttempt
  /\ starter = [a \in Attempts |-> "idle"]
  /\ waiter = [a \in Attempts |-> "idle"]
  /\ cancelled = [a \in Attempts |-> FALSE]
  /\ job = [w \in Workers |-> NoJob]
  /\ form = NoForm
  /\ news = FALSE

Attempt(a) ==
  \/ Start(a) \/ Bind(a) \/ BindFails(a) \/ Store(a)
  \/ Callback(a) \/ Refused(a) \/ WasCancelled(a) \/ TimesOut(a)
  \/ ExchangeFails(a) \/ (\E token \in Tokens : Exchange(a, token))
  \/ TakeSession(a) \/ Announce(a)

Window ==
  \/ Cancel \/ OpenForm \/ CloseForm \/ HandleLinked
  \/ \E token \in AnyToken : EditForm(token)
  \/ \E dir, moved, auth \in BOOLEAN : SaveForm(dir, moved, auth)
  \/ SetupRebuild \/ Reconnect

Job(w) ==
  \/ Load(w) \/ Swap(w) \/ Stop(w) \/ ReadToken(w) \/ ReadHandle(w)
  \/ Connect(w) \/ ConnectFails(w)

Next ==
  \/ \E a \in Attempts : Attempt(a)
  \/ Window
  \/ \E w \in Workers : Job(w)

\* The runtime polls tasks that are ready, and its timers fire.  The browser,
\* the site and the user may be silent forever.
Task(a) == TimesOut(a) \/ TakeSession(a) \/ Job(a) \/ Announce(a)

Fairness == \A a \in Attempts : WF_vars(Task(a))

Spec == Init /\ [][Next]_vars /\ Fairness

(***************************************************************************)
(* Properties                                                              *)
(***************************************************************************)
Steps == {"idle", "load", "swap", "stop", "token", "handle", "connect"}

TypeOK ==
  /\ config \in [token: AnyToken, dir: BOOLEAN]
  /\ session \in Attempts \cup {NoAttempt}
  /\ starter \in [Attempts -> {"idle", "binding", "storing"}]
  /\ waiter \in [Attempts -> {"idle", "waiting", "exchanging", "given up",
                              "saved", "working", "linked"}]
  /\ cancelled \in [Attempts -> BOOLEAN]
  /\ manager \in [up: BOOLEAN, token: AnyToken]
  /\ socket \in [up: BOOLEAN, token: AnyToken, live: BOOLEAN]
  /\ job \in [Workers ->
                [ step: Steps, token: AnyToken, dir: BOOLEAN, live: BOOLEAN,
                  refresh: BOOLEAN, alone: BOOLEAN ]]
  /\ \A a \in Attempts : waiter[a] = "working" <=> job[a].step # "idle"
  /\ \A a \in Attempts : starter[a] = "binding" => waiter[a] = "idle"
  /\ \A w \in Workers :
       job[w].step \in {"handle", "connect"} => job[w].token # NoToken
  /\ socket.up => socket.token # NoToken
  /\ form \in [open: BOOLEAN, initial: AnyToken, token: AnyToken]
  /\ news \in BOOLEAN

\* Nothing waits for a browser that the next Connect or Cancel does not
\* reach: an attempt that waits, and was not told to stop, is the session,
\* or is about to be stored (SESSION: "Only one can be running ... rather
\* than leaving an orphaned listener holding a port and a stale verifier").
NoOrphanListener ==
  \A a \in Attempts :
    waiter[a] = "waiting" /\ ~cancelled[a] =>
      session = a \/ starter[a] = "storing"

\* an attempt has stored a token that the modal has not read
Unread == \/ news
          \/ \E a \in Attempts : waiter[a] \in {"saved", "working", "linked"}

\* Saving other settings keeps the token: whatever was linked while the
\* modal was open, once the modal was told (handleLinked: "saving any *other*
\* change afterwards would write that stale value straight over the one just
\* linked").
TokenIsKept ==
  [][form.open /\ ~form'.open /\ form.token = form.initial /\ ~Unread =>
       config'.token = config.token]_vars

\* the subsystem and the socket are those of the configuration
Wired ==
  /\ manager = Subsystem(config.dir, config.token)
  /\ socket = Connection(config.dir, config.token)

\* Credentials take effect without a restart: when a link, or a save that
\* changed them, is through with its rebuild and refresh, and no other worker
\* or write came in between, installs from the app and from the site use
\* them ("Both halves of what Settings does on a credentials change, and
\* both are needed"), whatever had been running before.
CredentialsTakeEffect ==
  [][\A w \in Attempts \cup {"settings"} :
       job[w].alone /\ job'[w] = NoJob /\ ~ConnectFails(w) => Wired']_vars

\* Every attempt is announced, cancelled or not, unless the site leaves the
\* exchange without an answer ("Emitted once, when a link attempt finishes
\* for any reason").
LinkAnnounces ==
  \A a \in Attempts :
    waiter[a] \notin {"idle", "exchanging"} ~> waiter[a] \in {"idle", "exchanging"}
=============================================================================
