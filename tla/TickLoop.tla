------------------------------ MODULE TickLoop ------------------------------
(***************************************************************************)
(* One tick task (tick_task.rs): it attaches to the game's process, reads  *)
(* it once per interval, publishes what changed, and decides with          *)
(* AttachHealth when to give the process up.  The environment starts,      *)
(* breaks and ends the game, and stops the task.                           *)
(*                                                                         *)
(* Time is counted in units.  Durations since an instant stand for the     *)
(* instant, so that they stay finite: `age` is now - unhealthy_since.      *)
(***************************************************************************)
EXTENDS Naturals

CONSTANTS
    TickInterval,   (* TICK_INTERVAL                                       *)
    FeedcodePoll,   (* FEEDCODE_POLL                                       *)
    AttachBackoff,  (* ATTACH_BACKOFF                                      *)
    Grace,          (* STALE_HANDLE_GRACE                                  *)
    ReadErrorLimit, (* READ_ERROR_LIMIT                                    *)
    MaxWork,        (* bound on the time one reading takes                 *)
    Labels,         (* what the tracker computes from a reading            *)
    Empty, Detached

ASSUME DurationAssumption ==
    /\ TickInterval \in Nat \ {0} /\ FeedcodePoll \in Nat /\ AttachBackoff \in Nat
    /\ TickInterval <= FeedcodePoll
    /\ Grace \in Nat \ {0} /\ ReadErrorLimit \in Nat \ {0} /\ MaxWork \in Nat

ASSUME PayloadAssumption ==
    Empty \notin Labels /\ Detached \notin Labels /\ Empty # Detached

VARIABLES
    game,         (* what the game's process is to an attach or a read     *)
    handle,       (* process: "none", the "live" game or a "corpse"        *)
    errors,       (* AttachHealth.consecutive_read_errors                  *)
    unhealthy,    (* AttachHealth.unhealthy_since is set                   *)
    age,          (* time since unhealthy_since                            *)
    scanning,     (* AttachHealth.scanning                                 *)
    everAttached, (* ever_attached                                         *)
    last,         (* last_payload                                          *)
    shown,        (* the tracker's payload watch channel                   *)
    problem,      (* attach_problem holds a message                        *)
    pc,           (* where the loop stands; "done" once it has returned    *)
    nap,          (* the sleep that ends the iteration                     *)
    killed,       (* the shutdown signal has been sent                     *)
    silent        (* observation only: time since the handle was attached  *)
                  (* or last read, up to SilenceBound                      *)

health == <<errors, unhealthy, age, scanning>>
display == <<everAttached, last, shown>>
vars == <<game, handle, health, display, problem, pc, nap, killed, silent>>

(* The longest a handle should be held without a reading.                  *)
SilenceBound == Grace + TickInterval + FeedcodePoll + MaxWork
SilentFor(d) ==
    silent' = IF silent + d < SilenceBound THEN silent + d ELSE SilenceBound

GameStates == {"absent", "denied", "missing", "failing", "readable"}
Payloads == Labels \cup {Empty, Detached}

HealthTypeOK ==
    /\ errors \in 0..ReadErrorLimit
    /\ unhealthy \in BOOLEAN
    /\ age \in Nat
    /\ scanning \in BOOLEAN
    /\ nap \in Nat
    /\ silent \in 0..SilenceBound

LoopTypeOK ==
    /\ game \in GameStates
    /\ handle \in {"none", "live", "corpse"}
    /\ everAttached \in BOOLEAN
    /\ last \in Payloads /\ shown \in Payloads
    /\ problem \in BOOLEAN
    /\ pc \in {"top", "attach", "tick", "asleep", "done"}
    /\ killed \in BOOLEAN

TypeOK == HealthTypeOK /\ LoopTypeOK

Init ==
    /\ game \in GameStates
    /\ handle = "none"
    /\ errors = 0 /\ unhealthy = FALSE /\ age = 0 /\ scanning = FALSE
    /\ everAttached = FALSE /\ last = Empty /\ shown = Empty
    /\ problem = FALSE
    /\ pc = "top" /\ nap = 0 /\ killed = FALSE
    /\ silent = 0
-----------------------------------------------------------------------------
(* AttachHealth.  `w` is the time the reading took.                        *)

(* Variant: a good reading does not forget the deadline.                   *)
OnSuccessKeepsDeadline ==
    /\ errors' = 0 /\ scanning' = FALSE
    /\ UNCHANGED <<unhealthy, age>>

OnSuccess ==
    /\ errors' = 0 /\ unhealthy' = FALSE /\ age' = 0 /\ scanning' = FALSE

(* past_deadline: the first failure after a healthy stretch starts the     *)
(* clock, and nothing but a success stops it.                              *)
StartClock(w) ==
    /\ unhealthy' = TRUE
    /\ age' = IF unhealthy THEN age + w ELSE 0

PastDeadline(w) == unhealthy /\ age + w >= Grace

(* Variant: each kind of failure forgets the other's bookkeeping.          *)
OnFeedcodeMissingForgetsDeadline(w) ==
    /\ errors' = 0 /\ scanning' = TRUE
    /\ unhealthy' = FALSE /\ age' = 0

OnFeedcodeMissing(w) ==
    /\ errors' = 0 /\ scanning' = TRUE
    /\ StartClock(w)

(* The last strike does not look at the clock any more.                    *)
OnReadError(w) ==
    /\ errors' = errors + 1 /\ scanning' = FALSE
    /\ IF errors' >= ReadErrorLimit THEN UNCHANGED <<unhealthy, age>>
                                    ELSE StartClock(w)

(* Whether a failed reading drops the handle.                              *)
DropsAfterMiss(w) == PastDeadline(w)
DropsAfterError(w) == errors + 1 >= ReadErrorLimit \/ PastDeadline(w)
-----------------------------------------------------------------------------
(* The loop                                                                *)

(* Variant: the game is forgotten as soon as it is lost.                   *)
IdleForgetsGame == Empty

(* What a pass without a reading shows.                                    *)
Idle == IF everAttached THEN Detached ELSE Empty

Sleep(d) == nap' = d /\ pc' = "asleep"

(* The shutdown signal is looked at here and nowhere else.                 *)
Top ==
    /\ pc = "top"
    /\ IF killed
       THEN pc' = "done" /\ handle' = "none"
       ELSE /\ pc' = IF handle = "none" THEN "attach" ELSE "tick"
            /\ UNCHANGED handle
    /\ UNCHANGED <<game, health, display, problem, nap, killed, silent>>

(* Variant: only a refused attach touches the problem the page shows.      *)
NoProcessKeepsProblem ==
    /\ game \in {"absent", "denied"}
    /\ problem' = (problem \/ game = "denied")
    /\ shown' = Idle
    /\ Sleep(AttachBackoff)
    /\ UNCHANGED <<handle, health, everAttached, last, silent>>

(* Variant: the wait for a game is a loop of its own, which looks at no    *)
(* signal.                                                                 *)
NoProcessRetries ==
    /\ game \in {"absent", "denied"}
    /\ problem' = (game = "denied")
    /\ shown' = Idle
    /\ UNCHANGED <<handle, health, everAttached, last, nap, pc, silent>>

(* There is no game, or it may not be read: the tracker parks at its idle  *)
(* payload.                                                                *)
NoProcess ==
    /\ game \in {"absent", "denied"}
    /\ problem' = (game = "denied")
    /\ shown' = Idle
    /\ Sleep(AttachBackoff)
    /\ UNCHANGED <<handle, health, everAttached, last, silent>>

(* The attach edge.                                                        *)
GotProcess ==
    /\ game \notin {"absent", "denied"}
    /\ handle' = "live"
    /\ OnSuccess
    /\ problem' = FALSE
    /\ silent' = 0
    /\ pc' = "tick"
    /\ UNCHANGED <<display, nap>>

Attach ==
    /\ pc = "attach"
    /\ NoProcess \/ GotProcess
    /\ UNCHANGED <<game, killed>>

(* A payload equal to the last one is not sent again.                      *)
Publish(p) ==
    /\ last' = p
    /\ shown' = IF p = last THEN shown ELSE p

(* Variant: a failed reading publishes nothing while the handle is held.   *)
FailedKeepsLabel(drops) ==
    /\ handle' = IF drops THEN "none" ELSE handle
    /\ IF drops THEN Publish(Idle) ELSE UNCHANGED <<last, shown>>
    /\ UNCHANGED everAttached

Failed(drops) ==
    /\ handle' = IF drops THEN "none" ELSE handle
    /\ Publish(Idle)
    /\ UNCHANGED everAttached

ReadOk ==
    /\ handle = "live" /\ game = "readable"
    /\ OnSuccess
    /\ everAttached' = TRUE
    /\ \E l \in Labels : Publish(l)
    /\ silent' = 0
    /\ UNCHANGED handle

(* No marker: the game is starting, or the process is dead.                *)
FeedcodeMissing(w) ==
    /\ handle = "corpse" \/ game = "missing"
    /\ OnFeedcodeMissing(w)
    /\ Failed(DropsAfterMiss(w))
    /\ SilentFor(w)

ReadError(w) ==
    /\ handle = "corpse" \/ game \in {"failing", "denied"}
    /\ OnReadError(w)
    /\ Failed(DropsAfterError(w))
    /\ SilentFor(w)

Tick ==
    /\ pc = "tick"
    /\ ReadOk \/ \E w \in 0..MaxWork : FeedcodeMissing(w) \/ ReadError(w)
    /\ Sleep(IF scanning' THEN FeedcodePoll ELSE TickInterval)
    /\ UNCHANGED <<game, problem, killed>>

(* The deadline is only read again while the handle is held.               *)
Wake ==
    /\ pc = "asleep"
    /\ pc' = "top" /\ nap' = 0
    /\ IF handle = "none" THEN UNCHANGED <<age, silent>>
       ELSE /\ age' = IF unhealthy THEN age + nap ELSE age
            /\ SilentFor(nap)
    /\ UNCHANGED <<game, handle, errors, unhealthy, scanning, display, problem,
                   killed>>
-----------------------------------------------------------------------------
(* The environment: the game, and the registry that stops the task         *)
(* (consumers.rs detach: the signal, then reset_payload).                  *)

GameChanges(g) ==
    /\ g # game /\ game' = g
    /\ handle' = IF g = "absent" /\ handle = "live" THEN "corpse" ELSE handle
    /\ UNCHANGED <<health, display, problem, pc, nap, killed, silent>>

Kill ==
    /\ ~killed /\ killed' = TRUE
    /\ shown' = Empty
    /\ UNCHANGED <<game, handle, health, everAttached, last, problem, pc, nap, silent>>

Step == Top \/ Attach \/ Tick \/ Wake

Next == Step \/ (\E g \in GameStates : GameChanges(g)) \/ Kill

(* The thread the task runs on is scheduled and its reads return.          *)
Spec == Init /\ [][Next]_vars /\ WF_vars(Step)
-----------------------------------------------------------------------------
(* Properties                                                              *)

(* A process that gives no reading is given up in bounded time, in         *)
(* whichever order its reads fail: the deadline cannot be pushed back      *)
(* (AttachHealth, "every failure mode has to release the handle            *)
(* eventually").                                                           *)
HandleIsReleased == handle # "none" => silent < SilenceBound

(* A process is only given up after ReadErrorLimit read errors in a row or *)
(* a whole grace period without a reading: a torn read costs no attach.    *)
DropIsJustified ==
    [][handle # "none" /\ handle' = "none" =>
         killed \/ errors' >= ReadErrorLimit \/ silent' >= Grace]_vars

(* A label is only displayed while the reading it comes from is at most    *)
(* one tick interval old, unless the tracker was stopped (spawn).          *)
LabelIsFresh ==
    shown \in Labels /\ ~killed => handle # "none" /\ silent <= TickInterval

(* A game that stays readable is displayed in the end, whatever happened   *)
(* to the process held before (spawn, the way back to re-attach).          *)
Recovers == []~killed /\ <>[](game = "readable") => <>[](shown \in Labels)

(* The attach problem goes away when the game does (set_attach_problem).   *)
ProblemClears == []~killed /\ <>[](game = "absent") => <>[]~problem

(* The loop implements what the payload's doc comments promise.            *)
Display == INSTANCE TrackerDisplay WITH
    display <- shown,
    phase <- IF ~killed THEN "on"
             ELSE IF pc \in {"attach", "tick"} THEN "stopping" ELSE "off"

ImplementsDisplay == Display!Spec
=============================================================================
