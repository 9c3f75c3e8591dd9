--------------------------- MODULE TickLoopProofs ---------------------------
(***************************************************************************)
(* Proofs about TickLoop, for any intervals, limits and labels.            *)
(***************************************************************************)
EXTENDS TickTask, TLAPS

USE DurationAssumption, PayloadAssumption

(***************************************************************************)
(* The inductive invariant.  ClockInv relates the code's own clock to the  *)
(* observed silence: the clock starts at most one interval and one reading *)
(* after the last success, and is compared with the grace period before    *)
(* every sleep.  DisplayInv says that what is shown is what the task last  *)
(* sent, and that a label was sent by the last reading.                    *)
(***************************************************************************)
HealthyInv ==
    /\ errors = 0 /\ ~scanning
    /\ silent <= TickInterval
    /\ pc = "asleep" => silent = 0 /\ nap = TickInterval

UnhealthyInv ==
    /\ silent <= age + TickInterval + MaxWork
    /\ age <= silent
    /\ IF pc = "asleep" THEN age < Grace /\ nap <= FeedcodePoll
                        ELSE age < Grace + FeedcodePoll

ClockInv ==
    handle # "none" =>
        /\ errors < ReadErrorLimit
        /\ IF unhealthy THEN UnhealthyInv ELSE HealthyInv

PlaceInv ==
    /\ pc = "tick" => handle # "none"
    /\ pc \in {"attach", "done"} => handle = "none"
    /\ pc = "done" => killed

DisplayInv ==
    /\ everAttached <=> last # Empty
    /\ ~killed => shown = last
    /\ last \in Labels /\ pc # "done" => handle # "none" /\ ~unhealthy

LoopInv == TypeOK /\ ClockInv /\ PlaceInv /\ DisplayInv

(* The bounded observations have room for a fresh start.                   *)
LEMMA Bounds == 0 \in 0..SilenceBound /\ 0 \in 0..ReadErrorLimit
BY DEF SilenceBound

LEMMA InitInv == Init => LoopInv
<1>. SUFFICES ASSUME Init PROVE LoopInv
  OBVIOUS
<1>1. TypeOK
  BY Bounds DEF Init, TypeOK, HealthTypeOK, LoopTypeOK, Payloads
<1>2. ClockInv /\ PlaceInv /\ DisplayInv
  BY DEF Init, ClockInv, PlaceInv, DisplayInv
<1>. QED BY <1>1, <1>2 DEF LoopInv

(***************************************************************************)
(* One lemma per action.                                                   *)
(***************************************************************************)
LEMMA TopInv == LoopInv /\ Top => LoopInv'
<1>. SUFFICES ASSUME LoopInv, Top PROVE LoopInv'
  OBVIOUS
<1>. USE DEF LoopInv, Top, health, display
<1>1. TypeOK'
  BY DEF TypeOK, HealthTypeOK, LoopTypeOK
<1>2. ClockInv'
  <2>1. pc = "top" /\ pc' # "asleep" /\ (handle' = handle \/ handle' = "none")
    OBVIOUS
  <2>. QED BY <2>1 DEF ClockInv, HealthyInv, UnhealthyInv
<1>3. PlaceInv' /\ DisplayInv'
  BY DEF PlaceInv, DisplayInv
<1>. QED BY <1>1, <1>2, <1>3

LEMMA IdleType == LoopInv => Idle \in Payloads /\ (last \notin Labels => Idle = last)
BY DEF LoopInv, TypeOK, LoopTypeOK, DisplayInv, Idle, Payloads

LEMMA AttachInv == LoopInv /\ Attach => LoopInv'
<1>. SUFFICES ASSUME LoopInv, Attach PROVE LoopInv'
  OBVIOUS
<1>. USE DEF LoopInv, TypeOK, HealthTypeOK, LoopTypeOK, Attach
<1>1. CASE NoProcess
  <2>1. last \notin Labels /\ Idle \in Payloads /\ Idle = last
    BY IdleType DEF PlaceInv, DisplayInv
  <2>2. /\ pc' = "asleep" /\ nap' = AttachBackoff /\ shown' = Idle
        /\ UNCHANGED <<handle, health, everAttached, last, silent, game, killed>>
        /\ problem' \in BOOLEAN
    BY <1>1 DEF NoProcess, Sleep
  <2>3. handle' = "none"
    BY <2>2 DEF PlaceInv
  <2>. QED BY <2>1, <2>2, <2>3 DEF health, ClockInv, PlaceInv, DisplayInv
<1>2. CASE GotProcess
  <2>1. /\ errors' = 0 /\ unhealthy' = FALSE /\ age' = 0 /\ scanning' = FALSE
        /\ silent' = 0 /\ handle' = "live" /\ problem' = FALSE /\ pc' = "tick"
        /\ UNCHANGED <<everAttached, last, shown, nap, game, killed>>
    BY <1>2 DEF GotProcess, OnSuccess, display
  <2>2. TypeOK'
    BY <2>1, Bounds
  <2>3. ClockInv'
    BY <2>1 DEF ClockInv, HealthyInv
  <2>4. PlaceInv' /\ DisplayInv'
    BY <2>1 DEF PlaceInv, DisplayInv
  <2>. QED BY <2>2, <2>3, <2>4
<1>. QED BY <1>1, <1>2

LEMMA ReadOkInv ==
    ASSUME LoopInv, Tick, ReadOk
    PROVE  LoopInv'
<1>. USE DEF LoopInv, TypeOK, HealthTypeOK, LoopTypeOK
<1>1. /\ errors' = 0 /\ unhealthy' = FALSE /\ age' = 0 /\ scanning' = FALSE
      /\ silent' = 0 /\ handle' = handle /\ handle = "live" /\ everAttached' = TRUE
      /\ nap' = TickInterval /\ pc' = "asleep"
      /\ UNCHANGED <<game, problem, killed>>
  BY DEF Tick, ReadOk, OnSuccess, Sleep
<1>2. PICK l \in Labels : Publish(l)
  BY DEF ReadOk
<1>3. last' = l /\ shown' \in Payloads /\ (~killed => shown' = l)
  BY <1>2 DEF Publish, Payloads, DisplayInv
<1>4. TypeOK'
  BY <1>1, <1>3, Bounds DEF Payloads
<1>5. ClockInv'
  BY <1>1 DEF ClockInv, HealthyInv
<1>6. PlaceInv' /\ DisplayInv'
  BY <1>1, <1>3 DEF PlaceInv, DisplayInv
<1>. QED BY <1>4, <1>5, <1>6

(* What both kinds of failed reading have in common.                       *)
LEMMA FailedInv ==
    ASSUME LoopInv, pc = "tick", NEW w \in 0..MaxWork, NEW drops \in BOOLEAN,
           unhealthy' \in BOOLEAN, age' \in Nat, ~drops => StartClock(w),
           Failed(drops), SilentFor(w), PastDeadline(w) => drops,
           ~drops => errors' < ReadErrorLimit,
           errors' \in 0..ReadErrorLimit, scanning' \in BOOLEAN,
           Sleep(IF scanning' THEN FeedcodePoll ELSE TickInterval),
           UNCHANGED <<game, problem, killed>>
    PROVE  LoopInv'
<1>. USE DEF LoopInv, TypeOK, HealthTypeOK, LoopTypeOK
<1>1. /\ silent \in Nat /\ silent' \in 0..SilenceBound
      /\ silent' <= silent + w /\ (silent + w <= SilenceBound => silent' = silent + w)
  BY DEF SilentFor, SilenceBound
<1>2. ~drops => unhealthy' = TRUE
  BY DEF StartClock
<1>3. nap' \in Nat /\ nap' <= FeedcodePoll /\ pc' = "asleep"
  BY DEF Sleep
<1>4. ClockInv'
  <2>. SUFFICES ASSUME handle' # "none"
                PROVE  /\ ~drops /\ errors' < ReadErrorLimit
                       /\ silent' <= age' + TickInterval + MaxWork
                       /\ age' <= silent' /\ age' < Grace
    BY <1>2, <1>3 DEF ClockInv, UnhealthyInv
  <2>1. ~drops /\ ~PastDeadline(w) /\ handle # "none"
    BY DEF Failed, PlaceInv
  <2>2. CASE unhealthy
    <3>1. age' = age + w /\ age + w < Grace
      BY <2>1, <2>2 DEF StartClock, PastDeadline
    <3>2. silent <= age + TickInterval + MaxWork /\ age <= silent
      BY <2>1, <2>2 DEF ClockInv, UnhealthyInv
    <3>. QED BY <1>1, <2>1, <3>1, <3>2 DEF SilenceBound
  <2>3. CASE ~unhealthy
    <3>1. age' = 0 /\ silent <= TickInterval
      BY <2>1, <2>3 DEF StartClock, ClockInv, HealthyInv
    <3>. QED BY <1>1, <2>1, <3>1 DEF SilenceBound
  <2>. QED BY <2>2, <2>3
<1>5. /\ Idle \in Payloads /\ Idle \notin Labels
      /\ last' = Idle /\ everAttached' = everAttached
      /\ shown' \in Payloads /\ (~killed => shown' = Idle)
      /\ everAttached <=> Idle # Empty
  BY IdleType DEF Failed, Publish, DisplayInv, Idle
<1>6. handle' \in {"none", "live", "corpse"}
  BY DEF Failed
<1>. QED BY <1>1, <1>2, <1>3, <1>4, <1>5, <1>6 DEF PlaceInv, DisplayInv

LEMMA FeedcodeMissingInv ==
    ASSUME LoopInv, Tick, NEW w \in 0..MaxWork, FeedcodeMissing(w)
    PROVE  LoopInv'
<1>1. /\ errors' = 0 /\ scanning' = TRUE /\ StartClock(w)
      /\ unhealthy' \in BOOLEAN /\ age' \in Nat
  BY DEF FeedcodeMissing, OnFeedcodeMissing, StartClock, LoopInv, TypeOK, HealthTypeOK
<1>2. /\ pc = "tick" /\ UNCHANGED <<game, problem, killed>>
      /\ Sleep(IF scanning' THEN FeedcodePoll ELSE TickInterval)
  BY DEF Tick
<1>3. Failed(PastDeadline(w)) /\ SilentFor(w) /\ PastDeadline(w) \in BOOLEAN
  BY DEF FeedcodeMissing, DropsAfterMiss, PastDeadline
<1>. QED BY <1>1, <1>2, <1>3, FailedInv

LEMMA ReadErrorInv ==
    ASSUME LoopInv, Tick, NEW w \in 0..MaxWork, ReadError(w)
    PROVE  LoopInv'
<1>. DEFINE drops == DropsAfterError(w)
<1>1. errors \in 0..ReadErrorLimit /\ errors < ReadErrorLimit
  BY DEF LoopInv, TypeOK, HealthTypeOK, ClockInv, PlaceInv, Tick
<1>2. errors' = errors + 1 /\ scanning' = FALSE
  BY DEF ReadError, OnReadError
<1>3. drops \in BOOLEAN /\ (PastDeadline(w) => drops)
      /\ (~drops => errors' < ReadErrorLimit)
  BY <1>1, <1>2 DEF DropsAfterError, PastDeadline
<1>4. /\ unhealthy' \in BOOLEAN /\ age' \in Nat
      /\ ~drops => StartClock(w)
  <2>1. unhealthy \in BOOLEAN /\ age \in Nat
    BY DEF LoopInv, TypeOK, HealthTypeOK
  <2>2. \/ errors' >= ReadErrorLimit /\ UNCHANGED <<unhealthy, age>>
        \/ StartClock(w)
    BY <1>1, <1>2 DEF ReadError, OnReadError
  <2>3. errors' >= ReadErrorLimit => drops
    BY <1>1, <1>2 DEF DropsAfterError
  <2>4. StartClock(w) => unhealthy' \in BOOLEAN /\ age' \in Nat
    BY <2>1 DEF StartClock
  <2>. QED BY <2>1, <2>2, <2>3, <2>4
<1>5. /\ pc = "tick" /\ UNCHANGED <<game, problem, killed>>
      /\ Sleep(IF scanning' THEN FeedcodePoll ELSE TickInterval)
  BY DEF Tick
<1>6. Failed(drops) /\ SilentFor(w)
  BY DEF ReadError
<1>7. errors' \in 0..ReadErrorLimit
  BY <1>1, <1>2
<1>8. scanning' \in BOOLEAN
  BY <1>2
<1>. HIDE DEF drops
<1>. QED BY <1>3, <1>4, <1>5, <1>6, <1>7, <1>8, FailedInv

LEMMA TickInv == LoopInv /\ Tick => LoopInv'
BY ReadOkInv, FeedcodeMissingInv, ReadErrorInv DEF Tick

LEMMA WakeInv == LoopInv /\ Wake => LoopInv'
<1>. SUFFICES ASSUME LoopInv, Wake PROVE LoopInv'
  OBVIOUS
<1>. USE DEF LoopInv, TypeOK, HealthTypeOK, LoopTypeOK, Wake
<1>1. PlaceInv' /\ DisplayInv'
  BY DEF PlaceInv, DisplayInv, display
<1>2. CASE handle = "none"
  BY <1>1, <1>2 DEF ClockInv, display
<1>3. CASE handle # "none"
  <2>1. /\ silent' \in 0..SilenceBound /\ silent' <= silent + nap
        /\ silent + nap <= SilenceBound => silent' = silent + nap
    BY <1>3 DEF SilentFor, SilenceBound
  <2>2. /\ age' \in Nat /\ age' = IF unhealthy THEN age + nap ELSE age
        /\ UNCHANGED <<handle, errors, unhealthy, scanning>> /\ pc' = "top"
    BY <1>3
  <2>3. ClockInv'
    <3>1. CASE unhealthy
      BY <1>3, <2>1, <2>2, <3>1 DEF ClockInv, UnhealthyInv, SilenceBound
    <3>2. CASE ~unhealthy
      BY <1>3, <2>1, <2>2, <3>2 DEF ClockInv, HealthyInv, SilenceBound
    <3>. QED BY <3>1, <3>2
  <2>. QED BY <1>1, <2>1, <2>2, <2>3 DEF display
<1>. QED BY <1>2, <1>3

LEMMA GameInv == ASSUME LoopInv, NEW g \in GameStates, GameChanges(g) PROVE LoopInv'
<1>. USE DEF LoopInv, GameChanges, health, display
<1>1. TypeOK'
  BY DEF TypeOK, HealthTypeOK, LoopTypeOK
<1>2. handle' # "none" <=> handle # "none"
  OBVIOUS
<1>3. ClockInv'
  BY <1>2 DEF ClockInv, HealthyInv, UnhealthyInv
<1>4. PlaceInv' /\ DisplayInv'
  BY <1>2 DEF PlaceInv, DisplayInv
<1>. QED BY <1>1, <1>3, <1>4

LEMMA KillInv == LoopInv /\ Kill => LoopInv'
<1>. SUFFICES ASSUME LoopInv, Kill PROVE LoopInv'
  OBVIOUS
<1>. USE DEF LoopInv, Kill, health
<1>1. TypeOK'
  BY DEF TypeOK, HealthTypeOK, LoopTypeOK, Payloads
<1>2. ClockInv'
  BY DEF ClockInv, HealthyInv, UnhealthyInv
<1>3. PlaceInv' /\ DisplayInv'
  BY DEF PlaceInv, DisplayInv
<1>. QED BY <1>1, <1>2, <1>3

LEMMA StepInv == LoopInv /\ [Next]_vars => LoopInv'
<1>. SUFFICES ASSUME LoopInv, [Next]_vars PROVE LoopInv'
  OBVIOUS
<1>1. CASE UNCHANGED vars
  BY <1>1 DEF vars, health, display, LoopInv, TypeOK, HealthTypeOK, LoopTypeOK,
     ClockInv, HealthyInv, UnhealthyInv, PlaceInv, DisplayInv
<1>. QED BY <1>1, TopInv, AttachInv, TickInv, WakeInv, GameInv, KillInv DEF Next, Step

LEMMA Invariance == Spec => []LoopInv
BY InitInv, StepInv, PTL DEF Spec

(***************************************************************************)
(* The theorems                                                            *)
(***************************************************************************)

(* The read errors, the clock and everything else keep their types; in     *)
(* particular the strikes never pass their limit (AttachHealth).           *)
THEOREM TypeCorrect == Spec => []TypeOK
<1>1. LoopInv => TypeOK
  BY DEF LoopInv
<1>. QED BY <1>1, Invariance, PTL

(* No sequence of failures keeps a handle that gives no reading            *)
(* (AttachHealth on_feedcode_missing, on_read_error, past_deadline).       *)
THEOREM HandleAlwaysReleased == Spec => []HandleIsReleased
<1>1. LoopInv => HandleIsReleased
  BY DEF LoopInv, TypeOK, HealthTypeOK, ClockInv, HealthyInv, UnhealthyInv,
     HandleIsReleased, SilenceBound
<1>. QED BY <1>1, Invariance, PTL

(* A label on screen is at most one interval old (spawn).                  *)
THEOREM LabelAlwaysFresh == Spec => []LabelIsFresh
<1>1. LoopInv => LabelIsFresh
  BY DEF LoopInv, ClockInv, HealthyInv, PlaceInv, DisplayInv, LabelIsFresh
<1>. QED BY <1>1, Invariance, PTL

(* Only enough strikes or a whole grace period cost the attach             *)
(* (AttachHealth).                                                         *)
THEOREM DropAlwaysJustified == Spec => DropIsJustified
<1>. DEFINE Justified == handle # "none" /\ handle' = "none" =>
                           killed \/ errors' >= ReadErrorLimit \/ silent' >= Grace
<1>1. LoopInv /\ [Next]_vars => [Justified]_vars
  <2>. SUFFICES ASSUME LoopInv, Next, handle # "none", handle' = "none", ~killed
                PROVE  errors' >= ReadErrorLimit \/ silent' >= Grace
    OBVIOUS
  <2>1. PICK w \in 0..MaxWork : FeedcodeMissing(w) \/ ReadError(w)
    BY DEF Next, Step, Top, Attach, NoProcess, GotProcess, Tick, ReadOk, Wake,
       GameChanges, Kill
  <2>2. PastDeadline(w) \/ errors' >= ReadErrorLimit
    BY <2>1 DEF FeedcodeMissing, ReadError, Failed, DropsAfterMiss, DropsAfterError,
       OnReadError
  <2>3. ASSUME PastDeadline(w) PROVE silent' >= Grace
    <3>1. age <= silent /\ age + w >= Grace
      BY <2>3 DEF PastDeadline, LoopInv, ClockInv, UnhealthyInv
    <3>2. age \in Nat /\ silent \in Nat /\ SilentFor(w)
      BY <2>1 DEF LoopInv, TypeOK, HealthTypeOK, SilenceBound, FeedcodeMissing, ReadError
    <3>. QED BY <3>1, <3>2 DEF SilentFor, SilenceBound
  <2>. QED BY <2>2, <2>3
<1>2. Spec => [][Justified]_vars
  BY <1>1, Invariance, PTL DEF Spec
<1>. QED BY <1>2 DEF DropIsJustified

(* The task implements the abstract display.                               *)
THEOREM Implementation == Spec => ImplementsDisplay
<1>. DEFINE phase == IF ~killed THEN "on"
                     ELSE IF pc \in {"attach", "tick"} THEN "stopping" ELSE "off"
<1>1. Init => Display!Init
  BY DEF Init, Display!Init
<1>2. LoopInv /\ [Next]_vars => [Display!Next]_<<shown, phase>>
  <2>. SUFFICES ASSUME LoopInv, [Next]_vars PROVE [Display!Next]_<<shown, phase>>
    OBVIOUS
  <2>. USE DEF Display!Next, Display!ShowLabel, Display!LoseGame, Display!Stop,
               Display!LastPayload
  <2>0. /\ ~killed => shown = last
        /\ everAttached <=> last # Empty
        /\ last \in Labels \cup {Empty, Detached}
        /\ Idle = IF everAttached THEN Detached ELSE Empty
    BY DEF LoopInv, TypeOK, LoopTypeOK, Payloads, DisplayInv, Idle
  <2>1. CASE Top
    BY <2>1 DEF Top, display
  <2>2. CASE Attach /\ NoProcess
    <3>1. last \notin Labels
      BY <2>2 DEF Attach, LoopInv, PlaceInv, DisplayInv
    <3>2. /\ shown' = Idle /\ killed' = killed /\ pc = "attach" /\ pc' = "asleep"
      BY <2>2 DEF Attach, NoProcess, Sleep
    <3>. QED BY <2>0, <3>1, <3>2
  <2>3. CASE Attach /\ GotProcess
    BY <2>3 DEF Attach, GotProcess, display
  <2>4. CASE Tick /\ ReadOk
    <3>1. PICK l \in Labels : Publish(l)
      BY <2>4 DEF ReadOk
    <3>2. killed' = killed /\ pc = "tick" /\ pc' = "asleep"
      BY <2>4 DEF Tick, Sleep
    <3>. QED BY <2>0, <3>1, <3>2 DEF Publish
  <2>5. ASSUME NEW w \in 0..MaxWork, Tick, FeedcodeMissing(w) \/ ReadError(w)
        PROVE  [Display!Next]_<<shown, phase>>
    <3>1. Publish(Idle)
      BY <2>5 DEF FeedcodeMissing, ReadError, Failed
    <3>2. killed' = killed /\ pc = "tick" /\ pc' = "asleep"
      BY <2>5 DEF Tick, Sleep
    <3>. QED BY <2>0, <3>1, <3>2 DEF Publish
  <2>6. CASE Wake
    BY <2>6 DEF Wake, display
  <2>7. ASSUME NEW g \in GameStates, GameChanges(g)
        PROVE  [Display!Next]_<<shown, phase>>
    BY <2>7 DEF GameChanges, display
  <2>8. CASE Kill
    BY <2>8 DEF Kill
  <2>9. CASE UNCHANGED vars
    BY <2>9 DEF vars, display
  <2>. QED BY <2>1, <2>2, <2>3, <2>4, <2>5, <2>6, <2>7, <2>8, <2>9
       DEF Next, Step, Attach, Tick
<1>. QED BY <1>1, <1>2, Invariance, PTL DEF Spec, ImplementsDisplay, Display!Spec

(***************************************************************************)
(* TickLoop's task is one of TrackerServer's.  What of TrackerServer's     *)
(* state a task's own steps change is what the five functions below hold,  *)
(* and the rest follows from whether the task was killed.                  *)
(***************************************************************************)
LoopSeen == <<OfTask(place), OfTask(IF pc = "done" THEN "none" ELSE "tracker"),
              OfTask(killed /\ pc # "done"), OfTask(IF pc = "done" THEN Empty ELSE last),
              OfTracker(shown), OfTask(late)>>

LEMMA SeenAlone ==
    ASSUME UNCHANGED killed
    PROVE  UNCHANGED <<Server!serverVars, Server!connVars, Server!registryVars,
                       Server!observers>>
BY DEF Server!serverVars, Server!connVars, Server!registryVars, Server!observers,
       OfTracker, OfViewer, None

LEMMA Unseen ==
    ASSUME UNCHANGED killed, UNCHANGED LoopSeen
    PROVE  UNCHANGED Server!vars
BY SeenAlone DEF Server!vars, Server!taskVars, LoopSeen

(* A look at the signal.                                                   *)
LEMMA TopIsCheck ==
    ASSUME LoopInv, Top, late' = late
    PROVE  Server!TickCheck("task")
<1>1. pc = "top" /\ UNCHANGED <<killed, shown, last>>
  BY DEF Top, display
<1>2. OfTask(place)["task"] = "top"
  BY <1>1 DEF place, OfTask
<1>3. OfTask(killed /\ pc # "done")["task"] = killed
  BY <1>1 DEF OfTask, LoopInv, TypeOK, LoopTypeOK
<1>4. CASE killed
  <2>1. pc' = "done"
    BY <1>4 DEF Top
  <2>2. Server!TickReturns("task")
    BY <1>1, <1>4, <2>1 DEF Server!TickReturns, OfTask, place
  <2>. QED BY <1>1, <1>2, <1>3, <1>4, <2>2, SeenAlone DEF Server!TickCheck, OfTracker, OfTask
<1>5. CASE ~killed
  <2>1. pc' \in {"attach", "tick"}
    BY <1>5 DEF Top
  <2>2. Server!TickContinues("task")
    BY <1>1, <1>5, <2>1 DEF Server!TickContinues, OfTask, place
  <2>. QED BY <1>1, <1>2, <1>3, <1>5, <2>2, SeenAlone DEF Server!TickCheck, OfTracker, OfTask
<1>. QED BY <1>4, <1>5

(* Whatever ends the work: the task is back at the top of its loop.        *)
LEMMA WorkEnds ==
    ASSUME pc \in {"attach", "tick"}, pc' = "asleep", UNCHANGED killed
    PROVE  Server!IterationEnds("task")
BY SeenAlone DEF Server!IterationEnds, OfTask, place

(* What the task is idle at is the same in both.                           *)
LEMMA SameIdle ==
    ASSUME LoopInv, pc # "done"
    PROVE  Server!Idle("task") = Idle
BY DEF Server!Idle, Idle, OfTask, LoopInv, DisplayInv

LEMMA NoProcessIsNoGame ==
    ASSUME LoopInv, Attach, NoProcess, TaskNext
    PROVE  Server!TickNoGame("task")
<1>1. /\ pc = "attach" /\ pc' = "asleep" /\ shown' = Idle
      /\ UNCHANGED <<killed, last>>
  BY DEF Attach, NoProcess, Sleep
<1>2. last \notin Labels
  BY <1>1 DEF LoopInv, PlaceInv, DisplayInv
<1>3. Server!Idle("task") = Idle
  BY <1>1, SameIdle
<1>4. OfTask(IF pc = "done" THEN Empty ELSE last)["task"] = last
  BY <1>1 DEF OfTask
<1>5. UNCHANGED OfTask(IF pc = "done" THEN Empty ELSE last)
  BY <1>1
<1>6. late' = IF killed /\ shown' # shown /\ late < 2 THEN late + 1 ELSE late
  BY <1>1 DEF TaskNext, Sends
<1>7. CASE shown = Idle
  BY <1>1, <1>2, <1>3, <1>4, <1>5, <1>6, <1>7, WorkEnds
  DEF Server!TickNoGame, OfTask, OfTracker
<1>8. CASE shown # Idle
  <2>1. Server!Send("task", Idle)
    BY <1>1, <1>6, <1>8 DEF Server!Send, OfTask, OfTracker, LoopInv, TypeOK, LoopTypeOK
  <2>. QED BY <1>1, <1>2, <1>3, <1>4, <1>5, <1>8, <2>1, WorkEnds
       DEF Server!TickNoGame, OfTask, OfTracker
<1>. QED BY <1>7, <1>8

LEMMA TickIsRead ==
    ASSUME LoopInv, Tick, TaskNext
    PROVE  \E p \in Server!Payloads : Server!TickRead("task", p)
<1>1. pc = "tick" /\ pc' = "asleep" /\ UNCHANGED killed
  BY DEF Tick, Sleep
<1>2. PICK p \in Labels \cup {Idle} : Publish(p)
  BY DEF Tick, ReadOk, FeedcodeMissing, ReadError, Failed
<1>3. last' = p /\ shown' = IF p = last THEN shown ELSE p
  BY <1>2 DEF Publish
<1>4. p \in Server!Payloads /\ p \in Labels \cup {Server!Idle("task")}
  BY <1>1, SameIdle, IdleType DEF Server!Payloads, Payloads
<1>5. late' = IF killed /\ p # last /\ late < 2 THEN late + 1 ELSE late
  BY <1>1, <1>3 DEF TaskNext, Sends
<1>6. OfTask(IF pc = "done" THEN Empty ELSE last)["task"] = last
  BY <1>1 DEF OfTask
<1>7. (OfTask(IF pc = "done" THEN Empty ELSE last))'
        = [OfTask(IF pc = "done" THEN Empty ELSE last) EXCEPT !["task"] = p]
  BY <1>1, <1>3 DEF OfTask
<1>8. CASE p = last
  BY <1>1, <1>3, <1>4, <1>5, <1>6, <1>7, <1>8, WorkEnds
  DEF Server!TickRead, OfTask, OfTracker
<1>9. CASE p # last
  <2>1. Server!Send("task", p)
    BY <1>1, <1>3, <1>5, <1>9 DEF Server!Send, OfTask, OfTracker, LoopInv, TypeOK, LoopTypeOK
  <2>. QED BY <1>1, <1>4, <1>6, <1>7, <1>9, <2>1, WorkEnds DEF Server!TickRead
<1>. QED BY <1>4, <1>8, <1>9

(* The signal is the last viewer's detach.                                 *)
LEMMA KillIsClose ==
    ASSUME LoopInv, Kill, late' = late
    PROVE  Server!Close("viewer")
<1>1. ~killed /\ killed' = TRUE /\ shown' = Empty /\ UNCHANGED <<pc, last>>
  BY DEF Kill
<1>2. pc # "done"
  BY <1>1 DEF LoopInv, PlaceInv
<1>3. Server!ConnectionEnds("viewer") /\ OfViewer(IF killed THEN "closed" ELSE "attached")["viewer"] = "attached"
  BY <1>1 DEF Server!ConnectionEnds, OfViewer
<1>4. OfViewer(IF killed THEN "none" ELSE "tracker")["viewer"] = "tracker"
  BY <1>1 DEF OfViewer
<1>5. Server!Left("tracker") = 0
  BY <1>1 DEF Server!Left, OfTracker
<1>6. Server!StopTick("tracker")
  <2>1. Server!Kill({OfTracker(IF killed THEN "none" ELSE "task")["tracker"]})
    BY <1>1, <1>2 DEF Server!Kill, OfTask, OfTracker
  <2>2. OfTracker(IF killed THEN "none" ELSE "task")'
          = [OfTracker(IF killed THEN "none" ELSE "task") EXCEPT !["tracker"] = "none"]
    BY <1>1 DEF OfTracker
  <2>3. OfTracker(shown)' = [OfTracker(shown) EXCEPT !["tracker"] = Empty]
    BY <1>1 DEF OfTracker
  <2>. QED BY <1>1, <2>1, <2>2, <2>3 DEF Server!StopTick, OfTask, place
<1>7. Server!RegistryDetach("tracker")
  BY <1>1, <1>5, <1>6 DEF Server!RegistryDetach, OfTracker
<1>. QED
  BY <1>1, <1>3, <1>4, <1>7 DEF Server!Close, Server!serverVars, OfTracker, None

LEMMA TaskStep ==
    ASSUME LoopInv, TaskNext
    PROVE  [Server!TickNext \/ Server!Close("viewer")]_(Server!vars)
<1>1. CASE Top
  <2>1. late' = late
    BY <1>1 DEF TaskNext, Sends, Top
  <2>. QED BY <1>1, <2>1, TopIsCheck DEF Server!TickNext
<1>2. CASE Attach /\ NoProcess
  BY <1>2, NoProcessIsNoGame DEF Server!TickNext
<1>3. CASE Attach /\ GotProcess
  BY <1>3, Unseen DEF Attach, GotProcess, display, TaskNext, Sends, LoopSeen, place
<1>4. CASE Tick
  BY <1>4, TickIsRead DEF Server!TickNext
<1>5. CASE Wake
  BY <1>5, Unseen DEF Wake, display, TaskNext, Sends, LoopSeen, place
<1>6. ASSUME NEW g \in GameStates, GameChanges(g)
      PROVE  UNCHANGED Server!vars
  BY <1>6, Unseen DEF GameChanges, display, TaskNext, Sends, LoopSeen, place
<1>7. CASE Kill
  <2>1. late' = late
    BY <1>7 DEF TaskNext, Kill
  <2>. QED BY <1>7, <2>1, KillIsClose
<1>. QED BY <1>1, <1>2, <1>3, <1>4, <1>5, <1>6, <1>7 DEF TaskNext, Next, Step, Attach

(* Every step of the loop is a step of one of TrackerServer's tasks, and   *)
(* what kills it the detach of its last viewer (tick_task.rs spawn,        *)
(* consumers.rs detach).                                                   *)
THEOREM LoopIsServerTask == TaskSpec => ImplementsServerTask
<1>1. TaskInit => LoopInv
  BY InitInv DEF TaskInit
<1>2. LoopInv /\ [TaskNext]_taskVars => LoopInv'
  BY StepInv DEF TaskNext, taskVars
<1>3. LoopInv /\ [TaskNext]_taskVars
        => [Server!TickNext \/ Server!Close("viewer")]_(Server!vars)
  <2>1. UNCHANGED taskVars => UNCHANGED Server!vars
    BY Unseen DEF taskVars, vars, display, LoopSeen, place
  <2>. QED BY <2>1, TaskStep
<1>. QED BY <1>1, <1>2, <1>3, PTL DEF TaskSpec, ImplementsServerTask
=============================================================================
