------------------------- MODULE AccountLinkProofs -------------------------
(***************************************************************************)
(* Proofs about AccountLink, for any number of attempts and tokens and     *)
(* whatever MaxBusy is; about FyiSocket, for any number of sockets; and    *)
(* about the two together.                                                 *)
(***************************************************************************)
EXTENDS AccountSocket, FiniteSetTheorems, TLAPS

USE LinkAssumption

Jobs == [ step: Steps, token: AnyToken, dir: BOOLEAN, live: BOOLEAN,
          refresh: BOOLEAN, alone: BOOLEAN ]

Waiters == {"idle", "waiting", "exchanging", "given up", "saved", "working",
            "linked"}

(***************************************************************************)
(* The operators                                                           *)
(***************************************************************************)
LEMMA NoJobType == NoJob \in Jobs /\ NoJob.step = "idle" /\ ~NoJob.alone
BY DEF NoJob, Jobs, Steps, AnyToken

\* a job that goes on to `step`
Edited(r, step, token, dir) ==
  [r EXCEPT !.step = step, !.token = token, !.dir = dir]

LEMMA EditedJob ==
  \A r \in Jobs, step \in Steps, token \in AnyToken, dir \in BOOLEAN :
    /\ Edited(r, step, token, dir) \in Jobs
    /\ Edited(r, step, token, dir).step = step
    /\ Edited(r, step, token, dir).token = token
    /\ Edited(r, step, token, dir).dir <=> dir
    /\ Edited(r, step, token, dir).alone <=> r.alone
    /\ Edited(r, step, token, dir).refresh <=> r.refresh
<1>. SUFFICES ASSUME NEW r \in Jobs, NEW step \in Steps, NEW token \in AnyToken,
                     NEW dir \in BOOLEAN
              PROVE  /\ Edited(r, step, token, dir) \in Jobs
                     /\ Edited(r, step, token, dir).step = step
                     /\ Edited(r, step, token, dir).token = token
                     /\ Edited(r, step, token, dir).dir <=> dir
                     /\ Edited(r, step, token, dir).alone <=> r.alone
                     /\ Edited(r, step, token, dir).refresh <=> r.refresh
  OBVIOUS
<1>. DEFINE e == [r EXCEPT !.step = step, !.token = token]
<1>1. /\ e \in Jobs /\ e.step = step /\ e.token = token
      /\ (e.alone <=> r.alone) /\ (e.refresh <=> r.refresh)
  BY DEF Jobs
<1>2. Edited(r, step, token, dir) = [e EXCEPT !.dir = dir]
  BY DEF Edited
<1>. HIDE DEF e
<1>3. CASE dir = TRUE
  BY <1>1, <1>2, <1>3 DEF Jobs
<1>4. CASE dir = FALSE
  BY <1>1, <1>2, <1>4 DEF Jobs
<1>. QED BY <1>3, <1>4

LEMMA AttemptWorks == \A a \in Attempts : a \in Workers
BY DEF Workers

LEMMA DisturbedType ==
  ASSUME job \in [Workers -> Jobs]
  PROVE  /\ Disturbed \in [Workers -> Jobs]
         /\ \A w \in Workers : /\ Disturbed[w].step = job[w].step
                               /\ ~Disturbed[w].alone
BY DEF Disturbed, Jobs

LEMMA BegunType ==
  ASSUME job \in [Workers -> Jobs], NEW w \in Workers,
         NEW step \in Steps, NEW refresh \in BOOLEAN
  PROVE  /\ Begun(w, step, refresh) \in [Workers -> Jobs]
         /\ Begun(w, step, refresh)[w].step = step
         /\ Begun(w, step, refresh)[w].alone =>
              refresh /\ Quiet(w)
         /\ Begun(w, step, refresh)[w].refresh = refresh
         /\ \A v \in Workers \ {w} :
              /\ Begun(w, step, refresh)[v].step = job[v].step
              /\ ~Begun(w, step, refresh)[v].alone
<1>. DEFINE al == refresh /\ Quiet(w)
            mine == [NoJob EXCEPT !.step = step, !.refresh = refresh,
                                  !.alone = al]
            other(v) == [job[v] EXCEPT !.alone = FALSE]
<1>1. al \in BOOLEAN /\ (al => refresh /\ Quiet(w))
  BY DEF Quiet
<1>2. Begun(w, step, refresh) =
        [v \in Workers |-> IF v = w THEN mine ELSE other(v)]
  BY DEF Begun
<1>. HIDE DEF al
<1>3. mine \in Jobs /\ mine.step = step /\ mine.refresh = refresh
      /\ mine.alone = al
  BY <1>1 DEF Jobs, NoJob, AnyToken
<1>5. \A v \in Workers : other(v) \in Jobs /\ other(v).step = job[v].step
                         /\ ~other(v).alone
  BY DEF Jobs
<1>. DEFINE after == Begun(w, step, refresh)
<1>. HIDE DEF mine, other, after
<1>6. after[w] = mine /\ \A v \in Workers \ {w} : after[v] = other(v)
  BY <1>2 DEF after
<1>7. after \in [Workers -> Jobs]
  BY <1>2, <1>3, <1>5 DEF after
<1>8. /\ after[w].step = step /\ after[w].refresh = refresh
      /\ after[w].alone => refresh /\ Quiet(w)
  BY <1>1, <1>3, <1>6
<1>9. \A v \in Workers \ {w} :
        after[v].step = job[v].step /\ ~after[v].alone
  BY <1>5, <1>6
<1>. QED BY <1>7, <1>8, <1>9 DEF after

(***************************************************************************)
(* Listeners.  Whoever takes or replaces the session tells its attempt.    *)
(***************************************************************************)
ListenerType ==
  /\ session \in Attempts \cup {NoAttempt}
  /\ starter \in [Attempts -> {"idle", "binding", "storing"}]
  /\ waiter \in [Attempts -> Waiters]
  /\ cancelled \in [Attempts -> BOOLEAN]

LInv == ListenerType /\ NoOrphanListener

LEMMA JobListeners ==
  ASSUME LInv, NEW w \in Workers, Job(w)
  PROVE  LInv'
<1>1. UNCHANGED << session, starter, cancelled >>
  BY DEF Job, Load, Swap, Stop, ReadToken, ReadHandle, Connect, ConnectFails,
         UnchangedUI
<1>2. \/ UNCHANGED waiter
      \/ waiter' = [a \in Attempts |-> IF a = w THEN "linked" ELSE waiter[a]]
  BY DEF Job, Load, Swap, Stop, ReadToken, ReadHandle, Connect, ConnectFails,
         Finish
<1>. QED BY <1>1, <1>2 DEF LInv, ListenerType, NoOrphanListener, Waiters

LEMMA AttemptListeners ==
  ASSUME LInv, NEW a \in Attempts, Attempt(a)
  PROVE  LInv'
<1>. USE DEF LInv, ListenerType, NoOrphanListener, Waiters
<1>1. CASE Start(a) BY <1>1 DEF Start, Told
<1>2. CASE Bind(a) BY <1>2 DEF Bind
<1>3. CASE BindFails(a) BY <1>3 DEF BindFails
<1>4. CASE Store(a) BY <1>4 DEF Store, Told, Dropped
<1>5. CASE Callback(a) BY <1>5 DEF Callback
<1>6. CASE GivesUp(a) BY <1>6 DEF GivesUp
<1>7. CASE \E token \in Tokens : Exchange(a, token) BY <1>7 DEF Exchange
<1>8. CASE TakeSession(a)
  <2>1. /\ session' = NoAttempt /\ cancelled' = Told(session)
        /\ UNCHANGED starter
        /\ waiter' \in { [waiter EXCEPT ![a] = "working"],
                         [waiter EXCEPT ![a] = "idle"] }
    BY <1>8 DEF TakeSession, Dropped
  <2>. QED BY <2>1 DEF Told
<1>9. CASE Announce(a) BY <1>9 DEF Announce
<1>. QED BY <1>1, <1>2, <1>3, <1>4, <1>5, <1>6, <1>7, <1>8, <1>9
         DEF Attempt, Refused, WasCancelled, TimesOut, ExchangeFails

LEMMA ListenerStep == LInv /\ [Next]_vars => LInv'
<1>. SUFFICES ASSUME LInv, [Next]_vars PROVE LInv'
  OBVIOUS
<1>1. CASE UNCHANGED vars
  BY <1>1 DEF vars, LInv, ListenerType, NoOrphanListener
<1>2. CASE Cancel
  BY <1>2 DEF Cancel, Told, LInv, ListenerType, NoOrphanListener
<1>3. CASE Window /\ ~Cancel
  <2>1. UnchangedLink
    BY <1>3 DEF Window, OpenForm, CloseForm, HandleLinked, EditForm, SaveForm,
                SetupRebuild, Reconnect
  <2>. QED BY <2>1 DEF UnchangedLink, LInv, ListenerType, NoOrphanListener
<1>4. ASSUME NEW a \in Attempts, Attempt(a) PROVE LInv'
  BY <1>4, AttemptListeners
<1>5. ASSUME NEW w \in Workers, Job(w) PROVE LInv'
  BY <1>5, JobListeners
<1>. QED BY <1>1, <1>2, <1>3, <1>4, <1>5 DEF Next

LEMMA ListenerInit == Init => LInv
BY DEF Init, LInv, ListenerType, NoOrphanListener, Waiters

(* Nothing waits for a browser that the next Connect or Cancel does not    *)
(* reach, in whatever order attempts are started, stored and ended.        *)
THEOREM ListenersAreReached == Spec => []NoOrphanListener
<1>1. LInv => NoOrphanListener
  BY DEF LInv
<1>. QED BY <1>1, ListenerInit, ListenerStep, PTL DEF Spec

(***************************************************************************)
(* Type correctness                                                        *)
(***************************************************************************)
LEMMA Slots ==
  /\ NoManager \in [up: BOOLEAN, token: AnyToken]
  /\ NoSocket \in [up: BOOLEAN, token: AnyToken, live: BOOLEAN]
  /\ ~NoSocket.up
  /\ NoForm \in [open: BOOLEAN, initial: AnyToken, token: AnyToken]
  /\ \A dir \in BOOLEAN, token \in AnyToken :
       /\ Subsystem(dir, token) \in [up: BOOLEAN, token: AnyToken]
       /\ Connection(dir, token) \in
            [up: BOOLEAN, token: AnyToken, live: BOOLEAN]
       /\ Connection(dir, token).up => Connection(dir, token).token # NoToken
BY DEF NoManager, NoSocket, NoForm, Subsystem, Connection, AnyToken

JobType ==
  /\ job \in [Workers -> Jobs]
  /\ waiter \in [Attempts -> Waiters]
  /\ \A a \in Attempts : waiter[a] = "working" <=> job[a].step # "idle"
  /\ \A w \in Workers :
       job[w].step \in {"handle", "connect"} => job[w].token # NoToken

SlotType ==
  /\ manager \in [up: BOOLEAN, token: AnyToken]
  /\ socket \in [up: BOOLEAN, token: AnyToken, live: BOOLEAN]
  /\ socket.up => socket.token # NoToken

FormType ==
  /\ config \in [token: AnyToken, dir: BOOLEAN]
  /\ form \in [open: BOOLEAN, initial: AnyToken, token: AnyToken]
  /\ news \in BOOLEAN

\* an attempt that has no port yet has no task
Ports == \A a \in Attempts : starter[a] = "binding" => waiter[a] = "idle"

LEMMA TypeParts ==
  TypeOK <=> JobType /\ SlotType /\ FormType /\ ListenerType /\ Ports
BY DEF TypeOK, JobType, SlotType, FormType, ListenerType, Jobs, Waiters, Ports

LEMMA FinishType ==
  ASSUME JobType, NEW w \in Workers, Finish(w) PROVE JobType'
<1>1. job' \in [Workers -> Jobs] /\ job'[w].step = "idle"
      /\ \A v \in Workers \ {w} : job'[v] = job[v]
  BY NoJobType DEF JobType, Finish
<1>2. waiter' \in [Attempts -> Waiters]
      /\ \A a \in Attempts : waiter'[a] = IF a = w THEN "linked" ELSE waiter[a]
  BY DEF JobType, Finish, Waiters
<1>. QED BY <1>1, <1>2, AttemptWorks DEF JobType

LEMMA JobStepType ==
  ASSUME TypeOK, NEW w \in Workers, Job(w)
  PROVE  JobType' /\ SlotType'
<1>0. JobType /\ SlotType /\ FormType
  BY TypeParts
<1>. USE <1>0
<1>a. ASSUME job' \in [Workers -> Jobs], job'[w].step # "idle",
             job[w].step # "idle", UNCHANGED waiter,
             job'[w].step \in {"handle", "connect"} => job'[w].token # NoToken,
             \A v \in Workers \ {w} : /\ job'[v].step = job[v].step
                                       /\ job'[v].token = job[v].token
      PROVE  JobType'
  BY <1>a, AttemptWorks DEF JobType
<1>1. CASE Load(w)
  <2>. DEFINE mine == Edited(job[w], "swap", config.token, config.dir)
  <2>0. mine \in Jobs /\ mine.step = "swap"
    <3>1. job[w] \in Jobs /\ config.token \in AnyToken
          /\ config.dir \in BOOLEAN /\ "swap" \in Steps
      BY DEF JobType, FormType, Steps
    <3>. QED BY <3>1, EditedJob
  <2>1. job' = [job EXCEPT ![w] = mine]
    BY <1>1 DEF Load, Edited
  <2>. HIDE DEF mine
  <2>2. /\ job' \in [Workers -> Jobs] /\ job'[w].step = "swap"
        /\ \A v \in Workers \ {w} : job'[v] = job[v]
    BY <2>0, <2>1 DEF JobType
  <2>. QED BY <1>1, <1>a, <2>2 DEF Load, SlotType
<1>2. CASE Swap(w)
  <2>. DEFINE ab == [v \in Workers |-> [job[v] EXCEPT !.live = FALSE]]
  <2>1. /\ ab \in [Workers -> Jobs]
        /\ \A v \in Workers : /\ ab[v].step = job[v].step
                              /\ ab[v].token = job[v].token
    BY DEF JobType, Jobs
  <2>2. job[w].dir \in BOOLEAN /\ job[w].token \in AnyToken
    BY DEF JobType, Jobs
  <2>3. SlotType'
    <3>1. manager' \in [up: BOOLEAN, token: AnyToken]
      BY <1>2, <2>2, Slots DEF Swap
    <3>2. socket' = [socket EXCEPT !.live = FALSE]
      BY <1>2 DEF Swap
    <3>. QED BY <3>1, <3>2 DEF SlotType
  <2>. HIDE DEF ab
  <2>4. CASE Refreshes(w)
    <3>1. job' = [ab EXCEPT ![w].step = "stop", ![w].token = NoToken,
                            ![w].dir = FALSE] /\ UNCHANGED waiter
      BY <1>2, <2>4 DEF Swap, ab
    <3>. DEFINE mine == Edited(ab[w], "stop", NoToken, FALSE)
    <3>0. mine \in Jobs /\ mine.step = "stop"
      <4>1. ab[w] \in Jobs /\ NoToken \in AnyToken /\ "stop" \in Steps
        BY <2>1 DEF Steps, AnyToken
      <4>. QED BY <4>1, EditedJob
    <3>a. job' = [ab EXCEPT ![w] = mine]
      BY <3>1 DEF Edited
    <3>. HIDE DEF mine
    <3>2. /\ job' \in [Workers -> Jobs] /\ job'[w].step = "stop"
          /\ \A v \in Workers \ {w} : job'[v] = ab[v]
      BY <2>1, <3>0, <3>a
    <3>. QED BY <1>2, <1>a, <2>1, <2>3, <3>1, <3>2 DEF Swap
  <2>5. CASE ~Refreshes(w)
    <3>1. /\ job' = [ab EXCEPT ![w] = NoJob]
          /\ waiter' = [a \in Attempts |->
                          IF a = w THEN "linked" ELSE waiter[a]]
      BY <1>2, <2>5 DEF Swap, ab
    <3>2. /\ job' \in [Workers -> Jobs] /\ job'[w].step = "idle"
          /\ \A v \in Workers \ {w} : /\ job'[v].step = job[v].step
                                    /\ job'[v].token = job[v].token
      BY <2>1, <3>1, NoJobType
    <3>3. /\ waiter' \in [Attempts -> Waiters]
          /\ \A a \in Attempts :
               waiter'[a] = IF a = w THEN "linked" ELSE waiter[a]
      BY <3>1 DEF JobType, Waiters
    <3>. QED BY <2>3, <3>2, <3>3, AttemptWorks DEF JobType
  <2>. QED BY <2>4, <2>5
<1>3. CASE Stop(w)
  <2>1. /\ job' \in [Workers -> Jobs] /\ job'[w].step = "token"
        /\ \A v \in Workers \ {w} : job'[v] = job[v]
    BY <1>3 DEF Stop, JobType, Jobs, Steps
  <2>. QED BY <1>3, <1>a, <2>1, Slots DEF Stop, SlotType
<1>4. CASE ReadToken(w)
  <2>1. SlotType'
    BY <1>4 DEF ReadToken, SlotType
  <2>2. CASE Configured(config.token)
    <3>1. /\ job' \in [Workers -> Jobs] /\ job'[w].step = "handle"
          /\ job'[w].token # NoToken
          /\ \A v \in Workers \ {w} : job'[v] = job[v]
      BY <1>4, <2>2 DEF ReadToken, JobType, FormType, Jobs, Steps, Configured
    <3>. QED BY <1>4, <1>a, <2>1, <2>2, <3>1 DEF ReadToken
  <2>3. CASE ~Configured(config.token)
    BY <1>4, <2>1, <2>3, FinishType DEF ReadToken
  <2>. QED BY <2>2, <2>3
<1>5. CASE ReadHandle(w)
  <2>1. SlotType'
    BY <1>5 DEF ReadHandle, SlotType
  <2>2. CASE manager.up
    <3>1. /\ job' \in [Workers -> Jobs] /\ job'[w].step = "connect"
          /\ job'[w].token # NoToken
          /\ \A v \in Workers \ {w} : job'[v] = job[v]
      BY <1>5, <2>2 DEF ReadHandle, JobType, Jobs, Steps
    <3>. QED BY <1>5, <1>a, <2>1, <2>2, <3>1 DEF ReadHandle
  <2>3. CASE ~manager.up
    BY <1>5, <2>1, <2>3, FinishType DEF ReadHandle
  <2>. QED BY <2>2, <2>3
<1>6. CASE Connect(w)
  <2>1. job[w].token \in AnyToken \ {NoToken} /\ job[w].live \in BOOLEAN
    BY <1>6 DEF Connect, JobType, Jobs
  <2>. QED BY <1>6, <2>1, FinishType DEF Connect, SlotType
<1>7. CASE ConnectFails(w)
  BY <1>7, FinishType DEF ConnectFails, SlotType
<1>. QED BY <1>1, <1>2, <1>3, <1>4, <1>5, <1>6, <1>7 DEF Job

\* a step that begins or disturbs jobs and leaves the waiting tasks alone
LEMMA BegunJobType ==
  ASSUME JobType, NEW w \in Workers \ Attempts, NEW step \in {"load", "stop"},
         NEW refresh \in BOOLEAN, job' = Begun(w, step, refresh),
         UNCHANGED waiter, Idle(w)
  PROVE  JobType'
<1>. DEFINE after == Begun(w, step, refresh)
<1>1. /\ after \in [Workers -> Jobs] /\ after[w].step = step
      /\ \A v \in Workers \ {w} : after[v].step = job[v].step
  BY BegunType DEF JobType, Steps
<1>2. \A v \in Workers \ {w} : after[v].token = job[v].token
  BY DEF Begun, JobType, Jobs
<1>3. job' = after
  OBVIOUS
<1>. HIDE DEF after
<1>. QED BY <1>1, <1>2, <1>3, AttemptWorks DEF JobType

LEMMA DisturbedJobType ==
  ASSUME JobType, job' = Disturbed PROVE
    /\ job' \in [Workers -> Jobs]
    /\ \A w \in Workers : /\ job'[w].step = job[w].step
                          /\ job'[w].token = job[w].token
<1>1. \A w \in Workers : Disturbed[w].token = job[w].token
  BY DEF Disturbed, JobType, Jobs
<1>. QED BY <1>1, DisturbedType DEF JobType

LEMMA PortStep ==
  ASSUME TypeOK, Next PROVE Ports'
<1>0. JobType /\ ListenerType /\ Ports
  BY TypeParts
<1>. USE <1>0 DEF Ports, ListenerType
<1>1. ASSUME NEW a \in Attempts, Attempt(a) PROVE Ports'
  <2>1. \A b \in Attempts \ {a} :
          waiter'[b] = waiter[b] /\ starter'[b] = starter[b]
    BY <1>1 DEF Attempt, Start, Bind, BindFails, Store, Callback, Refused,
                WasCancelled, TimesOut, ExchangeFails, Exchange, TakeSession,
                Announce, GivesUp
  <2>2. starter'[a] = "binding" => waiter'[a] = "idle"
    BY <1>1 DEF Attempt, Start, Bind, BindFails, Store, Callback, Refused,
                WasCancelled, TimesOut, ExchangeFails, Exchange, TakeSession,
                Announce, GivesUp
  <2>. QED BY <2>1, <2>2
<1>2. CASE Window
  BY <1>2 DEF Window, Cancel, OpenForm, CloseForm, HandleLinked, EditForm,
              SaveForm, SetupRebuild, Reconnect, UnchangedLink
<1>3. ASSUME NEW w \in Workers, Job(w) PROVE Ports'
  <2>1. job[w].step # "idle" /\ UNCHANGED starter
    BY <1>3 DEF Job, Load, Swap, Stop, ReadToken, ReadHandle, Connect,
                ConnectFails, UnchangedUI
  <2>2. \A a \in Attempts : a # w => waiter'[a] = waiter[a]
    BY <1>3 DEF Job, Load, Swap, Stop, ReadToken, ReadHandle, Connect,
                ConnectFails, Finish
  <2>. QED BY <2>1, <2>2 DEF JobType
<1>. QED BY <1>1, <1>2, <1>3 DEF Next

LEMMA AttemptType ==
  ASSUME TypeOK, NEW a \in Attempts, Attempt(a)
  PROVE  JobType' /\ SlotType' /\ FormType'
<1>0. JobType /\ SlotType /\ FormType /\ Ports
  BY TypeParts
<1>. USE <1>0, AttemptWorks
<1>a. ASSUME NEW there \in Waiters \ {"working"}, waiter[a] # "working",
             waiter' = [waiter EXCEPT ![a] = there],
             UNCHANGED << config, manager, socket, job, form >>,
             news' \in BOOLEAN
      PROVE  JobType' /\ SlotType' /\ FormType'
  BY <1>a DEF JobType, SlotType, FormType
<1>1. CASE Start(a) \/ BindFails(a) \/ Store(a)
  <2>1. UNCHANGED << waiter, config, manager, socket, job, form, news >>
    BY <1>1 DEF Start, BindFails, Store
  <2>. QED BY <2>1 DEF JobType, SlotType, FormType
<1>2. CASE Bind(a)
  <2>2. /\ waiter' = [waiter EXCEPT ![a] = "waiting"]
        /\ UNCHANGED << config, manager, socket, job, form, news >>
    BY <1>2 DEF Bind
  <2>3. waiter[a] # "working"
    BY <1>2 DEF Bind, Ports
  <2>. QED BY <1>a, <2>2, <2>3 DEF Waiters, FormType
<1>3. CASE Callback(a)
  BY <1>3, <1>a DEF Callback, Waiters, FormType
<1>4. CASE waiter[a] \in {"waiting", "exchanging"} /\ GivesUp(a)
  BY <1>4, <1>a DEF GivesUp, Waiters, FormType
<1>5. ASSUME NEW token \in Tokens, Exchange(a, token)
      PROVE  JobType' /\ SlotType' /\ FormType'
  <2>1. JobType'
    <3>1. waiter' = [waiter EXCEPT ![a] = "saved"] /\ waiter[a] = "exchanging"
          /\ job' = Disturbed
      BY <1>5 DEF Exchange
    <3>. QED BY <3>1, DisturbedJobType DEF JobType, Waiters
  <2>2. SlotType' /\ FormType'
    BY <1>5 DEF Exchange, SlotType, FormType, AnyToken
  <2>. QED BY <2>1, <2>2
<1>6. CASE TakeSession(a)
  <2>1. UNCHANGED << config, manager, socket, form, news >>
    BY <1>6 DEF TakeSession
  <2>2. CASE waiter[a] = "saved"
    <3>0. PICK yes \in BOOLEAN : yes = TRUE
      OBVIOUS
    <3>. DEFINE after == Begun(a, "load", yes)
    <3>1. /\ after \in [Workers -> Jobs] /\ after[a].step = "load"
          /\ \A v \in Workers \ {a} : after[v].step = job[v].step
      <4>1. job \in [Workers -> Jobs] /\ a \in Workers /\ "load" \in Steps
        BY DEF JobType, Steps
      <4>. QED BY ONLY <4>1, BegunType
    <3>2. \A v \in Workers \ {a} : after[v].token = job[v].token
      BY DEF Begun, JobType, Jobs
    <3>. HIDE DEF after
    <3>3. waiter' = [waiter EXCEPT ![a] = "working"] /\ job' = after
      BY <1>6, <2>2, <3>0 DEF TakeSession, after
    <3>4. JobType'
      BY <3>1, <3>2, <3>3 DEF JobType, Waiters
    <3>. QED BY <2>1, <3>4 DEF SlotType, FormType
  <2>3. CASE waiter[a] # "saved"
    <3>1. /\ waiter' = [waiter EXCEPT ![a] = "idle"] /\ UNCHANGED job
          /\ waiter[a] = "given up"
      BY <1>6, <2>3 DEF TakeSession
    <3>. QED BY <1>a, <2>1, <3>1 DEF Waiters, FormType
  <2>. QED BY <2>2, <2>3
<1>7. CASE Announce(a)
  <2>1. /\ waiter' = [waiter EXCEPT ![a] = "idle"] /\ waiter[a] = "linked"
        /\ news' = (news \/ form.open)
        /\ UNCHANGED << config, manager, socket, job, form >>
    BY <1>7 DEF Announce
  <2>2. news' \in BOOLEAN
    BY <2>1
  <2>. QED BY <1>a, <2>1, <2>2 DEF Waiters
<1>. QED BY <1>1, <1>2, <1>3, <1>4, <1>5, <1>6, <1>7
         DEF Attempt, Refused, WasCancelled, TimesOut, ExchangeFails

LEMMA WindowType ==
  ASSUME TypeOK, Window
  PROVE  JobType' /\ SlotType' /\ FormType'
<1>0. JobType /\ SlotType /\ FormType
  BY TypeParts
<1>. USE <1>0, Slots
<1>1. CASE Cancel
  BY <1>1 DEF Cancel, JobType, SlotType, FormType
<1>2. CASE OpenForm
  BY <1>2 DEF OpenForm, UnchangedLink, JobType, SlotType, FormType
<1>3. CASE CloseForm
  BY <1>3 DEF CloseForm, UnchangedLink, JobType, SlotType, FormType
<1>4. CASE HandleLinked
  BY <1>4 DEF HandleLinked, UnchangedLink, JobType, SlotType, FormType
<1>5. ASSUME NEW token \in AnyToken, EditForm(token)
      PROVE  JobType' /\ SlotType' /\ FormType'
  BY <1>5 DEF EditForm, UnchangedLink, JobType, SlotType, FormType
<1>6. ASSUME NEW dir \in BOOLEAN, NEW moved \in BOOLEAN, NEW auth \in BOOLEAN,
             SaveForm(dir, moved, auth)
      PROVE  JobType' /\ SlotType' /\ FormType'
  <2>1. SlotType'
    BY <1>6 DEF SaveForm, UnchangedLink, SlotType
  <2>2. FormType'
    <3>1. /\ config' = [token |-> form.token, dir |-> dir]
          /\ form' = NoForm /\ news' = FALSE /\ form.token \in AnyToken
      BY <1>6 DEF SaveForm, FormType
    <3>. QED BY <3>1 DEF FormType
  <2>3. UNCHANGED waiter
    BY <1>6 DEF SaveForm, UnchangedLink
  <2>4. CASE moved \/ auth
    BY <1>6, <2>1, <2>2, <2>3, <2>4, BegunJobType
       DEF SaveForm, Workers
  <2>5. CASE ~(moved \/ auth)
    <3>1. job' = Disturbed
      BY <1>6, <2>5 DEF SaveForm
    <3>2. JobType'
      BY <2>3, <3>1, DisturbedJobType, AttemptWorks DEF JobType
    <3>. QED BY <2>1, <2>2, <3>2
  <2>. QED BY <2>4, <2>5
<1>7. CASE SetupRebuild
  BY <1>7, BegunJobType
     DEF SetupRebuild, UnchangedLink, SlotType, FormType, Workers
<1>8. CASE Reconnect
  BY <1>8, BegunJobType
     DEF Reconnect, UnchangedLink, SlotType, FormType, Workers
<1>. QED BY <1>1, <1>2, <1>3, <1>4, <1>5, <1>6, <1>7, <1>8 DEF Window

LEMMA TypeInit == Init => TypeOK
<1>1. Init => JobType
  BY NoJobType, AttemptWorks DEF Init, JobType, Waiters
<1>2. ASSUME Init PROVE SlotType /\ FormType
  <2>1. config.dir \in BOOLEAN /\ config.token \in AnyToken
    BY <1>2 DEF Init
  <2>2. SlotType
    BY <1>2, <2>1, Slots DEF Init, SlotType
  <2>3. FormType
    BY <1>2, Slots DEF Init, FormType
  <2>. QED BY <2>2, <2>3
<1>3. Init => ListenerType /\ Ports
  BY DEF Init, ListenerType, Ports, Waiters
<1>. QED BY <1>1, <1>2, <1>3, TypeParts

LEMMA TypeStep == TypeOK /\ LInv /\ [Next]_vars => TypeOK'
<1>. SUFFICES ASSUME TypeOK, LInv, [Next]_vars PROVE TypeOK'
  OBVIOUS
<1>1. CASE UNCHANGED vars
  BY <1>1 DEF vars, TypeOK
<1>2. CASE Next
  <2>1. ListenerType'
    BY ListenerStep DEF LInv
  <2>2. Ports'
    BY <1>2, PortStep
  <2>3. JobType' /\ SlotType' /\ FormType'
    <3>1. ASSUME NEW a \in Attempts, Attempt(a)
          PROVE  JobType' /\ SlotType' /\ FormType'
      BY <3>1, AttemptType
    <3>2. CASE Window
      BY <3>2, WindowType
    <3>3. ASSUME NEW w \in Workers, Job(w)
          PROVE  JobType' /\ SlotType' /\ FormType'
      <4>1. UNCHANGED << config, form, news >>
        BY <3>3 DEF Job, Load, Swap, Stop, ReadToken, ReadHandle, Connect,
                    ConnectFails, UnchangedUI
      <4>2. FormType'
        BY <4>1, TypeParts DEF FormType
      <4>. QED BY <3>3, <4>2, JobStepType
    <3>. QED BY <1>2, <3>1, <3>2, <3>3 DEF Next
  <2>. QED BY <2>1, <2>2, <2>3, TypeParts DEF TypeOK, JobType, SlotType,
              FormType, ListenerType, Ports, Jobs, Waiters
<1>. QED BY <1>1, <1>2

(* Every variable keeps its type; a worker is past its token only with     *)
(* one, and an attempt works exactly when it has a job.                    *)
THEOREM TypeCorrect == Spec => []TypeOK
<1>1. Init => TypeOK /\ LInv
  BY TypeInit, ListenerInit
<1>2. TypeOK /\ LInv /\ [Next]_vars => (TypeOK /\ LInv)'
  BY TypeStep, ListenerStep
<1>. QED BY <1>1, <1>2, PTL DEF Spec

(***************************************************************************)
(* The form.  Its token is the stored one, or an event is on its way.      *)
(***************************************************************************)
FormIsCurrent == form.open /\ ~Unread => form.initial = config.token

LEMMA FormStep == TypeOK /\ FormIsCurrent /\ [Next]_vars => FormIsCurrent'
<1>. SUFFICES ASSUME TypeOK, FormIsCurrent, [Next]_vars PROVE FormIsCurrent'
  OBVIOUS
<1>0. JobType /\ FormType /\ Ports
  BY TypeParts
<1>a. ASSUME UNCHANGED << config, form, news >>,
             \A a \in Attempts :
               waiter[a] \in {"saved", "working", "linked"} =>
                 waiter'[a] \in {"saved", "working", "linked"}
      PROVE  FormIsCurrent'
  BY <1>a DEF FormIsCurrent, Unread
<1>1. CASE UNCHANGED vars
  BY <1>1, <1>a DEF vars
<1>2. ASSUME NEW a \in Attempts, Attempt(a) PROVE FormIsCurrent'
  <2>2. CASE Announce(a)
    BY <1>0, <2>2 DEF Announce, FormIsCurrent, Unread, FormType
  <2>3. CASE waiter[a] \in {"waiting", "exchanging"} /\ GivesUp(a)
    BY <1>0, <1>a, <2>3 DEF GivesUp, JobType
  <2>7. CASE Start(a) \/ BindFails(a) \/ Store(a)
    BY <1>0, <1>a, <2>7 DEF Start, BindFails, Store
  <2>8. CASE Bind(a) \/ Callback(a)
    BY <1>0, <1>a, <2>8 DEF Bind, Callback, Ports, JobType
  <2>4. CASE TakeSession(a)
    <3>1. UNCHANGED << config, form, news >>
          /\ waiter[a] \in {"saved", "given up"}
          /\ waiter' = [waiter EXCEPT ![a] =
                          IF waiter[a] = "saved" THEN "working" ELSE "idle"]
      BY <2>4 DEF TakeSession
    <3>. QED BY <1>0, <1>a, <3>1 DEF JobType
  <2>5. ASSUME NEW token \in Tokens, Exchange(a, token)
        PROVE  FormIsCurrent'
    BY <1>0, <2>5 DEF Exchange, FormIsCurrent, Unread, JobType
  <2>. QED BY <1>2, <2>2, <2>3, <2>4, <2>5, <2>7, <2>8
           DEF Attempt, Refused, WasCancelled, TimesOut, ExchangeFails
<1>3. CASE Window
  <2>1. CASE Cancel
    BY <1>a, <2>1 DEF Cancel
  <2>2. CASE OpenForm
    BY <1>0, <2>2 DEF OpenForm, FormIsCurrent, FormType
  <2>6. CASE HandleLinked
    <3>1. form'.initial = config.token /\ UNCHANGED config
      BY <1>0, <2>6 DEF HandleLinked, FormType
    <3>. QED BY <3>1 DEF FormIsCurrent
  <2>3. CASE CloseForm \/ \E dir, moved, auth \in BOOLEAN :
                            SaveForm(dir, moved, auth)
    BY <2>3 DEF CloseForm, SaveForm, FormIsCurrent, NoForm
  <2>4. ASSUME NEW token \in AnyToken, EditForm(token) PROVE FormIsCurrent'
    BY <1>0, <2>4 DEF EditForm, UnchangedLink, FormIsCurrent, Unread, FormType
  <2>5. CASE SetupRebuild \/ Reconnect
    BY <1>a, <2>5 DEF SetupRebuild, Reconnect, UnchangedLink
  <2>. QED BY <1>3, <2>1, <2>2, <2>3, <2>4, <2>5, <2>6 DEF Window
<1>4. ASSUME NEW w \in Workers, Job(w) PROVE FormIsCurrent'
  <2>1. UNCHANGED << config, form, news >>
    BY <1>4 DEF Job, Load, Swap, Stop, ReadToken, ReadHandle, Connect,
                ConnectFails, UnchangedUI
  <2>2. \/ UNCHANGED waiter
        \/ waiter' = [a \in Attempts |-> IF a = w THEN "linked" ELSE waiter[a]]
    BY <1>4 DEF Job, Load, Swap, Stop, ReadToken, ReadHandle, Connect,
                ConnectFails, Finish
  <2>. QED BY <1>a, <2>1, <2>2
<1>. QED BY <1>1, <1>2, <1>3, <1>4 DEF Next

LEMMA FormKept ==
  TypeOK /\ FormIsCurrent /\ [Next]_vars =>
    [form.open /\ ~form'.open /\ form.token = form.initial /\ ~Unread =>
       config'.token = config.token]_vars
<1>. SUFFICES ASSUME TypeOK, FormIsCurrent, Next, form.open, ~form'.open,
                     form.token = form.initial, ~Unread
              PROVE  config'.token = config.token
  OBVIOUS
<1>0. form.initial = config.token /\ FormType
  BY TypeParts DEF FormIsCurrent
<1>1. ASSUME NEW a \in Attempts, Attempt(a) PROVE FALSE
  BY <1>1 DEF Attempt, Start, Bind, BindFails, Store, Callback, Refused,
              WasCancelled, TimesOut, ExchangeFails, Exchange, TakeSession,
              Announce, GivesUp
<1>2. CASE Window
  <2>1. UNCHANGED config \/ config'.token = form.token
    <3>1. ASSUME NEW dir \in BOOLEAN, NEW moved \in BOOLEAN,
                 NEW auth \in BOOLEAN, SaveForm(dir, moved, auth)
          PROVE  config'.token = form.token
      BY <3>1 DEF SaveForm
    <3>. QED BY <1>2, <3>1 DEF Window, Cancel, OpenForm, CloseForm,
               HandleLinked, EditForm, SetupRebuild, Reconnect
  <2>. QED BY <1>0, <2>1
<1>3. ASSUME NEW w \in Workers, Job(w) PROVE FALSE
  BY <1>3 DEF Job, Load, Swap, Stop, ReadToken, ReadHandle, Connect,
              ConnectFails, UnchangedUI
<1>. QED BY <1>1, <1>2, <1>3 DEF Next

(* Saving a form whose token was not edited keeps the stored token,        *)
(* whatever was linked while it was open, once it has been told.           *)
THEOREM TokenKept == Spec => TokenIsKept
<1>1. Init => TypeOK /\ LInv /\ FormIsCurrent
  BY TypeInit, ListenerInit DEF Init, FormIsCurrent, NoForm
<1>2. TypeOK /\ LInv /\ FormIsCurrent /\ [Next]_vars =>
        (TypeOK /\ LInv /\ FormIsCurrent)'
  BY TypeStep, ListenerStep, FormStep
<1>. QED BY <1>1, <1>2, FormKept, PTL DEF Spec, TokenIsKept

(***************************************************************************)
(* Credentials.  What a worker that is alone has done so far is right.     *)
(***************************************************************************)
LoneJob(w) ==
  job[w].alone =>
    /\ ~Idle(w) /\ Quiet(w) /\ job[w].refresh
    /\ job[w].step = "swap" =>
         job[w].token = config.token /\ (job[w].dir <=> config.dir)
    /\ job[w].step \in {"stop", "token", "handle", "connect"} =>
         manager = Subsystem(config.dir, config.token)
    /\ job[w].step \in {"token", "handle", "connect"} => socket = NoSocket
    /\ job[w].step \in {"handle", "connect"} => job[w].token = config.token
    /\ job[w].step = "connect" => job[w].live /\ manager.up

Lone == \A w \in Workers : LoneJob(w)

\* a step after which no job is alone but those that have just begun
LEMMA BegunLone ==
  ASSUME TypeOK, NEW w \in Workers, NEW step \in {"load", "stop"},
         NEW refresh \in BOOLEAN, refresh => step = "load",
         job' = Begun(w, step, refresh)
  PROVE  Lone'
<1>1. job \in [Workers -> Jobs] /\ step \in Steps
  BY TypeParts DEF JobType, Steps
<1>. DEFINE after == Begun(w, step, refresh)
<1>2. /\ after[w].step = step /\ after[w].refresh = refresh
      /\ after[w].alone => refresh /\ Quiet(w)
      /\ \A v \in Workers \ {w} :
           after[v].step = job[v].step /\ ~after[v].alone
  BY ONLY <1>1, BegunType, w \in Workers, refresh \in BOOLEAN
<1>3. job' = after
  OBVIOUS
<1>. HIDE DEF after
<1>4. ASSUME NEW v \in Workers \ {w} PROVE LoneJob(v)'
  BY <1>2, <1>3 DEF LoneJob
<1>5. LoneJob(w)'
  <2>. SUFFICES ASSUME after[w].alone PROVE LoneJob(w)'
    BY <1>3 DEF LoneJob
  <2>1. after[w].step = "load" /\ after[w].refresh /\ Quiet(w)
    BY <1>2
  <2>2. Quiet(w)'
    BY <1>2, <1>3, <2>1 DEF Quiet, Idle
  <2>. QED BY <1>3, <2>1, <2>2 DEF LoneJob, Idle
<1>. QED BY <1>4, <1>5 DEF Lone

LEMMA DisturbedLone ==
  ASSUME TypeOK, job' = Disturbed PROVE Lone'
BY TypeParts, DisturbedType DEF JobType, Lone, LoneJob

\* the effect of a step of w on its job, when it was alone
LEMMA JobLone ==
  ASSUME TypeOK, Lone, NEW w \in Workers, Job(w)
  PROVE  /\ Lone'
         /\ job[w].alone /\ job'[w] = NoJob /\ ~ConnectFails(w) => Wired'
         /\ \A v \in Workers \ {w} : ~job[v].alone
<1>0. JobType /\ SlotType /\ FormType
  BY TypeParts
<1>1. job[w].step # "idle" /\ UNCHANGED config
  BY DEF Job, Load, Swap, Stop, ReadToken, ReadHandle, Connect, ConnectFails,
         UnchangedUI
<1>2. \A v \in Workers \ {w} : ~job[v].alone
  BY <1>1 DEF Lone, LoneJob, Quiet, Idle
<1>. DEFINE aborted == [v \in Workers |-> [job[v] EXCEPT !.live = FALSE]]
<1>a. /\ aborted \in [Workers -> Jobs]
      /\ \A v \in Workers : /\ aborted[v].step = job[v].step
                            /\ aborted[v].alone <=> job[v].alone
                            /\ aborted[v].refresh <=> job[v].refresh
  BY <1>0 DEF JobType, Jobs
<1>. HIDE DEF aborted
<1>3. \A v \in Workers \ {w} :
        job'[v].step = job[v].step /\ ~job'[v].alone
  <2>1. \/ \E r : job' = [job EXCEPT ![w] = r]
        \/ \E r : job' = [aborted EXCEPT ![w] = r]
    BY DEF Job, Load, Swap, Stop, ReadToken, ReadHandle, Connect,
           ConnectFails, Finish, aborted
  <2>. QED BY <1>0, <1>2, <1>a, <2>1 DEF JobType
<1>b. Quiet(w) => Quiet(w)'
  BY <1>3 DEF Quiet, Idle
<1>c. ASSUME LoneJob(w)' PROVE Lone'
  BY <1>3, <1>c DEF Lone, LoneJob
<1>d. ASSUME Finish(w) PROVE job'[w] = NoJob /\ Lone'
  <2>1. job'[w] = NoJob
    BY <1>0, <1>d DEF Finish, JobType
  <2>. QED BY <1>c, <2>1, NoJobType DEF LoneJob
<1>e. job[w].alone =>
        /\ Quiet(w) /\ job[w].refresh
        /\ job[w].step = "swap" =>
             job[w].token = config.token /\ (job[w].dir <=> config.dir)
        /\ job[w].step \in {"stop", "token", "handle", "connect"} =>
             manager = Subsystem(config.dir, config.token)
        /\ job[w].step \in {"token", "handle", "connect"} => socket = NoSocket
        /\ job[w].step \in {"handle", "connect"} =>
             job[w].token = config.token
        /\ job[w].step = "connect" => job[w].live /\ manager.up
  BY DEF Lone, LoneJob
<1>f. job[w] \in Jobs /\ config.token \in AnyToken /\ config.dir \in BOOLEAN
  BY <1>0 DEF JobType, FormType
<1>. DEFINE Done == job[w].alone /\ job'[w] = NoJob /\ ~ConnectFails(w) => Wired'
<1>. SUFFICES Lone' /\ Done
  BY <1>2
<1>4. CASE Load(w)
  <2>. DEFINE mine == Edited(job[w], "swap", config.token, config.dir)
  <2>1. /\ mine.step = "swap" /\ mine.token = config.token
        /\ mine.dir <=> config.dir
        /\ mine.alone <=> job[w].alone
        /\ mine.refresh <=> job[w].refresh
    <3>1. "swap" \in Steps
      BY DEF Steps
    <3>. QED BY <1>f, <3>1, EditedJob
  <2>2. job' = [job EXCEPT ![w] = mine]
    BY <1>4 DEF Load, Edited
  <2>. HIDE DEF mine
  <2>3. job'[w] = mine
    BY <1>0, <2>2 DEF JobType
  <2>. QED BY <1>1, <1>b, <1>c, <1>e, <2>1, <2>3, NoJobType DEF LoneJob, Idle
<1>5. CASE Swap(w)
  <2>1. CASE Refreshes(w)
    <3>0. PICK no \in BOOLEAN : no = FALSE
      OBVIOUS
    <3>. DEFINE mine == Edited(aborted[w], "stop", NoToken, no)
    <3>1. /\ mine.step = "stop"
          /\ mine.alone <=> job[w].alone
          /\ mine.refresh <=> job[w].refresh
      <4>1. "stop" \in Steps /\ NoToken \in AnyToken /\ aborted[w] \in Jobs
        BY <1>a DEF Steps, AnyToken
      <4>. QED BY <1>a, <4>1, EditedJob
    <3>2. job' = [aborted EXCEPT ![w] = mine]
      BY <1>5, <2>1, <3>0 DEF Swap, Edited, aborted
    <3>. HIDE DEF mine
    <3>3. job'[w] = mine
      BY <1>a, <3>2
    <3>4. job[w].alone => manager' = Subsystem(config.dir, config.token)
      <4>1. job[w].step = "swap" /\ manager' = Subsystem(job[w].dir, job[w].token)
        BY <1>5 DEF Swap
      <4>. QED BY <1>e, <1>f, <4>1 DEF Jobs
    <3>. QED BY <1>1, <1>b, <1>c, <1>e, <3>1, <3>3, <3>4, NoJobType
             DEF LoneJob, Idle
  <2>2. CASE ~Refreshes(w)
    <3>1. job' = [aborted EXCEPT ![w] = NoJob]
      BY <1>5, <2>2 DEF Swap, aborted
    <3>2. job'[w] = NoJob /\ ~job[w].alone
      BY <1>a, <1>e, <2>2, <3>1 DEF Refreshes
    <3>. QED BY <1>c, <3>2, NoJobType DEF LoneJob
  <2>. QED BY <2>1, <2>2
<1>6. CASE Stop(w)
  <2>1. /\ job'[w].step = "token"
        /\ job'[w].alone <=> job[w].alone
        /\ job'[w].refresh <=> job[w].refresh
        /\ socket' = NoSocket /\ UNCHANGED manager /\ job[w].step = "stop"
    BY <1>0, <1>6 DEF Stop, JobType, Jobs
  <2>. QED BY <1>1, <1>b, <1>c, <1>e, <2>1, NoJobType DEF LoneJob, Idle
<1>7. CASE ReadToken(w)
  <2>0. UNCHANGED << manager, socket, config >> /\ job[w].step = "token"
    BY <1>7, <1>1 DEF ReadToken
  <2>1. CASE Configured(config.token)
    <3>1. /\ job'[w].step = "handle" /\ job'[w].token = config.token
          /\ job'[w].alone <=> job[w].alone
          /\ job'[w].refresh <=> job[w].refresh
      BY <1>0, <1>7, <2>1 DEF ReadToken, JobType, FormType, Jobs
    <3>. QED BY <1>b, <1>c, <1>e, <2>0, <3>1, NoJobType DEF LoneJob, Idle
  <2>2. CASE ~Configured(config.token)
    <3>1. Lone'
      BY <1>7, <1>d, <2>2 DEF ReadToken
    <3>2. job[w].alone => Wired'
      BY <1>e, <2>0, <2>2 DEF Wired, Connection, Configured
    <3>. QED BY <3>1, <3>2
  <2>. QED BY <2>1, <2>2
<1>8. CASE ReadHandle(w)
  <2>0. UNCHANGED << manager, socket, config >> /\ job[w].step = "handle"
    BY <1>8, <1>1 DEF ReadHandle
  <2>1. CASE manager.up
    <3>1. /\ job'[w].step = "connect" /\ job'[w].token = job[w].token
          /\ job'[w].live
          /\ job'[w].alone <=> job[w].alone
          /\ job'[w].refresh <=> job[w].refresh
      BY <1>0, <1>8, <2>1 DEF ReadHandle, JobType, Jobs
    <3>. QED BY <1>b, <1>c, <1>e, <2>0, <2>1, <3>1, NoJobType
             DEF LoneJob, Idle
  <2>2. CASE ~manager.up
    <3>1. Lone'
      BY <1>8, <1>d, <2>2 DEF ReadHandle
    <3>2. job[w].alone => Wired'
      BY <1>e, <2>0, <2>2 DEF Wired, Connection, Subsystem
    <3>. QED BY <3>1, <3>2
  <2>. QED BY <2>1, <2>2
<1>9. CASE Connect(w)
  <2>1. /\ job[w].step = "connect" /\ UNCHANGED << manager, config >>
        /\ socket' = [up |-> TRUE, token |-> job[w].token, live |-> job[w].live]
        /\ Finish(w)
    BY <1>1, <1>9 DEF Connect
  <2>2. job[w].alone => Wired'
    <3>. SUFFICES ASSUME job[w].alone PROVE Wired'
      OBVIOUS
    <3>1. /\ manager = Subsystem(config.dir, config.token) /\ manager.up
          /\ job[w].token = config.token /\ job[w].token # NoToken
          /\ job[w].live = TRUE
      BY <1>0, <1>e, <1>f, <2>1 DEF JobType, Jobs
    <3>2. config.dir
      BY <3>1 DEF Subsystem, NoManager
    <3>. QED BY <2>1, <3>1, <3>2 DEF Wired, Connection
  <2>. QED BY <1>d, <2>1, <2>2
<1>10. CASE ConnectFails(w)
  BY <1>10, <1>d DEF ConnectFails
<1>. QED BY <1>4, <1>5, <1>6, <1>7, <1>8, <1>9, <1>10 DEF Job

LEMMA AttemptLone ==
  ASSUME TypeOK, Lone, NEW a \in Attempts, Attempt(a)
  PROVE  Lone' /\ \A w \in Workers : job[w].alone => job'[w] # NoJob
<1>0. job \in [Workers -> Jobs]
  BY TypeParts DEF JobType
<1>1. CASE UNCHANGED << config, manager, socket, job >>
  BY <1>1, NoJobType DEF Lone, LoneJob, Quiet, Idle
<1>2. CASE job' = Disturbed
  BY <1>0, <1>2, DisturbedLone, DisturbedType, NoJobType
     DEF Lone, LoneJob, Idle
<1>3. CASE job' = Begun(a, "load", TRUE)
  <2>1. PICK yes \in BOOLEAN : yes = TRUE
    OBVIOUS
  <2>2. job' = Begun(a, "load", yes) /\ "load" \in Steps
    BY <1>3, <2>1 DEF Steps
  <2>3. Lone'
    BY <2>2, BegunLone, AttemptWorks
  <2>4. \A w \in Workers : job[w].alone => job'[w].step # "idle"
    BY <1>0, <2>2, BegunType, AttemptWorks DEF Lone, LoneJob, Idle
  <2>. QED BY <2>3, <2>4, NoJobType
<1>. QED BY <1>1, <1>2, <1>3
         DEF Attempt, Start, Bind, BindFails, Store, Callback, Refused,
             WasCancelled, TimesOut, ExchangeFails, Exchange, TakeSession,
             Announce, GivesUp

LEMMA WindowLone ==
  ASSUME TypeOK, Lone, Window
  PROVE  Lone' /\ \A w \in Workers : job[w].alone => job'[w] # NoJob
<1>0. job \in [Workers -> Jobs]
  BY TypeParts DEF JobType
<1>1. CASE UNCHANGED << config, manager, socket, job >>
  BY <1>1, NoJobType DEF Lone, LoneJob, Quiet, Idle
<1>2. CASE job' = Disturbed
  BY <1>0, <1>2, DisturbedLone, DisturbedType, NoJobType
     DEF Lone, LoneJob, Idle
<1>3. ASSUME NEW w \in Workers, NEW step \in {"load", "stop"},
             NEW refresh \in BOOLEAN, refresh => step = "load",
             job' = Begun(w, step, refresh)
      PROVE  Lone' /\ \A v \in Workers : job[v].alone => job'[v] # NoJob
  <2>1. \A v \in Workers : job[v].alone => job'[v].step # "idle"
    <3>1. step \in Steps /\ step # "idle"
      BY DEF Steps
    <3>. QED BY <1>0, <1>3, <3>1, BegunType DEF Lone, LoneJob, Idle
  <2>. QED BY <1>3, <2>1, BegunLone, NoJobType
<1>4. CASE SetupRebuild \/ Reconnect
  <2>1. PICK no \in BOOLEAN : no = FALSE
    OBVIOUS
  <2>2. \/ job' = Begun("setup", "load", no)
        \/ job' = Begun("pill", "stop", no)
    BY <1>4, <2>1 DEF SetupRebuild, Reconnect
  <2>. QED BY <1>3, <2>1, <2>2 DEF Workers
<1>5. ASSUME NEW dir \in BOOLEAN, NEW moved \in BOOLEAN, NEW auth \in BOOLEAN,
             SaveForm(dir, moved, auth)
      PROVE  Lone' /\ \A w \in Workers : job[w].alone => job'[w] # NoJob
  BY <1>2, <1>3, <1>5 DEF SaveForm, Workers
<1>. QED BY <1>1, <1>4, <1>5
         DEF Window, Cancel, OpenForm, CloseForm, HandleLinked, EditForm,
             UnchangedLink

\* WireStep is what CredentialsTakeEffect says of one step.
WireStep ==
  \A w \in Attempts \cup {"settings"} :
    job[w].alone /\ job'[w] = NoJob /\ ~ConnectFails(w) => Wired'

LEMMA LoneStep ==
  TypeOK /\ Lone /\ [Next]_vars => Lone' /\ [WireStep]_vars
<1>. SUFFICES ASSUME TypeOK, Lone, [Next]_vars
              PROVE  Lone' /\ [WireStep]_vars
  OBVIOUS
<1>0. \A w \in Attempts \cup {"settings"} : w \in Workers
  BY DEF Workers
<1>1. CASE UNCHANGED vars
  BY <1>1 DEF vars, Lone, LoneJob, Quiet, Idle
<1>2. ASSUME NEW a \in Attempts, Attempt(a)
      PROVE  Lone' /\ WireStep
  BY <1>0, <1>2, AttemptLone DEF WireStep
<1>3. CASE Window
  BY <1>0, <1>3, WindowLone DEF WireStep
<1>4. ASSUME NEW w \in Workers, Job(w)
      PROVE  Lone' /\ WireStep
  BY <1>0, <1>4, JobLone DEF WireStep
<1>. QED BY <1>1, <1>2, <1>3, <1>4 DEF Next

LEMMA LoneInit == Init => Lone
BY NoJobType DEF Init, Lone, LoneJob

(* A link, or a save of other credentials, that no other worker or write   *)
(* disturbs leaves the subsystem and the socket on the new credentials,    *)
(* whatever was running before it.                                         *)
THEOREM CredentialsTaken == Spec => CredentialsTakeEffect
<1>1. Init => TypeOK /\ LInv /\ Lone
  BY TypeInit, ListenerInit, LoneInit
<1>2. TypeOK /\ LInv /\ Lone /\ [Next]_vars =>
        (TypeOK /\ LInv /\ Lone)' /\ [WireStep]_vars
  BY TypeStep, ListenerStep, LoneStep
<1>3. Spec => [][WireStep]_vars
  BY <1>1, <1>2, PTL DEF Spec
<1>. QED BY <1>3, PTL DEF CredentialsTakeEffect, WireStep

(***************************************************************************)
(* The sockets (FyiSocket): types                                          *)
(***************************************************************************)
Statuses == {"disconnected", "connecting", "connected"}
Places   == {"none", "wait", "connect", "loop", "install", "done"}
Links    == {"none", "up", "silent", "reset"}

FlagType ==
  /\ told \in [Sockets -> BOOLEAN] /\ pinged \in [Sockets -> BOOLEAN]
  /\ rang \in [Sockets -> BOOLEAN] /\ unseen \in [Sockets -> BOOLEAN]
  /\ refused \in [Sockets -> BOOLEAN] /\ busy \in [Sockets -> BOOLEAN]

CallType ==
  /\ slot \in Sockets \cup {NoHandle} /\ clean \in Sockets \cup {NoHandle}
  /\ taken \subseteq Sockets /\ spawned \subseteq Sockets
  /\ owed \in Nat /\ stopped \in Nat

ClientType ==
  /\ CallType /\ pill \in Statuses
  /\ pc \in [Sockets -> Places] /\ link \in [Sockets -> Links]
  /\ inbox \in [Sockets -> Seq(Kinds)]
  /\ status \in [Sockets -> Statuses]
  /\ check \in [Sockets -> {"ping", "pong"}]
  /\ FlagType

LEMMA NoHandleIsNone == NoHandle \notin Sockets
BY DEF NoHandle, Sockets

LEMMA StatusType ==
  ASSUME ClientType, NEW s \in Sockets, NEW new \in Statuses,
         SetStatus(s, new)
  PROVE  /\ status' \in [Sockets -> Statuses] /\ status'[s] = new
         /\ unseen' \in [Sockets -> BOOLEAN] /\ unseen'[s]
         /\ \A t \in Sockets \ {s} :
              status'[t] = status[t] /\ unseen'[t] = unseen[t]
BY DEF ClientType, FlagType, SetStatus

LEMMA DroppedTypes ==
  ASSUME ClientType, NEW s \in Sockets, DroppedStream(s)
  PROVE  /\ link' \in [Sockets -> Links]
         /\ inbox' \in [Sockets -> Seq(Kinds)]
         /\ check' \in [Sockets -> {"ping", "pong"}]
         /\ pinged' \in [Sockets -> BOOLEAN]
         /\ rang' \in [Sockets -> BOOLEAN]
         /\ busy' \in [Sockets -> BOOLEAN]
         /\ link'[s] = "none" /\ inbox'[s] = << >> /\ check'[s] = "ping"
         /\ ~pinged'[s] /\ ~rang'[s] /\ ~busy'[s]
         /\ \A t \in Sockets \ {s} :
              /\ link'[t] = link[t] /\ inbox'[t] = inbox[t]
              /\ check'[t] = check[t] /\ pinged'[t] = pinged[t]
              /\ rang'[t] = rang[t] /\ busy'[t] = busy[t]
<1>1. << >> \in Seq(Kinds)
  OBVIOUS
<1>. QED BY <1>1 DEF ClientType, FlagType, Links, DroppedStream

\* what is true of every socket but s is that it stays as it is
OthersStay(s) ==
  \A t \in Sockets \ {s} :
    /\ pc'[t] = pc[t] /\ told'[t] = told[t] /\ link'[t] = link[t]
    /\ inbox'[t] = inbox[t] /\ pinged'[t] = pinged[t] /\ check'[t] = check[t]
    /\ rang'[t] = rang[t] /\ status'[t] = status[t] /\ unseen'[t] = unseen[t]
    /\ refused'[t] = refused[t] /\ busy'[t] = busy[t]

\* the slot and what the calls on it set
SlotStays == UNCHANGED << slot, taken, owed, stopped, spawned, clean, told >>

LEMMA DisconnectsStep ==
  ASSUME ClientType, NEW s \in Sockets, Disconnects(s), CommandsIdle
  PROVE  /\ ClientType' /\ OthersStay(s) /\ SlotStays /\ UNCHANGED pill
         /\ pc'[s] = "wait" /\ unseen'[s]
<1>1. SetStatus(s, "disconnected") /\ "disconnected" \in Statuses
  BY DEF Disconnects, Statuses
<1>2. DroppedStream(s)
  BY DEF Disconnects
<1>3. /\ pc' = [pc EXCEPT ![s] = "wait"]
      /\ UNCHANGED << slot, taken, owed, stopped, spawned, clean, pill, told,
                      refused >>
  BY DEF Disconnects, CommandsIdle, commandVars
<1>4. /\ pc' \in [Sockets -> Places] /\ pc'[s] = "wait"
      /\ \A t \in Sockets \ {s} : pc'[t] = pc[t]
  BY <1>3 DEF ClientType, Places
<1>5. ClientType'
  BY <1>1, <1>2, <1>3, <1>4, StatusType, DroppedTypes DEF ClientType, CallType, FlagType
<1>6. OthersStay(s)
  BY <1>1, <1>2, <1>3, <1>4, StatusType, DroppedTypes DEF OthersStay
<1>. QED BY <1>1, <1>3, <1>4, <1>5, <1>6, StatusType DEF SlotStays

LEMMA ReturnsStep ==
  ASSUME ClientType, NEW s \in Sockets, Returns(s), CommandsIdle,
         refused' \in [Sockets -> BOOLEAN],
         \A t \in Sockets \ {s} : refused'[t] = refused[t]
  PROVE  /\ ClientType' /\ OthersStay(s) /\ SlotStays /\ UNCHANGED pill
         /\ pc'[s] = "done" /\ unseen'[s]
<1>1. SetStatus(s, "disconnected") /\ "disconnected" \in Statuses
  BY DEF Returns, Statuses
<1>2. DroppedStream(s)
  BY DEF Returns
<1>3. pc' = [pc EXCEPT ![s] = "done"] /\ UNCHANGED << slot, taken, owed,
                                                      stopped, spawned, clean,
                                                      pill, told >>
  BY DEF Returns, CommandsIdle, commandVars
<1>4. /\ pc' \in [Sockets -> Places] /\ pc'[s] = "done"
      /\ \A t \in Sockets \ {s} : pc'[t] = pc[t]
  BY <1>3 DEF ClientType, Places
<1>5. ClientType'
  BY <1>1, <1>2, <1>3, <1>4, StatusType, DroppedTypes DEF ClientType, CallType, FlagType
<1>6. OthersStay(s)
  BY <1>1, <1>2, <1>3, <1>4, StatusType, DroppedTypes DEF OthersStay
<1>. QED BY <1>1, <1>3, <1>4, <1>5, <1>6, StatusType DEF SlotStays

(***************************************************************************)
(* One socket.  `Local` is what its connection and its place have to do    *)
(* with each other; `Live`, that a site that is there has answered, or is  *)
(* about to, unless an install has kept the loop from reading.             *)
(***************************************************************************)
HasPong(q) == \E i \in 1..Len(q) : q[i] = "pong"
OnePong(q) == \A i, j \in 1..Len(q) : q[i] = "pong" /\ q[j] = "pong" => i = j

Local(s) ==
  /\ pc[s] \notin {"loop", "install"} =>
       link[s] = "none" /\ inbox[s] = << >> /\ check[s] = "ping"
  /\ rang[s] \/ busy[s] \/ pinged[s] => check[s] = "pong"
  /\ HasPong(inbox[s]) => check[s] = "pong" /\ ~pinged[s]
  /\ OnePong(inbox[s])

Live(s) ==
  /\ check[s] = "pong" /\ link[s] = "up" => pinged[s] \/ HasPong(inbox[s])
  /\ pc[s] = "install" /\ check[s] = "pong" => busy[s]
  /\ rang[s] /\ link[s] = "up" => busy[s]

LEMMA PongArrives ==
  ASSUME NEW q \in Seq(Kinds), NEW kind \in Kinds
  PROVE  /\ Append(q, kind) \in Seq(Kinds)
         /\ Len(Append(q, kind)) = Len(q) + 1
         /\ HasPong(Append(q, kind)) <=> HasPong(q) \/ kind = "pong"
         /\ OnePong(q) /\ ~(HasPong(q) /\ kind = "pong") =>
              OnePong(Append(q, kind))
<1>1. /\ Append(q, kind) \in Seq(Kinds) /\ Len(q) \in Nat
      /\ Len(Append(q, kind)) = Len(q) + 1
      /\ Append(q, kind)[Len(q) + 1] = kind
      /\ \A i \in 1..Len(q) : Append(q, kind)[i] = q[i]
  OBVIOUS
<1>2. \A i \in 1..(Len(q) + 1) : i \in 1..Len(q) \/ i = Len(q) + 1
  BY <1>1
<1>3. \A i \in 1..Len(q) : i \in 1..(Len(q) + 1)
  BY <1>1
<1>4. Len(q) + 1 \in 1..(Len(q) + 1)
  BY <1>1
<1>5. HasPong(Append(q, kind)) <=> HasPong(q) \/ kind = "pong"
  BY <1>1, <1>2, <1>3, <1>4 DEF HasPong
<1>6. OnePong(q) /\ ~(HasPong(q) /\ kind = "pong") => OnePong(Append(q, kind))
  BY <1>1, <1>2 DEF HasPong, OnePong
<1>. QED BY <1>1, <1>5, <1>6

LEMMA PongIsBehind ==
  ASSUME NEW q \in Seq(Kinds), q # << >>
  PROVE  /\ Head(q) \in Kinds /\ Tail(q) \in Seq(Kinds)
         /\ Len(Tail(q)) = Len(q) - 1
         /\ HasPong(q) => Head(q) = "pong" \/ HasPong(Tail(q))
         /\ HasPong(Tail(q)) => HasPong(q)
         /\ OnePong(q) => OnePong(Tail(q))
         /\ OnePong(q) /\ Head(q) = "pong" => ~HasPong(Tail(q))
<1>1. /\ Head(q) \in Kinds /\ Tail(q) \in Seq(Kinds)
      /\ Len(q) \in Nat \ {0} /\ Len(Tail(q)) = Len(q) - 1 /\ Head(q) = q[1]
  OBVIOUS
<1>2. \A i \in 1..Len(Tail(q)) : i + 1 \in 1..Len(q) /\ Tail(q)[i] = q[i + 1]
  BY <1>1
<1>3. ASSUME HasPong(q), Head(q) # "pong" PROVE HasPong(Tail(q))
  <2>1. PICK i \in 1..Len(q) : q[i] = "pong"
    BY <1>3 DEF HasPong
  <2>2. i # 1 /\ i - 1 \in 1..Len(Tail(q)) /\ (i - 1) + 1 = i
    BY <1>1, <1>3, <2>1
  <2>. QED BY <1>2, <2>1, <2>2 DEF HasPong
<1>4. HasPong(Tail(q)) => HasPong(q)
  BY <1>2 DEF HasPong
<1>5. ASSUME OnePong(q), NEW i \in 1..Len(Tail(q)), NEW j \in 1..Len(Tail(q)),
             Tail(q)[i] = "pong", Tail(q)[j] = "pong"
      PROVE  i = j
  <2>1. i + 1 = j + 1
    BY <1>2, <1>5 DEF OnePong
  <2>. QED BY <2>1
<1>6. ASSUME OnePong(q), Head(q) = "pong", NEW i \in 1..Len(Tail(q)),
             Tail(q)[i] = "pong"
      PROVE  FALSE
  <2>1. 1 \in 1..Len(q)
    BY <1>1
  <2>2. i + 1 = 1
    BY <1>1, <1>2, <1>6, <2>1 DEF OnePong
  <2>. QED BY <2>2
<1>. QED BY <1>1, <1>3, <1>4, <1>5, <1>6 DEF OnePong, HasPong

LEMMA NoPongInNone == ~HasPong(<< >>) /\ OnePong(<< >>)
BY DEF HasPong, OnePong

\* what every step of a socket has to show
LocalStep(s) ==
  /\ ClientType' /\ OthersStay(s) /\ SlotStays
  /\ Local(s)' /\ Live(s)'

LEMMA EndedIsLocal ==
  ASSUME ClientType, NEW s \in Sockets, DroppedStream(s),
         pc'[s] \in {"wait", "done"}
  PROVE  Local(s)' /\ Live(s)'
BY DroppedTypes, NoPongInNone DEF Local, Live

LEMMA DisconnectsLocal ==
  ASSUME ClientType, NEW s \in Sockets, Disconnects(s), CommandsIdle
  PROVE  LocalStep(s)
BY DisconnectsStep, EndedIsLocal DEF LocalStep, Disconnects

LEMMA AbortLocal ==
  ASSUME ClientType, NEW s \in Sockets, Abort(s)
  PROVE  LocalStep(s)
<1>1. /\ DroppedStream(s) /\ pc' = [pc EXCEPT ![s] = "done"]
      /\ UNCHANGED << slot, taken, owed, stopped, spawned, clean, pill, told,
                      status, unseen, refused >>
  BY DEF Abort, commandVars
<1>2. /\ pc' \in [Sockets -> Places] /\ pc'[s] = "done"
      /\ \A t \in Sockets \ {s} : pc'[t] = pc[t]
  BY <1>1 DEF ClientType, Places
<1>3. ClientType'
  BY <1>1, <1>2, DroppedTypes DEF ClientType, CallType, FlagType
<1>4. OthersStay(s)
  BY <1>1, <1>2, DroppedTypes DEF OthersStay
<1>. QED BY <1>1, <1>2, <1>3, <1>4, EndedIsLocal DEF LocalStep, SlotStays

LEMMA EmitLocal ==
  ASSUME ClientType, NEW s \in Sockets, Local(s), Live(s), Emit(s)
  PROVE  LocalStep(s)
<1>1. /\ unseen' = [unseen EXCEPT ![s] = FALSE] /\ pill' = status[s]
      /\ UNCHANGED << slot, taken, owed, stopped, spawned, clean, pc, told,
                      link, inbox, pinged, check, rang, busy, status,
                      refused >>
  BY DEF Emit, commandVars, connection
<1>2. ClientType'
  BY <1>1 DEF ClientType, CallType, FlagType
<1>3. OthersStay(s)
  BY <1>1 DEF OthersStay, ClientType, FlagType
<1>. QED BY <1>1, <1>2, <1>3 DEF LocalStep, SlotStays, Local, Live

LEMMA RetryLocal ==
  ASSUME ClientType, NEW s \in Sockets, Local(s), Live(s),
         Leave(s) \/ Retry(s) \/ ConnectStep(s)
  PROVE  LocalStep(s)
<1>1. CASE Leave(s)
  <2>1. /\ Returns(s) /\ CommandsIdle /\ UNCHANGED refused
    BY <1>1 DEF Leave
  <2>2. refused' \in [Sockets -> BOOLEAN]
    BY <2>1 DEF ClientType, CallType, FlagType
  <2>. QED BY <2>1, <2>2, ReturnsStep, EndedIsLocal DEF LocalStep, Returns
<1>2. CASE Refuse(s)
  <2>1. /\ Returns(s) /\ CommandsIdle
        /\ refused' = [refused EXCEPT ![s] = TRUE]
    BY <1>2 DEF Refuse
  <2>2. /\ refused' \in [Sockets -> BOOLEAN]
        /\ \A t \in Sockets \ {s} : refused'[t] = refused[t]
    BY <2>1 DEF ClientType, CallType, FlagType
  <2>. QED BY <2>1, <2>2, ReturnsStep, EndedIsLocal DEF LocalStep, Returns
<1>3. CASE UpgradeFails(s)
  BY <1>3, DisconnectsLocal DEF UpgradeFails
<1>4. CASE Retry(s)
  <2>1. /\ SetStatus(s, "connecting") /\ "connecting" \in Statuses
        /\ pc[s] = "wait" /\ pc' = [pc EXCEPT ![s] = "connect"]
        /\ UNCHANGED << slot, taken, owed, stopped, spawned, clean, pill,
                        told, link, inbox, pinged, check, rang, busy,
                        refused >>
    BY <1>4 DEF Retry, CommandsIdle, commandVars, connection,
                Statuses
  <2>2. ClientType'
    BY <2>1, StatusType DEF ClientType, CallType, FlagType, Places
  <2>3. OthersStay(s)
    BY <2>1, StatusType DEF OthersStay, ClientType
  <2>4. pc'[s] = "connect"
    BY <2>1 DEF ClientType
  <2>. QED BY <2>1, <2>2, <2>3, <2>4 DEF LocalStep, SlotStays, Local, Live
<1>5. CASE Upgrade(s)
  <2>1. /\ SetStatus(s, "connected") /\ "connected" \in Statuses
        /\ pc[s] = "connect" /\ pc' = [pc EXCEPT ![s] = "loop"]
        /\ link' = [link EXCEPT ![s] = "up"]
        /\ UNCHANGED << slot, taken, owed, stopped, spawned, clean, pill,
                        told, inbox, pinged, check, rang, busy, refused >>
    BY <1>5 DEF Upgrade, CommandsIdle, commandVars, Statuses
  <2>2. ClientType'
    BY <2>1, StatusType DEF ClientType, CallType, FlagType, Places, Links
  <2>3. OthersStay(s)
    BY <2>1, StatusType DEF OthersStay, ClientType
  <2>4. pc'[s] = "loop"
    BY <2>1 DEF ClientType
  <2>. QED BY <2>1, <2>2, <2>3, <2>4 DEF LocalStep, SlotStays, Local, Live
<1>. QED BY <1>1, <1>2, <1>3, <1>4, <1>5 DEF ConnectStep

LEMMA TakenIsLocal ==
  ASSUME ClientType, NEW s \in Sockets, Local(s), Live(s),
         pc[s] = "loop", inbox[s] # << >>, Handle(s, Head(inbox[s])),
         CommandsIdle
  PROVE  LocalStep(s)
<1>. DEFINE kind == Head(inbox[s])
<1>a. /\ inbox[s] \in Seq(Kinds) /\ kind \in Kinds
      /\ Tail(inbox[s]) \in Seq(Kinds)
      /\ HasPong(inbox[s]) => kind = "pong" \/ HasPong(Tail(inbox[s]))
      /\ HasPong(Tail(inbox[s])) => HasPong(inbox[s])
      /\ OnePong(Tail(inbox[s]))
      /\ kind = "pong" => HasPong(inbox[s]) /\ ~HasPong(Tail(inbox[s]))
  <2>1. inbox[s] \in Seq(Kinds) /\ OnePong(inbox[s])
    BY DEF ClientType, Local
  <2>2. kind = inbox[s][1] /\ 1 \in 1..Len(inbox[s])
    BY <2>1
  <2>. QED BY <2>1, <2>2, PongIsBehind DEF HasPong
<1>b. UNCHANGED << slot, taken, owed, stopped, spawned, clean, pill, told >>
  BY DEF CommandsIdle, commandVars
<1>1. CASE Disconnects(s)
  BY <1>1, DisconnectsLocal
<1>2. CASE /\ kind = "pong" /\ inbox' = [inbox EXCEPT ![s] = Tail(@)]
           /\ Ponged(s)
           /\ UNCHANGED << pc, link, pinged, status, unseen, refused >>
  <2>1. ClientType'
    BY <1>a, <1>b, <1>2 DEF ClientType, CallType, FlagType, Ponged
  <2>2. OthersStay(s)
    BY <1>b, <1>2 DEF OthersStay, ClientType, FlagType, Ponged
  <2>3. /\ check'[s] = "ping" /\ ~rang'[s] /\ ~busy'[s]
        /\ pc'[s] = "loop" /\ pinged'[s] = pinged[s]
    BY <1>2 DEF ClientType, CallType, FlagType, Ponged
  <2>4. ~pinged[s] /\ inbox'[s] = Tail(inbox[s])
    BY <1>a, <1>2 DEF Local, ClientType
  <2>. QED BY <1>a, <1>b, <1>2, <2>1, <2>2, <2>3, <2>4
           DEF LocalStep, SlotStays, Local, Live
<1>3. CASE /\ kind = "install" /\ inbox' = [inbox EXCEPT ![s] = Tail(@)]
           /\ pc' = [pc EXCEPT ![s] = "install"]
           /\ busy' = [busy EXCEPT ![s] = check[s] = "pong"]
           /\ UNCHANGED << link, pinged, check, rang, status, unseen, refused >>
  <2>1. ClientType'
    BY <1>a, <1>b, <1>3 DEF ClientType, CallType, FlagType, Places
  <2>2. OthersStay(s)
    BY <1>b, <1>3 DEF OthersStay, ClientType, FlagType
  <2>3. /\ busy'[s] <=> check[s] = "pong"
        /\ pc'[s] = "install" /\ inbox'[s] = Tail(inbox[s])
    BY <1>3 DEF ClientType, CallType, FlagType
  <2>. QED BY <1>a, <1>b, <1>3, <2>1, <2>2, <2>3
           DEF LocalStep, SlotStays, Local, Live
<1>4. CASE /\ kind = "hello" /\ inbox' = [inbox EXCEPT ![s] = Tail(@)]
           /\ UNCHANGED << pc, link, pinged, check, rang, busy, status, unseen,
                           refused >>
  <2>1. ClientType'
    BY <1>a, <1>b, <1>4 DEF ClientType, CallType, FlagType
  <2>2. OthersStay(s)
    BY <1>b, <1>4 DEF OthersStay, ClientType
  <2>3. inbox'[s] = Tail(inbox[s])
    BY <1>4 DEF ClientType
  <2>. QED BY <1>a, <1>b, <1>4, <2>1, <2>2, <2>3
           DEF LocalStep, SlotStays, Local, Live
<1>. QED BY <1>1, <1>2, <1>3, <1>4 DEF Handle

LEMMA LoopLocal ==
  ASSUME ClientType, NEW s \in Sockets, Local(s), Live(s), LoopStep(s)
  PROVE  LocalStep(s)
<1>1. CASE Close(s) \/ PongTimeout(s) \/ ReceiveError(s)
  BY <1>1, DisconnectsLocal DEF Close, PongTimeout, ReceiveError
<1>2. CASE Receive(s)
  BY <1>2, TakenIsLocal DEF Receive
<1>3. CASE SendPing(s)
  <2>1. CASE Disconnects(s)
    BY <1>3, <2>1, DisconnectsLocal DEF SendPing
  <2>2. CASE ~Disconnects(s)
    <3>1. /\ pc[s] = "loop" /\ check[s] = "ping"
          /\ pinged' = [pinged EXCEPT ![s] = TRUE]
          /\ check' = [check EXCEPT ![s] = "pong"]
          /\ UNCHANGED << slot, taken, owed, stopped, spawned, clean, pill,
                          told, pc, link, inbox, rang, busy, status, unseen,
                          refused >>
      BY <1>3, <2>2 DEF SendPing, CommandsIdle, commandVars
    <3>2. ClientType'
      BY <3>1 DEF ClientType, CallType, FlagType
    <3>3. OthersStay(s)
      BY <3>1 DEF OthersStay, ClientType, FlagType
    <3>4. pinged'[s] /\ check'[s] = "pong"
      BY <3>1 DEF ClientType, CallType, FlagType
    <3>. QED BY <3>1, <3>2, <3>3, <3>4 DEF LocalStep, SlotStays, Local, Live
  <2>. QED BY <2>1, <2>2
<1>. QED BY <1>1, <1>2, <1>3 DEF LoopStep

LEMMA InstallLocal ==
  ASSUME ClientType, NEW s \in Sockets, Local(s), Live(s),
         NEW ok \in BOOLEAN, InstallEnds(s, ok)
  PROVE  LocalStep(s)
<1>1. CASE ok /\ Broken(s)
  BY <1>1, DisconnectsLocal DEF InstallEnds
<1>2. CASE ~(ok /\ Broken(s))
  <2>1. /\ pc[s] = "install" /\ pc' = [pc EXCEPT ![s] = "loop"]
        /\ UNCHANGED << slot, taken, owed, stopped, spawned, clean, pill,
                        told, link, inbox, pinged, check, rang, busy, status,
                        unseen, refused >>
    BY <1>2 DEF InstallEnds, CommandsIdle, commandVars,
                connection
  <2>2. ClientType'
    BY <2>1 DEF ClientType, CallType, FlagType, Places
  <2>3. OthersStay(s)
    BY <2>1 DEF OthersStay, ClientType
  <2>4. pc'[s] = "loop"
    BY <2>1 DEF ClientType
  <2>. QED BY <2>1, <2>2, <2>3, <2>4 DEF LocalStep, SlotStays, Local, Live
<1>. QED BY <1>1, <1>2

LEMMA TimerLocal ==
  ASSUME ClientType, NEW s \in Sockets, Local(s), Live(s), TimerEnds(s)
  PROVE  LocalStep(s)
<1>1. /\ pc[s] \in {"loop", "install"} /\ check[s] = "pong" /\ InTime(s)
      /\ rang' = [rang EXCEPT ![s] = TRUE]
      /\ UNCHANGED << slot, taken, owed, stopped, spawned, clean, pill, pc,
                      told, link, inbox, pinged, check, busy, status, unseen,
                      refused >>
  BY DEF TimerEnds, commandVars
<1>2. ClientType'
  BY <1>1 DEF ClientType, CallType, FlagType
<1>3. OthersStay(s)
  BY <1>1 DEF OthersStay, ClientType, FlagType
<1>4. link[s] = "up" => busy[s]
  <2>1. ASSUME link[s] = "up" PROVE HasPong(inbox[s]) /\ pc[s] = "install"
    BY <1>1, <2>1, NoPongInNone DEF Live, InTime
  <2>. QED BY <1>1, <2>1 DEF Live
<1>. QED BY <1>1, <1>2, <1>3, <1>4 DEF LocalStep, SlotStays, Local, Live, ClientType

LEMMA ArrivesLocal ==
  ASSUME ClientType, NEW s \in Sockets, Local(s), Live(s),
         SiteAnswers(s) \/ \E kind \in Pushes : SitePushes(s, kind)
  PROVE  LocalStep(s)
<1>a. inbox[s] \in Seq(Kinds)
  BY DEF ClientType
<1>1. CASE SiteAnswers(s)
  <2>1. /\ pinged[s] /\ pinged' = [pinged EXCEPT ![s] = FALSE] /\ link[s] = "up"
        /\ inbox' = [inbox EXCEPT ![s] = Append(@, "pong")]
        /\ UNCHANGED << slot, taken, owed, stopped, spawned, clean, pill, pc,
                        told, link, check, rang, busy, status, unseen,
                        refused >>
    BY <1>1 DEF SiteAnswers, Arrives, commandVars
  <2>2. "pong" \in Kinds
    BY DEF Kinds
  <2>3. /\ inbox'[s] = Append(inbox[s], "pong") /\ ~pinged'[s]
        /\ inbox'[s] \in Seq(Kinds)
        /\ HasPong(inbox'[s]) /\ OnePong(inbox'[s])
    BY <1>a, <2>1, <2>2, PongArrives DEF ClientType, CallType, FlagType, Local
  <2>4. ClientType'
    BY <2>1, <2>3 DEF ClientType, CallType, FlagType
  <2>5. OthersStay(s)
    BY <2>1 DEF OthersStay, ClientType, FlagType
  <2>. QED BY <2>1, <2>3, <2>4, <2>5 DEF LocalStep, SlotStays, Local, Live
<1>2. ASSUME NEW kind \in Pushes, SitePushes(s, kind)
      PROVE  LocalStep(s)
  <2>1. /\ link[s] = "up"
        /\ inbox' = [inbox EXCEPT ![s] = Append(@, kind)]
        /\ link' = [link EXCEPT ![s] = IF kind = "close" THEN "silent" ELSE @]
        /\ UNCHANGED << slot, taken, owed, stopped, spawned, clean, pill, pc,
                        told, pinged, check, rang, busy, status, unseen,
                        refused >>
    BY <1>2 DEF SitePushes, Arrives, commandVars
  <2>2. kind \in Kinds /\ kind # "pong"
    BY DEF Kinds, Pushes
  <2>3. /\ inbox'[s] = Append(inbox[s], kind)
        /\ inbox'[s] \in Seq(Kinds)
        /\ HasPong(inbox'[s]) <=> HasPong(inbox[s])
        /\ OnePong(inbox'[s])
    BY <1>a, <2>1, <2>2, PongArrives DEF ClientType, Local
  <2>4. ClientType'
    BY <2>1, <2>3 DEF ClientType, CallType, FlagType, Links
  <2>5. OthersStay(s)
    BY <2>1 DEF OthersStay, ClientType, FlagType
  <2>6. link'[s] = "up" => link[s] = "up"
    BY <2>1
  <2>. QED BY <2>1, <2>3, <2>4, <2>5, <2>6 DEF LocalStep, SlotStays, Local, Live
<1>. QED BY <1>1, <1>2

LEMMA BreaksLocal ==
  ASSUME ClientType, NEW s \in Sockets, Local(s), Live(s),
         NEW how \in {"silent", "reset"}, LinkBreaks(s, how)
  PROVE  LocalStep(s)
<1>1. /\ link[s] \in {"up", "silent"} /\ link' = [link EXCEPT ![s] = how]
      /\ UNCHANGED << slot, taken, owed, stopped, spawned, clean, pill, pc,
                      told, inbox, pinged, check, rang, busy, status, unseen,
                      refused >>
  BY DEF LinkBreaks, commandVars
<1>2. ClientType'
  BY <1>1 DEF ClientType, CallType, FlagType, Links
<1>3. OthersStay(s)
  BY <1>1 DEF OthersStay, ClientType
<1>4. link'[s] = how
  BY <1>1 DEF ClientType
<1>. QED BY <1>1, <1>2, <1>3, <1>4 DEF LocalStep, SlotStays, Local, Live

LEMMA SocketLocal ==
  ASSUME ClientType, NEW s \in Sockets, Local(s), Live(s), SocketStep(s)
  PROVE  LocalStep(s)
BY AbortLocal, EmitLocal, RetryLocal, LoopLocal, TimerLocal, InstallLocal,
   ArrivesLocal, BreaksLocal DEF SocketStep, SiteStep

(***************************************************************************)
(* All sockets.  `SlotInv`: a handle is in one place, and a socket that    *)
(* runs and has not been told to stop has one.  `ShownInv`: if no earlier  *)
(* watcher was left and no other call under way when a socket was spawned, *)
(* and no call came since, no watcher has come and none is about to emit,  *)
(* and the pill is what its own has seen.                                  *)
(***************************************************************************)
Handled(s) == s = slot \/ s \in taken \/ s \in spawned

SlotInv ==
  /\ taken \cap spawned = {} /\ slot \notin taken \cup spawned
  /\ \A s \in Sockets :
       /\ Handled(s) => pc[s] # "none" /\ ~told[s]
       /\ told[s] => pc[s] # "none"
       /\ Running(s) /\ ~told[s] => Handled(s)

ShownInv ==
  clean # NoHandle =>
    /\ taken = {} /\ owed = 0 /\ stopped = 0 /\ spawned \subseteq {clean}
    /\ \A s \in Sockets \ {clean} : ~Watched(s)
    /\ ~unseen[clean] => pill = status[clean]

LocalInv == \A s \in Sockets : Local(s) /\ Live(s)

ClientInv == ClientType /\ LocalInv /\ SlotInv /\ ShownInv

LEMMA OnlyWatchedMoves ==
  ASSUME ClientType, NEW s \in Sockets, Local(s), SocketStep(s)
  PROVE  /\ Watched(s)
         /\ pc'[s] = pc[s] \/ (Running(s) /\ pc'[s] # "none")
<1>a. ASSUME Running(s), pc' = pc \/ \E p \in Places \ {"none"} :
                                            pc' = [pc EXCEPT ![s] = p]
      PROVE  /\ Watched(s)
             /\ pc'[s] = pc[s] \/ (Running(s) /\ pc'[s] # "none")
  BY <1>a DEF ClientType, Watched
<1>b. pc[s] \in Places
  BY DEF ClientType
<1>1. CASE Abort(s)
  BY <1>1, <1>a DEF Abort, Places
<1>2. CASE Emit(s)
  BY <1>2 DEF Emit, Watched
<1>3. CASE Leave(s) \/ Retry(s) \/ ConnectStep(s)
  BY <1>3, <1>a DEF Leave, Retry, ConnectStep, Upgrade,
     UpgradeFails, Refuse, Returns, Disconnects, Places,
     Running
<1>4. CASE LoopStep(s)
  BY <1>4, <1>a DEF LoopStep, Close, SendPing, PongTimeout,
     Receive, Handle, ReceiveError, Disconnects, Places,
     Running
<1>5. CASE TimerEnds(s) \/ \E ok \in BOOLEAN : InstallEnds(s, ok)
  BY <1>5, <1>a DEF TimerEnds, InstallEnds, Disconnects, Places,
     Running
<1>6. CASE SiteStep(s)
  <2>1. link[s] # "none" /\ UNCHANGED pc
    BY <1>6 DEF SiteStep, SiteAnswers, SitePushes, Arrives,
                LinkBreaks
  <2>2. pc[s] \in {"loop", "install"}
    BY <2>1 DEF Local
  <2>. QED BY <2>1, <2>2, <1>a DEF Running
<1>. QED BY <1>1, <1>2, <1>3, <1>4, <1>5, <1>6 DEF SocketStep

LEMMA OnlyEmitsShow ==
  ASSUME ClientType, NEW s \in Sockets, SocketStep(s)
  PROVE  \/ unseen'[s]
         \/ pill' = status'[s]
         \/ UNCHANGED << pill, status, unseen >>
<1>. DEFINE P == \/ unseen'[s] \/ pill' = status'[s]
                 \/ UNCHANGED << pill, status, unseen >>
<1>a. (\E new : SetStatus(s, new)) => unseen'[s]
  BY DEF SetStatus, ClientType, FlagType
<1>1. CASE Abort(s) \/ Emit(s)
  BY <1>1 DEF Abort, Emit
<1>2. CASE Leave(s) \/ Retry(s) \/ ConnectStep(s)
  BY <1>2, <1>a DEF Leave, Retry, ConnectStep, Upgrade,
     UpgradeFails, Refuse, Returns, Disconnects
<1>3. CASE LoopStep(s)
  BY <1>3, <1>a DEF LoopStep, Close, SendPing, PongTimeout,
     Receive, Handle, ReceiveError, Disconnects,
     CommandsIdle
<1>4. CASE TimerEnds(s) \/ \E ok \in BOOLEAN : InstallEnds(s, ok)
  BY <1>4, <1>a DEF TimerEnds, InstallEnds, Disconnects,
     CommandsIdle
<1>5. CASE SiteStep(s)
  BY <1>5 DEF SiteStep, SiteAnswers, SitePushes, Arrives,
              LinkBreaks
<1>. QED BY <1>1, <1>2, <1>3, <1>4, <1>5 DEF SocketStep

LEMMA SocketStepInv ==
  ASSUME ClientInv, NEW s \in Sockets, SocketStep(s)
  PROVE  ClientInv'
<1>a. ClientType /\ LocalInv /\ SlotInv /\ ShownInv /\ Local(s) /\ Live(s)
  BY DEF ClientInv, LocalInv
<1>1. LocalStep(s)
  BY <1>a, SocketLocal
<1>2. \A t \in Sockets \ {s} : Local(t)' /\ Live(t)'
  BY <1>a, <1>1 DEF LocalStep, OthersStay, LocalInv, Local, Live
<1>3. LocalInv'
  BY <1>1, <1>2 DEF LocalStep, LocalInv
<1>4. /\ Watched(s)
      /\ pc'[s] = pc[s] \/ (Running(s) /\ pc'[s] # "none")
  BY <1>a, OnlyWatchedMoves
<1>5. SlotInv'
  <2>1. UNCHANGED << slot, taken, spawned, told >>
    BY <1>1 DEF LocalStep, SlotStays
  <2>2. \A t \in Sockets \ {s} : pc'[t] = pc[t]
    BY <1>1 DEF LocalStep, OthersStay
  <2>. QED BY <1>a, <1>4, <2>1, <2>2 DEF SlotInv, Handled, Running
<1>6. ShownInv'
  <2>. SUFFICES ASSUME clean' # NoHandle
                PROVE  /\ taken' = {} /\ owed' = 0 /\ stopped' = 0
                       /\ spawned' \subseteq {clean'}
                       /\ \A t \in Sockets \ {clean'} : ~Watched(t)'
                       /\ ~unseen'[clean'] => pill' = status'[clean']
    BY DEF ShownInv
  <2>1. /\ UNCHANGED << taken, owed, stopped, spawned, clean >>
        /\ clean # NoHandle
    BY <1>1 DEF LocalStep, SlotStays
  <2>2. s = clean
    BY <1>a, <1>4, <2>1 DEF ShownInv
  <2>3. \A t \in Sockets \ {clean} : ~Watched(t)'
    BY <1>a, <1>1, <2>1, <2>2 DEF ShownInv, LocalStep, OthersStay, Watched,
                                  Running
  <2>. QED BY <1>a, <2>1, <2>2, <2>3, OnlyEmitsShow DEF ShownInv
<1>. QED BY <1>1, <1>3, <1>5, <1>6 DEF ClientInv, LocalStep

LEMMA StopInv == ASSUME ClientInv, StopClient PROVE ClientInv'
<1>a. ClientType /\ LocalInv /\ SlotInv
  BY DEF ClientInv
<1>1. /\ slot' = NoHandle /\ clean' = NoHandle
      /\ \/ slot = NoHandle /\ owed' = owed + 1 /\ taken' = taken
         \/ slot # NoHandle /\ taken' = taken \cup {slot} /\ owed' = owed
      /\ UNCHANGED << stopped, spawned, pill, pc, told, link, inbox, pinged,
                      check, rang, busy, status, unseen, refused >>
  BY DEF StopClient, connection
<1>2. ClientType'
  BY <1>a, <1>1 DEF ClientType, CallType, FlagType
<1>3. LocalInv'
  BY <1>a, <1>1 DEF LocalInv, Local, Live
<1>4. SlotInv'
  <2>1. NoHandle \notin taken' \cup spawned'
    BY <1>2, NoHandleIsNone DEF ClientType, CallType
  <2>2. taken' \cap spawned' = {}
    BY <1>a, <1>1 DEF SlotInv
  <2>3. \A s \in Sockets : Handled(s)' <=> Handled(s)
    BY <1>a, <1>1, NoHandleIsNone DEF Handled
  <2>. QED BY <1>a, <1>1, <2>1, <2>2, <2>3 DEF SlotInv, Running
<1>. QED BY <1>1, <1>2, <1>3, <1>4 DEF ClientInv, ShownInv

LEMMA TellInv ==
  ASSUME ClientInv, NEW s \in Sockets, StopTaken(s) PROVE ClientInv'
<1>a. ClientType /\ LocalInv /\ SlotInv /\ ShownInv
  BY DEF ClientInv
<1>1. /\ s \in taken /\ taken' = taken \ {s} /\ owed' = owed + 1
      /\ told' = [told EXCEPT ![s] = TRUE]
      /\ UNCHANGED << slot, stopped, spawned, clean, pill, pc, link, inbox,
                      pinged, check, rang, busy, status, unseen, refused >>
  BY DEF StopTaken, ShutDown, connection
<1>2. ClientType'
  BY <1>a, <1>1 DEF ClientType, CallType, FlagType
<1>3. LocalInv'
  BY <1>a, <1>1 DEF LocalInv, Local, Live
<1>4. SlotInv'
  <2>1. told'[s] /\ \A t \in Sockets \ {s} : told'[t] = told[t]
    BY <1>a, <1>1 DEF ClientType, FlagType
  <2>2. pc[s] # "none" /\ s # slot /\ s \notin spawned
    BY <1>a, <1>1 DEF SlotInv, Handled
  <2>. QED BY <1>a, <1>1, <2>1, <2>2 DEF SlotInv, Handled, Running
<1>5. clean' = NoHandle
  BY <1>a, <1>1 DEF ShownInv
<1>. QED BY <1>2, <1>3, <1>4, <1>5 DEF ClientInv, ShownInv

LEMMA CallEndsInv ==
  ASSUME ClientInv, EmitStopped \/ StartsNothing PROVE ClientInv'
<1>a. ClientType /\ LocalInv /\ SlotInv /\ ShownInv
  BY DEF ClientInv
<1>1. /\ owed > 0 \/ stopped > 0
      /\ owed' \in Nat /\ stopped' \in Nat /\ pill' \in Statuses
      /\ UNCHANGED << slot, taken, spawned, clean, pc, told, link, inbox,
                      pinged, check, rang, busy, status, unseen, refused >>
  BY <1>a DEF EmitStopped, StartsNothing, connection, Statuses, ClientType,
              CallType
<1>2. ClientType'
  BY <1>a, <1>1 DEF ClientType, CallType, FlagType
<1>3. LocalInv' /\ SlotInv'
  BY <1>a, <1>1 DEF LocalInv, Local, Live, SlotInv, Handled, Running
<1>4. clean' = NoHandle
  BY <1>a, <1>1 DEF ShownInv, ClientType, CallType
<1>. QED BY <1>2, <1>3, <1>4 DEF ClientInv, ShownInv

\* A call that is the only one under way is past its `stop`.
LEMMA OnlyCall ==
  ASSUME CallType, Calls = 1, stopped > 0
  PROVE  taken = {} /\ owed = 0 /\ stopped = 1 /\ spawned = {}
<1>1. IsFiniteSet(Sockets)
  BY BoundsAssumption, FS_Interval DEF Sockets
<1>2. IsFiniteSet(taken) /\ IsFiniteSet(spawned)
  BY <1>1, FS_Subset DEF CallType
<1>3. Cardinality(taken) \in Nat /\ Cardinality(spawned) \in Nat
  BY <1>2, FS_CardinalityType
<1>4. /\ Cardinality(taken) = 0 /\ owed = 0 /\ stopped = 1
      /\ Cardinality(spawned) = 0
  BY <1>3 DEF CallType, Calls
<1>. QED BY <1>2, <1>4, FS_EmptySet

LEMMA SpawnInv ==
  ASSUME ClientInv, NEW s \in Sockets, SpawnClient(s)
  PROVE  ClientInv' /\ pc[s] = "none"
<1>a. ClientType /\ LocalInv /\ SlotInv /\ CallType
  BY DEF ClientInv, ClientType
<1>1. /\ stopped > 0 /\ stopped' = stopped - 1 /\ spawned' = spawned \cup {s}
      /\ pc' = [pc EXCEPT ![s] = "wait"]
      /\ SetStatus(s, "connecting") /\ "connecting" \in Statuses
      /\ clean' \in {s, NoHandle}
      /\ UNCHANGED << slot, taken, owed, pill, told, link, inbox, pinged, check,
                      rang, busy, refused >>
  BY DEF SpawnClient, connection, Statuses
<1>2. pc[s] = "none"
  <2>1. s < s <=> pc[s] # "none"
    BY DEF SpawnClient
  <2>2. s \in Nat /\ ~(s < s)
    BY DEF Sockets
  <2>. QED BY <2>1, <2>2
<1>3. ~Handled(s) /\ ~told[s]
  BY <1>a, <1>2 DEF SlotInv
<1>4. /\ pc' \in [Sockets -> Places] /\ pc'[s] = "wait"
      /\ \A t \in Sockets \ {s} : pc'[t] = pc[t]
  BY <1>a, <1>1 DEF ClientType, Places
<1>5. ClientType'
  BY <1>a, <1>1, <1>4, StatusType DEF ClientType, CallType, FlagType
<1>6. LocalInv'
  BY <1>a, <1>1, <1>2, <1>4 DEF LocalInv, Local, Live
<1>7. SlotInv'
  <2>1. taken' \cap spawned' = {} /\ slot' \notin taken' \cup spawned'
    BY <1>a, <1>1, <1>3 DEF SlotInv, Handled
  <2>2. \A t \in Sockets : Handled(t)' <=> Handled(t) \/ t = s
    BY <1>1 DEF Handled
  <2>. QED BY <1>a, <1>1, <1>3, <1>4, <2>1, <2>2 DEF SlotInv, Running
<1>8. ShownInv'
  <2>. SUFFICES ASSUME clean' # NoHandle PROVE ShownInv'
    BY DEF ShownInv
  <2>1. clean' = s /\ Calls = 1 /\ \A t \in Sockets : ~Watched(t)
    BY DEF SpawnClient
  <2>2. taken = {} /\ owed = 0 /\ stopped = 1 /\ spawned = {}
    BY <1>a, <1>1, <2>1, OnlyCall
  <2>3. \A t \in Sockets \ {s} : ~Watched(t)'
    BY <1>a, <1>1, <1>4, <2>1, StatusType DEF Watched, Running
  <2>4. unseen'[s]
    BY <1>a, <1>1, StatusType
  <2>. QED BY <1>1, <2>1, <2>2, <2>3, <2>4 DEF ShownInv
<1>. QED BY <1>2, <1>5, <1>6, <1>7, <1>8 DEF ClientInv

LEMMA PlaceInv ==
  ASSUME ClientInv, NEW s \in Sockets, PlaceClient(s) PROVE ClientInv'
<1>a. ClientType /\ LocalInv /\ SlotInv /\ ShownInv
  BY DEF ClientInv
<1>1. /\ s \in spawned /\ spawned' = spawned \ {s} /\ slot' = s
      /\ told' = [t \in Sockets |-> told[t] \/ t = slot]
      /\ UNCHANGED << taken, owed, stopped, clean, pill, pc, link, inbox,
                      pinged, check, rang, busy, status, unseen, refused >>
  BY DEF PlaceClient, connection
<1>2. ClientType'
  BY <1>a, <1>1 DEF ClientType, CallType, FlagType
<1>3. LocalInv'
  BY <1>a, <1>1 DEF LocalInv, Local, Live
<1>4. SlotInv'
  <2>1. taken' \cap spawned' = {} /\ slot' \notin taken' \cup spawned'
    BY <1>a, <1>1 DEF SlotInv
  <2>2. \A t \in Sockets : told'[t] <=> told[t] \/ t = slot
    BY <1>a, <1>1 DEF ClientType, FlagType
  <2>3. s # slot /\ slot \notin taken \cup spawned
    BY <1>a, <1>1 DEF SlotInv
  <2>4. \A t \in Sockets : Handled(t)' <=> Handled(t) /\ t # slot
    BY <1>1, <2>3 DEF Handled
  <2>5. \A t \in Sockets : t = slot => Handled(t)
    BY DEF Handled
  <2>. QED BY <1>a, <1>1, <2>1, <2>2, <2>4, <2>5 DEF SlotInv, Running
<1>5. ShownInv'
  BY <1>a, <1>1 DEF ShownInv, Watched, Running
<1>. QED BY <1>2, <1>3, <1>4, <1>5 DEF ClientInv

LEMMA CallStepInv == ASSUME ClientInv, CallStep PROVE ClientInv'
BY StopInv, TellInv, CallEndsInv, SpawnInv, PlaceInv DEF CallStep

LEMMA ClientInvInit ==
  ASSUME ClientInit PROVE ClientInv
<1>1. 1 \in Sockets
  BY BoundsAssumption DEF Sockets
<1>2. << >> \in Seq(Kinds)
  OBVIOUS
<1>3. ClientType
  BY <1>1, <1>2 DEF ClientInit, ClientType, CallType, FlagType, Places, Links,
                    Statuses
<1>4. LocalInv
  BY NoPongInNone DEF ClientInit, LocalInv, Local, Live
<1>5. SlotInv
  BY <1>1 DEF ClientInit, SlotInv, Handled, Running
<1>6. ShownInv
  BY <1>1, NoHandleIsNone DEF ClientInit, ShownInv, Watched, Running
<1>. QED BY <1>3, <1>4, <1>5, <1>6 DEF ClientInv

LEMMA ClientStays ==
  ASSUME UNCHANGED clientVars
  PROVE  /\ UNCHANGED << slot, taken, owed, stopped, spawned, clean, pill, pc,
                         told, link, inbox, pinged, check, rang, status, unseen,
                         refused, busy >>
         /\ ClientInv <=> ClientInv'
<1>1. UNCHANGED << slot, taken, owed, stopped, spawned, clean, pill, pc, told,
                   link, inbox, pinged, check, rang, status, unseen, refused,
                   busy >>
  BY DEF clientVars, commandVars, connection
<1>. QED BY <1>1 DEF ClientInv, ClientType, CallType, FlagType, LocalInv, Local,
                     Live, SlotInv, Handled, ShownInv, Watched, Running

LEMMA ClientInvStep == ClientInv /\ [ClientNext]_clientVars => ClientInv'
BY SocketStepInv, CallStepInv, ClientStays DEF ClientNext

LEMMA ClientAlways ==
  ImplementsSocket => []ClientInv
BY ClientInvInit, ClientInvStep, PTL DEF ImplementsSocket

LEMMA ClientSpecSafety == ClientSpec => ImplementsSocket
BY PTL DEF ClientSpec, ImplementsSocket

(* Once its watcher has caught up, the pill shows where the socket in the  *)
(* slot stands, if no earlier watcher was left and no other call under way *)
(* when it was spawned, and no call came since (fyi_ws.rs spawn_subsystem, *)
(* stop).                                                                  *)
THEOREM StatusShown ==
  ClientSpec => []StatusIsShown
<1>1. ClientInv => StatusIsShown
  BY NoHandleIsNone DEF ClientInv, ShownInv, StatusIsShown
<1>. QED BY <1>1, ClientAlways, ClientSpecSafety, PTL

(* A connection whose site answers is given up for dead only after an      *)
(* install kept the loop from the answer (web_socket.rs handle_messages).  *)
THEOREM LiveSiteKept ==
  ClientSpec => LiveSiteIsKept
<1>1. ClientInv =>
        [\A s \in Sockets :
           PongTimeout(s) => link[s] # "up" \/ busy[s]]_clientVars
  BY DEF ClientInv, LocalInv, Live, PongTimeout
<1>. QED BY <1>1, ClientAlways, ClientSpecSafety, PTL DEF LiveSiteIsKept

LEMMA OnlyToldOrRefused ==
  ASSUME ClientInv, NEW s \in Sockets, NEW t \in Sockets,
         SocketStep(t), pc[s] # "done", pc'[s] = "done"
  PROVE  refused'[s] \/ told[s]
<1>a. ClientType /\ LocalStep(t)
  BY SocketLocal DEF ClientInv, LocalInv
<1>b. s = t
  BY <1>a DEF LocalStep, OthersStay
<1>. DEFINE P == refused'[s] \/ told[s]
<1>c. ASSUME UNCHANGED pc PROVE P
  BY <1>c
<1>d. ASSUME Disconnects(s) PROVE P
  BY <1>a, <1>d DEF Disconnects, ClientType
<1>1. CASE Abort(t) \/ Emit(t) \/ Leave(t)
  BY <1>1, <1>b, <1>c DEF Abort, Emit, Leave
<1>2. CASE Retry(t) \/ Upgrade(t)
  BY <1>2, <1>a, <1>b DEF Retry, Upgrade, ClientType
<1>3. CASE UpgradeFails(t)
  BY <1>3, <1>b, <1>d DEF UpgradeFails
<1>4. CASE Refuse(t)
  BY <1>4, <1>a, <1>b DEF Refuse, ClientType, FlagType
<1>5. CASE LoopStep(t)
  <2>1. \/ Disconnects(s) \/ UNCHANGED pc
        \/ pc' = [pc EXCEPT ![s] = "install"]
    BY <1>5, <1>b DEF LoopStep, Close, SendPing, PongTimeout,
       Receive, Handle, ReceiveError
  <2>. QED BY <2>1, <1>a, <1>c, <1>d DEF ClientType
<1>6. CASE TimerEnds(t) \/ \E ok \in BOOLEAN : InstallEnds(t, ok)
  BY <1>6, <1>a, <1>b, <1>c, <1>d DEF TimerEnds, InstallEnds, ClientType
<1>7. CASE SiteStep(t)
  BY <1>7, <1>c DEF SiteStep, SiteAnswers, SitePushes, Arrives,
                    LinkBreaks
<1>. QED BY <1>1, <1>2, <1>3, <1>4, <1>5, <1>6, <1>7
         DEF SocketStep, ConnectStep

(* A socket gives up only when it was told to or the site refused it, and  *)
(* tries again after whatever else ends a connection (web_socket.rs        *)
(* as_backoff_kind, backoff.rs wait_to_retry).                             *)
THEOREM RefusalEnds ==
  ClientSpec => OnlyRefusalEnds
<1>. DEFINE A == \A s \in Sockets :
                   pc[s] # "done" /\ pc'[s] = "done" => refused'[s] \/ told[s]
<1>1. ASSUME ClientInv, [ClientNext]_clientVars PROVE [A]_clientVars
  <2>1. CASE UNCHANGED clientVars
    BY <2>1
  <2>2. ASSUME NEW t \in Sockets, SpawnClient(t) PROVE A
    BY <1>1, <2>2 DEF SpawnClient, ClientInv, ClientType
  <2>3. CASE CallStep
    <3>1. UNCHANGED pc \/ \E t \in Sockets : SpawnClient(t)
      BY <2>3 DEF CallStep, StopClient, EmitStopped, StartsNothing, StopTaken,
         PlaceClient
    <3>. QED BY <3>1, <2>2
  <2>4. ASSUME NEW t \in Sockets, SocketStep(t) PROVE A
    BY <1>1, <2>4, OnlyToldOrRefused
  <2>. QED BY <1>1, <2>1, <2>2, <2>3, <2>4 DEF ClientNext
<1>. QED BY <1>1, ClientAlways, ClientSpecSafety, PTL DEF OnlyRefusalEnds,
            ImplementsSocket

InboxInv == \A s \in Sockets : Len(inbox[s]) <= MaxInbox

LEMMA InboxNext ==
  ASSUME ClientInv, InboxInv, [ClientNext]_clientVars
  PROVE  InboxInv'
<1>a. /\ ClientType /\ MaxInbox \in Nat
      /\ \A s \in Sockets : inbox[s] \in Seq(Kinds)
  BY BoundsAssumption DEF ClientInv, ClientType
<1>b. Len(<< >>) <= MaxInbox
  BY <1>a
<1>1. CASE UNCHANGED inbox
  BY <1>1 DEF InboxInv
<1>2. ASSUME NEW s \in Sockets, DroppedStream(s) PROVE InboxInv'
  BY <1>2, <1>a, <1>b, DroppedTypes DEF InboxInv
<1>3. ASSUME NEW s \in Sockets, inbox[s] # << >>,
             inbox' = [inbox EXCEPT ![s] = Tail(@)]
      PROVE  InboxInv'
  <2>1. Len(Tail(inbox[s])) <= Len(inbox[s]) /\ Len(inbox[s]) \in Nat
    BY <1>3, <1>a
  <2>2. Len(Tail(inbox[s])) <= MaxInbox
    BY <2>1, <1>a, PongIsBehind, <1>3 DEF InboxInv
  <2>. QED BY <1>3, <1>a, <2>2 DEF InboxInv, ClientType
<1>4. ASSUME NEW s \in Sockets, NEW kind \in Kinds, Arrives(s, kind)
      PROVE  InboxInv'
  <2>1. Len(Append(inbox[s], kind)) <= MaxInbox
    BY <1>4, <1>a DEF Arrives
  <2>. QED BY <1>4, <1>a, <2>1 DEF InboxInv, ClientType, Arrives
<1>5. ASSUME NEW s \in Sockets, SocketStep(s) PROVE InboxInv'
  <2>1. \/ UNCHANGED inbox \/ DroppedStream(s)
        \/ inbox[s] # << >> /\ inbox' = [inbox EXCEPT ![s] = Tail(@)]
        \/ \E kind \in Kinds : Arrives(s, kind)
    <3>1. CASE Abort(s) \/ Emit(s) \/ Leave(s) \/ Retry(s)
      BY <3>1 DEF Abort, Emit, Leave, Retry, Returns,
                  connection
    <3>2. CASE ConnectStep(s)
      BY <3>2 DEF ConnectStep, Upgrade, UpgradeFails, Refuse,
                  Returns, Disconnects
    <3>3. CASE LoopStep(s)
      BY <3>3 DEF LoopStep, Close, SendPing, PongTimeout,
         Receive, Handle, ReceiveError, Disconnects
    <3>4. CASE TimerEnds(s) \/ \E ok \in BOOLEAN : InstallEnds(s, ok)
      BY <3>4 DEF TimerEnds, InstallEnds, Disconnects,
                  connection
    <3>5. CASE SiteStep(s)
      BY <3>5 DEF SiteStep, SiteAnswers, SitePushes, LinkBreaks,
                  Kinds
    <3>. QED BY <1>5, <3>1, <3>2, <3>3, <3>4, <3>5 DEF SocketStep
  <2>. QED BY <2>1, <1>1, <1>2, <1>3, <1>4
<1>6. CASE CallStep
  BY <1>6, <1>1 DEF CallStep, StopClient, EmitStopped, StartsNothing, StopTaken,
     SpawnClient, PlaceClient, connection
<1>7. CASE UNCHANGED clientVars
  BY <1>7, <1>1 DEF clientVars, connection
<1>. QED BY <1>5, <1>6, <1>7 DEF ClientNext

(* Type correctness for any number of sockets and any room in the inbox:   *)
(* every connection starts with an empty stream and a fresh check, and a   *)
(* handle is in one place and its socket was started and not told to stop. *)
THEOREM SocketTypes ==
  ClientSpec => []ClientTypeOK
<1>1. ClientInv /\ InboxInv => ClientTypeOK
  <2>. SUFFICES ASSUME ClientInv, InboxInv PROVE ClientTypeOK
    OBVIOUS
  <2>1. \A s \in Sockets :
          s \in {slot} \cup taken \cup spawned => pc[s] # "none" /\ ~told[s]
    BY DEF ClientInv, SlotInv, Handled
  <2>. QED BY <2>1 DEF ClientInv, ClientType, CallType, FlagType, Places, Links,
                Statuses, InboxInv, LocalInv, Local, SlotInv, ClientTypeOK
<1>2. ClientInit => InboxInv
  BY BoundsAssumption DEF ClientInit, InboxInv
<1>3. ClientInv /\ InboxInv /\ [ClientNext]_clientVars => InboxInv'
  BY InboxNext
<1>. QED BY <1>1, <1>2, <1>3, ClientAlways, ClientSpecSafety, PTL DEF ImplementsSocket

(***************************************************************************)
(* The composition (AccountSocket).  `HandsInv`: a handle that is in no    *)
(* slot is in the hands of a worker, which is where AccountLink has it;    *)
(* `GivenInv`: and AccountLink knows the token of what is in the slot, or  *)
(* about to be.                                                            *)
(***************************************************************************)
HandsType ==
  /\ holds \in [Workers -> Sockets \cup {NoHandle}]
  /\ owes \in [Workers -> BOOLEAN]

Hands(w, s, step) == holds[w] = s /\ job[w].step = step

HandsInv ==
  /\ \A w \in Workers :
       holds[w] # NoHandle =>
         \/ job[w].step = "token" /\ holds[w] \in taken
         \/ job[w].step = "connect" /\ holds[w] \in spawned
  /\ \A v, w \in Workers : holds[v] = holds[w] /\ holds[w] # NoHandle => v = w
  /\ \A s \in taken : \E w \in Workers : Hands(w, s, "token")
  /\ \A s \in spawned : \E w \in Workers : Hands(w, s, "connect")

GivenInv ==
  /\ given \in [Sockets -> AnyToken]
  /\ socket.up <=> slot # NoHandle
  /\ slot # NoHandle => given[slot] = socket.token
  /\ \A w \in Workers :
       job[w].step = "connect" /\ holds[w] # NoHandle =>
         given[holds[w]] = job[w].token

LEMMA BothIsEither ==
  ASSUME HandsType, ClientInv, [BothNext]_bothVars
  PROVE  [Next]_vars /\ [ClientNext]_clientVars
<1>1. CASE UNCHANGED bothVars
  BY <1>1 DEF bothVars
<1>2. ASSUME NEW w \in Workers, Refresh(w)
      PROVE  [Next]_vars /\ [ClientNext]_clientVars
  <2>1. CASE StopSocket(w)
    BY <2>1 DEF StopSocket, Next, Job, ClientNext, CallStep
  <2>2. CASE TellSocket(w)
    <3>1. holds[w] \in Sockets
      BY <2>2, NoHandleIsNone DEF TellSocket, HandsType
    <3>. QED BY <2>2, <3>1 DEF TellSocket, ClientNext, CallStep
  <2>3. CASE EmitSocket(w)
    BY <2>3 DEF EmitSocket, ClientNext, CallStep
  <2>4. CASE LookFor(w)
    BY <2>4 DEF LookFor, Next, Job, ClientNext, CallStep
  <2>5. CASE StartSocket(w)
    <3>1. holds[w] \in Sockets \cup {NoHandle} /\ holds[w] \in spawned
      BY <2>5 DEF StartSocket, HandsType, PlaceClient
    <3>2. holds[w] \in Sockets
      BY <3>1, NoHandleIsNone DEF ClientInv, ClientType, CallType
    <3>. QED BY <2>5, <3>2 DEF StartSocket, Next, Job, ClientNext, CallStep
  <2>6. ASSUME NEW s \in Sockets, SpawnSocket(w, s)
        PROVE  UNCHANGED vars /\ ClientNext
    BY <2>6 DEF SpawnSocket, ClientNext, CallStep
  <2>. QED BY <1>2, <2>1, <2>2, <2>3, <2>4, <2>5, <2>6 DEF Refresh
<1>4. CASE AppStep
  BY <1>4 DEF AppStep, Next, Job
<1>5. CASE ClientStep
  BY <1>5 DEF ClientStep, ClientNext
<1>. QED BY <1>1, <1>2, <1>4, <1>5 DEF BothNext

AccountInv == TypeOK /\ LInv /\ Lone

LEMMA AccountAlways == ImplementsAccount => []AccountInv /\ [][WireStep]_vars
<1>1. Init => AccountInv
  BY TypeInit, ListenerInit, LoneInit DEF AccountInv
<1>2. AccountInv /\ [Next]_vars => AccountInv' /\ [WireStep]_vars
  BY TypeStep, ListenerStep, LoneStep DEF AccountInv
<1>. QED BY <1>1, <1>2, PTL DEF ImplementsAccount

LEMMA HandsInit == ASSUME BothInit PROVE HandsType /\ HandsInv /\ GivenInv
<1>1. TypeOK /\ ClientInv
  BY TypeInit, ClientInvInit DEF BothInit
<1>2. slot \in Sockets \cup {NoHandle} /\ socket.token \in AnyToken
  BY <1>1, TypeParts DEF SlotType, ClientInv, ClientType, CallType
<1>3. NoToken \in AnyToken
  BY DEF AnyToken
<1>4. taken = {} /\ spawned = {}
  BY DEF BothInit, ClientInit
<1>. QED BY <1>2, <1>3, <1>4 DEF BothInit, HandsType, HandsInv, GivenInv

\* What is not a worker's own step leaves the jobs, or begins one.
LEMMA JobsBegin ==
  ASSUME TypeOK, Window \/ \E a \in Attempts : Attempt(a)
  PROVE  \/ job' = job \/ job' = Disturbed
         \/ \E w \in Workers, step \in {"load", "stop"}, refresh \in BOOLEAN :
              Idle(w) /\ job' = Begun(w, step, refresh)
<1>. DEFINE P == \/ job' = job \/ job' = Disturbed
                 \/ \E w \in Workers, step \in {"load", "stop"},
                       refresh \in BOOLEAN :
                      Idle(w) /\ job' = Begun(w, step, refresh)
<1>0. /\ \A w \in {"settings", "setup", "pill"} : w \in Workers
      /\ \A a \in Attempts : waiter[a] = "saved" => Idle(a)
  BY TypeParts DEF Workers, JobType, Idle
<1>1. ASSUME NEW a \in Attempts, Attempt(a) PROVE P
  <2>1. CASE TakeSession(a)
    <3>1. job' = job \/ (Idle(a) /\ job' = Begun(a, "load", TRUE))
      BY <1>0, <2>1 DEF TakeSession
    <3>. QED BY <3>1, AttemptWorks
  <2>2. CASE ~TakeSession(a)
    <3>1. job' = job \/ job' = Disturbed
      BY <1>1, <2>2 DEF Attempt, Start, Bind, BindFails, Store, Callback,
         Refused, WasCancelled, TimesOut, ExchangeFails, Exchange, Announce,
         GivesUp
    <3>. QED BY <3>1
  <2>. QED BY <2>1, <2>2
<1>2. CASE Window
  <2>1. ASSUME NEW dir \in BOOLEAN, NEW moved \in BOOLEAN, NEW auth \in BOOLEAN,
               SaveForm(dir, moved, auth)
        PROVE  P
    BY <1>0, <2>1 DEF SaveForm
  <2>2. CASE SetupRebuild \/ Reconnect
    BY <1>0, <2>2 DEF SetupRebuild, Reconnect
  <2>. QED BY <1>2, <2>1, <2>2 DEF Window, Cancel, OpenForm, CloseForm,
         HandleLinked, EditForm
<1>. QED BY <1>1, <1>2

LEMMA BegunToken ==
  ASSUME job \in [Workers -> Jobs]
  PROVE  /\ \A v \in Workers : Disturbed[v].token = job[v].token
         /\ \A w \in Workers, step \in {"load", "stop"}, refresh \in BOOLEAN :
              \A v \in Workers \ {w} :
                Begun(w, step, refresh)[v].token = job[v].token
BY DEF Disturbed, Begun, Jobs

LEMMA SwapMoves ==
  ASSUME job \in [Workers -> Jobs], NEW w \in Workers, Swap(w)
  PROVE  /\ job[w].step = "swap" /\ job'[w].step \in {"stop", "idle"}
         /\ \A v \in Workers \ {w} :
              job'[v].step = job[v].step /\ job'[v].token = job[v].token
<1>. DEFINE ab == [v \in Workers |-> [job[v] EXCEPT !.live = FALSE]]
<1>1. /\ ab \in [Workers -> Jobs]
      /\ \A v \in Workers :
           ab[v].step = job[v].step /\ ab[v].token = job[v].token
  BY DEF Jobs
<1>2. \/ job' = [ab EXCEPT ![w].step = "stop", ![w].token = NoToken,
                          ![w].dir = FALSE]
      \/ job' = [ab EXCEPT ![w] = NoJob]
  BY DEF Swap
<1>. HIDE DEF ab
<1>3. \A v \in Workers \ {w} : job'[v] = ab[v]
  BY <1>1, <1>2
<1>4. job'[w].step \in {"stop", "idle"}
  BY <1>1, <1>2, NoJobType DEF Jobs
<1>. QED BY <1>1, <1>3, <1>4 DEF Swap

InCall == {"token", "connect"}

\* no worker that is in a call on the slot is moved by another
LEMMA CallsAreKept ==
  ASSUME TypeOK, AppStep, NEW v \in Workers
  PROVE  \/ job'[v].step = job[v].step /\ job'[v].token = job[v].token
         \/ job[v].step \notin InCall /\ job'[v].step \notin InCall
<1>0. job \in [Workers -> Jobs] /\ {"load", "stop"} \subseteq Steps
  BY TypeParts DEF JobType, Steps
<1>1. CASE Window \/ \E a \in Attempts : Attempt(a)
  <2>1. CASE job' = job \/ job' = Disturbed
    BY <1>0, <2>1, DisturbedType, BegunToken
  <2>2. ASSUME NEW w \in Workers, NEW step \in {"load", "stop"},
               NEW refresh \in BOOLEAN,
               Idle(w), job' = Begun(w, step, refresh)
        PROVE  \/ job'[v].step = job[v].step /\ job'[v].token = job[v].token
               \/ job[v].step \notin InCall /\ job'[v].step \notin InCall
    <3>1. step \in Steps
      BY <1>0
    <3>2. CASE v = w
      BY <1>0, <2>2, <3>1, <3>2, BegunType DEF Idle, InCall
    <3>3. CASE v # w
      BY <1>0, <2>2, <3>1, <3>3, BegunType, BegunToken
    <3>. QED BY <3>2, <3>3
  <2>. QED BY <1>1, <2>1, <2>2, JobsBegin
<1>2. ASSUME NEW w \in Workers, Load(w)
      PROVE  \/ job'[v].step = job[v].step /\ job'[v].token = job[v].token
             \/ job[v].step \notin InCall /\ job'[v].step \notin InCall
  <2>1. CASE v = w
    BY <1>0, <1>2, <2>1 DEF Load, InCall, Jobs
  <2>2. CASE v # w
    BY <1>0, <1>2, <2>2 DEF Load
  <2>. QED BY <2>1, <2>2
<1>3. ASSUME NEW w \in Workers, Swap(w)
      PROVE  \/ job'[v].step = job[v].step /\ job'[v].token = job[v].token
             \/ job[v].step \notin InCall /\ job'[v].step \notin InCall
  <2>1. /\ job[w].step = "swap" /\ job'[w].step \in {"stop", "idle"}
        /\ v # w => job'[v].step = job[v].step /\ job'[v].token = job[v].token
    BY <1>0, <1>3, SwapMoves
  <2>. QED BY <2>1 DEF InCall
<1>. QED BY <1>1, <1>2, <1>3 DEF AppStep

LEMMA SocketStays ==
  ASSUME AccountInv, AppStep
  PROVE  socket'.up = socket.up /\ socket'.token = socket.token
<1>0. socket \in [up: BOOLEAN, token: AnyToken, live: BOOLEAN]
  BY TypeParts DEF AccountInv, SlotType
<1>1. ASSUME NEW w \in Workers, Swap(w)
      PROVE  socket'.up = socket.up /\ socket'.token = socket.token
  BY <1>0, <1>1 DEF Swap
<1>2. ASSUME NEW w \in Workers, Load(w) PROVE UNCHANGED socket
  BY <1>2 DEF Load
<1>3. ASSUME NEW a \in Attempts, Attempt(a) PROVE UNCHANGED socket
  BY <1>3 DEF Attempt, Start, Bind, BindFails, Store, Callback, Refused,
     WasCancelled, TimesOut, ExchangeFails, Exchange, TakeSession, Announce,
     GivesUp
<1>4. CASE Window
  BY <1>4 DEF Window, Cancel, OpenForm, CloseForm, HandleLinked, EditForm,
     SaveForm, SetupRebuild, Reconnect, UnchangedLink
<1>. QED BY <1>1, <1>2, <1>3, <1>4 DEF AppStep

BothInv == AccountInv /\ ClientInv /\ HandsType /\ HandsInv /\ GivenInv

LEMMA RefreshHands ==
  ASSUME BothInv, NEW w \in Workers, Refresh(w)
  PROVE  HandsType' /\ HandsInv' /\ GivenInv'
<1>0. /\ job \in [Workers -> Jobs] /\ CallType /\ SlotInv
      /\ \A v \in Workers : job[v].token \in AnyToken
  BY TypeParts DEF BothInv, AccountInv, JobType, Jobs, ClientInv, ClientType
<1>a. HandsType /\ HandsInv /\ GivenInv
  BY DEF BothInv
<1>. USE DEF HandsType, HandsInv, Hands, GivenInv
<1>1. CASE StopSocket(w)
  <2>1. /\ job[w].step = "stop" /\ socket' = NoSocket /\ slot' = NoHandle
        /\ job' = [job EXCEPT ![w].step = "token"]
        /\ holds' = [holds EXCEPT ![w] = slot]
        /\ owes' \in [Workers -> BOOLEAN]
        /\ taken' \in {taken, taken \cup {slot}}
        /\ UNCHANGED << spawned, given >>
    BY <1>1, <1>a DEF StopSocket, Stop, StopClient
  <2>2. /\ job'[w].step = "token" /\ holds'[w] = slot
        /\ \A v \in Workers \ {w} : job'[v] = job[v] /\ holds'[v] = holds[v]
    BY <1>0, <1>a, <2>1 DEF Jobs
  <2>3. holds[w] = NoHandle
    BY <1>a, <2>1
  <2>4. \/ slot = NoHandle /\ taken' = taken
        \/ slot # NoHandle /\ taken' = taken \cup {slot}
    BY <1>1 DEF StopSocket, StopClient
  <2>5. holds' \in [Workers -> Sockets \cup {NoHandle}]
    BY <1>0, <1>a, <2>1 DEF CallType
  <2>6. slot \notin taken \cup spawned
    BY <1>0 DEF SlotInv
  <2>7. HandsInv'
    <3>1. \A v \in Workers :
            holds'[v] # NoHandle =>
              \/ job'[v].step = "token" /\ holds'[v] \in taken'
              \/ job'[v].step = "connect" /\ holds'[v] \in spawned'
      BY <1>a, <2>1, <2>2, <2>4
    <3>2. \A u, v \in Workers :
            holds'[u] = holds'[v] /\ holds'[v] # NoHandle => u = v
      BY <1>a, <2>2, <2>6
    <3>3. \A s \in taken' : \E v \in Workers : Hands(v, s, "token")'
      BY <1>a, <2>1, <2>2, <2>3, <2>4
    <3>4. \A s \in spawned' : \E v \in Workers : Hands(v, s, "connect")'
      BY <1>a, <2>1, <2>2, <2>3
    <3>. QED BY <3>1, <3>2, <3>3, <3>4
  <2>8. GivenInv'
    BY <1>a, <2>1, <2>2 DEF NoSocket
  <2>. QED BY <2>1, <2>5, <2>7, <2>8
<1>2. CASE TellSocket(w)
  <2>1. /\ job[w].step = "token" /\ taken' = taken \ {holds[w]}
        /\ holds' = [holds EXCEPT ![w] = NoHandle]
        /\ owes' = [owes EXCEPT ![w] = TRUE]
        /\ UNCHANGED << job, socket, slot, spawned, given >>
    BY <1>2 DEF TellSocket, StopTaken, vars
  <2>2. /\ holds'[w] = NoHandle
        /\ \A v \in Workers \ {w} : holds'[v] = holds[v]
    BY <1>a, <2>1
  <2>. QED BY <1>0, <1>a, <2>1, <2>2
<1>3. CASE EmitSocket(w)
  BY <1>3, <1>a DEF EmitSocket, EmitStopped, vars
<1>4. CASE LookFor(w)
  <2>1. /\ holds[w] = NoHandle
        /\ job[w].step \in {"token", "handle", "connect"}
        /\ UNCHANGED << slot, taken, spawned, socket, given, holds, owes >>
    BY <1>4 DEF LookFor, ReadToken, ReadHandle, ConnectFails, StartsNothing,
       clientVars, commandVars
  <2>2. \A v \in Workers \ {w} : job'[v] = job[v]
    BY <1>0, <1>4 DEF LookFor, ReadToken, ReadHandle, ConnectFails, Finish
  <2>. QED BY <1>0, <1>a, <2>1, <2>2, NoHandleIsNone DEF CallType
<1>5. CASE StartSocket(w)
  <2>1. /\ job[w].step = "connect" /\ holds[w] \in spawned /\ slot' = holds[w]
        /\ socket' = [up |-> TRUE, token |-> job[w].token, live |-> job[w].live]
        /\ job' = [job EXCEPT ![w] = NoJob]
        /\ spawned' = spawned \ {holds[w]}
        /\ holds' = [holds EXCEPT ![w] = NoHandle]
        /\ UNCHANGED << taken, given, owes >>
    BY <1>5 DEF StartSocket, Connect, PlaceClient, Finish
  <2>2. /\ holds'[w] = NoHandle
        /\ \A v \in Workers \ {w} : job'[v] = job[v] /\ holds'[v] = holds[v]
    BY <1>0, <1>a, <2>1
  <2>3. holds[w] # NoHandle
    BY <1>0, <2>1, NoHandleIsNone DEF CallType
  <2>. QED BY <1>0, <1>a, <2>1, <2>2, <2>3
<1>6. ASSUME NEW s \in Sockets, SpawnSocket(w, s)
      PROVE  HandsType' /\ HandsInv' /\ GivenInv'
  <2>1. /\ job[w].step = "connect" /\ holds[w] = NoHandle /\ SpawnClient(s)
        /\ holds' = [holds EXCEPT ![w] = s]
        /\ given' = [given EXCEPT ![s] = job[w].token]
        /\ spawned' = spawned \cup {s}
        /\ UNCHANGED << job, socket, owes, slot, taken >>
    BY <1>6 DEF SpawnSocket, SpawnClient, vars
  <2>2. /\ holds'[w] = s /\ given'[s] = job[w].token
        /\ \A v \in Workers \ {w} : holds'[v] = holds[v]
        /\ \A t \in Sockets \ {s} : given'[t] = given[t]
    BY <1>a, <2>1
  <2>3. pc[s] = "none"
    BY <2>1, SpawnInv DEF BothInv
  <2>4. s # slot /\ s \notin taken \cup spawned
    BY <1>0, <2>3 DEF SlotInv, Handled
  <2>5. \A v \in Workers : holds[v] # NoHandle => holds[v] # s
    BY <1>a, <2>4
  <2>6. HandsType'
    BY <1>a, <2>1
  <2>7. HandsInv'
    <3>1. \A u, v \in Workers :
            holds'[u] = holds'[v] /\ holds'[v] # NoHandle => u = v
      BY <1>a, <2>2, <2>5
    <3>2. \A v \in Workers :
            holds'[v] # NoHandle =>
              \/ job'[v].step = "token" /\ holds'[v] \in taken'
              \/ job'[v].step = "connect" /\ holds'[v] \in spawned'
      BY <1>a, <2>1, <2>2
    <3>3. \A t \in taken' : \E v \in Workers : Hands(v, t, "token")'
      BY <1>a, <2>1, <2>2
    <3>4. \A t \in spawned' : \E v \in Workers : Hands(v, t, "connect")'
      BY <1>0, <1>a, <2>1, <2>2, NoHandleIsNone DEF CallType
    <3>. QED BY <3>1, <3>2, <3>3, <3>4
  <2>8. GivenInv'
    <3>1. given' \in [Sockets -> AnyToken]
      BY <1>0, <1>a, <2>1
    <3>2. slot # NoHandle => slot \in Sockets \ {s}
      BY <1>0, <2>4 DEF CallType
    <3>3. \A v \in Workers \ {w} : holds[v] # NoHandle => holds[v] \in Sockets \ {s}
      BY <1>a, <2>5
    <3>. QED BY <1>a, <2>1, <2>2, <3>1, <3>2, <3>3
  <2>. QED BY <2>6, <2>7, <2>8
<1>. QED BY <1>1, <1>2, <1>3, <1>4, <1>5, <1>6 DEF Refresh

LEMMA HandsStep ==
  ASSUME BothInv, [BothNext]_bothVars
  PROVE  HandsType' /\ HandsInv' /\ GivenInv'
<1>a. HandsType /\ HandsInv /\ GivenInv /\ TypeOK /\ AccountInv
  BY DEF BothInv, AccountInv
<1>1. CASE UNCHANGED << job, socket, slot, taken, spawned, given, holds, owes >>
  BY <1>a, <1>1 DEF HandsType, HandsInv, Hands, GivenInv
<1>2. CASE UNCHANGED bothVars
  BY <1>1, <1>2 DEF bothVars, vars, clientVars, commandVars
<1>3. CASE AppStep
  <2>1. /\ UNCHANGED << slot, taken, spawned, given, holds, owes >>
        /\ socket'.up = socket.up /\ socket'.token = socket.token
    BY <1>a, <1>3, SocketStays DEF AppStep, clientVars, commandVars
  <2>2. \A v \in Workers :
          \/ job'[v].step = job[v].step /\ job'[v].token = job[v].token
          \/ job[v].step \notin InCall /\ job'[v].step \notin InCall
    BY <1>a, <1>3, CallsAreKept
  <2>3. HandsInv'
    BY <1>a, <2>1, <2>2 DEF HandsInv, Hands, InCall
  <2>4. GivenInv'
    BY <1>a, <2>1, <2>2 DEF GivenInv, InCall
  <2>. QED BY <1>a, <2>1, <2>3, <2>4 DEF HandsType
<1>4. CASE ClientStep
  <2>1. PICK s \in Sockets : SocketStep(s)
    BY <1>4 DEF ClientStep
  <2>2. UNCHANGED << slot, taken, spawned >>
    BY <2>1, SocketLocal DEF BothInv, ClientInv, LocalInv, LocalStep, SlotStays
  <2>. QED BY <1>1, <1>4, <2>2 DEF ClientStep, vars
<1>. QED BY <1>2, <1>3, <1>4, RefreshHands DEF BothNext

LEMMA BothInvNext == BothInv /\ [BothNext]_bothVars => BothInv' /\ [WireStep]_vars
<1>. SUFFICES ASSUME BothInv, [BothNext]_bothVars
              PROVE  BothInv' /\ [WireStep]_vars
  OBVIOUS
<1>1. [Next]_vars /\ [ClientNext]_clientVars
  BY BothIsEither DEF BothInv
<1>2. AccountInv' /\ [WireStep]_vars
  BY <1>1, TypeStep, ListenerStep, LoneStep DEF BothInv, AccountInv
<1>3. ClientInv'
  BY <1>1, ClientInvStep DEF BothInv
<1>. QED BY <1>2, <1>3, HandsStep DEF BothInv

LEMMA BothInvInit == BothInit => BothInv
BY HandsInit, ClientInvInit, TypeInit, ListenerInit, LoneInit
   DEF BothInit, BothInv, AccountInv

LEMMA BothAlways == BothSpec => []BothInv /\ [][WireStep]_vars
BY BothInvInit, BothInvNext, PTL DEF BothSpec

(* Every behaviour of the composition is one of AccountLink, and so is     *)
(* every property of the other theorems about it.                          *)
THEOREM BothImplementAccount == BothSpec => ImplementsAccount
<1>1. BothInit => Init
  BY DEF BothInit
<1>2. BothInv /\ [BothNext]_bothVars => [Next]_vars
  BY BothIsEither DEF BothInv
<1>. QED BY <1>1, <1>2, BothAlways, PTL DEF BothSpec, ImplementsAccount

(* It is also one of FyiSocket: the parts of the calls on the slot that    *)
(* AccountLink's workers go through, interleaved, are those the sockets    *)
(* expect.                                                                 *)
THEOREM BothImplementSocket == BothSpec => ImplementsSocket
<1>1. BothInit => ClientInit
  BY DEF BothInit
<1>2. BothInv /\ [BothNext]_bothVars => [ClientNext]_clientVars
  BY BothIsEither DEF BothInv
<1>. QED BY <1>1, <1>2, BothAlways, PTL DEF BothSpec, ImplementsSocket

LEMMA BothAgree == BothInv => SlotsAgree
<1>. SUFFICES ASSUME BothInv PROVE SlotsAgree
  OBVIOUS
<1>1. SlotInv /\ HandsInv /\ GivenInv
  BY DEF BothInv, ClientInv
<1>2. ASSUME NEW s \in Sockets, Running(s), ~told[s], s # slot
      PROVE  \E w \in Workers :
               holds[w] = s /\ job[w].step \in {"token", "connect"}
  BY <1>1, <1>2 DEF SlotInv, Handled, HandsInv, Hands
<1>. QED BY <1>1, <1>2, NoHandleIsNone DEF GivenInv, SlotsAgree

(* What AccountLink keeps of a socket is right about the one in the slot,  *)
(* however the parts of the calls of several workers interleave; every     *)
(* socket that runs beside it has been told to stop, or a worker has its   *)
(* handle in a call that is not over (fyi_ws.rs stop and                   *)
(* start_if_configured).                                                   *)
THEOREM SlotsAlwaysAgree ==
  BothSpec => []SlotsAgree
BY BothAlways, BothAgree, PTL

\* When a worker that was alone is through, no worker is at it.
LEMMA LoneEnds ==
  ASSUME TypeOK, Lone, Next, NEW w \in Workers, job[w].alone, job'[w] = NoJob
  PROVE  \A v \in Workers : Idle(v)'
<1>0. /\ job \in [Workers -> Jobs] /\ {"load", "stop"} \subseteq Steps
      /\ job[w].step # "idle" /\ NoJob.step = "idle"
      /\ \A v \in Workers \ {w} : job[v].step = "idle"
  BY TypeParts DEF JobType, Steps, Lone, LoneJob, Idle, Quiet, NoJob
<1>1. ASSUME Window \/ \E a \in Attempts : Attempt(a) PROVE FALSE
  <2>1. CASE job' = job \/ job' = Disturbed
    BY <1>0, <2>1, DisturbedType
  <2>2. ASSUME NEW u \in Workers, NEW step \in {"load", "stop"},
               NEW refresh \in BOOLEAN,
               Idle(u), job' = Begun(u, step, refresh)
        PROVE  FALSE
    BY <1>0, <2>2, BegunType DEF Idle
  <2>. QED BY <1>1, <2>1, <2>2, JobsBegin
<1>2. ASSUME NEW u \in Workers, Job(u)
      PROVE  \A v \in Workers : Idle(v)'
  <2>1. u = w
    BY <1>0, <1>2 DEF Job, Load, Swap, Stop, ReadToken, ReadHandle, Connect,
       ConnectFails
  <2>2. \A v \in Workers \ {w} : job'[v].step = job[v].step
    <3>1. CASE Swap(w)
      BY <1>0, <3>1, SwapMoves
    <3>2. CASE Job(w) /\ ~Swap(w)
      BY <1>0, <3>2 DEF Job, Load, Stop, ReadToken, ReadHandle, Connect,
         ConnectFails, Finish
    <3>. QED BY <1>2, <2>1, <3>1, <3>2
  <2>. QED BY <1>0, <2>2 DEF Idle
<1>. QED BY <1>1, <1>2 DEF Next

(* After a link or a save of other credentials that nobody disturbed, every *)
(* socket that was not told to stop uses the new credentials, however many  *)
(* were started before it and are still ending (link.rs, SettingsModal.tsx  *)
(* handleSave, fyi_ws.rs refresh).                                          *)
THEOREM OldListenersTold ==
  BothSpec => OldListenersAreTold
<1>. DEFINE A == \A w \in Attempts \cup {"settings"} :
                   job[w].alone /\ job'[w] = NoJob /\ ~ConnectFails(w) =>
                     \A s \in Sockets :
                       (Running(s) /\ ~told[s])' => given'[s] = config'.token
<1>1. ASSUME BothInv, SlotsAgree', [BothNext]_bothVars, [WireStep]_vars
      PROVE  [A]_bothVars
  <2>0. TypeOK /\ Lone /\ SlotsAgree'
    BY <1>1 DEF BothInv, AccountInv
  <2>1. CASE UNCHANGED vars
    <3>1. ~NoJob.alone
      BY NoJobType
    <3>. QED BY <2>1, <3>1 DEF vars
  <2>2. ASSUME WireStep, Next, NEW w \in Attempts \cup {"settings"},
               job[w].alone, job'[w] = NoJob, ~ConnectFails(w),
               NEW s \in Sockets, (Running(s) /\ ~told[s])'
        PROVE  given'[s] = config'.token
    <3>1. Wired'
      BY <2>2 DEF WireStep
    <3>2. \A v \in Workers : Idle(v)'
      <4>1. w \in Workers
        BY DEF Workers
      <4>. QED BY <2>0, <2>2, <4>1, LoneEnds
    <3>3. s = slot' /\ given'[s] = socket'.token
      BY <2>0, <2>2, <3>2 DEF SlotsAgree, Idle
    <3>4. socket'.up
      BY <2>0, <3>3, NoHandleIsNone DEF SlotsAgree
    <3>5. socket' = Connection(config'.dir, config'.token)
      BY <3>1 DEF Wired
    <3>6. socket'.token = config'.token
      BY <3>4, <3>5 DEF Connection, NoSocket
    <3>. QED BY <3>3, <3>6
  <2>3. [Next]_vars
    BY <1>1, BothIsEither DEF BothInv
  <2>. QED BY <1>1, <2>1, <2>2, <2>3
<1>2. BothSpec => []BothInv /\ []SlotsAgree /\ [][WireStep]_vars
  BY BothAlways, SlotsAlwaysAgree, PTL
<1>3. BothInv /\ SlotsAgree' /\ [BothNext]_bothVars /\ [WireStep]_vars =>
        [A]_bothVars
  BY <1>1
<1>. QED BY <1>2, <1>3, PTL DEF BothSpec, OldListenersAreTold
=============================================================================
