------------------------------ MODULE TickTask ------------------------------
(***************************************************************************)
(* The two views of a tick task (tick_task.rs spawn) put side by side.     *)
(* TrackerServer has many tasks and of each only where its loop stands,    *)
(* its signal and what it sent last; TickLoop has one, with its process,   *)
(* its clocks and its sleeps.  Here TickLoop's task is one of              *)
(* TrackerServer's: the one that was spawned for the only viewer of a      *)
(* tracker, and is told to stop when that viewer leaves.                   *)
(***************************************************************************)
EXTENDS TickLoop

VARIABLE
    late        (* observation only, as in TrackerServer: payloads the     *)
                (* task has sent since it was killed, up to 2              *)

taskVars == <<vars, late>>

(* The task sends: a reading, or a failure to read, gives another payload  *)
(* than the one before it; or it finds no game, and the channel not idle.  *)
Sends ==
    \/ pc = "tick" /\ last' # last
    \/ pc = "attach" /\ pc' # "tick" /\ shown' # shown

TaskInit == Init /\ late = 0

TaskNext ==
    /\ Next
    /\ late' = IF killed /\ Sends /\ late < 2 THEN late + 1 ELSE late

TaskSpec == TaskInit /\ [][TaskNext]_taskVars /\ WF_vars(Step)
-----------------------------------------------------------------------------
(* What TrackerServer sees of it.  Attaching and reading are one piece of  *)
(* work, and a task that sleeps is on its way to the top of its loop.      *)

place ==
    CASE pc \in {"top", "asleep"}  -> "top"
      [] pc \in {"attach", "tick"} -> "working"
      [] pc = "done"               -> "free"

OfTask(x) == [t \in {"task"} |-> x]
OfTracker(x) == [s \in {"tracker"} |-> x]
OfViewer(x) == [c \in {"viewer"} |-> x]
None == [k \in {} |-> "none"]

Server == INSTANCE TrackerServer WITH
    Slugs <- {"tracker"}, Conns <- {"viewer"}, Ticks <- {"task"},
    Ports <- {}, Calls <- {},
    NoSlug <- "none", NoTick <- "none", NoPort <- "none",
    (* the server it connected to has been stopped, or not: nothing here   *)
    (* depends on it                                                       *)
    running <- "none", listening <- {}, told <- {}, stopping <- FALSE,
    callPc <- None, callPort <- None,
    connPc <- OfViewer(IF killed THEN "closed" ELSE "attached"),
    connSlug <- OfViewer(IF killed THEN "none" ELSE "tracker"),
    entries <- {"tracker"},
    count <- OfTracker(IF killed THEN 0 ELSE 1),
    tick <- OfTracker(IF killed THEN "none" ELSE "task"),
    taskPc <- OfTask(place),
    taskSlug <- OfTask(IF pc = "done" THEN "none" ELSE "tracker"),
    killed <- OfTask(killed /\ pc # "done"),
    last <- OfTask(IF pc = "done" THEN Empty ELSE last),
    payload <- OfTracker(shown),
    owed <- IF killed THEN {} ELSE {"viewer"},
    staleDrop <- OfTracker(FALSE),
    late <- OfTask(late)

(* Every step of the loop is one that TrackerServer allows a task, or      *)
(* changes nothing that TrackerServer sees; and what stops the task is the *)
(* last viewer's detach.  So TrackerServer leaves out nothing that its     *)
(* tasks can do to the registry and to what viewers see (tick_task.rs      *)
(* spawn, consumers.rs detach).                                            *)
ImplementsServerTask ==
    [][Server!TickNext \/ Server!Close("viewer")]_(Server!vars)
=============================================================================
