----------------------------- MODULE FileMirror -----------------------------
(***************************************************************************)
(* The text file of one tracker: the commands and window events that start *)
(* and stop its file writers (mod.rs), and the writers themselves          *)
(* (file_task.rs), which share one temporary name and one file name.       *)
(*                                                                         *)
(* A command's critical section under the `running` lock is one action.    *)
(* A writer that has a file open keeps writing to it when another writer   *)
(* renames it, so what `fd` says is by which name the file goes by now.    *)
(***************************************************************************)
EXTENDS Naturals

CONSTANTS
    Writers,    (* slots for writer tasks: bounds how many exist at once    *)
    Texts,      (* what a payload is displayed as                           *)
    Blank,      (* the empty text                                           *)
    Absent,     (* the contents of a file that does not exist               *)
    NoWriter

ASSUME Distinct == NoWriter \notin Writers /\ Blank \in Texts /\ Absent \notin Texts

VARIABLES
    running,    (* there is a RunningServer                                *)
    registered, (* its file_writers entry of this tracker, or NoWriter     *)
    enabled,    (* tracker_file_enabled                                    *)
    window,     (* the tracker's window exists                             *)
    heard,      (* its Destroyed event has a handler                       *)
    openPc,     (* where open_tracker_window stands, "no" if it does not run *)
    opener,     (* the handle it holds                                     *)
    payload,    (* the tracker's payload watch channel, as displayed       *)
    pc,         (* a writer: "free", "start", "loop", "open", "put", "rename" *)
    after,      (* what follows its rename: "loop" or "exit"               *)
    told,       (* its shutdown signal has been sent, or its sender dropped *)
    pending,    (* its receiver has not seen the current payload           *)
    text,       (* what it is writing                                      *)
    fd,         (* the file it has open: "none", the one now named "tmp"   *)
                (* or "file", or one that is "gone"                        *)
    tmp, file,  (* the contents of {slug}.txt.tmp and {slug}.txt           *)
    missed,     (* the only writer there is has failed its last write      *)
                (* (observer)                                              *)
    unblanked   (* a blank on shutdown failed, and no blank file has been  *)
                (* put in place since (observer)                           *)

commandVars == <<running, registered, enabled, window, heard, openPc, opener>>
observers == <<missed, unblanked>>
diskVars == <<fd, tmp, file, observers>>
writerVars == <<pc, after, told, pending, text>>
vars == <<commandVars, payload, writerVars, diskVars>>

TypeOK ==
    /\ running \in BOOLEAN /\ enabled \in BOOLEAN
    /\ window \in BOOLEAN /\ heard \in BOOLEAN
    /\ registered \in Writers \cup {NoWriter}
    /\ registered # NoWriter => running
    /\ openPc \in {"no", "spawn", "register", "listen"}
    /\ opener \in Writers \cup {NoWriter}
    /\ payload \in Texts
    /\ pc \in [Writers -> {"free", "start", "loop", "open", "put", "rename"}]
    /\ after \in [Writers -> {"loop", "exit"}]
    /\ told \in [Writers -> BOOLEAN] /\ pending \in [Writers -> BOOLEAN]
    /\ text \in [Writers -> Texts]
    /\ fd \in [Writers -> {"none", "tmp", "file", "gone"}]
    /\ \A w \in Writers : pc[w] = "put" <=> fd[w] # "none"
    /\ tmp \in Texts \cup {Absent} /\ file \in Texts
    /\ missed \in BOOLEAN /\ unblanked \in BOOLEAN

Init ==
    /\ running = FALSE /\ registered = NoWriter /\ enabled \in BOOLEAN
    /\ window = FALSE /\ heard = FALSE /\ openPc = "no" /\ opener = NoWriter
    /\ payload = Blank
    /\ pc = [w \in Writers |-> "free"]
    /\ after = [w \in Writers |-> "loop"]
    /\ told = [w \in Writers |-> FALSE]
    /\ pending = [w \in Writers |-> FALSE]
    /\ text = [w \in Writers |-> Blank]
    /\ fd = [w \in Writers |-> "none"]
    /\ tmp = Absent /\ file = Blank
    /\ missed = FALSE /\ unblanked = FALSE
-----------------------------------------------------------------------------
(* Commands and window events (mod.rs)                                     *)

Tell(ws) == told' = [w \in Writers |-> told[w] \/ w \in ws]

(* file_task::spawn.  The receiver is cloned from one that never looked,   *)
(* so unless nothing was ever published there is something to see.         *)
Spawn(w) ==
    /\ pc[w] = "free" /\ w \notin {registered, opener}
    /\ pc' = [pc EXCEPT ![w] = "start"]
    /\ \E unseen \in BOOLEAN : /\ payload # Blank => unseen
                               /\ pending' = [pending EXCEPT ![w] = unseen]
    /\ missed' = FALSE
    /\ UNCHANGED <<after, text>>

StartServer ==
    /\ ~running /\ running' = TRUE
    /\ UNCHANGED <<registered, enabled, window, heard, openPc, opener, payload,
                   writerVars, diskVars>>

(* Variant: only the axum server is told.                                  *)
StopServerOnly ==
    /\ running /\ running' = FALSE
    /\ registered' = NoWriter
    /\ UNCHANGED <<enabled, window, heard, openPc, opener, payload, writerVars,
                   diskVars>>

(* stop_tracker_server drains the writers with the server.                 *)
StopServer ==
    /\ running /\ running' = FALSE
    /\ Tell({registered})
    /\ registered' = NoWriter
    /\ UNCHANGED <<enabled, window, heard, openPc, opener, payload, pc, after,
                   pending, text, diskVars>>

(* set_file_settings, off: every writer is told.                           *)
DisableFile ==
    /\ enabled' = FALSE
    /\ Tell({registered})
    /\ registered' = NoWriter
    /\ UNCHANGED <<running, window, heard, openPc, opener, payload, pc, after,
                   pending, text, diskVars>>

(* set_file_settings, on: the writer of an open window is replaced.        *)
EnableFile ==
    /\ enabled' = TRUE
    /\ IF running /\ window
       THEN \E w \in Writers : /\ Spawn(w)
                               /\ Tell({registered})
                               /\ registered' = w
       ELSE UNCHANGED <<registered, writerVars, missed>>
    /\ UNCHANGED <<running, window, heard, openPc, opener, payload, fd, tmp, file,
                   unblanked>>

(* open_tracker_window: builds the window, and reads the setting.          *)
OpenWindow ==
    /\ openPc = "no" /\ running /\ ~window
    /\ window' = TRUE
    /\ openPc' = IF enabled THEN "spawn" ELSE "listen"
    /\ UNCHANGED <<running, registered, enabled, heard, opener, payload, writerVars,
                   diskVars>>

OpenSpawn ==
    /\ openPc = "spawn" /\ openPc' = "register"
    /\ \E w \in Writers : Spawn(w) /\ opener' = w
    /\ UNCHANGED <<running, registered, enabled, window, heard, payload, told,
                   fd, tmp, file, unblanked>>

(* The handle goes to the server, and the one it replaces is told; without *)
(* a server the handle is dropped.                                         *)
OpenRegister ==
    /\ openPc = "register" /\ openPc' = "listen"
    /\ IF running THEN Tell({registered}) /\ registered' = opener
                  ELSE Tell({opener}) /\ UNCHANGED registered
    /\ opener' = NoWriter
    /\ UNCHANGED <<running, enabled, window, heard, payload, pc, after, pending,
                   text, diskVars>>

(* on_window_event: a window that is gone by now sends no event any more.  *)
OpenListen ==
    /\ openPc = "listen" /\ openPc' = "no"
    /\ heard' = window
    /\ UNCHANGED <<running, registered, enabled, window, opener, payload, writerVars,
                   diskVars>>

(* The Destroyed event.                                                    *)
CloseWindow ==
    /\ window /\ window' = FALSE /\ heard' = FALSE
    /\ IF heard THEN Tell({registered}) /\ registered' = NoWriter
                ELSE UNCHANGED <<told, registered>>
    /\ UNCHANGED <<running, enabled, openPc, opener, payload, pc, after, pending,
                   text, diskVars>>

(* A tick task, or a reset, changes what is displayed.                     *)
PayloadChanges(p) ==
    /\ p # payload /\ payload' = p
    /\ pending' = [w \in Writers |-> pc[w] # "free"]
    /\ UNCHANGED <<commandVars, pc, after, told, text, diskVars>>
-----------------------------------------------------------------------------
(* A writer (file_task.rs)                                                 *)

StartsWriting(w, t, next) ==
    /\ text' = [text EXCEPT ![w] = t]
    /\ after' = [after EXCEPT ![w] = next]
    /\ pc' = [pc EXCEPT ![w] = "open"]
    /\ missed' = FALSE
    /\ UNCHANGED unblanked

Returns(w) ==
    /\ pc' = [pc EXCEPT ![w] = "free"]
    /\ told' = [told EXCEPT ![w] = FALSE]
    /\ pending' = [pending EXCEPT ![w] = FALSE]
    /\ text' = [text EXCEPT ![w] = Blank]
    /\ after' = [after EXCEPT ![w] = "loop"]
    /\ missed' = FALSE

(* What follows a write, whether it has succeeded or failed: the error is  *)
(* logged or dropped.                                                      *)
CarriesOn(w) ==
    IF after[w] = "exit" THEN Returns(w)
    ELSE /\ pc' = [pc EXCEPT ![w] = "loop"]
         /\ text' = [text EXCEPT ![w] = Blank]
         /\ UNCHANGED <<told, pending, after>>

(* The write has failed, and nothing will be written again until the next  *)
(* payload.                                                                *)
GivesUp(w) ==
    /\ CarriesOn(w)
    /\ after[w] = "loop" => missed' = \A v \in Writers \ {w} : pc[v] = "free"
    /\ unblanked' = (unblanked \/ after[w] = "exit")
    /\ UNCHANGED <<commandVars, payload>>

(* The current payload is written first.                                   *)
Begin(w) ==
    /\ pc[w] = "start"
    /\ StartsWriting(w, payload, "loop")
    /\ UNCHANGED <<commandVars, payload, told, pending, fd, tmp, file>>

(* The directory cannot be created.  Nothing is written, not even a blank. *)
BeginFails(w) ==
    /\ pc[w] = "start"
    /\ Returns(w)
    /\ UNCHANGED <<commandVars, payload, fd, tmp, file, unblanked>>

(* fs::write opens and truncates the temporary file, creating it if need   *)
(* be ...                                                                  *)
Open(w) ==
    /\ pc[w] = "open" /\ pc' = [pc EXCEPT ![w] = "put"]
    /\ tmp' = Blank
    /\ fd' = [fd EXCEPT ![w] = "tmp"]
    /\ UNCHANGED <<commandVars, payload, after, told, pending, text, file, observers>>

OpenFails(w) ==
    /\ pc[w] = "open" /\ GivesUp(w)
    /\ UNCHANGED <<fd, tmp, file>>

(* What a file may hold once t has been written from its start: a blank    *)
(* writes nothing, and of another writer's text there may be a rest.       *)
Overwritten(old, t) ==
    IF t = Blank THEN {old}
    ELSE IF old = Blank THEN {t} ELSE Texts \ {Blank}

(* The same if the writing breaks off anywhere; a part of a text may read  *)
(* as any other.                                                           *)
CutOff(old, t) == IF t = Blank THEN {old} ELSE Texts

(* The file that w has open holds t now, whatever it is called.            *)
Holds(w, t) ==
    /\ tmp' = IF fd[w] = "tmp" THEN t ELSE tmp
    /\ file' = IF fd[w] = "file" THEN t ELSE file
    /\ fd' = [fd EXCEPT ![w] = "none"]

Contents(w) == IF fd[w] = "file" THEN file ELSE tmp

(* ... and puts the text into whatever that file is called by now.         *)
Put(w) ==
    /\ pc[w] = "put" /\ pc' = [pc EXCEPT ![w] = "rename"]
    /\ \E t \in Overwritten(Contents(w), text[w]) : Holds(w, t)
    /\ text' = [text EXCEPT ![w] = Blank]
    /\ UNCHANGED <<commandVars, payload, after, told, pending, observers>>

PutFails(w) ==
    /\ pc[w] = "put" /\ GivesUp(w)
    /\ \E t \in CutOff(Contents(w), text[w]) : Holds(w, t)

(* fs::rename fails when another writer has moved the temporary file.      *)
MoveTmp ==
    IF tmp = Absent THEN UNCHANGED <<fd, tmp, file, unblanked>>
    ELSE /\ file' = tmp /\ tmp' = Absent
         /\ fd' = [w \in Writers |-> CASE fd[w] = "tmp" -> "file"
                                       [] fd[w] = "file" -> "gone"
                                       [] OTHER -> fd[w]]
         /\ unblanked' = (unblanked /\ tmp # Blank)

(* Variant: the first payload is taken as seen once it is written.         *)
RenameThenSeen(w) ==
    /\ pc[w] = "rename"
    /\ MoveTmp
    /\ IF after[w] = "exit" THEN Returns(w)
       ELSE /\ pc' = [pc EXCEPT ![w] = "loop"]
            /\ pending' = [pending EXCEPT ![w] = FALSE]
            /\ UNCHANGED <<told, text, after, missed>>
    /\ UNCHANGED <<commandVars, payload>>

Rename(w) ==
    /\ pc[w] = "rename"
    /\ MoveTmp /\ CarriesOn(w)
    /\ after[w] = "loop" => UNCHANGED missed
    /\ UNCHANGED <<commandVars, payload>>

(* It fails for another reason: the directory is gone, or the program that *)
(* reads the file does not share it.                                       *)
RenameFails(w) ==
    /\ pc[w] = "rename" /\ GivesUp(w)
    /\ UNCHANGED <<fd, tmp, file>>

(* changed() marks the payload as seen before it is read.                  *)
Notice(w) ==
    /\ pc[w] = "loop" /\ pending[w]
    /\ pending' = [pending EXCEPT ![w] = FALSE]
    /\ StartsWriting(w, payload, "loop")
    /\ UNCHANGED <<commandVars, payload, told, fd, tmp, file>>

(* Variant: the task just ends.                                            *)
BreakWithoutBlank(w) ==
    /\ pc[w] = "loop" /\ told[w]
    /\ Returns(w)
    /\ UNCHANGED <<commandVars, payload, fd, tmp, file, unblanked>>

(* The shutdown branch of select!, then the blank.                         *)
Break(w) ==
    /\ pc[w] = "loop" /\ told[w]
    /\ StartsWriting(w, Blank, "exit")
    /\ UNCHANGED <<commandVars, payload, told, pending, fd, tmp, file>>

WriterStep(w) ==
    \/ Begin(w) \/ BeginFails(w) \/ Notice(w) \/ Break(w)
    \/ Open(w) \/ OpenFails(w) \/ Put(w) \/ PutFails(w) \/ Rename(w) \/ RenameFails(w)

Command ==
    \/ StartServer \/ StopServer \/ DisableFile \/ EnableFile
    \/ OpenWindow \/ OpenSpawn \/ OpenRegister \/ OpenListen \/ CloseWindow

Next ==
    \/ Command
    \/ \E p \in Texts : PayloadChanges(p)
    \/ \E w \in Writers : WriterStep(w)

(* The runtime polls every writer that can make a step.                    *)
Spec == Init /\ [][Next]_vars /\ \A w \in Writers : WF_vars(WriterStep(w))
-----------------------------------------------------------------------------
(* Properties                                                              *)

Alive(w) == pc[w] # "free"

(* Once every writer has returned the file shows nothing, although writers *)
(* of the same file may overlap, write into each other's temporary file    *)
(* and lose renames to each other -- unless the blank itself failed, which *)
(* nothing makes up for but a later blank (file_task.rs, the blank on      *)
(* shutdown, whose error is dropped).                                      *)
AllStoppedIsBlank ==
    (\A w \in Writers : ~Alive(w)) => file = Blank \/ unblanked

(* A writer nobody told to stop is the one the server or the command that  *)
(* is opening the window can tell: none runs for ever behind a closed      *)
(* server (mod.rs file_writers).                                           *)
WriterIsOwned ==
    \A w \in Writers : Alive(w) /\ ~told[w] => w \in {registered, opener}

(* The writer w has the file for itself.                                   *)
Alone(w) ==
    Alive(w) /\ ~told[w] /\ \A v \in Writers \ {w} : ~Alive(v)

(* A payload published while a writer is alone reaches the file, even when *)
(* it is published while an older one is being written or failing to be -- *)
(* unless writing it fails, which is not tried again.                      *)
LoneWriterCatchesUp ==
    \A w \in Writers : \A p \in Texts :
        Alone(w) /\ pending[w] /\ payload = p
            ~> file = p \/ payload # p \/ ~Alone(w) \/ (~pending[w] /\ missed)
=============================================================================
