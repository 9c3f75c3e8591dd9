-------------------------- MODULE FileMirrorProofs --------------------------
(***************************************************************************)
(* Proofs about FileMirror, for any number of writers and any texts.       *)
(***************************************************************************)
EXTENDS LoneWriter, TLAPS

USE Distinct

(***************************************************************************)
(* Type correctness                                                        *)
(***************************************************************************)
LEMMA TellType ==
  ASSUME NEW ws, Tell(ws)
  PROVE  /\ told' \in [Writers -> BOOLEAN]
         /\ \A w \in Writers : told'[w] <=> told[w] \/ w \in ws
BY DEF Tell

LEMMA SpawnType ==
  ASSUME TypeOK, NEW w \in Writers, Spawn(w)
  PROVE  /\ pc' \in [Writers -> {"free", "start", "loop", "open", "put", "rename"}]
         /\ \A v \in Writers : pc'[v] = IF v = w THEN "start" ELSE pc[v]
         /\ \A v \in Writers : pc'[v] = "put" <=> pc[v] = "put"
         /\ pending' \in [Writers -> BOOLEAN]
         /\ UNCHANGED <<after, text>> /\ missed' \in BOOLEAN
<1>1. /\ pc \in [Writers -> {"free", "start", "loop", "open", "put", "rename"}]
      /\ pending \in [Writers -> BOOLEAN]
  BY DEF TypeOK
<1>. QED BY <1>1 DEF Spawn

LEMMA CommandType == TypeOK /\ Command => TypeOK'
<1>. SUFFICES ASSUME TypeOK, Command PROVE TypeOK'
  OBVIOUS
<1>. USE DEF TypeOK, diskVars, writerVars, observers
<1>1. CASE StartServer
  BY <1>1 DEF StartServer
<1>2. CASE StopServer
  <2>1. told' \in [Writers -> BOOLEAN]
    BY <1>2, TellType DEF StopServer
  <2>. QED BY <1>2, <2>1 DEF StopServer
<1>3. CASE DisableFile
  <2>1. told' \in [Writers -> BOOLEAN]
    BY <1>3, TellType DEF DisableFile
  <2>. QED BY <1>3, <2>1 DEF DisableFile
<1>4. CASE EnableFile
  <2>1. CASE running /\ window
    <3>1. PICK w \in Writers : Spawn(w) /\ Tell({registered}) /\ registered' = w
      BY <1>4, <2>1 DEF EnableFile
    <3>2. told' \in [Writers -> BOOLEAN]
      BY <3>1, TellType
    <3>3. /\ pc' \in [Writers -> {"free", "start", "loop", "open", "put", "rename"}]
          /\ \A v \in Writers : pc'[v] = "put" <=> pc[v] = "put"
          /\ pending' \in [Writers -> BOOLEAN] /\ UNCHANGED <<after, text>>
          /\ missed' \in BOOLEAN
      BY <3>1, SpawnType
    <3>. QED BY <1>4, <2>1, <3>1, <3>2, <3>3 DEF EnableFile
  <2>2. CASE ~(running /\ window)
    BY <1>4, <2>2 DEF EnableFile
  <2>. QED BY <2>1, <2>2
<1>5. CASE OpenWindow
  BY <1>5 DEF OpenWindow
<1>6. CASE OpenSpawn
  <2>1. PICK w \in Writers : Spawn(w) /\ opener' = w
    BY <1>6 DEF OpenSpawn
  <2>2. /\ pc' \in [Writers -> {"free", "start", "loop", "open", "put", "rename"}]
        /\ \A v \in Writers : pc'[v] = "put" <=> pc[v] = "put"
        /\ pending' \in [Writers -> BOOLEAN] /\ UNCHANGED <<after, text>>
        /\ missed' \in BOOLEAN
    BY <2>1, SpawnType
  <2>. QED BY <1>6, <2>1, <2>2 DEF OpenSpawn
<1>7. CASE OpenRegister
  <2>1. told' \in [Writers -> BOOLEAN]
    <3>1. Tell({registered}) \/ Tell({opener})
      BY <1>7 DEF OpenRegister
    <3>. QED BY <3>1, TellType
  <2>. QED BY <1>7, <2>1 DEF OpenRegister
<1>8. CASE OpenListen
  BY <1>8 DEF OpenListen
<1>9. CASE CloseWindow
  <2>1. told' \in [Writers -> BOOLEAN]
    BY <1>9, TellType DEF CloseWindow
  <2>. QED BY <1>9, <2>1 DEF CloseWindow
<1>. QED BY <1>1, <1>2, <1>3, <1>4, <1>5, <1>6, <1>7, <1>8, <1>9 DEF Command

LEMMA CarriesOnType ==
  ASSUME TypeOK, NEW w \in Writers, CarriesOn(w), pc[w] # "put" \/ fd'[w] = "none"
  PROVE  /\ pc' \in [Writers -> {"free", "start", "loop", "open", "put", "rename"}]
         /\ \A v \in Writers : pc'[v] = "put" <=> v # w /\ pc[v] = "put"
         /\ after' \in [Writers -> {"loop", "exit"}]
         /\ told' \in [Writers -> BOOLEAN] /\ pending' \in [Writers -> BOOLEAN]
         /\ text' \in [Writers -> Texts]
         /\ after[w] = "exit" => missed' = FALSE
         /\ after[w] \in {"exit", "loop"}
<1>. USE DEF TypeOK
<1>1. CASE after[w] = "exit"
  <2>1. Returns(w)
    BY <1>1 DEF CarriesOn
  <2>2. /\ pc' \in [Writers -> {"free", "start", "loop", "open", "put", "rename"}]
        /\ \A v \in Writers : pc'[v] = "put" <=> v # w /\ pc[v] = "put"
    BY <2>1 DEF Returns
  <2>3. /\ after' \in [Writers -> {"loop", "exit"}] /\ missed' = FALSE
        /\ told' \in [Writers -> BOOLEAN] /\ pending' \in [Writers -> BOOLEAN]
    BY <2>1 DEF Returns
  <2>4. text' \in [Writers -> Texts]
    BY <2>1 DEF Returns
  <2>. QED BY <1>1, <2>2, <2>3, <2>4
<1>2. CASE after[w] # "exit"
  BY <1>2 DEF CarriesOn
<1>. QED BY <1>1, <1>2

LEMMA GivesUpType ==
  ASSUME TypeOK, NEW w \in Writers, GivesUp(w)
  PROVE  missed' \in BOOLEAN /\ unblanked' \in BOOLEAN
<1>1. CASE after[w] = "exit"
  BY <1>1 DEF GivesUp, CarriesOn, Returns, TypeOK
<1>2. CASE after[w] = "loop"
  BY <1>2 DEF GivesUp, TypeOK
<1>. QED BY <1>1, <1>2 DEF TypeOK

LEMMA FailType ==
  ASSUME TypeOK, NEW w \in Writers, GivesUp(w), pc[w] # "put", UNCHANGED <<fd, tmp, file>>
  PROVE  TypeOK'
<1>1. CarriesOn(w) /\ UNCHANGED commandVars /\ UNCHANGED payload
  BY DEF GivesUp
<1>2. /\ pc' \in [Writers -> {"free", "start", "loop", "open", "put", "rename"}]
      /\ \A v \in Writers : pc'[v] = "put" <=> pc[v] = "put"
      /\ after' \in [Writers -> {"loop", "exit"}]
      /\ told' \in [Writers -> BOOLEAN] /\ pending' \in [Writers -> BOOLEAN]
      /\ text' \in [Writers -> Texts]
  BY <1>1, CarriesOnType
<1>3. missed' \in BOOLEAN /\ unblanked' \in BOOLEAN
  BY GivesUpType
<1>. QED BY <1>1, <1>2, <1>3 DEF TypeOK, commandVars

LEMMA HoldsType ==
  ASSUME TypeOK, NEW w \in Writers, NEW t, Holds(w, t), t \in Texts \/ t = Contents(w)
  PROVE  /\ tmp' \in Texts \cup {Absent} /\ file' \in Texts
         /\ fd' \in [Writers -> {"none", "tmp", "file", "gone"}]
         /\ \A v \in Writers : fd'[v] # "none" <=> v # w /\ fd[v] # "none"
BY DEF Holds, Contents, TypeOK

LEMMA WriterType == ASSUME TypeOK, NEW w \in Writers, WriterStep(w) PROVE TypeOK'
<1>. USE DEF TypeOK, observers, commandVars
<1>1. CASE Begin(w)
  BY <1>1 DEF Begin, StartsWriting
<1>2. CASE BeginFails(w)
  BY <1>2 DEF BeginFails, Returns
<1>3. CASE Open(w)
  BY <1>3 DEF Open
<1>4. CASE OpenFails(w)
  <2>1. pc[w] # "put" /\ GivesUp(w) /\ UNCHANGED <<fd, tmp, file>>
    BY <1>4 DEF OpenFails
  <2>. QED BY <2>1, FailType
<1>5. CASE Put(w)
  <2>1. PICK t \in Overwritten(Contents(w), text[w]) : Holds(w, t)
    BY <1>5 DEF Put
  <2>2. t \in Texts \/ t = Contents(w)
    BY <2>1 DEF Overwritten
  <2>3. /\ tmp' \in Texts \cup {Absent} /\ file' \in Texts
        /\ fd' \in [Writers -> {"none", "tmp", "file", "gone"}]
        /\ \A v \in Writers : fd'[v] # "none" <=> v # w /\ fd[v] # "none"
    BY <2>1, <2>2, HoldsType
  <2>. QED BY <1>5, <2>3 DEF Put
<1>6. CASE PutFails(w)
  <2>1. PICK t \in CutOff(Contents(w), text[w]) : Holds(w, t)
    BY <1>6 DEF PutFails
  <2>2. t \in Texts \/ t = Contents(w)
    BY <2>1 DEF CutOff
  <2>3. /\ tmp' \in Texts \cup {Absent} /\ file' \in Texts
        /\ fd' \in [Writers -> {"none", "tmp", "file", "gone"}]
        /\ \A v \in Writers : fd'[v] # "none" <=> v # w /\ fd[v] # "none"
    BY <2>1, <2>2, HoldsType
  <2>4. CarriesOn(w) /\ GivesUp(w) /\ fd'[w] = "none" /\ UNCHANGED <<commandVars, payload>>
    BY <1>6, <2>3 DEF PutFails, GivesUp
  <2>. QED BY <2>3, <2>4, CarriesOnType, GivesUpType
<1>7. CASE Rename(w)
  <2>1. /\ pc[w] = "rename" /\ MoveTmp /\ CarriesOn(w)
        /\ after[w] = "loop" => UNCHANGED missed
        /\ UNCHANGED <<commandVars, payload>>
    BY <1>7 DEF Rename
  <2>2. /\ tmp' \in Texts \cup {Absent} /\ file' \in Texts /\ unblanked' \in BOOLEAN
        /\ fd' \in [Writers -> {"none", "tmp", "file", "gone"}]
        /\ \A v \in Writers : fd'[v] # "none" <=> fd[v] # "none"
    <3>1. CASE tmp = Absent
      BY <2>1, <3>1 DEF MoveTmp
    <3>2. CASE tmp # Absent
      <4>1. fd' = [v \in Writers |-> CASE fd[v] = "tmp" -> "file"
                                       [] fd[v] = "file" -> "gone"
                                       [] OTHER -> fd[v]]
        BY <2>1, <3>2 DEF MoveTmp
      <4>2. tmp' = Absent /\ file' = tmp /\ unblanked' \in BOOLEAN
        BY <2>1, <3>2 DEF MoveTmp
      <4>. QED BY <3>2, <4>1, <4>2
    <3>. QED BY <3>1, <3>2
  <2>3. missed' \in BOOLEAN
    BY <2>1, CarriesOnType
  <2>. QED BY <2>1, <2>2, <2>3, CarriesOnType
<1>8. CASE RenameFails(w)
  <2>1. pc[w] # "put" /\ GivesUp(w) /\ UNCHANGED <<fd, tmp, file>>
    BY <1>8 DEF RenameFails
  <2>. QED BY <2>1, FailType
<1>9. CASE Notice(w)
  BY <1>9 DEF Notice, StartsWriting
<1>10. CASE Break(w)
  BY <1>10 DEF Break, StartsWriting
<1>. QED BY <1>1, <1>2, <1>3, <1>4, <1>5, <1>6, <1>7, <1>8, <1>9, <1>10 DEF WriterStep

LEMMA TypeStep == TypeOK /\ [Next]_vars => TypeOK'
<1>. SUFFICES ASSUME TypeOK, [Next]_vars PROVE TypeOK'
  OBVIOUS
<1>1. ASSUME NEW p \in Texts, PayloadChanges(p) PROVE TypeOK'
  BY <1>1 DEF PayloadChanges, TypeOK, commandVars, diskVars, observers
<1>2. CASE UNCHANGED vars
  BY <1>2 DEF vars, commandVars, writerVars, diskVars, observers, TypeOK
<1>. QED BY <1>1, <1>2, CommandType, WriterType DEF Next

(* Every variable keeps its type, and a writer has a file open exactly     *)
(* between its fs::write's open and write.                                 *)
THEOREM TypeCorrect == Spec => []TypeOK
<1>1. Init => TypeOK
  BY DEF Init, TypeOK
<1>. QED BY <1>1, TypeStep, PTL DEF Spec

(***************************************************************************)
(* Ownership: only open_tracker_window holds a handle outside the server,  *)
(* and only between spawning a writer and registering it.                  *)
(***************************************************************************)
OwnerInv ==
    /\ openPc # "register" => opener = NoWriter
    /\ WriterIsOwned

LEMMA OwnerCommand == TypeOK /\ OwnerInv /\ Command => OwnerInv'
<1>. SUFFICES ASSUME TypeOK, OwnerInv, Command PROVE OwnerInv'
  OBVIOUS
<1>. USE DEF OwnerInv, WriterIsOwned, Alive, writerVars
<1>1. CASE StartServer \/ OpenWindow \/ OpenListen
  BY <1>1 DEF StartServer, OpenWindow, OpenListen
<1>2. ASSUME Tell({registered}), UNCHANGED <<pc, opener, openPc>>
      PROVE  OwnerInv'
  BY <1>2, TellType
<1>3. CASE StopServer \/ DisableFile \/ CloseWindow
  BY <1>2, <1>3 DEF StopServer, DisableFile, CloseWindow
<1>4. CASE EnableFile
  <2>1. CASE running /\ window
    <3>1. PICK w \in Writers : Spawn(w) /\ Tell({registered}) /\ registered' = w
      BY <1>4, <2>1 DEF EnableFile
    <3>2. \A v \in Writers : told'[v] <=> told[v] \/ v \in {registered}
      BY <3>1, TellType
    <3>3. \A v \in Writers : pc'[v] = IF v = w THEN "start" ELSE pc[v]
      BY <3>1, SpawnType
    <3>. QED BY <1>4, <3>1, <3>2, <3>3 DEF EnableFile
  <2>2. CASE ~(running /\ window)
    BY <1>4, <2>2 DEF EnableFile
  <2>. QED BY <2>1, <2>2
<1>5. CASE OpenSpawn
  <2>1. PICK w \in Writers : Spawn(w) /\ opener' = w
    BY <1>5 DEF OpenSpawn
  <2>2. \A v \in Writers : pc'[v] = IF v = w THEN "start" ELSE pc[v]
    BY <2>1, SpawnType
  <2>3. openPc = "spawn" /\ opener = NoWriter
    BY <1>5 DEF OpenSpawn
  <2>. QED BY <1>5, <2>1, <2>2, <2>3 DEF OpenSpawn
<1>6. CASE OpenRegister
  <2>1. Tell({registered}) \/ Tell({opener})
    BY <1>6 DEF OpenRegister
  <2>2. CASE Tell({registered})
    BY <1>6, <2>2, TellType DEF OpenRegister, Tell
  <2>3. CASE Tell({opener})
    BY <1>6, <2>3, TellType DEF OpenRegister, Tell
  <2>. QED BY <2>1, <2>2, <2>3
<1>. QED BY <1>1, <1>3, <1>4, <1>5, <1>6 DEF Command

(* A writer is never raised from the dead, nor its signal taken back, by   *)
(* its own steps.                                                          *)
LEMMA OwnerWriter ==
    ASSUME TypeOK, OwnerInv, NEW w \in Writers, WriterStep(w)
    PROVE  OwnerInv'
<1>1. UNCHANGED commandVars
  BY DEF WriterStep, Begin, BeginFails, Open, OpenFails, Put, PutFails, Rename, RenameFails,
     GivesUp, Notice, Break
<1>2. ASSUME NEW v \in Writers, Alive(v)', ~told'[v]
      PROVE  Alive(v) /\ ~told[v]
  <2>1. CASE Returns(w)
    BY <1>2, <2>1 DEF Returns, Alive, TypeOK
  <2>2. CASE told' = told /\ pc[w] # "free" /\ \A u \in Writers \ {w} : pc'[u] = pc[u]
    BY <1>2, <2>2 DEF Alive
  <2>. QED BY <2>1, <2>2 DEF TypeOK, WriterStep, Begin, BeginFails, Open, OpenFails, Put,
       PutFails, Rename, RenameFails, GivesUp, CarriesOn, Notice, Break, StartsWriting
<1>. QED BY <1>1, <1>2 DEF OwnerInv, WriterIsOwned, commandVars

LEMMA OwnerStep == TypeOK /\ OwnerInv /\ [Next]_vars => OwnerInv'
<1>. SUFFICES ASSUME TypeOK, OwnerInv, [Next]_vars PROVE OwnerInv'
  OBVIOUS
<1>1. CASE UNCHANGED vars \/ \E p \in Texts : PayloadChanges(p)
  BY <1>1 DEF PayloadChanges, OwnerInv, WriterIsOwned, Alive, vars, commandVars,
     writerVars
<1>. QED BY <1>1, OwnerCommand, OwnerWriter DEF Next

(* Every writer that was not told to stop can be: its handle is with the   *)
(* server or with the command that is opening the window.                  *)
THEOREM NoOrphanWriter == Spec => []WriterIsOwned
<1>1. Init => OwnerInv
  BY DEF Init, OwnerInv, WriterIsOwned, Alive
<1>2. OwnerInv => WriterIsOwned
  BY DEF OwnerInv
<1>. QED BY <1>1, <1>2, TypeCorrect, OwnerStep, PTL DEF Spec

(***************************************************************************)
(* The blank.  A writer that is not on its way out still has a whole blank *)
(* to write; one that is, writes nothing but blanks.  While there is a     *)
(* text in the temporary file, some writer is yet to open it anew, and     *)
(* while the file shows one, some writer will still blank it, unless a     *)
(* blank failed.                                                           *)
(***************************************************************************)
Working(w) == pc[w] \in {"loop", "open", "put", "rename"} /\ after[w] = "loop"
Leaving(w) == pc[w] \in {"open", "put", "rename"} /\ after[w] = "exit"

BlankInv ==
    /\ \A w \in Writers : Leaving(w) => text[w] = Blank
    /\ \A w \in Writers : pc[w] \in {"free", "start", "loop"} => after[w] = "loop"
    /\ tmp \notin {Absent, Blank} =>
         unblanked \/ \E w \in Writers : Working(w) \/ (Leaving(w) /\ pc[w] = "open")
    /\ file # Blank =>
         \/ unblanked
         \/ \E w \in Writers :
              Working(w) \/ (Leaving(w) /\ (pc[w] = "open" \/ tmp # Absent))

(* A failed write of a writer that is on its way out is the failed blank,  *)
(* and any other writer stays.                                             *)
LEMMA BlankFails ==
    ASSUME TypeOK, BlankInv, NEW w \in Writers, GivesUp(w),
           pc[w] \in {"open", "put", "rename"}
    PROVE  /\ \A v \in Writers : Leaving(v)' => text'[v] = Blank
           /\ \A v \in Writers : pc'[v] \in {"free", "start", "loop"} => after'[v] = "loop"
           /\ Leaving(w) => unblanked'
           /\ unblanked => unblanked'
           /\ \A v \in Writers : Working(v) => Working(v)'
           /\ \A v \in Writers \ {w} : Leaving(v) => Leaving(v)' /\ pc'[v] = pc[v]
<1>. USE DEF TypeOK, BlankInv, Working, Leaving, GivesUp, CarriesOn
<1>1. CASE after[w] = "exit"
  <2>1. /\ pc' = [pc EXCEPT ![w] = "free"] /\ text' = [text EXCEPT ![w] = Blank]
        /\ after' = [after EXCEPT ![w] = "loop"] /\ unblanked'
    BY <1>1 DEF Returns
  <2>. HIDE DEF GivesUp, CarriesOn
  <2>. QED BY <1>1, <2>1
<1>2. CASE after[w] = "loop"
  BY <1>2
<1>. QED BY <1>1, <1>2

LEMMA BlankWriter ==
    ASSUME TypeOK, BlankInv, NEW w \in Writers, WriterStep(w)
    PROVE  BlankInv'
<1>. USE DEF TypeOK, BlankInv, Working, Leaving, observers
<1>1. CASE Begin(w)
  BY <1>1 DEF Begin, StartsWriting
<1>2. CASE BeginFails(w)
  BY <1>2 DEF BeginFails, Returns
<1>3. CASE Open(w)
  BY <1>3 DEF Open
<1>4. CASE Put(w)
  <2>1. PICK t \in Overwritten(Contents(w), text[w]) : Holds(w, t)
    BY <1>4 DEF Put
  <2>2. /\ pc[w] = "put" /\ pc' = [pc EXCEPT ![w] = "rename"]
        /\ text' = [text EXCEPT ![w] = Blank] /\ UNCHANGED <<after, unblanked>>
    BY <1>4 DEF Put
  <2>3. CASE after[w] = "exit"
    <3>1. UNCHANGED <<tmp, file>>
      BY <2>1, <2>2, <2>3 DEF Overwritten, Holds, Contents
    <3>. QED BY <2>2, <2>3, <3>1
  <2>4. CASE after[w] = "loop"
    BY <2>2, <2>4
  <2>. QED BY <2>3, <2>4
<1>5. CASE Rename(w)
  <2>1. CASE after[w] = "exit"
    BY <1>5, <2>1 DEF Rename, MoveTmp, CarriesOn, Returns
  <2>2. CASE after[w] = "loop"
    BY <1>5, <2>2 DEF Rename, MoveTmp, CarriesOn
  <2>. QED BY <2>1, <2>2
<1>6. CASE OpenFails(w) \/ RenameFails(w)
  <2>1. /\ GivesUp(w) /\ pc[w] \in {"open", "put", "rename"}
        /\ UNCHANGED <<tmp, file>>
    BY <1>6 DEF OpenFails, RenameFails
  <2>. QED BY <2>1, BlankFails
<1>7. CASE PutFails(w)
  <2>1. GivesUp(w) /\ pc[w] = "put"
    BY <1>7 DEF PutFails
  <2>2. Leaving(w) \/ Working(w)
    BY <2>1
  <2>. QED BY <2>1, <2>2, BlankFails
<1>8. CASE Notice(w)
  BY <1>8 DEF Notice, StartsWriting
<1>9. CASE Break(w)
  BY <1>9 DEF Break, StartsWriting
<1>. QED BY <1>1, <1>2, <1>3, <1>4, <1>5, <1>6, <1>7, <1>8, <1>9 DEF WriterStep

(* Outside the writers only a spawn and a published payload matter, and    *)
(* they start nobody's blank and end nobody's.                             *)
LEMMA BlankElsewhere ==
    ASSUME TypeOK, BlankInv, UNCHANGED <<after, text, tmp, file, unblanked>>,
           \A w \in Writers : \/ pc'[w] = pc[w]
                              \/ pc[w] = "free" /\ pc'[w] = "start"
    PROVE  BlankInv'
BY DEF BlankInv, Working, Leaving

LEMMA BlankStep == TypeOK /\ BlankInv /\ [Next]_vars => BlankInv'
<1>. SUFFICES ASSUME TypeOK, BlankInv, [Next]_vars PROVE BlankInv'
  OBVIOUS
<1>1. CASE Command
  BY <1>1, BlankElsewhere DEF Command, StartServer, StopServer, DisableFile,
     EnableFile, OpenWindow, OpenSpawn, OpenRegister, OpenListen, CloseWindow, Spawn,
     writerVars, diskVars, observers, TypeOK
<1>2. CASE UNCHANGED vars \/ \E p \in Texts : PayloadChanges(p)
  BY <1>2, BlankElsewhere DEF PayloadChanges, vars, writerVars, diskVars, observers
<1>. QED BY <1>1, <1>2, BlankWriter DEF Next

(* When the last writer of a file is gone, the file shows nothing, however *)
(* the writers overlapped and whatever of theirs failed, unless it was a   *)
(* blank (file_task.rs spawn, write_atomic).                               *)
THEOREM StoppedIsBlank == Spec => []AllStoppedIsBlank
<1>1. Init => BlankInv
  BY DEF Init, BlankInv, Working, Leaving
<1>2. BlankInv => AllStoppedIsBlank
  BY DEF BlankInv, AllStoppedIsBlank, Alive, Working, Leaving
<1>. QED BY <1>1, <1>2, TypeCorrect, BlankStep, PTL DEF Spec

(***************************************************************************)
(* The lone writer.  What a writer that has the file for itself writes is  *)
(* Target, unless a newer payload waits for it.  The temporary file it has *)
(* opened stays the one of that name, stays blank until it writes, and is  *)
(* there when it is renamed.                                               *)
(***************************************************************************)
Target(w) == IF after[w] = "loop" THEN payload ELSE Blank

OnItsWay(w) ==
    /\ pc[w] \in {"open", "put"} => text[w] = Target(w)
    /\ pc[w] = "rename" => tmp = Target(w)
    /\ pc[w] = "loop" => missed \/ file = Target(w)

HasTheFile(w) ==
    /\ pc[w] \in {"open", "put", "rename", "loop"}
    /\ pc[w] = "put" => fd[w] = "tmp" /\ tmp = Blank
    /\ pc[w] = "rename" => tmp # Absent
    /\ pc[w] = "loop" => after[w] = "loop"

SoloInv ==
    \A w \in solo : /\ w \in Writers /\ \A v \in Writers \ {w} : ~Alive(v)
                    /\ HasTheFile(w)
                    /\ ~(after[w] = "loop" /\ pending[w]) => OnItsWay(w)

(* Whoever takes up a text takes up the right one.                         *)
LEMMA TakenUp ==
    ASSUME TypeOK, NEW w \in Writers, NEW v \in Writers, WriterStep(v), TakesUp(w)
    PROVE  HasTheFile(w)' /\ OnItsWay(w)'
<1>. USE DEF TypeOK, HasTheFile, OnItsWay, Target, StartsWriting
<1>1. pc[w] \in {"start", "loop"} /\ pc'[w] = "open"
  BY DEF TakesUp
<1>2. v = w
  BY <1>1 DEF WriterStep, Begin, BeginFails, Open, OpenFails, Put, PutFails, Rename,
     RenameFails, GivesUp, CarriesOn, Notice, Break, Returns
<1>3. Begin(w) \/ Notice(w) \/ Break(w)
  BY <1>1, <1>2 DEF WriterStep, BeginFails, Open, OpenFails, Put, PutFails, Rename,
     RenameFails, Returns
<1>. QED BY <1>1, <1>3 DEF Begin, Notice, Break

(* A step of the lone writer that goes on with its text.                   *)
LEMMA GoesOn ==
    ASSUME TypeOK, NEW w \in Writers, WriterStep(w), ~TakesUp(w), Alive(w)',
           \A v \in Writers \ {w} : ~Alive(v),
           HasTheFile(w), ~(after[w] = "loop" /\ pending[w]) => OnItsWay(w)
    PROVE  /\ HasTheFile(w)' /\ UNCHANGED <<after[w], pending[w]>>
           /\ ~(after[w] = "loop" /\ pending[w]) => OnItsWay(w)'
<1>. USE DEF TypeOK, HasTheFile, OnItsWay, Target
<1>1. CASE Begin(w) \/ BeginFails(w)
  BY <1>1 DEF Begin, BeginFails
<1>2. CASE Notice(w) \/ Break(w)
  BY <1>2 DEF Notice, Break, StartsWriting, TakesUp
<1>3. CASE Open(w)
  BY <1>3 DEF Open, observers
<1>4. CASE Put(w)
  <2>1. fd[w] = "tmp" /\ tmp = Blank /\ Blank # Absent
    BY <1>4 DEF Put
  <2>2. PICK t \in Overwritten(Contents(w), text[w]) : Holds(w, t)
    BY <1>4 DEF Put
  <2>3. tmp' = text[w]
    BY <2>1, <2>2 DEF Overwritten, Contents, Holds
  <2>. QED BY <1>4, <2>3 DEF Put, observers
<1>5. CASE Rename(w)
  <2>1. after[w] = "loop"
    BY <1>5 DEF Rename, CarriesOn, Returns, Alive
  <2>2. /\ pc'[w] = "loop" /\ UNCHANGED <<payload, after, pending>>
        /\ file' = tmp
    BY <1>5, <2>1 DEF Rename, CarriesOn, MoveTmp
  <2>. QED BY <1>5, <2>1, <2>2 DEF Rename
<1>6. CASE OpenFails(w) \/ PutFails(w) \/ RenameFails(w)
  <2>1. GivesUp(w)
    BY <1>6 DEF OpenFails, PutFails, RenameFails
  <2>2. after[w] = "loop"
    BY <2>1 DEF GivesUp, CarriesOn, Returns, Alive
  <2>3. pc'[w] = "loop" /\ UNCHANGED <<after, pending>> /\ missed'
    BY <2>1, <2>2 DEF GivesUp, CarriesOn, Alive
  <2>. QED BY <2>2, <2>3
<1>. QED BY <1>1, <1>2, <1>3, <1>4, <1>5, <1>6 DEF WriterStep

(* Commands leave the writers where they are, unless they spawn one.       *)
LEMMA CommandFrame ==
    ASSUME TypeOK, Command, NEW w \in Writers, Alive(w),
           \A v \in Writers \ {w} : ~Alive(v)'
    PROVE  UNCHANGED <<pc[w], after[w], pending[w], text[w], payload, fd, tmp, file, missed>>
<1>1. ASSUME NEW v \in Writers, Spawn(v) PROVE FALSE
  <2>1. pc'[v] = "start" /\ pc[v] = "free"
    BY <1>1, SpawnType DEF Spawn
  <2>. QED BY <2>1 DEF Alive
<1>. QED BY <1>1 DEF Command, StartServer, StopServer, DisableFile, EnableFile, OpenWindow,
         OpenSpawn, OpenRegister, OpenListen, CloseWindow, writerVars, diskVars, observers

(* What a step leaves of a writer that has the file for itself after it.   *)
LEMMA SoloKept ==
    ASSUME TypeOK, SoloInv, Next, NEW w \in Writers, w \in solo \/ TakesUp(w),
           Alive(w)', \A v \in Writers \ {w} : ~Alive(v)'
    PROVE  HasTheFile(w)' /\ (~(after[w] = "loop" /\ pending[w])' => OnItsWay(w)')
<1>1. CASE TakesUp(w)
  <2>1. pc[w] \in {"start", "loop"} /\ pc'[w] = "open" /\ Alive(w)
    BY <1>1 DEF TakesUp, Alive
  <2>2. ~Command
    BY <2>1, CommandFrame
  <2>3. ~\E p \in Texts : PayloadChanges(p)
    BY <2>1 DEF PayloadChanges
  <2>4. PICK v \in Writers : WriterStep(v)
    BY <2>2, <2>3 DEF Next
  <2>. QED BY <1>1, <2>4, TakenUp
<1>2. CASE ~TakesUp(w)
  <2>1. /\ HasTheFile(w) /\ \A v \in Writers \ {w} : ~Alive(v)
        /\ ~(after[w] = "loop" /\ pending[w]) => OnItsWay(w)
    BY <1>2 DEF SoloInv
  <2>2. Alive(w)
    BY <2>1 DEF HasTheFile, Alive
  <2>3. CASE Command
    <3>1. UNCHANGED <<pc[w], after[w], pending[w], text[w], payload, fd, tmp, file, missed>>
      BY <2>2, <2>3, CommandFrame
    <3>. QED BY <2>1, <3>1 DEF HasTheFile, OnItsWay, Target
  <2>4. CASE \E p \in Texts : PayloadChanges(p)
    <3>1. UNCHANGED <<pc, after, text, fd, tmp, file, missed>>
      BY <2>4 DEF PayloadChanges, diskVars, observers
    <3>2. pending'[w]
      BY <2>2, <2>4 DEF PayloadChanges, Alive
    <3>. QED BY <2>1, <3>1, <3>2 DEF HasTheFile, OnItsWay, Target
  <2>5. CASE \E v \in Writers : WriterStep(v)
    <3>1. PICK v \in Writers : WriterStep(v)
      BY <2>5
    <3>2. v = w
      BY <2>1, <3>1 DEF Alive, WriterStep, Begin, BeginFails, Open, OpenFails, Put, PutFails,
         Rename, RenameFails, Notice, Break
    <3>. QED BY <1>2, <2>1, <3>1, <3>2, GoesOn
  <2>. QED BY <2>3, <2>4, <2>5 DEF Next
<1>. QED BY <1>1, <1>2

LEMMA SoloStep == TypeOK /\ SoloInv /\ [SoloNext]_soloVars => SoloInv'
<1>. SUFFICES ASSUME TypeOK, SoloInv, [SoloNext]_soloVars PROVE SoloInv'
  OBVIOUS
<1>1. CASE UNCHANGED soloVars
  BY <1>1 DEF soloVars, vars, writerVars, diskVars, observers, SoloInv, HasTheFile, OnItsWay, Target,
     Alive
<1>2. CASE SoloNext
  <2>1. ASSUME NEW w \in Writers, w \in solo'
        PROVE  /\ \A v \in Writers \ {w} : ~Alive(v)'
               /\ HasTheFile(w)'
               /\ ~(after[w] = "loop" /\ pending[w])' => OnItsWay(w)'
    <3>1. /\ Next /\ Alive(w)' /\ (w \in solo \/ TakesUp(w))
          /\ \A v \in Writers \ {w} : ~Alive(v)'
      BY <1>2, <2>1 DEF SoloNext
    <3>. QED BY <3>1, SoloKept
  <2>2. solo' \subseteq Writers
    BY <1>2 DEF SoloNext
  <2>. QED BY <2>1, <2>2 DEF SoloInv
<1>. QED BY <1>1, <1>2

(* A writer that wrote with no other beside it, has nothing left to see,   *)
(* and has not failed to write what it saw last, has the file show the     *)
(* payload (file_task.rs spawn, write_atomic).                             *)
THEOREM LoneWriterShows == SoloSpec => []SoloIsShown
<1>1. SoloInit => TypeOK /\ SoloInv
  BY DEF SoloInit, Init, TypeOK, SoloInv
<1>2. TypeOK /\ [SoloNext]_soloVars => TypeOK'
  BY TypeStep DEF SoloNext, soloVars
<1>3. SoloInv => SoloIsShown
  BY DEF SoloInv, SoloIsShown, HasTheFile, OnItsWay, Target
<1>. QED BY <1>1, <1>2, <1>3, SoloStep, PTL DEF SoloSpec
=============================================================================
