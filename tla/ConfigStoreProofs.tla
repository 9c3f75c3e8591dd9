------------------------- MODULE ConfigStoreProofs -------------------------
(***************************************************************************)
(* Proofs about ConfigStore, for any number of commands, keys and values.  *)
(***************************************************************************)
EXTENDS ConfigStore, TLAPS

USE ValuesAssumption, OpsAssumption

Pcs == {"idle", "corrupt", "read", "open", "filled"}

(***************************************************************************)
(* The operators                                                           *)
(***************************************************************************)
LEMMA Files ==
  /\ Empty \in Map
  /\ Absent \in File /\ Blank \in File /\ Torn \in File
  /\ \A map \in Map : Json(map) \in File
BY DEF Empty, Map, Absent, Blank, Torn, Json, File

LEMMA PatchedType == \A o \in Op, map \in Map : Patched(o.patch, map) \in Map
BY DEF Op, Map, Patched

LEMMA NoOpType == NoOp \in Op
BY DEF NoOp, Op, Documents

LEMMA WrittenPath == \A doc \in Documents : Written(doc) \in Paths
BY DEF Written, Documents, Paths

(***************************************************************************)
(* Type correctness                                                        *)
(***************************************************************************)
LEMMA DoneType ==
  ASSUME TypeOK, NEW p \in Procs, Done(p)
  PROVE  /\ pc' \in [Procs -> Pcs]
         /\ op' \in [Procs -> Op]
         /\ before' \in [Procs -> Map]
         /\ found' \in [Procs -> Map]
         /\ alone' \in [Procs -> BOOLEAN]
BY NoOpType, Files DEF Done, TypeOK, Pcs

LEMMA MoveType ==
  ASSUME TypeOK, NEW to \in {"config", "gone"}, MoveTmp(to)
  PROVE  handle' \in [Procs -> Paths \cup {"gone"}]
BY DEF MoveTmp, TypeOK, Paths, Documents

LEMMA FillType ==
  ASSUME TypeOK, NEW p \in Procs, Fill(p) PROVE disk' \in [Paths -> File]
<1>1. CASE handle[p] \in Paths
  <2>. DEFINE m == Patched(op[p].patch, before[p])
  <2>1. m \in Map
    BY PatchedType DEF TypeOK
  <2>2. PICK file \in Overwritten(disk[handle[p]], m) :
          disk' = [disk EXCEPT ![handle[p]] = file]
    BY <1>1 DEF Fill
  <2>3. file \in File
    BY <2>1, Files DEF Overwritten
  <2>. QED BY <2>2, <2>3 DEF TypeOK
<1>2. CASE handle[p] \notin Paths
  BY <1>2 DEF Fill, TypeOK
<1>. QED BY <1>1, <1>2

LEMMA StepType == ASSUME TypeOK, NEW p \in Procs, Step(p) PROVE TypeOK'
<1>1. ASSUME NEW o \in Ops, NEW ok \in BOOLEAN, Read(p, o, ok) PROVE TypeOK'
  <2>1. o \in Op /\ o.doc \in Documents
    BY DEF Op
  <2>2. /\ disk[o.doc].map \in Map
        /\ UNCHANGED << disk, handle >>
    BY <1>1, <2>1 DEF Read, TypeOK, File, Paths
  <2>3. op' \in [Procs -> Op] /\ before' \in [Procs -> Map] /\ found' \in [Procs -> Map]
    BY <1>1, <2>1, <2>2, Files DEF Read, TypeOK
  <2>4. pc' \in [Procs -> Pcs]
    BY <1>1 DEF Read, TypeOK, Pcs
  <2>5. alone' \in [Procs -> BOOLEAN]
    <3>. DEFINE A(q) == IF q = p
                        THEN \A r \in Procs \ {p} : Active(r) => op[r].doc # o.doc
                        ELSE alone[q] /\ (Active(q) => op[q].doc # o.doc)
    <3>1. alone' = [q \in Procs |-> A(q)]
      BY <1>1 DEF Read
    <3>2. \A q \in Procs : A(q) \in BOOLEAN
      BY DEF TypeOK
    <3>. QED BY <3>1, <3>2
  <2>. QED BY <2>2, <2>3, <2>4, <2>5 DEF TypeOK, Pcs
<1>2. CASE MoveAside(p)
  BY <1>2, Files DEF MoveAside, TypeOK, Paths, Documents
<1>3. CASE Leave(p)
  BY <1>3, DoneType DEF Leave, TypeOK, Pcs
<1>4. CASE Open(p)
  <2>1. Written(op[p].doc) \in Paths
    BY WrittenPath DEF TypeOK, Op
  <2>. QED BY <1>4, <2>1, Files DEF Open, TypeOK
<1>5. CASE Fill(p)
  <2>1. handle' \in [Procs -> Paths \cup {"gone"}]
    BY <1>5 DEF Fill, TypeOK
  <2>2. CASE op[p].doc = "config"
    BY <1>5, <2>1, <2>2, FillType DEF Fill, TypeOK
  <2>3. CASE op[p].doc # "config"
    BY <1>5, <2>1, <2>3, FillType, DoneType DEF Fill, TypeOK, Pcs
  <2>. QED BY <2>2, <2>3
<1>6. CASE FillFails(p)
  <2>1. handle' \in [Procs -> Paths \cup {"gone"}] /\ disk' \in [Paths -> File]
    BY <1>6, Files DEF FillFails, TypeOK
  <2>. QED BY <1>6, <2>1, DoneType DEF FillFails, TypeOK, Pcs
<1>7. CASE Rename(p)
  <2>1. disk' \in [Paths -> File]
    BY <1>7, Files DEF Rename, TypeOK, Paths, Documents
  <2>. QED BY <1>7, <2>1, DoneType, MoveType DEF Rename, TypeOK, Pcs
<1>8. CASE RenameFails(p)
  <2>1. disk' \in [Paths -> File]
    BY <1>8, Files DEF RenameFails, TypeOK
  <2>. QED BY <1>8, <2>1, DoneType, MoveType DEF RenameFails, TypeOK, Pcs
<1>. QED BY <1>1, <1>2, <1>3, <1>4, <1>5, <1>6, <1>7, <1>8 DEF Step

LEMMA TypeStep == TypeOK /\ [Next]_vars => TypeOK'
<1>. SUFFICES ASSUME TypeOK, [Next]_vars PROVE TypeOK'
  OBVIOUS
<1>1. CASE Crash
  BY <1>1, NoOpType, Files DEF Crash, TypeOK
<1>2. CASE UNCHANGED vars
  BY <1>2 DEF vars, TypeOK
<1>. QED BY <1>1, <1>2, StepType DEF Next

LEMMA TypeInit == Init => TypeOK
BY NoOpType, Files DEF Init, TypeOK

(* Every variable keeps its type, whatever the commands do to each other.  *)
THEOREM TypeCorrect == Spec => []TypeOK
BY TypeInit, TypeStep, PTL DEF Spec

(***************************************************************************)
(* The inductive invariant.  A command that is alone with its document has *)
(* nobody else's file open next to its own (Apart, Handles), so what it    *)
(* has read and written stays as it was (Lone).                            *)
(***************************************************************************)
FilesRead == \A f \in Paths : disk[f].kind # "json" => disk[f].map = Empty

Handles ==
  \A p \in Procs :
    /\ handle[p] # "gone" => pc[p] = "open"
    /\ handle[p] \in {"tmp", "config"} => op[p].doc = "config"
    /\ handle[p] = "mods" => op[p].doc = "mods"
    /\ pc[p] \in {"corrupt", "filled"} => op[p].doc = "config"

Apart ==
  \A p, q \in Procs :
    p # q /\ Active(p) /\ Active(q) /\ alone[p] => op[q].doc # op[p].doc

LoneFacts(p) ==
  /\ pc[p] = "corrupt" => found[p] = Empty
  /\ pc[p] = "open" =>
       handle[p] = Written(op[p].doc) /\ disk[Written(op[p].doc)] = Blank
  /\ pc[p] = "filled" => disk["tmp"] = Json(Patched(op[p].patch, before[p]))
  /\ Active(p) => before[p] \in {found[p], Empty}
  /\ Active(p) /\ op[p].doc = "config" => disk["config"].map = found[p]

Lone == \A p \in Procs : alone[p] => LoneFacts(p)

IInv == TypeOK /\ FilesRead /\ Handles /\ Apart /\ Lone

\* a step of a command that is under way
Work(p) ==
  \/ MoveAside(p) \/ Leave(p) \/ Open(p) \/ Fill(p)
  \/ FillFails(p) \/ Rename(p) \/ RenameFails(p)

\* the files of a document
FilesOf(doc) == IF doc = "config" THEN {"config", "tmp"} ELSE {"mods"}

(***************************************************************************)
(* What a step of p leaves alone                                           *)
(***************************************************************************)
LEMMA WorkFrame ==
  ASSUME IInv, NEW p \in Procs, Work(p)
  PROVE  /\ Active(p)
         /\ pc'[p] # "idle" => /\ op'[p] = op[p]
                               /\ before'[p] = before[p] /\ found'[p] = found[p]
                               /\ alone'[p] = alone[p]
         /\ \A q \in Procs \ {p} : /\ pc'[q] = pc[q]
                                   /\ op'[q] = op[q]
                                   /\ before'[q] = before[q] /\ found'[q] = found[q]
                                   /\ alone'[q] = alone[q]
<1>. USE DEF IInv, TypeOK, Active
<1>1. CASE MoveAside(p) BY <1>1 DEF MoveAside
<1>2. CASE Leave(p) BY <1>2 DEF Leave, Done
<1>3. CASE Open(p) BY <1>3 DEF Open
<1>4. CASE Fill(p)
  <2>1. CASE op[p].doc = "config" BY <1>4, <2>1 DEF Fill
  <2>2. CASE op[p].doc # "config" BY <1>4, <2>2 DEF Fill, Done
  <2>. QED BY <2>1, <2>2
<1>5. CASE FillFails(p) BY <1>5 DEF FillFails, Done
<1>6. CASE Rename(p) BY <1>6 DEF Rename, Done
<1>7. CASE RenameFails(p) BY <1>7 DEF RenameFails, Done
<1>. QED BY <1>1, <1>2, <1>3, <1>4, <1>5, <1>6, <1>7 DEF Work

\* where the files of a process can be
LEMMA HandlePaths ==
  ASSUME IInv, NEW p \in Procs
  PROVE  /\ op[p].doc \in Documents
         /\ handle[p] \in FilesOf(op[p].doc) \cup {"gone"}
         /\ Written(op[p].doc) \in FilesOf(op[p].doc)
         /\ FilesOf(op[p].doc) \subseteq Paths
<1>1. op[p].doc \in Documents /\ handle[p] \in Paths \cup {"gone"}
  BY DEF IInv, TypeOK, Op
<1>. QED BY <1>1 DEF IInv, Handles, FilesOf, Written, Documents, Paths

LEMMA DiskFrame ==
  ASSUME IInv, NEW p \in Procs, Work(p)
  PROVE  /\ \A f \in Paths \ FilesOf(op[p].doc) : disk'[f] = disk[f]
         /\ \A q \in Procs : op[q].doc # op[p].doc => handle'[q] = handle[q]
<1>. DEFINE Goal == /\ \A f \in Paths \ FilesOf(op[p].doc) : disk'[f] = disk[f]
                    /\ \A q \in Procs : op[q].doc # op[p].doc => handle'[q] = handle[q]
<1>. SUFFICES Goal OBVIOUS
<1>0. /\ \A q \in Procs : /\ handle[q] \in FilesOf(op[q].doc) \cup {"gone"}
                          /\ op[q].doc \in Documents
      /\ disk \in [Paths -> File] /\ handle \in [Procs -> Paths \cup {"gone"}]
      /\ Written(op[p].doc) \in FilesOf(op[p].doc)
  BY HandlePaths DEF IInv, TypeOK
<1>1. CASE MoveAside(p)
  <2>1. op[p].doc = "config"
    BY <1>1 DEF MoveAside, IInv, Handles
  <2>2. CASE UNCHANGED << disk, handle >> BY <2>2
  <2>3. CASE ~ UNCHANGED << disk, handle >>
    <3>1. /\ disk' = [disk EXCEPT !["config"] = Absent]
          /\ handle' = [q \in Procs |->
                          IF handle[q] = "config" THEN "gone" ELSE handle[q]]
      BY <1>1, <2>3 DEF MoveAside
    <3>. QED BY <1>0, <2>1, <3>1 DEF FilesOf, Documents
  <2>. QED BY <2>2, <2>3
<1>2. CASE Leave(p) BY <1>2 DEF Leave
<1>3. CASE Open(p) BY <1>0, <1>3 DEF Open
<1>4. CASE Fill(p)
  <2>1. handle' = [handle EXCEPT ![p] = "gone"]
    BY <1>4 DEF Fill
  <2>2. \A f \in Paths \ FilesOf(op[p].doc) : disk'[f] = disk[f]
    <3>1. CASE handle[p] \in Paths
      <4>1. PICK file : disk' = [disk EXCEPT ![handle[p]] = file]
        BY <1>4, <3>1 DEF Fill
      <4>2. handle[p] \in FilesOf(op[p].doc)
        BY <1>0, <3>1 DEF Paths, Documents
      <4>. QED BY <1>0, <4>1, <4>2
    <3>2. CASE handle[p] \notin Paths BY <1>4, <3>2 DEF Fill
    <3>. QED BY <3>1, <3>2
  <2>. QED BY <1>0, <2>1, <2>2
<1>5. CASE FillFails(p)
  <2>1. handle' = [handle EXCEPT ![p] = "gone"]
    BY <1>5 DEF FillFails
  <2>2. \A f \in Paths \ FilesOf(op[p].doc) : disk'[f] = disk[f]
    <3>1. CASE handle[p] \in Paths
      <4>1. disk' = [disk EXCEPT ![handle[p]] = Torn]
        BY <1>5, <3>1 DEF FillFails
      <4>2. handle[p] \in FilesOf(op[p].doc)
        BY <1>0, <3>1 DEF Paths, Documents
      <4>. QED BY <1>0, <4>1, <4>2
    <3>2. CASE handle[p] \notin Paths BY <1>5, <3>2 DEF FillFails
    <3>. QED BY <3>1, <3>2
  <2>. QED BY <1>0, <2>1, <2>2
<1>6. CASE Rename(p)
  <2>1. op[p].doc = "config"
    BY <1>6 DEF Rename, IInv, Handles
  <2>2. \A q \in Procs : op[q].doc # "config" => handle[q] \notin {"tmp", "config"}
    BY DEF IInv, Handles
  <2>. QED BY <1>0, <1>6, <2>1, <2>2 DEF Rename, MoveTmp, FilesOf
<1>7. CASE RenameFails(p)
  <2>1. op[p].doc = "config"
    BY <1>7 DEF RenameFails, IInv, Handles
  <2>2. \A q \in Procs : op[q].doc # "config" => handle[q] \notin {"tmp", "config"}
    BY DEF IInv, Handles
  <2>. QED BY <1>0, <1>7, <2>1, <2>2 DEF RenameFails, MoveTmp, FilesOf
<1>. QED BY <1>1, <1>2, <1>3, <1>4, <1>5, <1>6, <1>7 DEF Work

(***************************************************************************)
(* A step of a command that is under way                                   *)
(***************************************************************************)
LEMMA OwnStep ==
  ASSUME IInv, NEW p \in Procs, Work(p), alone'[p], pc'[p] # "idle"
  PROVE  LoneFacts(p)'
<1>0. /\ LoneFacts(p) /\ Active(p)
      /\ op'[p] = op[p] /\ before'[p] = before[p] /\ found'[p] = found[p]
  BY WorkFrame DEF IInv, Lone
<1>. USE <1>0
<1>a. /\ disk \in [Paths -> File] /\ pc \in [Procs -> Pcs]
      /\ handle \in [Procs -> Paths \cup {"gone"}]
      /\ op[p].doc \in Documents
  BY HandlePaths DEF IInv, TypeOK, Pcs
<1>. USE <1>a
<1>1. CASE MoveAside(p)
  <2>1. op[p].doc = "config" /\ pc[p] = "corrupt" /\ pc'[p] = "read"
    BY <1>1 DEF MoveAside, IInv, Handles
  <2>2. found[p] = Empty /\ disk["config"].map = Empty
    BY <2>1 DEF LoneFacts, Active
  <2>3. disk'["config"].map = Empty
    BY <1>1, <2>2 DEF MoveAside, Absent, Paths, Documents
  <2>. QED BY <2>1, <2>2, <2>3 DEF LoneFacts
<1>2. CASE Leave(p)
  BY <1>2 DEF Leave, Done
<1>3. CASE Open(p)
  <2>1. /\ pc'[p] = "open" /\ handle'[p] = Written(op[p].doc)
        /\ disk' = [disk EXCEPT ![Written(op[p].doc)] = Blank]
    BY <1>3 DEF Open
  <2>2. Written(op[p].doc) \in Paths
    BY HandlePaths
  <2>3. op[p].doc = "config" => disk'["config"] = disk["config"]
    BY <2>1 DEF Written, Paths, Documents
  <2>. QED BY <2>1, <2>2, <2>3 DEF LoneFacts, Active
<1>4. CASE Fill(p)
  <2>. DEFINE m == Patched(op[p].patch, before[p])
  <2>1. op[p].doc = "config" /\ pc[p] = "open" /\ pc'[p] = "filled"
    BY <1>4 DEF Fill, Done
  <2>2. handle[p] = "tmp" /\ disk["tmp"] = Blank
    BY <2>1 DEF LoneFacts, Written
  <2>3. PICK file \in Overwritten(disk["tmp"], m) :
          disk' = [disk EXCEPT !["tmp"] = file]
    BY <1>4, <2>2 DEF Fill, Paths
  <2>4. file = Json(m)
    BY <2>2, <2>3 DEF Overwritten
  <2>5. disk'["tmp"] = Json(m) /\ disk'["config"] = disk["config"]
    BY <2>3, <2>4 DEF Paths, Documents
  <2>. QED BY <2>1, <2>5 DEF LoneFacts, Active
<1>5. CASE FillFails(p)
  BY <1>5 DEF FillFails, Done
<1>6. CASE Rename(p)
  BY <1>6 DEF Rename, Done
<1>7. CASE RenameFails(p)
  BY <1>7 DEF RenameFails, Done
<1>. QED BY <1>1, <1>2, <1>3, <1>4, <1>5, <1>6, <1>7 DEF Work

LEMMA OtherStep ==
  ASSUME IInv, NEW p \in Procs, NEW q \in Procs \ {p}, Work(p),
         alone'[q], pc'[q] # "idle"
  PROVE  LoneFacts(q)'
<1>1. /\ pc'[q] = pc[q] /\ op'[q] = op[q] /\ before'[q] = before[q]
      /\ found'[q] = found[q] /\ alone'[q] = alone[q] /\ Active(p)
  BY WorkFrame
<1>2. Active(q) /\ LoneFacts(q)
  BY <1>1 DEF IInv, Lone, Active
<1>3. op[p].doc # op[q].doc
  BY <1>1, <1>2 DEF IInv, Apart
<1>4. handle'[q] = handle[q]
  BY <1>3, DiskFrame
<1>5. \A f \in FilesOf(op[q].doc) : disk'[f] = disk[f]
  <2>1. \A f \in FilesOf(op[q].doc) : f \in Paths \ FilesOf(op[p].doc)
    BY <1>3, HandlePaths DEF FilesOf, Documents, Paths
  <2>. QED BY <2>1, DiskFrame
<1>6. /\ Written(op[q].doc) \in FilesOf(op[q].doc)
      /\ op[q].doc = "config" => FilesOf(op[q].doc) = {"config", "tmp"}
      /\ pc[q] = "filled" => op[q].doc = "config"
  BY HandlePaths DEF FilesOf, IInv, Handles
<1>. QED BY <1>1, <1>2, <1>4, <1>5, <1>6 DEF LoneFacts, Active

LEMMA WorkFiles ==
  ASSUME IInv, NEW p \in Procs, Work(p) PROVE FilesRead'
<1>. USE DEF IInv, TypeOK, FilesRead
<1>a. Absent.map = Empty /\ Blank.map = Empty /\ Torn.map = Empty
  BY DEF Absent, Blank, Torn
<1>b. \A map : Json(map).kind = "json"
  BY DEF Json
<1>1. CASE MoveAside(p) BY <1>1, <1>a DEF MoveAside
<1>2. CASE Leave(p) BY <1>2 DEF Leave
<1>3. CASE Open(p) BY <1>3, <1>a DEF Open
<1>4. CASE Fill(p)
  <2>1. CASE handle[p] \in Paths
    <3>1. PICK file \in Overwritten(disk[handle[p]],
                                    Patched(op[p].patch, before[p])) :
            disk' = [disk EXCEPT ![handle[p]] = file]
      BY <1>4, <2>1 DEF Fill
    <3>2. file.kind = "json" \/ file.map = Empty
      BY <3>1, <1>a, <1>b DEF Overwritten
    <3>. QED BY <3>1, <3>2
  <2>2. CASE handle[p] \notin Paths BY <1>4, <2>2 DEF Fill
  <2>. QED BY <2>1, <2>2
<1>5. CASE FillFails(p) BY <1>5, <1>a DEF FillFails
<1>6. CASE Rename(p) BY <1>6, <1>a DEF Rename, Paths
<1>7. CASE RenameFails(p) BY <1>7, <1>a DEF RenameFails
<1>. QED BY <1>1, <1>2, <1>3, <1>4, <1>5, <1>6, <1>7 DEF Work

LEMMA WorkHandles ==
  ASSUME IInv, NEW p \in Procs, Work(p) PROVE Handles'
<1>. USE DEF IInv, TypeOK
<1>. DEFINE H(q, h, d, c) ==
       /\ h # "gone" => c = "open"
       /\ h \in {"tmp", "config"} => d = "config"
       /\ h = "mods" => d = "mods"
       /\ c \in {"corrupt", "filled"} => d = "config"
<1>0. \A q \in Procs : H(q, handle[q], op[q].doc, pc[q])
  BY DEF Handles
<1>. SUFFICES ASSUME NEW q \in Procs
              PROVE  H(q, handle'[q], op'[q].doc, pc'[q])
  BY DEF Handles
<1>a. q # p => pc'[q] = pc[q] /\ op'[q] = op[q]
  BY WorkFrame
<1>1. CASE MoveAside(p)
  <2>1. handle'[q] \in {handle[q], "gone"}
    BY <1>1 DEF MoveAside
  <2>2. handle'[p] = "gone"
    BY <1>0, <1>1 DEF MoveAside
  <2>3. pc'[p] = "read" /\ op'[q] = op[q]
    BY <1>1 DEF MoveAside
  <2>. QED BY <1>0, <1>a, <2>1, <2>2, <2>3
<1>2. CASE Leave(p)
  <2>1. /\ handle'[q] = handle[q] /\ pc[p] = "read" /\ pc'[p] = "idle"
    BY <1>2 DEF Leave, Done
  <2>. QED BY <1>0, <1>a, <2>1
<1>3. CASE Open(p)
  <2>1. /\ q # p => handle'[q] = handle[q]
        /\ pc'[p] = "open" /\ handle'[p] = Written(op[p].doc)
        /\ op'[p] = op[p] /\ op[p].doc \in Documents
    BY <1>3, HandlePaths DEF Open
  <2>. QED BY <1>0, <1>a, <2>1 DEF Written, Documents
<1>4. CASE Fill(p)
  <2>1. q # p => handle'[q] = handle[q]
    BY <1>4 DEF Fill
  <2>2. handle'[p] = "gone"
    BY <1>4 DEF Fill
  <2>3. /\ pc'[p] \in {"idle", "filled"}
        /\ pc'[p] = "filled" => op'[p].doc = "config"
    BY <1>4 DEF Fill, Done
  <2>. QED BY <1>0, <1>a, <2>1, <2>2, <2>3
<1>5. CASE FillFails(p)
  <2>1. /\ q # p => handle'[q] = handle[q]
        /\ pc'[p] = "idle" /\ handle'[p] = "gone"
    BY <1>5 DEF FillFails, Done
  <2>. QED BY <1>0, <1>a, <2>1
<1>6. CASE Rename(p)
  <2>1. /\ handle'[q] = handle[q] \/ handle'[q] = "gone"
           \/ (handle[q] = "tmp" /\ handle'[q] = "config")
        /\ handle[q] = "gone" => handle'[q] = "gone"
    BY <1>6 DEF Rename, MoveTmp
  <2>2. pc'[p] = "idle" /\ handle[p] = "gone"
    BY <1>0, <1>6 DEF Rename, Done
  <2>. QED BY <1>0, <1>a, <2>1, <2>2
<1>7. CASE RenameFails(p)
  <2>1. handle'[q] \in {handle[q], "gone"}
    BY <1>7 DEF RenameFails, MoveTmp
  <2>2. pc'[p] = "idle" /\ handle[p] = "gone"
    BY <1>0, <1>7 DEF RenameFails, Done
  <2>. QED BY <1>0, <1>a, <2>1, <2>2
<1>. QED BY <1>1, <1>2, <1>3, <1>4, <1>5, <1>6, <1>7 DEF Work

LEMMA WorkStep == ASSUME IInv, NEW p \in Procs, Work(p) PROVE IInv'
<1>1. TypeOK'
  BY StepType DEF IInv, Work, Step
<1>2. Apart'
  BY WorkFrame DEF IInv, Apart, Active
<1>3. Lone'
  <2>1. \A q \in Procs : pc'[q] = "idle" => LoneFacts(q)'
    BY DEF LoneFacts, Active
  <2>2. \A q \in Procs : alone'[q] /\ pc'[q] # "idle" => LoneFacts(q)'
    BY OwnStep, OtherStep
  <2>. QED BY <2>1, <2>2 DEF Lone
<1>. QED BY <1>1, <1>2, <1>3, WorkFiles, WorkHandles DEF IInv

(***************************************************************************)
(* A command that begins                                                   *)
(***************************************************************************)
LEMMA ReadStep ==
  ASSUME IInv, NEW p \in Procs, NEW o \in Ops, NEW ok \in BOOLEAN, Read(p, o, ok)
  PROVE  IInv'
<1>0. /\ o.doc \in Documents /\ ~Active(p) /\ handle[p] = "gone"
      /\ UNCHANGED << disk, handle >>
      /\ \A q \in Procs \ {p} : pc'[q] = pc[q] /\ op'[q] = op[q]
                                /\ before'[q] = before[q] /\ found'[q] = found[q]
      /\ op'[p] = o /\ found'[p] = disk[o.doc].map
      /\ before'[p] = IF ok THEN disk[o.doc].map ELSE Empty
      /\ pc'[p] = IF ok /\ o.doc = "config" /\ disk["config"].kind \in {"empty", "torn"}
                  THEN "corrupt" ELSE "read"
  BY DEF Read, Op, IInv, TypeOK, Handles, Active
<1>1. /\ alone'[p] => \A r \in Procs \ {p} : Active(r) => op[r].doc # o.doc
      /\ \A q \in Procs \ {p} :
           alone'[q] => alone[q] /\ (Active(q) => op[q].doc # o.doc)
  <2>. DEFINE A(q) == IF q = p
                      THEN \A r \in Procs \ {p} : Active(r) => op[r].doc # o.doc
                      ELSE alone[q] /\ (Active(q) => op[q].doc # o.doc)
  <2>1. alone' = [q \in Procs |-> A(q)]
    BY DEF Read
  <2>2. \A q \in Procs : alone'[q] => A(q)
    BY <2>1
  <2>. HIDE DEF A
  <2>3. A(p) => \A r \in Procs \ {p} : Active(r) => op[r].doc # o.doc
    BY DEF A
  <2>4. \A q \in Procs \ {p} :
          A(q) => alone[q] /\ (Active(q) => op[q].doc # o.doc)
    BY DEF A
  <2>. QED BY <2>2, <2>3, <2>4
<1>2. TypeOK'
  BY StepType DEF IInv, Step
<1>3. FilesRead'
  BY <1>0 DEF IInv, FilesRead
<1>4. Handles'
  BY <1>0 DEF IInv, Handles
<1>5. Apart'
  BY <1>0, <1>1 DEF IInv, Apart, Active
<1>6. Lone'
  <2>1. LoneFacts(p)'
    <3>1. pc'[p] = "corrupt" => found'[p] = Empty
      BY <1>0 DEF IInv, FilesRead, Paths, Documents
    <3>2. pc'[p] \in {"corrupt", "read"}
      BY <1>0
    <3>. QED BY <1>0, <3>1, <3>2 DEF LoneFacts
  <2>2. ASSUME NEW q \in Procs \ {p}, alone'[q] PROVE LoneFacts(q)'
    <3>1. LoneFacts(q)
      BY <1>1, <2>2 DEF IInv, Lone
    <3>. QED BY <1>0, <3>1 DEF LoneFacts, Active
  <2>. QED BY <2>1, <2>2 DEF Lone
<1>. QED BY <1>2, <1>3, <1>4, <1>5, <1>6 DEF IInv

LEMMA InvariantStep == IInv /\ [Next]_vars => IInv'
<1>. SUFFICES ASSUME IInv, [Next]_vars PROVE IInv'
  OBVIOUS
<1>1. CASE Crash
  <2>1. TypeOK'
    BY TypeStep DEF IInv
  <2>2. FilesRead'
    BY <1>1 DEF Crash, IInv, FilesRead
  <2>3. \A p \in Procs : pc'[p] = "idle" /\ handle'[p] = "gone"
    BY <1>1 DEF Crash
  <2>. QED BY <2>1, <2>2, <2>3
           DEF IInv, Handles, Apart, Lone, LoneFacts, Active
<1>2. CASE UNCHANGED vars
  BY <1>2 DEF vars, IInv, TypeOK, FilesRead, Handles, Apart, Lone, LoneFacts,
              Active
<1>3. ASSUME NEW p \in Procs, NEW o \in Ops, NEW ok \in BOOLEAN, Read(p, o, ok)
      PROVE  IInv'
  BY <1>3, ReadStep
<1>4. ASSUME NEW p \in Procs, Work(p) PROVE IInv'
  BY <1>4, WorkStep
<1>. QED BY <1>1, <1>2, <1>3, <1>4 DEF Next, Step, Work

LEMMA InvariantInit == Init => IInv
<1>. SUFFICES ASSUME Init PROVE IInv
  OBVIOUS
<1>1. TypeOK
  BY TypeInit
<1>2. FilesRead
  BY DEF Init, FilesRead, Absent
<1>3. \A p \in Procs : pc[p] = "idle" /\ handle[p] = "gone"
  BY DEF Init
<1>. QED BY <1>1, <1>2, <1>3
         DEF IInv, Handles, Apart, Lone, LoneFacts, Active

LEMMA Invariant == Spec => []IInv
BY InvariantInit, InvariantStep, PTL DEF Spec

(* While a command has config.json to itself, the file reads as it did     *)
(* when the command began, whatever fails, reading it included, and        *)
(* whenever the app ends.                                                  *)
THEOREM LoneAtomic == Spec => []LoneWriteIsAtomic
<1>1. IInv => LoneWriteIsAtomic
  BY DEF IInv, Lone, LoneFacts, LoneWriteIsAtomic
<1>. QED BY <1>1, Invariant, PTL

LEMMA StoredStep ==
  ASSUME IInv, NEW p \in Procs, Succeeds(p), alone[p]
  PROVE  disk'[op[p].doc] = Json(Patched(op[p].patch, before[p]))
<1>0. LoneFacts(p) /\ disk \in [Paths -> File]
  BY DEF IInv, TypeOK, Lone
<1>1. CASE Rename(p)
  <2>1. op[p].doc = "config" /\ pc[p] = "filled"
    BY <1>1 DEF Rename, IInv, Handles
  <2>. QED BY <1>0, <1>1, <2>1 DEF Rename, LoneFacts, Paths, Documents
<1>2. CASE op[p].doc = "mods" /\ Fill(p)
  <2>. DEFINE m == Patched(op[p].patch, before[p])
  <2>1. handle[p] = "mods" /\ disk["mods"] = Blank
    BY <1>0, <1>2 DEF Fill, LoneFacts, Written
  <2>2. PICK file \in Overwritten(disk["mods"], m) :
          disk' = [disk EXCEPT !["mods"] = file]
    BY <1>2, <2>1 DEF Fill, Paths, Documents
  <2>3. file = Json(m)
    BY <2>1, <2>2 DEF Overwritten
  <2>. QED BY <1>0, <1>2, <2>2, <2>3 DEF Paths, Documents
<1>. QED BY <1>1, <1>2 DEF Succeeds

(* A write that reports success and had its document to itself has stored  *)
(* a document that parses, with its own keys changed and the others kept,  *)
(* or all of them dropped if reading it failed.                            *)
THEOREM Stored == Spec => WriteIsStored
<1>1. IInv => \A p \in Procs :
                Succeeds(p) /\ alone[p] =>
                  disk'[op[p].doc] =
                    Json(Patched(op[p].patch,
                                 IF ReadFailed(p) THEN Empty ELSE found[p]))
  <2>. SUFFICES ASSUME IInv, NEW p \in Procs, Succeeds(p), alone[p]
                PROVE  before[p] = IF ReadFailed(p) THEN Empty ELSE found[p]
    BY StoredStep
  <2>1. pc[p] \in {"filled", "open"}
    BY DEF Succeeds, Rename, Fill
  <2>. QED BY <2>1 DEF IInv, Lone, LoneFacts, Active, ReadFailed
<1>. QED BY <1>1, Invariant, PTL DEF WriteIsStored
=============================================================================
