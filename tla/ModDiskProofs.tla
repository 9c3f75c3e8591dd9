---------------------------- MODULE ModDiskProofs ----------------------------
(***************************************************************************)
(* Proofs about ModDisk, for any versions, their files and save files.     *)
(***************************************************************************)
EXTENDS ModDisk, TLAPS

USE Distinct, KillsAssumption

(***************************************************************************)
(* Type correctness                                                        *)
(***************************************************************************)

(* Which operation can be at which step.                                   *)
Control ==
    /\ pc \in {"source", "mkdir", "main", "manifest", "manifest2", "latest", "latest2"}
         => op \in {"install", "update"}
    /\ pc \in {"stash", "saves", "restore"} => op = "update"
    /\ pc \in {"rmdir", "rmmeta"} => op = "remove"
    /\ op = "remove" => new = None
    /\ pc = "main" => todo \subseteq Files[new] \cup Saves
    /\ pc = "saves" => todo \subseteq Saves

TypeInv == TypeOK /\ Control

LEMMA OverType ==
    ASSUME NEW files, NEW folder, NEW S, files \subseteq S, folder \subseteq S
    PROVE  Over(files, folder) \subseteq S
BY DEF Over

LEMMA ExtractedType ==
    ASSUME NEW v \in Versions, NEW name \in Files[v] \cup Saves
    PROVE  Extracted(v, name) \in Contents
<1>1. CASE name \in Saves
  BY <1>1 DEF Extracted, Contents
<1>2. CASE name \notin Saves
  BY <1>2 DEF Extracted, Contents, AllCode, Code
<1>. QED BY <1>1, <1>2

LEMMA InstallType == TypeInv /\ Install => TypeInv'
<1>. SUFFICES ASSUME TypeInv, Install PROVE TypeInv'
  OBVIOUS
<1>. USE DEF TypeInv, TypeOK, FoldersTypeOK, MetadataTypeOK, OperationTypeOK, ObserverTypeOK,
             Control, folders, metadata, operation, observers,
             Continue, ContinueWith, Ends, Succeeds, InstallFails, InstallComplete, Json
<1>1. CASE CheckSource
  <2>1. FoldersTypeOK'
    BY <1>1 DEF CheckSource
  <2>2. MetadataTypeOK'
    BY <1>1 DEF CheckSource
  <2>3. OperationTypeOK' /\ Control'
    BY <1>1 DEF CheckSource
  <2>4. ObserverTypeOK'
    BY <1>1 DEF CheckSource
  <2>. QED BY <2>1, <2>2, <2>3, <2>4
<1>2. CASE MakeDestDir
  <2>1. FoldersTypeOK'
    BY <1>2 DEF MakeDestDir
  <2>2. MetadataTypeOK'
    BY <1>2 DEF MakeDestDir
  <2>3. OperationTypeOK' /\ Control'
    <3>1. CASE InstallFails
      BY <1>2, <3>1 DEF MakeDestDir
    <3>2. CASE \E shipped \in SUBSET Saves : ContinueWith("main", Files[new] \cup shipped)
      <4>1. PICK shipped \in SUBSET Saves :
               pc' = "main" /\ todo' = Files[new] \cup shipped /\ UNCHANGED <<op, remote, new>>
        BY <3>2
      <4>2. new \in Versions
        BY <1>2 DEF MakeDestDir
      <4>3. todo' \subseteq Files[new] \cup Saves /\ todo' \subseteq Names
        BY <4>1, <4>2 DEF Names
      <4>. QED BY <1>2, <4>1, <4>2, <4>3 DEF MakeDestDir
    <3>. QED BY <1>2, <3>1, <3>2 DEF MakeDestDir
  <2>4. ObserverTypeOK'
    BY <1>2 DEF MakeDestDir
  <2>. QED BY <2>1, <2>2, <2>3, <2>4
<1>3. CASE ExtractPiece
  <2>1. FoldersTypeOK'
    <3>1. PICK name \in todo : place' = Over({Extracted(new, name)}, place)
      BY <1>3 DEF ExtractPiece
    <3>2. Extracted(new, name) \in Contents
      BY <1>3, <3>1, ExtractedType DEF ExtractPiece
    <3>3. place' \subseteq Contents
      BY <3>1, <3>2, OverType
    <3>. QED BY <1>3, <3>3 DEF ExtractPiece
  <2>2. MetadataTypeOK'
    BY <1>3 DEF ExtractPiece
  <2>3. OperationTypeOK' /\ Control'
    <3>1. todo' \subseteq todo /\ UNCHANGED <<op, remote, new, pc, ghost, kills>>
      BY <1>3 DEF ExtractPiece
    <3>. QED BY <3>1
  <2>4. ObserverTypeOK'
    BY <1>3 DEF ExtractPiece
  <2>. QED BY <2>1, <2>2, <2>3, <2>4
<1>4. CASE MainInstalled
  <2>1. FoldersTypeOK'
    BY <1>4 DEF MainInstalled
  <2>2. MetadataTypeOK'
    BY <1>4 DEF MainInstalled
  <2>3. OperationTypeOK' /\ Control'
    <3>1. CASE InstallComplete
      <4>1. CASE op = "install"
        BY <1>4, <3>1, <4>1 DEF MainInstalled
      <4>2. CASE op # "install"
        <5>1. pc' = "saves" /\ todo' = Saves /\ UNCHANGED <<op, remote, new, ghost, kills>>
          BY <1>4, <3>1, <4>2 DEF MainInstalled
        <5>2. op = "update" /\ todo' \subseteq Names
          BY <1>4, <4>2, <5>1 DEF MainInstalled, Names
        <5>. QED BY <5>1, <5>2
      <4>. QED BY <4>1, <4>2
    <3>2. CASE ~InstallComplete
      BY <1>4, <3>2 DEF MainInstalled
    <3>. QED BY <3>1, <3>2
  <2>4. ObserverTypeOK'
    BY <1>4 DEF MainInstalled
  <2>. QED BY <2>1, <2>2, <2>3, <2>4
<1>5. CASE StepFails
  <2>1. FoldersTypeOK'
    BY <1>5 DEF StepFails
  <2>2. MetadataTypeOK'
    BY <1>5 DEF StepFails
  <2>3. OperationTypeOK' /\ Control'
    BY <1>5 DEF StepFails
  <2>4. ObserverTypeOK'
    BY <1>5 DEF StepFails
  <2>. QED BY <2>1, <2>2, <2>3, <2>4
<1>6. CASE TruncateManifest
  <2>1. FoldersTypeOK'
    BY <1>6 DEF TruncateManifest
  <2>2. MetadataTypeOK'
    BY <1>6 DEF TruncateManifest
  <2>3. OperationTypeOK' /\ Control'
    BY <1>6 DEF TruncateManifest
  <2>4. ObserverTypeOK'
    BY <1>6 DEF TruncateManifest
  <2>. QED BY <2>1, <2>2, <2>3, <2>4
<1>7. CASE WriteManifest
  <2>1. FoldersTypeOK'
    BY <1>7 DEF WriteManifest
  <2>2. MetadataTypeOK'
    BY <1>7 DEF WriteManifest
  <2>3. OperationTypeOK' /\ Control'
    BY <1>7 DEF WriteManifest
  <2>4. ObserverTypeOK'
    BY <1>7 DEF WriteManifest
  <2>. QED BY <2>1, <2>2, <2>3, <2>4
<1>8. CASE CheckLatest
  <2>1. FoldersTypeOK'
    BY <1>8 DEF CheckLatest
  <2>2. MetadataTypeOK'
    BY <1>8 DEF CheckLatest
  <2>3. OperationTypeOK' /\ Control'
    <3>1. CASE InstallComplete
      <4>1. CASE op = "install"
        BY <1>8, <3>1, <4>1 DEF CheckLatest
      <4>2. CASE op # "install"
        <5>1. pc' = "saves" /\ todo' = Saves /\ UNCHANGED <<op, remote, new, ghost, kills>>
          BY <1>8, <3>1, <4>2 DEF CheckLatest
        <5>2. op = "update" /\ todo' \subseteq Names
          BY <1>8, <4>2, <5>1 DEF CheckLatest, Names
        <5>. QED BY <5>1, <5>2
      <4>. QED BY <4>1, <4>2
    <3>2. CASE ~InstallComplete
      BY <1>8, <3>2 DEF CheckLatest
    <3>. QED BY <3>1, <3>2
  <2>4. ObserverTypeOK'
    BY <1>8 DEF CheckLatest
  <2>. QED BY <2>1, <2>2, <2>3, <2>4
<1>9. CASE WriteLatest
  <2>1. FoldersTypeOK'
    BY <1>9 DEF WriteLatest
  <2>2. MetadataTypeOK'
    BY <1>9 DEF WriteLatest
  <2>3. OperationTypeOK' /\ Control'
    <3>1. CASE InstallComplete
      <4>1. CASE op = "install"
        BY <1>9, <3>1, <4>1 DEF WriteLatest
      <4>2. CASE op # "install"
        <5>1. pc' = "saves" /\ todo' = Saves /\ UNCHANGED <<op, remote, new, ghost, kills>>
          BY <1>9, <3>1, <4>2 DEF WriteLatest
        <5>2. op = "update" /\ todo' \subseteq Names
          BY <1>9, <4>2, <5>1 DEF WriteLatest, Names
        <5>. QED BY <5>1, <5>2
      <4>. QED BY <4>1, <4>2
    <3>2. CASE ~InstallComplete
      BY <1>9, <3>2 DEF WriteLatest
    <3>. QED BY <3>1, <3>2
  <2>4. ObserverTypeOK'
    BY <1>9 DEF WriteLatest
  <2>. QED BY <2>1, <2>2, <2>3, <2>4
<1>. QED BY <1>1, <1>2, <1>3, <1>4, <1>5, <1>6, <1>7, <1>8, <1>9 DEF Install

LEMMA UpdateType == TypeInv /\ Update => TypeInv'
<1>. SUFFICES ASSUME TypeInv, Update PROVE TypeInv'
  OBVIOUS
<1>. USE DEF TypeInv, TypeOK, FoldersTypeOK, MetadataTypeOK, OperationTypeOK, ObserverTypeOK,
             Control, folders, metadata, operation, observers,
             Continue, ContinueWith, Ends, Succeeds, DropStash, Loses
<1>1. CASE PrepForUpdate
  <2>1. FoldersTypeOK'
    <3>1. there' \in BOOLEAN /\ place' \subseteq Contents /\ (~there' => place' = {})
      BY <1>1 DEF PrepForUpdate
    <3>2. stashed' \in BOOLEAN /\ stash' \subseteq Contents /\ (~stashed' => stash' = {})
      BY <1>1 DEF PrepForUpdate
    <3>3. stashed' <=> op' = "update" /\ pc' # "stash"
      BY <1>1 DEF PrepForUpdate
    <3>4. left' \subseteq SUBSET Contents
      BY <1>1 DEF PrepForUpdate
    <3>. QED BY <3>1, <3>2, <3>3, <3>4
  <2>2. MetadataTypeOK'
    BY <1>1 DEF PrepForUpdate
  <2>3. OperationTypeOK' /\ Control'
    BY <1>1 DEF PrepForUpdate
  <2>4. ObserverTypeOK'
    BY <1>1 DEF PrepForUpdate
  <2>. QED BY <2>1, <2>2, <2>3, <2>4
<1>2. CASE Restore
  <2>1. FoldersTypeOK'
    BY <1>2 DEF Restore
  <2>2. MetadataTypeOK'
    BY <1>2 DEF Restore
  <2>3. OperationTypeOK' /\ Control'
    BY <1>2 DEF Restore
  <2>4. ObserverTypeOK'
    BY <1>2 DEF Restore
  <2>. QED BY <2>1, <2>2, <2>3, <2>4
<1>3. CASE CopySave
  <2>1. FoldersTypeOK'
    <3>1. PICK f \in todo : place' = Over(Saved(f), place)
      BY <1>3 DEF CopySave
    <3>2. Saved(f) \subseteq Contents
      BY DEF Saved
    <3>3. place' \subseteq Contents
      BY <3>1, <3>2, OverType
    <3>. QED BY <1>3, <3>3 DEF CopySave
  <2>2. MetadataTypeOK'
    BY <1>3 DEF CopySave
  <2>3. OperationTypeOK' /\ Control'
    <3>1. todo' \subseteq todo /\ UNCHANGED <<op, remote, new, pc, ghost, kills>>
      BY <1>3 DEF CopySave
    <3>. QED BY <3>1
  <2>4. ObserverTypeOK'
    BY <1>3 DEF CopySave
  <2>. QED BY <2>1, <2>2, <2>3, <2>4
<1>4. CASE CopyFails
  <2>1. FoldersTypeOK'
    BY <1>4 DEF CopyFails
  <2>2. MetadataTypeOK'
    BY <1>4 DEF CopyFails
  <2>3. OperationTypeOK' /\ Control'
    BY <1>4 DEF CopyFails
  <2>4. ObserverTypeOK'
    BY <1>4 DEF CopyFails
  <2>. QED BY <2>1, <2>2, <2>3, <2>4
<1>5. CASE SavesCopied
  <2>1. FoldersTypeOK'
    BY <1>5 DEF SavesCopied
  <2>2. MetadataTypeOK'
    BY <1>5 DEF SavesCopied
  <2>3. OperationTypeOK' /\ Control'
    BY <1>5 DEF SavesCopied
  <2>4. ObserverTypeOK'
    BY <1>5 DEF SavesCopied
  <2>. QED BY <2>1, <2>2, <2>3, <2>4
<1>. QED BY <1>1, <1>2, <1>3, <1>4, <1>5 DEF Update

LEMMA OperationType == TypeInv /\ Operation => TypeInv'
<1>. SUFFICES ASSUME TypeInv, Operation PROVE TypeInv'
  OBVIOUS
<1>. USE DEF TypeInv, TypeOK, FoldersTypeOK, MetadataTypeOK, OperationTypeOK, ObserverTypeOK,
             Control, folders, metadata, operation, observers
<1>1. ASSUME NEW r \in BOOLEAN, NEW v \in Versions, BeginInstall(r, v) PROVE TypeInv'
  BY <1>1 DEF BeginInstall, Begin
<1>2. ASSUME NEW r \in BOOLEAN, NEW v \in Versions, BeginUpdate(r, v) PROVE TypeInv'
  BY <1>2 DEF BeginUpdate, Begin
<1>3. CASE BeginRemove
  <2>1. FoldersTypeOK'
    BY <1>3 DEF BeginRemove, Begin
  <2>2. MetadataTypeOK'
    BY <1>3 DEF BeginRemove, Begin
  <2>3. OperationTypeOK' /\ Control'
    BY <1>3 DEF BeginRemove, Begin
  <2>4. ObserverTypeOK'
    BY <1>3 DEF BeginRemove, Begin
  <2>. QED BY <2>1, <2>2, <2>3, <2>4
<1>4. CASE RemoveDir
  <2>1. FoldersTypeOK'
    BY <1>4 DEF RemoveDir, Continue, ContinueWith, Ends
  <2>2. MetadataTypeOK'
    BY <1>4 DEF RemoveDir, Continue, ContinueWith, Ends
  <2>3. OperationTypeOK' /\ Control'
    BY <1>4 DEF RemoveDir, Continue, ContinueWith, Ends
  <2>4. ObserverTypeOK'
    BY <1>4 DEF RemoveDir, Continue, ContinueWith, Ends
  <2>. QED BY <2>1, <2>2, <2>3, <2>4
<1>5. CASE RemoveMetadata
  <2>1. FoldersTypeOK'
    BY <1>5 DEF RemoveMetadata, Ends, Json
  <2>2. MetadataTypeOK'
    BY <1>5 DEF RemoveMetadata, Ends, Json
  <2>3. OperationTypeOK' /\ Control'
    BY <1>5 DEF RemoveMetadata, Ends, Json
  <2>4. ObserverTypeOK'
    BY <1>5 DEF RemoveMetadata, Ends, Json
  <2>. QED BY <2>1, <2>2, <2>3, <2>4
<1>. QED BY <1>1, <1>2, <1>3, <1>4, <1>5, InstallType, UpdateType DEF Operation, Remove

LEMMA MeanwhileType == TypeInv /\ Meanwhile => TypeInv'
<1>. SUFFICES ASSUME TypeInv, Meanwhile PROVE TypeInv'
  OBVIOUS
<1>. USE DEF TypeInv, TypeOK, FoldersTypeOK, MetadataTypeOK, OperationTypeOK, ObserverTypeOK,
             Control, folders, metadata, operation, observers
<1>1. ASSUME NEW v \in Versions, PollBegins(v) PROVE TypeInv'
  BY <1>1 DEF PollBegins, Json
<1>2. ASSUME NEW x \in Contents, GhostExtracts(x) PROVE TypeInv'
  <2>1. FoldersTypeOK'
    <3>1. there' = TRUE /\ place' \subseteq Contents
      BY <1>2, OverType DEF GhostExtracts
    <3>. QED BY <1>2, <3>1 DEF GhostExtracts
  <2>2. MetadataTypeOK'
    BY <1>2 DEF GhostExtracts
  <2>3. OperationTypeOK' /\ Control'
    <3>1. ghost' \subseteq ghost /\ UNCHANGED <<op, remote, new, pc, todo, kills>>
      BY <1>2 DEF GhostExtracts
    <3>. QED BY <3>1
  <2>4. ObserverTypeOK'
    BY <1>2 DEF GhostExtracts, Loses
  <2>. QED BY <2>1, <2>2, <2>3, <2>4
<1>3. CASE PollEnds
  <2>1. FoldersTypeOK'
    BY <1>3 DEF PollEnds, Json
  <2>2. MetadataTypeOK'
    BY <1>3 DEF PollEnds, Json
  <2>3. OperationTypeOK' /\ Control'
    BY <1>3 DEF PollEnds, Json
  <2>4. ObserverTypeOK'
    BY <1>3 DEF PollEnds, Json
  <2>. QED BY <2>1, <2>2, <2>3, <2>4
<1>4. ASSUME NEW f \in Saves, Play(f) PROVE TypeInv'
  <2>1. place' \subseteq Contents
    <3>1. UserSave(f) \in Contents
      BY DEF Contents, UserSave
    <3>. QED BY <1>4, <3>1, OverType DEF Play
  <2>. QED BY <1>4, <2>1 DEF Play
<1>5. CASE Crash
  <2>1. FoldersTypeOK'
    <3>1. there' \in BOOLEAN /\ place' \subseteq Contents /\ (~there' => place' = {})
      BY <1>5 DEF Crash, Killed, Ends, DropStash
    <3>2. stashed' \in BOOLEAN /\ stash' \subseteq Contents /\ (~stashed' => stash' = {})
      BY <1>5 DEF Crash, Killed, Ends, DropStash
    <3>3. stashed' <=> op' = "update" /\ pc' # "stash"
      BY <1>5 DEF Crash, Killed, Ends, DropStash
    <3>4. left' \subseteq SUBSET Contents
      BY <1>5 DEF Crash, Killed, Ends, DropStash
    <3>. QED BY <3>1, <3>2, <3>3, <3>4
  <2>2. MetadataTypeOK'
    BY <1>5 DEF Crash, Killed, Ends, DropStash
  <2>3. OperationTypeOK' /\ Control'
    <3>1. op' = "none" /\ remote' = FALSE /\ new' = None /\ pc' = "idle" /\ todo' = {}
      BY <1>5 DEF Crash, Killed, Ends
    <3>2. ghost' \subseteq Contents
      BY <1>5 DEF Crash
    <3>3. kills' \in 0..MaxKills
      BY <1>5 DEF Crash, Killed
    <3>4. Control'
      BY <3>1
    <3>. QED BY <3>1, <3>2, <3>3, <3>4
  <2>4. ObserverTypeOK'
    BY <1>5 DEF Crash, Killed, Ends, DropStash
  <2>. QED BY <2>1, <2>2, <2>3, <2>4
<1>6. CASE Abort
  <2>1. FoldersTypeOK'
    <3>1. there' \in BOOLEAN /\ place' \subseteq Contents /\ (~there' => place' = {})
      BY <1>6 DEF Abort, Killed, Ends, DropStash, Loses
    <3>2. stashed' \in BOOLEAN /\ stash' \subseteq Contents /\ (~stashed' => stash' = {})
      BY <1>6 DEF Abort, Killed, Ends, DropStash, Loses
    <3>3. stashed' <=> op' = "update" /\ pc' # "stash"
      BY <1>6 DEF Abort, Killed, Ends, DropStash, Loses
    <3>4. left' \subseteq SUBSET Contents
      BY <1>6 DEF Abort, Killed, Ends, DropStash, Loses
    <3>. QED BY <3>1, <3>2, <3>3, <3>4
  <2>2. MetadataTypeOK'
    BY <1>6 DEF Abort, Killed, Ends, DropStash, Loses
  <2>3. OperationTypeOK' /\ Control'
    <3>1. op' = "none" /\ remote' = FALSE /\ new' = None /\ pc' = "idle" /\ todo' = {}
      BY <1>6 DEF Abort, Killed, Ends
    <3>2. ghost' \subseteq Contents
      <4>1. CASE pc = "main"
        <5>1. \A name \in todo : Extracted(new, name) \in Contents
          BY <4>1, ExtractedType
        <5>. QED BY <1>6, <4>1, <5>1 DEF Abort
      <4>. QED BY <1>6, <4>1 DEF Abort
    <3>3. kills' \in 0..MaxKills
      BY <1>6 DEF Abort, Killed
    <3>4. Control'
      BY <3>1
    <3>. QED BY <3>1, <3>2, <3>3, <3>4
  <2>4. ObserverTypeOK'
    BY <1>6 DEF Abort, Killed, Ends, DropStash, Loses
  <2>. QED BY <2>1, <2>2, <2>3, <2>4
<1>. QED BY <1>1, <1>2, <1>3, <1>4, <1>5, <1>6 DEF Meanwhile

LEMMA TypeInduction == Spec => []TypeInv
<1>1. Init => TypeInv
  <2>. SUFFICES ASSUME Init PROVE TypeInv
    OBVIOUS
  <2>. USE DEF Init
  <2>1. FoldersTypeOK
    BY DEF FoldersTypeOK
  <2>2. MetadataTypeOK
    BY DEF MetadataTypeOK, Json
  <2>4. OperationTypeOK
    <3>1. ghost \subseteq Contents /\ todo = {} /\ kills \in 0..MaxKills
      OBVIOUS
    <3>2. op = "none" /\ pc = "idle" /\ remote \in BOOLEAN /\ new \in Versions \cup {None}
      OBVIOUS
    <3>. QED BY <3>1, <3>2 DEF OperationTypeOK
  <2>5. ObserverTypeOK
    BY DEF ObserverTypeOK
  <2>3. Control
    BY DEF Control
  <2>. QED BY <2>1, <2>2, <2>3, <2>4, <2>5 DEF TypeInv, TypeOK
<1>2. TypeInv /\ [Next]_vars => TypeInv'
  <2>1. ASSUME TypeInv, UNCHANGED vars PROVE TypeInv'
    BY <2>1 DEF TypeInv, TypeOK, FoldersTypeOK, MetadataTypeOK, OperationTypeOK, ObserverTypeOK,
             Control, vars, folders, metadata, operation, observers
  <2>. QED BY <2>1, OperationType, MeanwhileType DEF Next
<1>. QED BY <1>1, <1>2, PTL DEF Spec

(* Every variable keeps its type, and an operation its shape, for any      *)
(* constants (disk.rs, the LocalMods operations of DiskMods).              *)
THEOREM TypeCorrect == Spec => []TypeOK
<1>1. TypeInv => TypeOK
  BY DEF TypeInv
<1>. QED BY <1>1, TypeInduction, PTL


(***************************************************************************)
(* The user's save files                                                   *)
(***************************************************************************)

(* Nothing but the copy out of the stash puts a user's save into a folder  *)
(* that an update builds.                                                  *)
StashHasIt ==
    stashed => \A f \in Saves : UserSave(f) \in place => UserSave(f) \in stash

(* The folder an archive is extracted to was empty, and a ghost writes no  *)
(* save of the user.                                                       *)
NoneWritten ==
    \A f \in Saves : UserSave(f) \notin ghost /\ (pc = "main" => UserSave(f) \notin place)

(* A save that the update has copied is in the folder, unless a ghost has  *)
(* overwritten it since.                                                   *)
CopiedBack ==
    pc = "saves" => \A f \in Saves \ todo :
        UserSave(f) \in stash =>
            \/ UserSave(f) \in place
            \/ f \in gone /\ ~Untouched(UserSave(f))

Held(f) ==
    \/ UserSave(f) \in place
    \/ UserSave(f) \in stash
    \/ \E c \in left : UserSave(f) \in c

SaveInv ==
    /\ StashHasIt /\ NoneWritten /\ CopiedBack
    /\ \A f \in owed : f \in gone \/ Held(f)

LEMMA SavesDiffer ==
    ASSUME NEW f, NEW g
    PROVE  UserSave(f) # ShippedSave(g) /\ (UserSave(f) = UserSave(g) => f = g)
BY DEF UserSave, ShippedSave

(* A user's save is no file of an archive.                                 *)
LEMMA UserSaveIsNoCode ==
    ASSUME NEW f \in Saves
    PROVE  /\ UserSave(f) \notin AllCode /\ UserSave(f)[2] = f
           /\ \A v, name : name \in Files[v] \cup Saves /\ v \in Versions
                              => Extracted(v, name) # UserSave(f)
<1>1. UserSave(f) \notin AllCode
  BY DEF UserSave, AllCode, Code
<1>2. ASSUME NEW v \in Versions, NEW name \in Files[v] \cup Saves PROVE Extracted(v, name) # UserSave(f)
  <2>1. CASE name \in Saves
    BY <2>1 DEF Extracted, UserSave
  <2>2. CASE name \notin Saves
    BY <2>2 DEF Extracted, UserSave
  <2>. QED BY <2>1, <2>2
<1>. QED BY <1>1, <1>2 DEF UserSave

LEMMA OverKeeps ==
    ASSUME NEW files, NEW folder, NEW x \in folder, \A y \in files : y[2] # x[2]
    PROVE  x \in Over(files, folder)
BY DEF Over

(* A step that leaves the folders and the debt alone.                      *)
LEMMA SaveFrame ==
    ASSUME SaveInv, UNCHANGED <<place, stashed, stash, left, owed, gone, ghost>>,
           pc' = "main" => pc = "main",
           pc' = "saves" => todo' = Saves \/ (pc = "saves" /\ UNCHANGED <<todo, haunted>>)
    PROVE  SaveInv'
BY DEF SaveInv, StashHasIt, NoneWritten, CopiedBack, Held, Untouched

(* A step that deletes the stash and counts its saves as gone, if they are *)
(* in no folder.                                                           *)
LEMMA SaveDrops ==
    ASSUME SaveInv, ObserverTypeOK, UNCHANGED <<place, left, owed>>, DropStash,
           pc' \notin {"main", "saves"}, gone \subseteq gone',
           \A f \in Saves : UserSave(f) \notin ghost',
           \A f \in Saves : UserSave(f) \in stash \ place => f \in gone'
    PROVE  SaveInv'
BY DEF SaveInv, DropStash, StashHasIt, NoneWritten, CopiedBack, Held, ObserverTypeOK

LEMMA InstallSaves == TypeInv /\ SaveInv /\ Install => SaveInv'
<1>. SUFFICES ASSUME TypeInv, SaveInv, Install PROVE SaveInv'
  OBVIOUS
<1>. USE DEF Continue, ContinueWith, Ends, Succeeds
<1>1. CASE ExtractPiece
  <2>1. PICK name \in todo : place' = Over({Extracted(new, name)}, place)
    BY <1>1 DEF ExtractPiece
  <2>2. new \in Versions /\ name \in Files[new] \cup Saves
    BY <1>1, <2>1 DEF ExtractPiece, TypeInv, TypeOK, OperationTypeOK, Control
  <2>3. \A f \in Saves : UserSave(f) \notin place /\ UserSave(f) \notin place'
    BY <1>1, <2>1, <2>2, UserSaveIsNoCode DEF ExtractPiece, SaveInv, NoneWritten, Over
  <2>4. UNCHANGED <<stashed, stash, left, owed, gone, ghost, pc>> /\ pc = "main"
    BY <1>1 DEF ExtractPiece, observers
  <2>5. \A f \in owed : f \in Saves
    BY DEF TypeInv, TypeOK, ObserverTypeOK
  <2>. QED BY <2>3, <2>4, <2>5 DEF SaveInv, StashHasIt, NoneWritten, CopiedBack, Held
<1>2. CASE MakeDestDir
  <2>1. CASE InstallFails
    BY <1>2, <2>1, SaveFrame DEF MakeDestDir, InstallFails
  <2>2. CASE ~there /\ pc' = "main" /\ UNCHANGED observers
    <3>1. place = {} /\ place' = {}
      BY <1>2, <2>2 DEF MakeDestDir, TypeInv, TypeOK, FoldersTypeOK
    <3>. QED BY <1>2, <2>2, <3>1
             DEF MakeDestDir, observers, SaveInv, StashHasIt, NoneWritten, CopiedBack, Held
  <2>. QED BY <1>2, <2>1, <2>2 DEF MakeDestDir
<1>3. CASE CheckSource \/ MainInstalled \/ StepFails
  BY <1>3, SaveFrame DEF CheckSource, MainInstalled, StepFails, folders, observers,
                         InstallFails, InstallComplete
<1>4. CASE TruncateManifest \/ WriteManifest
  BY <1>4, SaveFrame DEF TruncateManifest, WriteManifest, folders, observers
<1>5. CASE CheckLatest \/ WriteLatest
  BY <1>5, SaveFrame DEF CheckLatest, WriteLatest, folders, observers, InstallFails,
                         InstallComplete
<1>. QED BY <1>1, <1>2, <1>3, <1>4, <1>5 DEF Install

LEMMA UpdateSaves == TypeInv /\ SaveInv /\ Update => SaveInv'
<1>. SUFFICES ASSUME TypeInv, SaveInv, Update PROVE SaveInv'
  OBVIOUS
<1>. USE DEF Continue, ContinueWith, Ends
<1>1. CASE PrepForUpdate
  <2>1. CASE /\ place' = {} /\ stash' = place /\ stashed' = TRUE
             /\ UNCHANGED <<left, observers>> /\ pc' \notin {"main", "saves"}
    <3>1. stash = {}
      BY <1>1 DEF PrepForUpdate, TypeInv, TypeOK, FoldersTypeOK
    <3>. QED BY <1>1, <2>1, <3>1 DEF PrepForUpdate, SaveInv, StashHasIt, NoneWritten,
                                     CopiedBack, Held, observers
  <2>2. CASE UNCHANGED <<place, stashed, stash, left, owed, gone>> /\ pc' = "idle"
    BY <1>1, <2>2, SaveFrame DEF PrepForUpdate
  <2>. QED BY <1>1, <2>1, <2>2 DEF PrepForUpdate
<1>2. CASE Restore
  <2>1. CASE place = {} /\ place' = stash /\ gone' = gone
    BY <1>2, <2>1 DEF Restore, DropStash, SaveInv, StashHasIt, NoneWritten, CopiedBack, Held
  <2>2. CASE Loses(stash \ place) /\ place' = place
    BY <1>2, <2>2, SaveDrops DEF Restore, Loses, TypeInv, TypeOK, SaveInv, NoneWritten
  <2>. QED BY <1>2, <2>1, <2>2 DEF Restore
<1>3. CASE CopySave
  <2>1. PICK f \in todo : place' = Over(Saved(f), place) /\ todo' = todo \ {f}
    BY <1>3 DEF CopySave
  <2>2. /\ UNCHANGED <<stashed, stash, left, owed, gone, haunted, ghost, pc>>
        /\ stashed /\ pc = "saves" /\ f \in Saves
    BY <1>3, <2>1 DEF CopySave, observers, TypeInv, TypeOK, FoldersTypeOK, Control
  <2>3. \A g \in Saves : UserSave(g) \in place' => UserSave(g) \in stash
    BY <2>1, <2>2 DEF SaveInv, StashHasIt, Saved, Over
  <2>4. UserSave(f) \in stash => UserSave(f) \in place'
    BY <2>1, <2>2, UserSaveIsNoCode DEF Saved, Over
  <2>5. \A g \in Saves \ {f} : UserSave(g) \in place => UserSave(g) \in place'
    BY <2>1, OverKeeps, UserSaveIsNoCode DEF Saved
  <2>6. CopiedBack'
    BY <2>1, <2>2, <2>4, <2>5 DEF SaveInv, CopiedBack, Untouched
  <2>7. ASSUME NEW g \in owed, Held(g) PROVE Held(g)'
    <3>1. g \in Saves
      BY DEF TypeInv, TypeOK, ObserverTypeOK
    <3>2. UserSave(g) \in place => UserSave(g) \in stash
      BY <2>2, <3>1 DEF SaveInv, StashHasIt
    <3>. QED BY <2>2, <2>7, <3>2 DEF Held
  <2>. QED BY <2>2, <2>3, <2>6, <2>7 DEF SaveInv, StashHasIt, NoneWritten
<1>4. CASE CopyFails
  <2>1. \A f \in Saves : UserSave(f) \in stash \ place => f \in gone'
    BY <1>4, UserSaveIsNoCode DEF CopyFails, Loses
  <2>. QED BY <1>4, <2>1, SaveDrops DEF CopyFails, Loses, TypeInv, TypeOK, SaveInv, NoneWritten
<1>5. CASE SavesCopied
  <2>1. \A f \in Saves : UserSave(f) \in stash \ place => f \in gone'
    BY <1>5 DEF SavesCopied, Succeeds, SaveInv, CopiedBack
  <2>. QED BY <1>5, <2>1, SaveDrops
           DEF SavesCopied, Succeeds, TypeInv, TypeOK, SaveInv, NoneWritten
<1>. QED BY <1>1, <1>2, <1>3, <1>4, <1>5 DEF Update

LEMMA GhostSaves == ASSUME TypeInv, SaveInv, NEW x \in Contents, GhostExtracts(x) PROVE SaveInv'
<1>1. /\ UNCHANGED <<stashed, stash, left, owed, pc, todo>> /\ gone \subseteq gone'
      /\ ghost' \subseteq ghost /\ place' = Over({x}, place)
  BY DEF GhostExtracts, operation, Loses
<1>2. \A f \in Saves : x # UserSave(f)
  BY DEF GhostExtracts, SaveInv, NoneWritten
<1>3. \A f \in Saves : UserSave(f) \in place' => UserSave(f) \in place
  BY <1>1, <1>2 DEF Over
<1>4. ASSUME NEW f \in Saves, UserSave(f) \in place, UserSave(f) \notin place'
      PROVE  f \in gone' /\ (pc = "saves" => ~Untouched(UserSave(f))')
  <2>1. f \in gone'
    BY <1>4 DEF GhostExtracts, Loses
  <2>2. x[2] = UserSave(f)[2]
    BY <1>1, <1>4, OverKeeps
  <2>3. pc = "saves" => x \in haunted'
    BY DEF GhostExtracts
  <2>. QED BY <2>1, <2>2, <2>3 DEF Untouched
<1>5. CopiedBack'
  <2>1. pc = "saves" => haunted \subseteq haunted'
    BY DEF GhostExtracts
  <2>2. ASSUME pc = "saves", NEW f \in Saves \ todo, UserSave(f) \in stash, UserSave(f) \notin place'
        PROVE  f \in gone' /\ ~Untouched(UserSave(f))'
    <3>1. CASE UserSave(f) \in place
      BY <1>4, <2>2, <3>1
    <3>2. CASE UserSave(f) \notin place
      BY <1>1, <2>1, <2>2, <3>2 DEF SaveInv, CopiedBack, Untouched
    <3>. QED BY <3>1, <3>2
  <2>. QED BY <1>1, <2>2 DEF CopiedBack
<1>6. ASSUME NEW f \in owed PROVE f \in gone' \/ Held(f)'
  <2>1. f \in Saves
    BY DEF TypeInv, TypeOK, ObserverTypeOK
  <2>. QED BY <1>1, <1>4, <1>6, <2>1 DEF SaveInv, Held
<1>. QED BY <1>1, <1>3, <1>5, <1>6 DEF SaveInv, StashHasIt, NoneWritten

LEMMA OtherSaves ==
    TypeInv /\ SaveInv /\ [Next]_vars => SaveInv' \/ Install \/ Update
<1>. SUFFICES ASSUME TypeInv, SaveInv, [Next]_vars PROVE SaveInv' \/ Install \/ Update
  OBVIOUS
<1>1. ASSUME NEW r \in BOOLEAN, NEW v \in Versions, BeginInstall(r, v) \/ BeginUpdate(r, v)
      PROVE SaveInv'
  BY <1>1, SaveFrame DEF BeginInstall, BeginUpdate, Begin, folders
<1>2. CASE BeginRemove
  BY <1>2, SaveFrame DEF BeginRemove, Begin, folders
<1>3. CASE RemoveDir
  <2>1. ~stashed /\ stashed' = stashed /\ owed' = {} /\ pc' \notin {"main", "saves"} /\ ghost' = ghost
    BY <1>3 DEF RemoveDir, Continue, ContinueWith, Ends, TypeInv, TypeOK, FoldersTypeOK, Control
  <2>. QED BY <2>1 DEF SaveInv, StashHasIt, NoneWritten, CopiedBack
<1>4. CASE RemoveMetadata
  BY <1>4, SaveFrame DEF RemoveMetadata, Ends, folders
<1>5. ASSUME NEW v \in Versions, PollBegins(v) PROVE SaveInv'
  BY <1>5, SaveFrame DEF PollBegins, folders, operation, observers
<1>6. ASSUME NEW x \in Contents, GhostExtracts(x) PROVE SaveInv'
  BY <1>6, GhostSaves
<1>7. ASSUME NEW f \in Saves, Play(f) PROVE SaveInv'
  <2>1. /\ ~stashed /\ UNCHANGED <<stashed, stash, left, ghost, pc>> /\ pc = "idle"
        /\ owed' = owed \cup {f} /\ gone' = gone \ {f} /\ place' = Over({UserSave(f)}, place)
    BY <1>7 DEF Play, operation, TypeInv, TypeOK, FoldersTypeOK, OperationTypeOK
  <2>2. Held(f)'
    BY <2>1 DEF Held, Over
  <2>3. ASSUME NEW g \in owed, g # f, Held(g) PROVE Held(g)'
    <3>1. g \in Saves
      BY DEF TypeInv, TypeOK, ObserverTypeOK
    <3>2. UserSave(g) \in place => UserSave(g) \in place'
      BY <2>1, <2>3, <3>1, OverKeeps, UserSaveIsNoCode
    <3>. QED BY <2>1, <2>3, <3>2 DEF Held
  <2>. QED BY <2>1, <2>2, <2>3 DEF SaveInv, StashHasIt, NoneWritten, CopiedBack
<1>8. CASE Crash
  <2>1. UNCHANGED <<place, owed, gone>> /\ stashed' = FALSE /\ ghost' = {} /\ pc' = "idle"
    BY <1>8 DEF Crash, Killed, Ends, DropStash
  <2>2. ASSUME NEW f \in owed, Held(f) PROVE Held(f)'
    <3>1. left \subseteq left'
      BY <1>8 DEF Crash
    <3>2. UserSave(f) \in stash => stash \in left'
      BY <1>8 DEF Crash, TypeInv, TypeOK, FoldersTypeOK
    <3>. QED BY <2>1, <2>2, <3>1, <3>2 DEF Held
  <2>. QED BY <2>1, <2>2 DEF SaveInv, StashHasIt, NoneWritten, CopiedBack
<1>9. CASE Abort
  <2>1. UNCHANGED <<place, left, owed>> /\ DropStash /\ pc' = "idle" /\ Loses(stash \ place)
    BY <1>9 DEF Abort, Killed, Ends
  <2>2. ASSUME NEW f \in Saves PROVE UserSave(f) \notin ghost'
    <3>1. UserSave(f) \notin ghost
      BY DEF SaveInv, NoneWritten
    <3>2. pc = "main" => UserSave(f) \notin {Extracted(new, name) : name \in todo}
      BY UserSaveIsNoCode DEF TypeInv, TypeOK, OperationTypeOK, Control
    <3>. QED BY <1>9, <3>1, <3>2 DEF Abort
  <2>. QED BY <2>1, <2>2, SaveDrops DEF Loses, TypeInv, TypeOK
<1>10. CASE PollEnds
  BY <1>10, SaveFrame DEF PollEnds, folders, operation, observers
<1>11. CASE UNCHANGED vars
  BY <1>11, SaveFrame DEF vars, folders, operation, observers
<1>. QED
  BY <1>1, <1>2, <1>3, <1>4, <1>5, <1>6, <1>7, <1>8, <1>9, <1>10, <1>11
  DEF Next, Operation, Remove, Meanwhile

(* No step of an install, an update or a removal, and no crash between two *)
(* steps, loses a save of the user, unless it is deleted with a stash or   *)
(* overwritten by the thread of an aborted extraction (disk.rs             *)
(* prep_for_update, finish_update).                                        *)
THEOREM SavesStayOnDisk == Spec => []SavesAreOnDisk
<1>1. Init => SaveInv
  BY DEF Init, SaveInv, StashHasIt, NoneWritten, CopiedBack
<1>2. TypeInv /\ SaveInv /\ [Next]_vars => SaveInv'
  BY InstallSaves, UpdateSaves, OtherSaves
<1>3. SaveInv => SavesAreOnDisk
  BY DEF SaveInv, SavesAreOnDisk, Held, Copies
<1>. QED BY <1>1, <1>2, <1>3, TypeInduction, PTL DEF Spec

(***************************************************************************)
(* The complete copy                                                       *)
(***************************************************************************)

Building == {"main", "manifest", "manifest2", "latest", "latest2", "saves"}

(* A file of the new version is in the folder that is being built, or is   *)
(* still to be extracted, unless a ghost has overwritten it.               *)
CodeThere ==
    pc \in Building => \A x \in Code(new) :
        \/ x \in place
        \/ pc = "main" /\ x[2] \in todo
        \/ broken /\ ~Untouched(x)

Elsewhere == IsWhole(stash) \/ \E c \in left : IsWhole(c)
WholeCopy == IsWhole(place) \/ Elsewhere

CopyInv ==
    /\ CodeThere
    /\ whole /\ ~broken => WholeCopy /\ (pc = "main" => Elsewhere)

LEMMA EmptyIsNotWhole == ~IsWhole({})
<1>1. ASSUME NEW v \in Versions PROVE Code(v) # {}
  <2>1. PICK name : name \in Files[v]
    OBVIOUS
  <2>2. <<v, name>> \in Code(v)
    BY <2>1 DEF Code
  <2>. QED BY <2>2
<1>. QED BY <1>1 DEF IsWhole

LEMMA CodeIsCode ==
    ASSUME NEW v \in Versions, NEW x \in Code(v)
    PROVE  /\ x \in AllCode /\ x[2] \in Files[v] /\ x[2] \notin Saves
           /\ x = Extracted(v, x[2])
BY DEF Code, AllCode, Extracted

(* A step that loses no code of the folder, and nothing outside of it.     *)
LEMMA CopyKept ==
    ASSUME place \cap AllCode \subseteq place', stash \subseteq stash', left \subseteq left'
    PROVE  (WholeCopy => WholeCopy') /\ (Elsewhere => Elsewhere')
BY CodeIsCode DEF WholeCopy, Elsewhere, IsWhole

(* A step that deletes the stash, and counts its code as lost if it is not *)
(* in the folder.                                                          *)
LEMMA CopyDrops ==
    ASSUME place' = place, left' = left, WholeCopy, (stash \ place) \cap AllCode = {}
    PROVE  WholeCopy'
BY CodeIsCode DEF WholeCopy, Elsewhere, IsWhole

(* What a success leaves is complete, unless code was lost in it.          *)
LEMMA CopySucceeds ==
    ASSUME TypeInv, CopyInv, Succeeds, place' = place, pc \in Building, todo = {},
           new \in Versions
    PROVE  CopyInv'
<1>1. ~broken' => Code(new) \subseteq place
  BY DEF Succeeds, CopyInv, CodeThere, Untouched
<1>2. ~broken' => WholeCopy'
  BY <1>1 DEF WholeCopy, IsWhole
<1>. QED BY <1>2 DEF Succeeds, Ends, CopyInv, CodeThere, Building

LEMMA NewIsVersion == ASSUME TypeInv, pc \in Building PROVE new \in Versions
BY DEF TypeInv, TypeOK, OperationTypeOK, Control, Building

LEMMA InstallCopy == TypeInv /\ CopyInv /\ Install => CopyInv'
<1>. SUFFICES ASSUME TypeInv, CopyInv, Install PROVE CopyInv'
  OBVIOUS
<1>. USE DEF Continue, ContinueWith, Ends, Building
<1>1. ASSUME UNCHANGED <<place, stash, left, whole, broken>>, pc' \notin Building PROVE CopyInv'
  BY <1>1, CopyKept DEF CopyInv, CodeThere
<1>2. ASSUME UNCHANGED <<folders, new, observers>>, pc \in Building, todo = {},
             pc' \in Building \ {"main"}
      PROVE  CopyInv'
  BY <1>2, CopyKept DEF CopyInv, CodeThere, folders, observers, Untouched
<1>3. CASE CheckSource \/ StepFails
  BY <1>1, <1>3 DEF CheckSource, StepFails, InstallFails, folders, observers
<1>4. CASE MakeDestDir
  <2>1. CASE InstallFails
    BY <1>1, <1>4, <2>1 DEF MakeDestDir, InstallFails
  <2>2. CASE \E shipped \in SUBSET Saves : ContinueWith("main", Files[new] \cup shipped)
    <3>1. Files[new] \subseteq todo' /\ pc' = "main" /\ new' = new
      BY <2>2
    <3>2. new \in Versions
      BY <1>4 DEF MakeDestDir, TypeInv, TypeOK, OperationTypeOK, Control
    <3>3. CodeThere'
      BY <3>1, <3>2, CodeIsCode DEF CodeThere
    <3>4. UNCHANGED <<place, stash, left, whole, broken>>
      BY <1>4 DEF MakeDestDir, observers, InstallFails
    <3>5. CASE InstallFails
      BY <2>1, <3>5
    <3>6. CASE ~there
      <4>1. place = {}
        BY <3>6 DEF TypeInv, TypeOK, FoldersTypeOK
      <4>2. WholeCopy => Elsewhere
        BY <4>1, EmptyIsNotWhole DEF WholeCopy
      <4>. QED BY <3>3, <3>4, <4>2, CopyKept DEF CopyInv
    <3>. QED BY <1>4, <3>5, <3>6 DEF MakeDestDir
  <2>. QED BY <1>4, <2>1, <2>2 DEF MakeDestDir
<1>5. CASE ExtractPiece
  <2>1. PICK name \in todo : place' = Over({Extracted(new, name)}, place) /\ todo' = todo \ {name}
    BY <1>5 DEF ExtractPiece
  <2>2. UNCHANGED <<stash, left, pc, new, whole, broken, haunted>> /\ pc = "main"
    BY <1>5 DEF ExtractPiece, observers
  <2>3. new \in Versions
    BY <2>2, NewIsVersion
  <2>4. ASSUME NEW x \in Code(new) PROVE x \in place' \/ x[2] \in todo' \/ (broken /\ ~Untouched(x))
    <3>1. CASE x[2] = name
      BY <2>1, <2>3, <3>1, CodeIsCode DEF Over
    <3>2. CASE x[2] # name /\ x \in place
      <4>1. Extracted(new, name)[2] = name
        BY DEF Extracted
      <4>. QED BY <2>1, <3>2, <4>1, OverKeeps
    <3>3. CASE x[2] # name /\ x \notin place
      BY <2>1, <2>2, <3>3 DEF CopyInv, CodeThere
    <3>. QED BY <3>1, <3>2, <3>3
  <2>5. CodeThere'
    BY <2>2, <2>4 DEF CodeThere, Untouched
  <2>6. Elsewhere => Elsewhere' /\ WholeCopy'
    BY <2>2 DEF Elsewhere, WholeCopy
  <2>. QED BY <2>2, <2>5, <2>6 DEF CopyInv
<1>6. CASE TruncateManifest \/ WriteManifest
  <2>1. todo = {}
    BY <1>6 DEF TruncateManifest, WriteManifest, TypeInv, TypeOK, OperationTypeOK
  <2>. QED BY <1>2, <1>6, <2>1 DEF TruncateManifest, WriteManifest
<1>7. ASSUME InstallComplete, UNCHANGED folders, pc \in Building, todo = {} PROVE CopyInv'
  BY <1>2, <1>7, CopySucceeds, NewIsVersion DEF InstallComplete, folders
<1>8. CASE MainInstalled
  BY <1>2, <1>7, <1>8 DEF MainInstalled
<1>9. CASE CheckLatest \/ WriteLatest
  <2>1. todo = {} /\ pc \in Building /\ UNCHANGED folders
    BY <1>9 DEF CheckLatest, WriteLatest, TypeInv, TypeOK, OperationTypeOK
  <2>2. CASE InstallFails
    BY <1>1, <2>1, <2>2 DEF InstallFails, folders
  <2>3. CASE InstallComplete
    BY <1>7, <2>1, <2>3
  <2>4. CASE Continue("latest2") /\ UNCHANGED observers
    BY <1>2, <2>1, <2>4
  <2>. QED BY <1>9, <2>2, <2>3, <2>4 DEF CheckLatest, WriteLatest
<1>. QED BY <1>3, <1>4, <1>5, <1>6, <1>8, <1>9 DEF Install

LEMMA UpdateCopy == TypeInv /\ CopyInv /\ Update => CopyInv'
<1>. SUFFICES ASSUME TypeInv, CopyInv, Update PROVE CopyInv'
  OBVIOUS
<1>. USE DEF Continue, ContinueWith, Ends, Building
<1>1. CASE PrepForUpdate
  <2>1. CASE /\ place' = {} /\ stash' = place /\ UNCHANGED <<left, observers>>
             /\ pc' \in {"mkdir", "source"}
    <3>1. stash = {}
      BY <1>1 DEF PrepForUpdate, TypeInv, TypeOK, FoldersTypeOK
    <3>2. WholeCopy => WholeCopy'
      BY <2>1, <3>1, EmptyIsNotWhole DEF WholeCopy, Elsewhere, IsWhole
    <3>. QED BY <2>1, <3>2 DEF CopyInv, CodeThere, observers
  <2>2. CASE pc' = "idle" /\ UNCHANGED <<place, stash, left, whole, broken>>
    BY <2>2, CopyKept DEF CopyInv, CodeThere
  <2>. QED BY <1>1, <2>1, <2>2 DEF PrepForUpdate
<1>2. CASE Restore
  <2>1. CASE place = {} /\ place' = stash /\ broken' = broken
    <3>1. WholeCopy => WholeCopy'
      BY <1>2, <2>1, EmptyIsNotWhole DEF Restore, WholeCopy, Elsewhere, IsWhole
    <3>. QED BY <1>2, <2>1, <3>1 DEF Restore, CopyInv, CodeThere
  <2>2. CASE Loses(stash \ place) /\ place' = place
    BY <1>2, <2>2, CopyDrops DEF Restore, Loses, CopyInv, CodeThere
  <2>. QED BY <1>2, <2>1, <2>2 DEF Restore
<1>3. CASE CopySave
  <2>1. PICK f \in todo : place' = Over(Saved(f), place)
    BY <1>3 DEF CopySave
  <2>2. UNCHANGED <<stash, left, new, pc, whole, broken, haunted>> /\ pc = "saves" /\ f \in Saves
    BY <1>3, <2>1 DEF CopySave, observers, TypeInv, Control
  <2>3. ASSUME NEW v \in Versions, NEW x \in Code(v), x \in place PROVE x \in place'
    BY <2>1, <2>2, <2>3, CodeIsCode, OverKeeps DEF Saved
  <2>4. place \cap AllCode \subseteq place'
    BY <2>3 DEF AllCode
  <2>5. CodeThere'
    BY <2>2, <2>3, NewIsVersion DEF CopyInv, CodeThere, Untouched
  <2>. QED BY <2>2, <2>4, <2>5, CopyKept DEF CopyInv
<1>4. CASE CopyFails
  <2>1. ~broken => Code(new) \subseteq place
    BY <1>4 DEF CopyFails, CopyInv, CodeThere
  <2>2. ~broken => WholeCopy'
    BY <1>4, <2>1, NewIsVersion DEF CopyFails, WholeCopy, IsWhole
  <2>. QED BY <1>4, <2>2 DEF CopyFails, Loses, CopyInv, CodeThere
<1>5. CASE SavesCopied
  BY <1>5, CopySucceeds, NewIsVersion DEF SavesCopied
<1>. QED BY <1>1, <1>2, <1>3, <1>4, <1>5 DEF Update

LEMMA GhostCopy == ASSUME TypeInv, CopyInv, NEW x \in Contents, GhostExtracts(x) PROVE CopyInv'
<1>1. UNCHANGED <<stash, left, pc, new, todo, whole>> /\ place' = Over({x}, place)
  BY DEF GhostExtracts, operation
<1>2. broken' = (broken \/ (place \ place') \cap AllCode # {})
  BY DEF GhostExtracts, Loses
<1>3. ASSUME pc \in Building, NEW y \in Code(new), y \in place, y \notin place'
      PROVE  broken' /\ ~Untouched(y)'
  <2>1. x[2] = y[2]
    BY <1>1, <1>3, OverKeeps
  <2>2. x \in haunted'
    BY <1>3 DEF GhostExtracts, Building
  <2>3. y \in AllCode
    BY <1>3, NewIsVersion, CodeIsCode
  <2>. QED BY <1>2, <1>3, <2>1, <2>2, <2>3 DEF Untouched
<1>4. pc \in Building => haunted \subseteq haunted'
  BY DEF GhostExtracts, Building
<1>5. CodeThere'
  BY <1>1, <1>2, <1>3, <1>4 DEF CopyInv, CodeThere, Untouched
<1>6. ~broken' => place \cap AllCode \subseteq place'
  BY <1>2
<1>. QED BY <1>1, <1>2, <1>5, <1>6, CopyKept DEF CopyInv

LEMMA OtherCopy ==
    TypeInv /\ CopyInv /\ [Next]_vars => CopyInv' \/ Install \/ Update
<1>. SUFFICES ASSUME TypeInv, CopyInv, [Next]_vars PROVE CopyInv' \/ Install \/ Update
  OBVIOUS
<1>. USE DEF CopyInv, CodeThere, Building, Untouched
<1>1. ASSUME NEW r \in BOOLEAN, NEW v \in Versions, BeginInstall(r, v) \/ BeginUpdate(r, v)
      PROVE CopyInv'
  BY <1>1, CopyKept DEF BeginInstall, BeginUpdate, Begin, folders
<1>2. CASE BeginRemove
  BY <1>2, CopyKept DEF BeginRemove, Begin, folders
<1>3. CASE RemoveDir
  BY <1>3 DEF RemoveDir, Continue, ContinueWith, Ends
<1>4. CASE RemoveMetadata
  BY <1>4, CopyKept DEF RemoveMetadata, Ends, folders
<1>5. ASSUME NEW v \in Versions, PollBegins(v) PROVE CopyInv'
  BY <1>5, CopyKept DEF PollBegins, folders, operation, observers
<1>6. CASE PollEnds
  BY <1>6, CopyKept DEF PollEnds, folders, operation, observers
<1>7. ASSUME NEW x \in Contents, GhostExtracts(x) PROVE CopyInv'
  BY <1>7, GhostCopy
<1>8. ASSUME NEW f \in Saves, Play(f) PROVE CopyInv'
  <2>1. ASSUME NEW v \in Versions, NEW x \in Code(v), x \in place PROVE x \in place'
    BY <1>8, <2>1, CodeIsCode, OverKeeps DEF Play, UserSave
  <2>2. place \cap AllCode \subseteq place'
    BY <2>1 DEF AllCode
  <2>3. UNCHANGED <<stash, left, whole, broken>> /\ pc' = "idle"
    BY <1>8 DEF Play, operation
  <2>. QED BY <2>2, <2>3, CopyKept
<1>9. CASE Crash
  <2>1. left \subseteq left' /\ place' = place
    BY <1>9 DEF Crash, Killed
  <2>2. stash = {} \/ stash \in left'
    BY <1>9 DEF Crash, TypeInv, TypeOK, FoldersTypeOK
  <2>3. WholeCopy => WholeCopy'
    BY <2>1, <2>2, EmptyIsNotWhole DEF WholeCopy, Elsewhere, IsWhole
  <2>4. UNCHANGED <<whole, broken>> /\ pc' = "idle"
    BY <1>9 DEF Crash, Killed, Ends
  <2>. QED BY <2>3, <2>4
<1>10. CASE Abort
  <2>1. UNCHANGED <<place, left, whole>> /\ pc' = "idle" /\ Loses(stash \ place)
    BY <1>10 DEF Abort, Killed, Ends
  <2>. QED BY <2>1, CopyDrops DEF Loses
<1>11. CASE UNCHANGED vars
  BY <1>11, CopyKept DEF vars, folders, operation, observers
<1>. QED
  BY <1>1, <1>2, <1>3, <1>4, <1>5, <1>6, <1>7, <1>8, <1>9, <1>10, <1>11
  DEF Next, Operation, Remove, Meanwhile

LEMMA CopyInduction == Spec => []CopyInv
<1>1. Init => CopyInv
  BY DEF Init, CopyInv, CodeThere, Building
<1>2. TypeInv /\ CopyInv /\ [Next]_vars => CopyInv'
  BY InstallCopy, UpdateCopy, OtherCopy
<1>. QED BY <1>1, <1>2, TypeInduction, PTL DEF Spec

(* A pack that was once completely installed stays complete somewhere on   *)
(* disk until it is removed, at every step of an update and after a crash  *)
(* at any of them, unless code of it is deleted with a stash or            *)
(* overwritten by the thread of an aborted extraction (disk.rs             *)
(* prep_for_update, finish_update).                                        *)
THEOREM CopyStaysOnDisk == Spec => []CopyIsOnDisk
<1>1. CopyInv => CopyIsOnDisk
  BY DEF CopyInv, CopyIsOnDisk, WholeCopy, Elsewhere, Copies
<1>. QED BY <1>1, CopyInduction, PTL

(***************************************************************************)
(* What a success leaves                                                   *)
(***************************************************************************)

(* The folder that is being built holds code of the new version only, and  *)
(* what ghosts have written since.                                         *)
OnlyNew == pc \in Building => place \cap AllCode \subseteq Code(new) \cup haunted

(* The manifest of a download is written before its latest.json.           *)
Manifested == pc \in {"latest", "latest2", "saves"} /\ remote => manifest = new

NewInv == OnlyNew /\ Manifested

LEMMA NewFrame ==
    ASSUME NewInv, UNCHANGED <<place, haunted, manifest>>,
           pc' \in Building => pc \in Building /\ UNCHANGED <<new, remote>>,
           pc' \in {"latest", "latest2", "saves"} =>
               pc \in {"latest", "latest2", "saves"} \/ ~remote
    PROVE  NewInv'
BY DEF NewInv, OnlyNew, Manifested, Building

(* A step that leaves no folder being built.                               *)
LEMMA NewIdle == ASSUME pc' \notin Building PROVE NewInv'
BY DEF NewInv, OnlyNew, Manifested, Building

LEMMA InstallNew == TypeInv /\ NewInv /\ Install => NewInv'
<1>. SUFFICES ASSUME TypeInv, NewInv, Install PROVE NewInv'
  OBVIOUS
<1>. USE DEF Building, Continue, ContinueWith, Ends, folders, observers
<1>1. CASE MakeDestDir
  <2>1. CASE InstallFails
    BY <1>1, <2>1, NewIdle DEF MakeDestDir, InstallFails
  <2>2. CASE ~there /\ UNCHANGED observers /\ pc' = "main"
    <3>1. place' = {}
      BY <1>1, <2>2 DEF MakeDestDir, TypeInv, TypeOK, FoldersTypeOK
    <3>. QED BY <2>2, <3>1 DEF NewInv, OnlyNew, Manifested
  <2>. QED BY <1>1, <2>1, <2>2 DEF MakeDestDir
<1>2. CASE ExtractPiece
  <2>1. PICK name \in todo : place' = Over({Extracted(new, name)}, place)
    BY <1>2 DEF ExtractPiece
  <2>2. name \in Files[new] \cup Saves /\ new \in Versions
    BY <1>2, <2>1, NewIsVersion DEF ExtractPiece, TypeInv, Control
  <2>3. Extracted(new, name) \in AllCode => Extracted(new, name) \in Code(new)
    <3>1. CASE name \in Saves
      BY <3>1, CodeIsCode DEF Extracted, AllCode
    <3>2. CASE name \notin Saves
      BY <2>2, <3>2 DEF Extracted, Code
    <3>. QED BY <3>1, <3>2
  <2>4. place' \subseteq place \cup {Extracted(new, name)}
    BY <2>1 DEF Over
  <2>. QED BY <1>2, <2>3, <2>4 DEF ExtractPiece, NewInv, OnlyNew, Manifested
<1>3. ASSUME InstallComplete, UNCHANGED <<place, manifest>>, pc \in Building,
             pc \in {"latest", "latest2"} \/ ~remote
      PROVE  NewInv'
  BY <1>3, NewFrame, NewIdle DEF InstallComplete, Succeeds
<1>4. CASE CheckSource \/ StepFails
  BY <1>4, NewIdle DEF CheckSource, StepFails, InstallFails
<1>5. CASE MainInstalled
  BY <1>3, <1>5, NewFrame DEF MainInstalled, metadata
<1>6. CASE TruncateManifest
  BY <1>6 DEF TruncateManifest, NewInv, OnlyNew, Manifested
<1>7. CASE WriteManifest
  BY <1>7 DEF WriteManifest, NewInv, OnlyNew, Manifested
<1>8. CASE CheckLatest \/ WriteLatest
  <2>1. CASE InstallFails
    BY <2>1, NewIdle DEF InstallFails
  <2>2. CASE InstallComplete
    BY <1>3, <1>8, <2>2 DEF CheckLatest, WriteLatest
  <2>3. CASE Continue("latest2") /\ UNCHANGED observers
    BY <1>8, <2>3, NewFrame DEF CheckLatest, WriteLatest
  <2>. QED BY <1>8, <2>1, <2>2, <2>3 DEF CheckLatest, WriteLatest
<1>. QED BY <1>1, <1>2, <1>4, <1>5, <1>6, <1>7, <1>8 DEF Install

LEMMA OtherNew == TypeInv /\ NewInv /\ [Next]_vars => NewInv' \/ Install
<1>. SUFFICES ASSUME TypeInv, NewInv, [Next]_vars PROVE NewInv' \/ Install
  OBVIOUS
<1>. USE DEF Building, Continue, ContinueWith, Ends, folders, metadata, observers
<1>1. ASSUME NEW r \in BOOLEAN, NEW v \in Versions, BeginInstall(r, v) \/ BeginUpdate(r, v)
      PROVE NewInv'
  BY <1>1, NewIdle DEF BeginInstall, BeginUpdate, Begin
<1>2. CASE BeginRemove
  BY <1>2, NewIdle DEF BeginRemove, Begin
<1>3. CASE PrepForUpdate
  BY <1>3, NewIdle DEF PrepForUpdate
<1>4. CASE Restore \/ CopyFails \/ SavesCopied
  BY <1>4, NewIdle DEF Restore, CopyFails, SavesCopied, Succeeds
<1>5. CASE CopySave
  <2>1. PICK f \in todo : place' = Over(Saved(f), place)
    BY <1>5 DEF CopySave
  <2>2. f \in Saves
    BY <1>5, <2>1 DEF CopySave, TypeInv, Control
  <2>3. Saved(f) \cap AllCode = {}
    BY <2>2, CodeIsCode DEF Saved, AllCode
  <2>4. place' \cap AllCode \subseteq place \cap AllCode
    BY <2>1, <2>3 DEF Over
  <2>. QED BY <1>5, <2>4 DEF CopySave, NewInv, OnlyNew, Manifested
<1>6. CASE RemoveDir \/ RemoveMetadata
  BY <1>6, NewIdle DEF RemoveDir, RemoveMetadata
<1>7. ASSUME NEW v \in Versions, PollBegins(v) PROVE NewInv'
  BY <1>7, NewFrame DEF PollBegins, operation
<1>8. CASE PollEnds
  BY <1>8, NewFrame DEF PollEnds, operation
<1>9. ASSUME NEW x \in Contents, GhostExtracts(x) PROVE NewInv'
  <2>1. UNCHANGED <<manifest, operation>> /\ place' \subseteq place \cup {x}
    BY <1>9 DEF GhostExtracts, Over
  <2>2. pc \in Building => haunted' = haunted \cup {x}
    BY <1>9 DEF GhostExtracts
  <2>. QED BY <2>1, <2>2 DEF NewInv, OnlyNew, Manifested, operation
<1>10. ASSUME NEW f \in Saves, Play(f) PROVE NewInv'
  BY <1>10, NewIdle DEF Play, operation
<1>11. CASE Crash \/ Abort
  BY <1>11, NewIdle DEF Crash, Abort, Killed
<1>12. CASE UNCHANGED vars
  BY <1>12, NewFrame DEF vars, operation
<1>. QED
  BY <1>1, <1>2, <1>3, <1>4, <1>5, <1>6, <1>7, <1>8, <1>9, <1>10, <1>11, <1>12
  DEF Next, Operation, Update, Remove, Meanwhile

(* What has to hold in the step in which a success is reported.            *)
Reports == pc # "idle" /\ new # None /\ pc' = "idle" /\ outcome' = "ok"

Complete ==
    /\ \A x \in Code(new) : Untouched(x) => x \in place'
    /\ place' \cap AllCode \subseteq Code(new) \cup haunted
    /\ \A f \in Saves : UserSave(f) \in stash /\ Untouched(UserSave(f))
                        => UserSave(f) \in place'
    /\ remote => manifest' = new

SuccessInv == TypeInv /\ SaveInv /\ CopyInv /\ NewInv

LEMMA SuccessStep == SuccessInv /\ [Next]_vars => (Reports => Complete)
<1>. SUFFICES ASSUME TypeInv, SaveInv, CopyInv, NewInv, [Next]_vars, Reports PROVE Complete
  BY DEF SuccessInv
<1>. USE DEF Continue, ContinueWith, Ends, folders, observers
<1>1. ASSUME pc \in Building, todo = {}, place' = place, remote => manifest' = new,
             pc = "saves" \/ stash = {}
      PROVE  Complete
  <2>1. \A x \in Code(new) : Untouched(x) => x \in place
    BY <1>1 DEF CopyInv, CodeThere
  <2>2. place \cap AllCode \subseteq Code(new) \cup haunted
    BY <1>1 DEF NewInv, OnlyNew
  <2>3. \A f \in Saves : UserSave(f) \in stash /\ Untouched(UserSave(f)) => UserSave(f) \in place
    BY <1>1 DEF SaveInv, CopiedBack
  <2>. QED BY <1>1, <2>1, <2>2, <2>3 DEF Complete
<1>2. CASE MainInstalled \/ CheckLatest \/ WriteLatest
  <2>1. op = "install"
    BY <1>2 DEF MainInstalled, CheckLatest, WriteLatest, InstallComplete, InstallFails, Reports
  <2>2. pc \in Building /\ todo = {} /\ place' = place /\ stash = {}
    BY <1>2, <2>1 DEF MainInstalled, CheckLatest, WriteLatest, Building, TypeInv, TypeOK,
                      OperationTypeOK, FoldersTypeOK
  <2>3. remote => manifest' = new
    BY <1>2 DEF MainInstalled, CheckLatest, WriteLatest, Reports, NewInv, Manifested, metadata
  <2>. QED BY <1>1, <2>2, <2>3
<1>3. CASE SavesCopied
  BY <1>1, <1>3 DEF SavesCopied, Building, NewInv, Manifested, metadata
<1>4. ASSUME NEW r \in BOOLEAN, NEW v \in Versions, BeginInstall(r, v) \/ BeginUpdate(r, v)
      PROVE FALSE
  BY <1>4 DEF BeginInstall, BeginUpdate, Begin, Reports
<1>5. CASE BeginRemove \/ RemoveDir \/ RemoveMetadata
  BY <1>5 DEF BeginRemove, Begin, RemoveDir, RemoveMetadata, Reports, TypeInv, Control
<1>6. CASE CheckSource \/ MakeDestDir \/ StepFails
  BY <1>6 DEF CheckSource, MakeDestDir, StepFails, InstallFails, Reports
<1>7. CASE ExtractPiece \/ TruncateManifest \/ WriteManifest
  BY <1>7 DEF ExtractPiece, TruncateManifest, WriteManifest, Reports
<1>8. CASE PrepForUpdate \/ Restore \/ CopySave \/ CopyFails
  BY <1>8 DEF PrepForUpdate, Restore, CopySave, CopyFails, Reports
<1>9. ASSUME NEW v \in Versions, PollBegins(v) PROVE FALSE
  BY <1>9 DEF PollBegins, operation, Reports
<1>10. ASSUME NEW x \in Contents, GhostExtracts(x) PROVE FALSE
  BY <1>10 DEF GhostExtracts, operation, Reports
<1>11. CASE PollEnds \/ UNCHANGED vars
  BY <1>11 DEF PollEnds, vars, operation, Reports
<1>12. ASSUME NEW f \in Saves, Play(f) PROVE FALSE
  BY <1>12 DEF Play, operation, Reports
<1>13. CASE Crash \/ Abort
  BY <1>13 DEF Crash, Abort, Killed, Reports
<1>. QED
  BY <1>2, <1>3, <1>4, <1>5, <1>6, <1>7, <1>8, <1>9, <1>10, <1>11, <1>12, <1>13
  DEF Next, Operation, Install, Update, Remove, Meanwhile

(* An installation or update that reports success has installed exactly    *)
(* its version, kept the user's save files and written the manifest; what  *)
(* a thread of an aborted extraction has written while it ran is all that  *)
(* may differ (disk.rs install_main, finish_update).                       *)
THEOREM SuccessComplete == Spec => SuccessIsComplete
<1>1. Init => NewInv
  BY DEF Init, NewInv, OnlyNew, Manifested, Building
<1>2. TypeInv /\ NewInv /\ [Next]_vars => NewInv'
  BY InstallNew, OtherNew
<1>3. Init => SaveInv
  BY DEF Init, SaveInv, StashHasIt, NoneWritten, CopiedBack
<1>4. TypeInv /\ SaveInv /\ [Next]_vars => SaveInv'
  BY InstallSaves, UpdateSaves, OtherSaves
<1>5. SuccessInv /\ [Next]_vars => [Reports => Complete]_vars
  BY SuccessStep
<1>6. Spec => [][Reports => Complete]_vars
  BY <1>1, <1>2, <1>3, <1>4, <1>5, TypeInduction, CopyInduction, PTL DEF Spec, SuccessInv
<1>. QED BY <1>6 DEF SuccessIsComplete, Reports, Complete

(***************************************************************************)
(* What the rest of the app takes from a result.  ModLibrary has a pack    *)
(* that was installed or updated on the disk, and one that was removed off *)
(* it; here that is a consequence of the steps.                            *)
(***************************************************************************)
Ended == pc # "idle" /\ pc' = "idle" /\ outcome' # "killed"

(* The files are counted as lost.                                          *)
Deleted(files) ==
    /\ \A f \in Saves : UserSave(f) \in files => f \in gone'
    /\ files \cap AllCode # {} => broken'

Shows ==
    /\ op \in {"install", "update"} /\ outcome' = "ok" => there'
    /\ op = "update" /\ stashed /\ outcome' = "failed" => there' \/ Deleted(stash)
    /\ op = "remove" /\ outcome' = "ok" /\ haunted = {} => ~there'

OutcomeShowsOnDisk == [][Ended => Shows]_vars

(* A folder that was removed stays away, unless a ghost makes it again.    *)
GoneInv == pc = "rmmeta" /\ haunted = {} => ~there

(* A folder that is being built is there.                                  *)
BuiltInv == pc \in Building => there

OutcomeInv == GoneInv /\ BuiltInv

LEMMA OutcomeInvStep == TypeInv /\ OutcomeInv /\ [Next]_vars => OutcomeInv'
<1>. SUFFICES ASSUME TypeInv, OutcomeInv, [Next]_vars PROVE OutcomeInv'
  OBVIOUS
<1>. USE DEF OutcomeInv, GoneInv, BuiltInv, Building, Continue, ContinueWith, Ends, folders,
             operation, observers
<1>1. CASE Install
  <2>1. CASE MakeDestDir
    BY <2>1 DEF MakeDestDir, InstallFails
  <2>2. CASE CheckSource \/ StepFails
    BY <2>2 DEF CheckSource, StepFails, InstallFails
  <2>3. CASE ExtractPiece \/ TruncateManifest \/ WriteManifest
    BY <2>3 DEF ExtractPiece, TruncateManifest, WriteManifest
  <2>4. CASE MainInstalled \/ CheckLatest \/ WriteLatest
    BY <2>4 DEF MainInstalled, CheckLatest, WriteLatest, InstallFails, InstallComplete, Succeeds
  <2>. QED BY <1>1, <2>1, <2>2, <2>3, <2>4 DEF Install
<1>2. CASE Update
  BY <1>2 DEF Update, PrepForUpdate, Restore, CopySave, CopyFails, SavesCopied, Succeeds
<1>3. CASE Remove
  BY <1>3 DEF Remove, RemoveDir, RemoveMetadata
<1>4. ASSUME NEW r \in BOOLEAN, NEW v \in Versions, BeginInstall(r, v) \/ BeginUpdate(r, v)
      PROVE  OutcomeInv'
  BY <1>4 DEF BeginInstall, BeginUpdate, Begin
<1>5. CASE BeginRemove
  BY <1>5 DEF BeginRemove, Begin
<1>6. ASSUME NEW v \in Versions, PollBegins(v) PROVE OutcomeInv'
  BY <1>6 DEF PollBegins
<1>7. ASSUME NEW x \in Contents, GhostExtracts(x) PROVE OutcomeInv'
  BY <1>7 DEF GhostExtracts
<1>8. CASE PollEnds \/ UNCHANGED vars
  BY <1>8 DEF PollEnds, vars
<1>9. ASSUME NEW f \in Saves, Play(f) PROVE OutcomeInv'
  BY <1>9 DEF Play
<1>10. CASE Crash \/ Abort
  BY <1>10 DEF Crash, Abort, Killed
<1>. QED
  BY <1>1, <1>2, <1>3, <1>4, <1>5, <1>6, <1>7, <1>8, <1>9, <1>10
  DEF Next, Operation, Meanwhile

LEMMA OutcomeStep == TypeInv /\ OutcomeInv /\ [Next]_vars => (Ended => Shows)
<1>. SUFFICES ASSUME TypeInv, OutcomeInv, [Next]_vars, Ended PROVE Shows
  OBVIOUS
<1>. USE DEF OutcomeInv, Building, Continue, ContinueWith, Ends, folders, observers, Ended, Shows
<1>1. CASE MainInstalled \/ CheckLatest \/ WriteLatest
  <2>1. there /\ there' = there /\ op # "remove"
    BY <1>1 DEF MainInstalled, CheckLatest, WriteLatest, BuiltInv, TypeInv, Control
  <2>. QED BY <2>1
<1>2. CASE CheckSource \/ MakeDestDir \/ StepFails
  BY <1>2 DEF CheckSource, MakeDestDir, StepFails, InstallFails, TypeInv, Control
<1>3. CASE PrepForUpdate
  BY <1>3 DEF PrepForUpdate, TypeInv, TypeOK, FoldersTypeOK, Control
<1>4. CASE Restore
  <2>1. op = "update" /\ outcome' = "failed"
    BY <1>4 DEF Restore, TypeInv, Control
  <2>2. CASE there' = TRUE
    BY <2>1, <2>2
  <2>3. CASE Loses(stash \ place) /\ there' = there /\ ~there
    <3>1. place = {}
      BY <2>3 DEF TypeInv, TypeOK, FoldersTypeOK
    <3>. QED BY <2>1, <2>3, <3>1 DEF Loses, Deleted
  <2>. QED BY <1>4, <2>2, <2>3 DEF Restore, TypeInv, TypeOK, FoldersTypeOK
<1>5. CASE CopyFails \/ SavesCopied
  <2>1. op = "update" /\ there /\ there' = there
    BY <1>5 DEF CopyFails, SavesCopied, BuiltInv, TypeInv, Control
  <2>. QED BY <2>1
<1>6. CASE RemoveDir \/ RemoveMetadata
  BY <1>6 DEF RemoveDir, RemoveMetadata, TypeInv, Control, GoneInv
<1>7. CASE ExtractPiece \/ TruncateManifest \/ WriteManifest \/ CopySave
  BY <1>7 DEF ExtractPiece, TruncateManifest, WriteManifest, CopySave
<1>8. ASSUME NEW r \in BOOLEAN, NEW v \in Versions, BeginInstall(r, v) \/ BeginUpdate(r, v)
      PROVE FALSE
  BY <1>8 DEF BeginInstall, BeginUpdate, Begin
<1>9. ASSUME NEW v \in Versions, PollBegins(v) PROVE FALSE
  BY <1>9 DEF PollBegins, operation
<1>10. ASSUME NEW x \in Contents, GhostExtracts(x) PROVE FALSE
  BY <1>10 DEF GhostExtracts, operation
<1>11. ~(BeginRemove \/ PollEnds \/ UNCHANGED vars)
  BY DEF BeginRemove, Begin, PollEnds, vars, operation
<1>12. ASSUME NEW f \in Saves, Play(f) PROVE FALSE
  BY <1>12 DEF Play, operation
<1>13. CASE Crash \/ Abort
  BY <1>13 DEF Crash, Abort, Killed
<1>. QED
  BY <1>1, <1>2, <1>3, <1>4, <1>5, <1>6, <1>7, <1>8, <1>9, <1>10, <1>11, <1>12, <1>13
  DEF Next, Operation, Install, Update, Remove, Meanwhile

(* A pack whose installation or update has succeeded is on the disk, and   *)
(* so is one whose update has failed, unless the rename back has failed    *)
(* and the stash with the old copy was deleted; one whose removal has      *)
(* succeeded is not, unless a ghost has written to it meanwhile (disk.rs   *)
(* install, update, remove; what manager.rs and cache.rs take from their   *)
(* results).                                                               *)
THEOREM OutcomeIsOnDisk == Spec => OutcomeShowsOnDisk
<1>1. Init => OutcomeInv
  BY DEF Init, OutcomeInv, GoneInv, BuiltInv, Building
<1>2. TypeInv /\ OutcomeInv /\ [Next]_vars => [Ended => Shows]_vars
  BY OutcomeStep
<1>3. Spec => [][Ended => Shows]_vars
  BY <1>1, <1>2, OutcomeInvStep, TypeInduction, PTL DEF Spec
<1>. QED BY <1>3 DEF OutcomeShowsOnDisk
=============================================================================
