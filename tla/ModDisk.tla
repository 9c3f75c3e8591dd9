------------------------------- MODULE ModDisk -------------------------------
(***************************************************************************)
(* One pack on disk (ml2_mods local/disk.rs): its folder under Mods/Packs, *)
(* the stash an update keeps of the old copy, its manifest.json and        *)
(* latest.json, and the install, update and remove operations that the mod *)
(* manager runs on it one at a time.  Any step of an operation may fail;   *)
(* the app may crash between two steps, and Settings may abort the         *)
(* operation (mods.rs rebuild).                                            *)
(*                                                                         *)
(* A folder is the set of its files, each a pair of what is in it (code of *)
(* a version, a save of the user or one shipped in an archive) and its     *)
(* name.  Versions share file names, and differ in the others, so that a   *)
(* half extracted archive shows, and one extracted over another.           *)
(***************************************************************************)
EXTENDS Naturals

CONSTANTS
    Versions,   (* versions of the pack that can be installed              *)
    Files,      (* the names of the files of each version                  *)
    Saves,      (* SAVE_FILENAMES                                          *)
    MaxKills,   (* bound on the crashes and aborts together                *)
    None, Torn  (* a JSON file that does not exist, or is half written     *)

ASSUME Distinct ==
    /\ None \notin Versions /\ Torn \notin Versions /\ None # Torn
    /\ \A v \in Versions : Files[v] # {} /\ Files[v] \cap Saves = {}
ASSUME KillsAssumption == MaxKills \in Nat

VARIABLES
    there,      (* the pack's folder exists                                *)
    place,      (* what is in it                                           *)
    stashed,    (* the running update's TempDir exists                     *)
    stash,      (* what is in it                                           *)
    left,       (* stashes a crash left behind                             *)
    manifest,   (* manifest.json                                           *)
    latest,     (* latest.json                                             *)
    op,         (* "none", "install", "update" or "remove"                 *)
    remote,     (* it installs a download, not a file of the user          *)
    new,        (* the version it installs                                 *)
    pc,         (* its next step                                           *)
    todo,       (* files that step has still to extract, or to copy        *)
    polled,     (* the version the update poll is writing, or None         *)
    ghost,      (* files that aborted operations' threads still extract    *)
    kills,      (* crashes and aborts so far                               *)
    (* observation only *)
    outcome,    (* how the last operation ended: "ok", "failed", "killed"  *)
    owed,       (* saves the user made in the pack and never removed       *)
    whole,      (* the pack was completely installed and never removed     *)
    gone,       (* user saves deleted with a stash or overwritten by ghosts*)
    broken,     (* so was code since the last installation                 *)
    haunted     (* what ghosts have written during the running operation   *)

folders == <<there, place, stashed, stash, left>>
metadata == <<manifest, latest, polled>>
operation == <<op, remote, new, pc, todo>>
observers == <<outcome, owed, whole, gone, broken, haunted>>
vars == <<folders, metadata, operation, ghost, kills, observers>>

Code(v) == {v} \X Files[v]
AllCode == UNION {Code(v) : v \in Versions}
UserSave(f) == <<"user", f>>
ShippedSave(f) == <<"shipped", f>>
Contents == AllCode \cup ({"user", "shipped"} \X Saves)
Names == Saves \cup UNION {Files[v] : v \in Versions}
Json == Versions \cup {None, Torn}

FoldersTypeOK ==
    /\ there \in BOOLEAN /\ place \subseteq Contents /\ (~there => place = {})
    /\ stashed \in BOOLEAN /\ stash \subseteq Contents /\ (~stashed => stash = {})
    /\ stashed <=> op = "update" /\ pc # "stash"
    /\ left \subseteq SUBSET Contents

MetadataTypeOK ==
    /\ manifest \in Json /\ latest \in Json /\ polled \in Versions \cup {None}

OperationTypeOK ==
    /\ op \in {"none", "install", "update", "remove"} /\ remote \in BOOLEAN
    /\ new \in Versions \cup {None} /\ (op \in {"install", "update"} => new \in Versions)
    /\ pc \in {"idle", "stash", "source", "mkdir", "main", "manifest", "manifest2",
               "latest", "latest2", "saves", "restore", "rmdir", "rmmeta"}
    /\ pc = "idle" <=> op = "none"
    /\ todo \subseteq Names /\ (pc \notin {"main", "saves"} => todo = {})
    /\ ghost \subseteq Contents /\ kills \in 0..MaxKills

ObserverTypeOK ==
    /\ outcome \in {"running", "ok", "failed", "killed"} /\ owed \subseteq Saves
    /\ whole \in BOOLEAN /\ gone \subseteq Saves /\ broken \in BOOLEAN
    /\ haunted \subseteq Contents

TypeOK == FoldersTypeOK /\ MetadataTypeOK /\ OperationTypeOK /\ ObserverTypeOK

Init ==
    /\ there = FALSE /\ place = {} /\ stashed = FALSE /\ stash = {} /\ left = {}
    /\ manifest = None /\ latest = None /\ polled = None
    /\ op = "none" /\ remote = FALSE /\ new = None /\ pc = "idle" /\ todo = {}
    /\ ghost = {} /\ kills = 0
    /\ outcome = "ok" /\ owed = {} /\ whole = FALSE /\ gone = {} /\ broken = FALSE /\ haunted = {}
-----------------------------------------------------------------------------
(* Beginning and ending an operation                                       *)

Begin(kind, r, v, first) ==
    /\ pc = "idle"
    /\ op' = kind /\ remote' = r /\ new' = v /\ pc' = first /\ todo' = {}
    /\ outcome' = "running"
    /\ UNCHANGED <<folders, metadata, ghost, kills, owed, whole, gone, broken, haunted>>

(* A download's file is there; a file the user picked is looked at first.  *)
BeginInstall(r, v) == Begin("install", r, v, IF r THEN "mkdir" ELSE "source")
BeginUpdate(r, v) == Begin("update", r, v, "stash")
BeginRemove == Begin("remove", FALSE, None, "rmdir")

Ends(how) ==
    /\ op' = "none" /\ remote' = FALSE /\ new' = None /\ pc' = "idle" /\ todo' = {}
    /\ outcome' = how /\ haunted' = {}

ContinueWith(step, files) == pc' = step /\ todo' = files /\ UNCHANGED <<op, remote, new>>
Continue(step) == ContinueWith(step, {})

Succeeds ==
    /\ Ends("ok") /\ whole' = TRUE
    /\ broken' = (broken /\ haunted # {})
    /\ UNCHANGED <<owed, gone>>

(* These files are deleted or overwritten, as no step of an operation      *)
(* means to.                                                               *)
Loses(files) ==
    /\ gone' = gone \cup {f \in Saves : UserSave(f) \in files}
    /\ broken' = (broken \/ files \cap AllCode # {})

(* `?` in an install returns from it; in an update the old copy has to go  *)
(* back first (finish_update).                                             *)
InstallFails ==
    /\ IF op = "update" THEN Continue("restore") /\ UNCHANGED <<outcome, haunted>>
                        ELSE Ends("failed")
    /\ UNCHANGED <<owed, whole, gone, broken>>

(* TempDir is dropped, and its directory removed.                          *)
DropStash == stashed' = FALSE /\ stash' = {}

(* Writing files replaces those of the same name.                          *)
Over(files, folder) == {y \in folder : \A x \in files : x[2] # y[2]} \cup files
-----------------------------------------------------------------------------
(* install_local, install_remote                                           *)

(* path_metadata of the file to install.                                   *)
CheckSource ==
    /\ pc = "source"
    /\ \/ Continue("mkdir") /\ UNCHANGED observers
       \/ InstallFails
    /\ UNCHANGED <<folders, metadata, ghost, kills>>

(* make_dest_dir: there must be nothing of that name.  The archive holds   *)
(* the code, and may hold save files of its own.                           *)
MakeDestDir ==
    /\ pc = "mkdir"
    /\ \/ InstallFails /\ UNCHANGED there
       \/ /\ ~there /\ there' = TRUE
          /\ \E shipped \in SUBSET Saves :
                ContinueWith("main", Files[new] \cup shipped)
          /\ UNCHANGED observers
    /\ UNCHANGED <<place, stashed, stash, left, metadata, ghost, kills>>

Extracted(v, name) == <<IF name \in Saves THEN "shipped" ELSE v, name>>

(* install_main extracts one file after the other.                         *)
ExtractPiece ==
    /\ pc = "main" /\ there
    /\ \E name \in todo :
          /\ place' = Over({Extracted(new, name)}, place)
          /\ todo' = todo \ {name}
    /\ UNCHANGED <<there, stashed, stash, left, metadata, op, remote, new, pc, ghost, kills,
                   observers>>

InstallComplete ==
    IF op = "install" THEN Succeeds ELSE ContinueWith("saves", Saves) /\ UNCHANGED observers

MainInstalled ==
    /\ pc = "main"
    /\ todo = {}
    /\ IF remote THEN Continue("manifest") /\ UNCHANGED observers ELSE InstallComplete
    /\ UNCHANGED <<folders, metadata, ghost, kills>>

(* Variant: the error is returned past finish_update.                      *)
StepFailsAtOnce ==
    /\ pc \in {"main", "manifest", "manifest2", "latest", "latest2"}
    /\ Ends("failed") /\ DropStash
    /\ UNCHANGED <<there, place, left, metadata, ghost, kills, owed, whole, gone,
                   broken>>

(* A step fails: the archive is corrupt, the disk is full, the logo is of  *)
(* an unknown type, a file is locked.                                      *)
StepFails ==
    /\ pc \in {"main", "manifest", "manifest2", "latest", "latest2"}
    /\ InstallFails
    /\ UNCHANGED <<folders, metadata, ghost, kills>>

(* write_mod_manifest: fs::write truncates, then writes.                   *)
TruncateManifest ==
    /\ pc = "manifest"
    /\ manifest' = Torn
    /\ Continue("manifest2")
    /\ UNCHANGED <<folders, latest, polled, ghost, kills, observers>>

WriteManifest ==
    /\ pc = "manifest2"
    /\ manifest' = new
    /\ Continue("latest")
    /\ UNCHANGED <<folders, latest, polled, ghost, kills, observers>>

(* update_latest_json: a latest.json that does not parse fails the whole   *)
(* installation, and one that already names the version is left alone.     *)
CheckLatest ==
    /\ pc = "latest"
    /\ \/ latest = Torn /\ InstallFails /\ UNCHANGED latest
       \/ latest = new /\ InstallComplete /\ UNCHANGED latest
       \/ /\ latest \notin {Torn, new} /\ latest' = Torn
          /\ Continue("latest2") /\ UNCHANGED observers
    /\ UNCHANGED <<folders, manifest, polled, ghost, kills>>

WriteLatest ==
    /\ pc = "latest2"
    /\ latest' = new
    /\ InstallComplete
    /\ UNCHANGED <<folders, manifest, polled, ghost, kills>>
-----------------------------------------------------------------------------
(* update_local, update_remote                                             *)

(* prep_for_update renames the pack's folder into a fresh TempDir.         *)
PrepForUpdate ==
    /\ pc = "stash"
    /\ \/ /\ there
          /\ there' = FALSE /\ place' = {}
          /\ stashed' = TRUE /\ stash' = place
          /\ Continue(IF remote THEN "mkdir" ELSE "source")
          /\ UNCHANGED observers
       \/ /\ Ends("failed")
          /\ UNCHANGED <<there, place, stashed, stash, owed, whole, gone, broken>>
    /\ UNCHANGED <<left, metadata, ghost, kills>>

(* finish_update after an error: the rename back fails if the failed       *)
(* installation has left files in the way, and may fail for another        *)
(* reason.  The TempDir goes with whatever is in it.                       *)
Restore ==
    /\ pc = "restore"
    /\ \/ /\ place = {}
          /\ there' = TRUE /\ place' = stash
          /\ UNCHANGED <<gone, broken>>
       \/ /\ Loses(stash \ place)
          /\ UNCHANGED <<there, place>>
    /\ DropStash
    /\ Ends("failed")
    /\ UNCHANGED <<left, metadata, ghost, kills, owed, whole>>

Saved(f) == {x \in stash : x[2] = f}

(* Variant: a save file that the archive has shipped is kept.              *)
CopySaveIfMissing ==
    /\ pc = "saves" /\ there
    /\ \E f \in todo :
          /\ place' = IF \E y \in place : y[2] = f THEN place ELSE Over(Saved(f), place)
          /\ todo' = todo \ {f}
    /\ UNCHANGED <<there, stashed, stash, left, metadata, op, remote, new, pc, ghost, kills,
                   observers>>

(* finish_update after a success: the old save files, those there are,     *)
(* replace the new ones.                                                   *)
CopySave ==
    /\ pc = "saves" /\ there
    /\ \E f \in todo :
          /\ place' = Over(Saved(f), place)
          /\ todo' = todo \ {f}
    /\ UNCHANGED <<there, stashed, stash, left, metadata, op, remote, new, pc, ghost, kills,
                   observers>>

(* Copying fails with the stash still in the TempDir that is dropped.      *)
CopyFails ==
    /\ pc = "saves" /\ todo # {}
    /\ DropStash
    /\ Loses((stash \ place) \ AllCode)
    /\ Ends("failed")
    /\ UNCHANGED <<there, place, left, metadata, ghost, kills, owed, whole>>

SavesCopied ==
    /\ pc = "saves" /\ todo = {}
    /\ DropStash
    /\ Succeeds
    /\ UNCHANGED <<there, place, left, metadata, ghost, kills>>
-----------------------------------------------------------------------------
(* remove                                                                  *)

(* remove_dir_all deletes one thing after the other and may stop half-way. *)
RemoveDir ==
    /\ pc = "rmdir"
    /\ owed' = {} /\ whole' = FALSE
    /\ \/ /\ there /\ there' = FALSE /\ place' = {}
          /\ Continue("rmmeta") /\ UNCHANGED <<outcome, haunted>>
       \/ /\ there /\ place' \in SUBSET place
          /\ Ends("failed") /\ UNCHANGED there
       \/ /\ ~there
          /\ Ends("failed") /\ UNCHANGED <<there, place>>
    /\ UNCHANGED <<stashed, stash, left, metadata, ghost, kills, gone, broken>>

RemoveMetadata ==
    /\ pc = "rmmeta"
    /\ \/ manifest' = None /\ latest' = None /\ Ends("ok")
       \/ manifest' \in {manifest, None} /\ latest' \in {latest, None} /\ Ends("failed")
    /\ UNCHANGED <<folders, polled, ghost, kills, owed, whole, gone, broken>>
-----------------------------------------------------------------------------
(* What happens meanwhile                                                  *)

(* The cache's poll reports the newest version of an installed pack        *)
(* (apply_latest_check_result).                                            *)
PollBegins(v) ==
    /\ polled = None /\ manifest # None
    /\ latest \notin {Torn, v}
    /\ polled' = v /\ latest' = Torn
    /\ UNCHANGED <<folders, manifest, operation, ghost, kills, observers>>

PollEnds ==
    /\ polled # None
    /\ latest' = polled /\ polled' = None
    /\ UNCHANGED <<folders, manifest, operation, ghost, kills, observers>>

(* The game, run with the pack between two operations, writes a save.      *)
Play(f) ==
    /\ pc = "idle" /\ whole /\ there
    /\ UserSave(f) \notin place
    /\ place' = Over({UserSave(f)}, place)
    /\ owed' = owed \cup {f} /\ gone' = gone \ {f}
    /\ UNCHANGED <<there, stashed, stash, left, metadata, operation, ghost, kills,
                   outcome, whole, broken, haunted>>

Killed ==
    /\ kills < MaxKills /\ kills' = kills + 1
    /\ Ends("killed")
    /\ DropStash
    /\ polled' = None
    /\ UNCHANGED <<there, place, manifest, latest, owed, whole>>

(* Variant: leftover stashes are cleaned up at the next start.             *)
CrashThenSweep ==
    /\ Killed
    /\ left' = {} /\ ghost' = {}
    /\ UNCHANGED <<gone, broken>>

(* The process ends, and nothing is deleted.  Nothing looks at a stash it  *)
(* leaves behind when the app starts again.                                *)
Crash ==
    /\ Killed
    /\ left' = IF stashed THEN left \cup {stash} ELSE left
    /\ ghost' = {}
    /\ UNCHANGED <<gone, broken>>

(* rebuild_mods aborts the task the operation runs in, which drops the     *)
(* TempDir; a thread that extracts an archive is not stopped by that, and  *)
(* goes on with the files it has not written yet.                          *)
Abort ==
    /\ pc # "idle"
    /\ Killed
    /\ Loses(stash \ place)
    /\ ghost' = IF pc = "main" THEN ghost \cup {Extracted(new, name) : name \in todo}
                              ELSE ghost
    /\ UNCHANGED left

(* It creates the folders it needs, and truncates and writes every file,   *)
(* also one that the user or a new operation has written by now.           *)
GhostExtracts(x) ==
    /\ x \in ghost /\ ghost' = ghost \ {x}
    /\ there' = TRUE /\ place' = Over({x}, place)
    /\ Loses(place \ place')
    /\ haunted' = IF pc = "idle" THEN {} ELSE haunted \cup {x}
    /\ UNCHANGED <<stashed, stash, left, metadata, operation, kills, outcome, owed, whole>>
-----------------------------------------------------------------------------
Install ==
    \/ CheckSource \/ MakeDestDir \/ ExtractPiece \/ MainInstalled \/ StepFails
    \/ TruncateManifest \/ WriteManifest \/ CheckLatest \/ WriteLatest

Update == PrepForUpdate \/ Restore \/ CopySave \/ CopyFails \/ SavesCopied

Remove == RemoveDir \/ RemoveMetadata

Operation ==
    \/ \E r \in BOOLEAN, v \in Versions : BeginInstall(r, v) \/ BeginUpdate(r, v)
    \/ BeginRemove
    \/ Install \/ Update \/ Remove

Meanwhile ==
    \/ \E v \in Versions : PollBegins(v)
    \/ \E x \in Contents : GhostExtracts(x)
    \/ PollEnds
    \/ \E f \in Saves : Play(f)
    \/ Crash \/ Abort

Next == Operation \/ Meanwhile

Spec == Init /\ [][Next]_vars
-----------------------------------------------------------------------------
(* Properties                                                              *)

Copies == {place, stash} \cup left
IsWhole(folder) == \E v \in Versions : Code(v) \subseteq folder

(* Whatever step an operation has reached, and wherever a crash stopped    *)
(* one, a save file the user made is on disk somewhere, unless it was      *)
(* deleted with a stash (by a failed rename or copy, or by an abort) or    *)
(* overwritten by the thread that an abort leaves behind (disk.rs          *)
(* prep_for_update, finish_update).                                        *)
SavesAreOnDisk ==
    \A f \in owed : f \in gone \/ \E c \in Copies : UserSave(f) \in c

(* So is a complete copy of a pack that was once completely installed,     *)
(* unless code was lost that way since (disk.rs prep_for_update,           *)
(* finish_update).                                                         *)
CopyIsOnDisk == whole /\ ~broken => \E c \in Copies : IsWhole(c)

(* A file is as the operation left it unless a ghost has meanwhile written *)
(* one of its name.                                                        *)
Untouched(x) == \A y \in haunted : y[2] # x[2]

(* An installation or update that reports success has installed the files  *)
(* of its version and none of another one, has put the user's save files   *)
(* of the folder it replaced next to them, and says so in its manifest:    *)
(* all but those files that a thread of an aborted extraction has written  *)
(* while it ran (disk.rs install_main, finish_update).                     *)
SuccessIsComplete ==
    [][pc # "idle" /\ new # None /\ pc' = "idle" /\ outcome' = "ok" =>
         /\ \A x \in Code(new) : Untouched(x) => x \in place'
         /\ place' \cap AllCode \subseteq Code(new) \cup haunted
         /\ \A f \in Saves : UserSave(f) \in stash /\ Untouched(UserSave(f))
                             => UserSave(f) \in place'
         /\ remote => manifest' = new]_vars

(* What disk.rs:798-799 says of updates, "A failed install has to put the  *)
(* old copy back rather than leaving the user with no mod at all": also    *)
(* after an installation that has extracted something.                     *)
FailedUpdateRestores ==
    [][pc = "restore" /\ place # {} /\ op' = "none" /\ outcome' = "failed" =>
         place' = stash]_vars

(* What mods.rs:256-257 says of an abort, that the subsystems "hold no     *)
(* unsaved state so aborting is safe": it deletes nothing of the user's.   *)
AbortIsSafe ==
    [][Abort => \A f \in owed : (\E c \in Copies : UserSave(f) \in c)
                                  => (\E c \in Copies' : UserSave(f) \in c)]_vars
=============================================================================
