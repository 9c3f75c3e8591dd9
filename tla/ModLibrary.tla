----------------------------- MODULE ModLibrary -----------------------------
(***************************************************************************)
(* The mod library of the running app: the packs on disk, the mod cache    *)
(* that scans them (ml2_mods local/cache.rs), the mod manager that runs    *)
(* one command at a time and forwards what the cache detects (manager.rs), *)
(* the listener that keeps load_order.txt in line and tells the page       *)
(* (mods.rs), and the people and programs that change packs on their own.  *)
(*                                                                         *)
(* Two broadcast channels connect the three tasks.  A listing of the disk  *)
(* is taken in one step and compared with the cache, or written to         *)
(* load_order.txt, in later ones, and an update moves the pack away for a  *)
(* while: that is where they race.                                         *)
(***************************************************************************)
EXTENDS Naturals, Sequences

CONSTANTS
    Mods,       (* pack ids                                                *)
    Versions,   (* what a pack may contain                                 *)
    Absent,     (* the contents of a pack that is not there                *)
    NoMod,
    Listener,   (* the change listener, which writes load_order.txt        *)
    Callers,    (* and so do a launch, the level editor, set_load_order    *)
    Capacity,   (* of a broadcast channel                                  *)
    MaxActions  (* bound on what people and other programs do, and on what *)
                (* fails because of them                                   *)

ASSUME Distinct == Absent \notin Versions /\ NoMod \notin Mods
ASSUME WritersDiffer == Listener \notin Callers
ASSUME BoundsAssumption ==
    Capacity \in Nat \ {0} /\ MaxActions \in Nat

VARIABLES
    disk,       (* what Mods/Packs holds                                   *)
    cache,      (* ModCache.cache                                          *)
    scan,       (* the cache task: "populate", "populated", "select",      *)
                (* "listed", "failed" (the listing), or "diff" (it holds   *)
                (* the cache's lock)                                       *)
    listing,    (* the directory listing it has taken                      *)
    asked,      (* a scan_now request waits in its channel                 *)
    serving,    (* the scan that runs was asked for                        *)
    detected,   (* the channel of DetectedChanges                          *)
    lagged,     (* the manager's receiver has missed some                  *)
    manager,    (* the manager task: "select", "deaf" (the branch for      *)
                (* detected changes is disabled), "install", "update",     *)
                (* "installed" or "updated" (not in the cache yet)         *)
    target,     (* the pack its command is about                           *)
    aim,        (* the version the command installs, or put back           *)
    changes,    (* the channel of Changes                                  *)
    refetch,    (* the page is going to list the mods                      *)
    lines,      (* packs that load_order.txt has a line for                *)
    writing,    (* those about to write load_order.txt                     *)
    found,      (* the packs that each of them has listed                  *)
    actions,    (* taken by people and other programs so far               *)
    (* observation only *)
    stale,      (* the cache has changed since the page was last told      *)
    since,      (* packs that changed on disk since scan_now was called    *)
    excused,    (* packs that have left the disk, or changed before the    *)
                (* first listing, of which nobody is told                  *)
    dropped,    (* packs that a failed or an overtaken write has left      *)
                (* without their line                                      *)
    lost        (* a channel has overflowed                                *)

cacheVars == <<cache, scan, listing, asked, serving>>
managerVars == <<manager, target, aim, lagged>>
channels == <<detected, changes>>
fileVars == <<lines, writing, found, dropped>>
observers == <<stale, since, excused, lost>>
vars == <<disk, cacheVars, managerVars, channels, refetch, fileVars, actions, observers>>

Writers == Callers \cup {Listener}

Contents == Versions \cup {Absent}
Installed == {m \in Mods : disk[m] # Absent}
Empty == [m \in Mods |-> Absent]
Detection == {"added", "updated", "removed"} \X Mods
Change == {"add", "update", "remove"} \X Mods

TypeOK ==
    /\ disk \in [Mods -> Contents] /\ cache \in [Mods -> Contents]
    /\ scan \in {"populate", "populated", "select", "listed", "failed", "diff"}
    /\ listing \in [Mods -> Contents]
    /\ asked \in BOOLEAN /\ serving \in BOOLEAN /\ lagged \in BOOLEAN
    /\ detected \in Seq(Detection) /\ Len(detected) <= Capacity
    /\ changes \in Seq(Change) /\ Len(changes) <= Capacity
    /\ manager \in {"select", "deaf", "install", "update", "installed", "updated"}
    /\ target \in Mods \cup {NoMod} /\ aim \in Contents
    /\ manager \notin {"select", "deaf"} => target \in Mods /\ aim \in Versions
    /\ refetch \in BOOLEAN /\ stale \in BOOLEAN
    /\ lines \subseteq Mods /\ writing \subseteq Writers
    /\ found \in [Writers -> SUBSET Mods]
    /\ \A w \in Writers \ writing : found[w] = {}
    /\ actions \in 0..MaxActions
    /\ since \subseteq Mods /\ excused \subseteq Mods /\ dropped \subseteq Mods
    /\ lost \in BOOLEAN

Init ==
    /\ disk \in [Mods -> Contents]
    /\ cache = Empty
    /\ scan = "populate" /\ listing = Empty
    /\ asked = FALSE /\ serving = FALSE
    /\ detected = <<>> /\ lagged = FALSE /\ changes = <<>>
    /\ manager = "select" /\ target = NoMod /\ aim = Absent
    /\ refetch = TRUE
    /\ lines = Installed /\ writing = {} /\ found = [w \in Writers |-> {}]
    /\ actions = 0
    /\ stale = FALSE /\ since = {} /\ excused = {} /\ dropped = {} /\ lost = FALSE
-----------------------------------------------------------------------------
(* tokio broadcast: a full channel loses its oldest message, and a         *)
(* receiver that has lost some is told so once.                            *)
Pushed(q, msg) == Append(IF Len(q) = Capacity THEN Tail(q) ELSE q, msg)

Detect(kind, m) ==
    /\ detected' = Pushed(detected, <<kind, m>>)
    /\ lagged' = (lagged \/ Len(detected) = Capacity)
    /\ lost' = (lost \/ Len(detected) = Capacity)

Announce(kind, m) ==
    /\ changes' = Pushed(changes, <<kind, m>>)
    /\ lost' = (lost \/ Len(changes) = Capacity)

SetDisk(m, c) ==
    /\ disk' = [disk EXCEPT ![m] = c]
    /\ since' = IF asked \/ serving THEN since \cup {m} ELSE {}
    /\ excused' = IF c = Absent \/ scan = "populate" THEN excused \cup {m} ELSE excused

Acts == actions < MaxActions /\ actions' = actions + 1
-----------------------------------------------------------------------------
(* The cache task (cache.rs)                                               *)

(* populate_cache lists before it takes the lock.  When the listing fails  *)
(* the cache stays empty and counts as ready all the same.                 *)
PopulateLists ==
    /\ scan = "populate"
    /\ \/ listing' = disk /\ scan' = "populated"
       \/ scan' = "select" /\ UNCHANGED listing
    /\ UNCHANGED <<disk, cache, asked, serving, managerVars, channels, refetch, fileVars,
                   actions, observers>>

Populate ==
    /\ scan = "populated" /\ scan' = "select" /\ listing' = Empty
    /\ cache' = IF cache = Empty THEN listing ELSE cache
    /\ UNCHANGED <<disk, asked, serving, managerVars, channels, refetch,
                   fileVars, actions, observers>>

(* local_scan, on a tick of the interval or on request, takes a listing... *)
ScanLists ==
    /\ scan = "select" /\ scan' = "listed"
    /\ listing' = disk
    /\ \/ UNCHANGED <<asked, serving>>
       \/ asked /\ asked' = FALSE /\ serving' = TRUE
    /\ UNCHANGED <<disk, cache, managerVars, channels, refetch, fileVars, actions,
                   observers>>

(* ... which may fail: then the cache is left as it was ...                *)
ScanFails ==
    /\ scan = "select" /\ scan' = "failed"
    /\ asked /\ asked' = FALSE /\ serving' = TRUE
    /\ UNCHANGED <<disk, cache, listing, managerVars, channels, refetch, fileVars,
                   actions, observers>>

(* ... and the request is answered all the same.                           *)
FailureEnds ==
    /\ scan = "failed" /\ scan' = "select"
    /\ serving' = FALSE /\ since' = {}
    /\ UNCHANGED <<disk, cache, listing, asked, managerVars, channels, refetch, fileVars,
                   actions, stale, excused, lost>>

(* Variant: the request is answered as soon as it is received.             *)
LockUnasked ==
    /\ scan = "listed" /\ scan' = "diff"
    /\ serving' = FALSE
    /\ UNCHANGED <<disk, cache, listing, asked, managerVars, channels, refetch, fileVars,
                   actions, observers>>

(* A listing that succeeds is followed by the cache's lock ...             *)
ScanLocks ==
    /\ scan = "listed" /\ scan' = "diff"
    /\ UNCHANGED <<disk, cache, listing, asked, serving, managerVars, channels, refetch,
                   fileVars, actions, observers>>

Difference(m) == IF listing[m] = Absent THEN "removed"
                 ELSE IF cache[m] = Absent THEN "added" ELSE "updated"

(* Variant: only what the listing holds is looked at.                      *)
DiffersIfListed(m) == cache[m] # listing[m] /\ listing[m] # Absent

Differs(m) == cache[m] # listing[m]

(* ... and, pack by pack, removals first, corrects the cache and says so.  *)
ScanCorrects(m) ==
    /\ scan = "diff" /\ Differs(m)
    /\ listing[m] # Absent => \A n \in Mods : Differs(n) => listing[n] # Absent
    /\ cache' = [cache EXCEPT ![m] = listing[m]]
    /\ Detect(Difference(m), m)
    /\ stale' = TRUE
    /\ UNCHANGED <<disk, scan, listing, asked, serving, manager, target, aim, changes,
                   refetch, fileVars, actions, since, excused>>

(* The lock is released, and a request is answered.                        *)
ScanEnds ==
    /\ scan = "diff" /\ \A m \in Mods : ~Differs(m)
    /\ scan' = "select" /\ serving' = FALSE /\ listing' = Empty
    /\ since' = IF asked THEN since ELSE {}
    /\ UNCHANGED <<disk, cache, asked, managerVars, channels, refetch, fileVars,
                   actions, stale, excused, lost>>
-----------------------------------------------------------------------------
(* The manager task (manager.rs)                                           *)

Listens == manager \in {"select", "deaf"}

(* handle_detected.                                                        *)
Forward ==
    /\ manager = "select" /\ ~lagged /\ detected # <<>>
    /\ LET d == Head(detected) IN
          Announce(CASE d[1] = "added" -> "add"
                     [] d[1] = "updated" -> "update"
                     [] d[1] = "removed" -> "remove", d[2])
    /\ detected' = Tail(detected)
    /\ UNCHANGED <<disk, cacheVars, managerVars, refetch, fileVars, actions, stale, since,
                   excused>>

(* Receiving `Lagged` does not match `Ok(detected)`, which disables the    *)
(* branch until another branch of this select! completes.                  *)
Lag ==
    /\ manager = "select" /\ lagged
    /\ manager' = "deaf" /\ lagged' = FALSE
    /\ UNCHANGED <<disk, cacheVars, target, aim, channels, refetch, fileVars, actions,
                   observers>>

(* Any command ends the select!.  List takes the cache's lock.             *)
ListMods ==
    /\ Listens /\ scan # "diff"
    /\ refetch /\ refetch' = FALSE
    /\ manager' = "select"
    /\ UNCHANGED <<disk, cacheVars, target, aim, lagged, channels, fileVars, actions,
                   observers>>

Command(next, m, v) ==
    /\ Listens /\ Acts
    /\ manager' = next /\ target' = m /\ aim' = v

Finishes == manager' = "select" /\ target' = NoMod /\ aim' = Absent

InstallMod(m, v) ==
    /\ Command("install", m, v)
    /\ UNCHANGED <<disk, cacheVars, lagged, channels, refetch, fileVars, observers>>

(* DiskMods::install: fails if the pack is there, or half-way with the     *)
(* folder made.                                                            *)
DiskInstalls ==
    /\ manager = "install"
    /\ \/ /\ disk[target] = Absent /\ SetDisk(target, aim)
          /\ \/ manager' = "installed" /\ UNCHANGED <<target, aim>>
             \/ Finishes
       \/ Finishes /\ UNCHANGED <<disk, since, excused>>
    /\ UNCHANGED <<cacheVars, lagged, channels, refetch, fileVars, actions, stale, lost>>

(* DiskMods::update moves the old copy away ...                            *)
UpdateMod(m) ==
    /\ disk[m] # Absent
    /\ Command("update", m, disk[m])
    /\ SetDisk(m, Absent)
    /\ UNCHANGED <<cacheVars, lagged, channels, refetch, fileVars, stale, lost>>

(* ... and installs a new one, which it may leave half done, or moves the  *)
(* old one back, or fails to.                                              *)
DiskUpdates ==
    /\ manager = "update"
    /\ \/ \E v \in Versions :
             /\ SetDisk(target, v)
             /\ \/ manager' = "updated" /\ aim' = v /\ UNCHANGED target
                \/ Finishes
       \/ SetDisk(target, aim) /\ Finishes
       \/ Finishes /\ UNCHANGED <<disk, since, excused>>
    /\ UNCHANGED <<cacheVars, lagged, channels, refetch, fileVars, actions, stale, lost>>

(* mod_installed and mod_updated put what was installed into the cache, and*)
(* the manager announces it.                                               *)
CacheLearns ==
    /\ manager \in {"installed", "updated"} /\ scan # "diff"
    /\ cache' = [cache EXCEPT ![target] = aim]
    /\ Announce(IF manager = "installed" THEN "add" ELSE "update", target)
    /\ stale' = TRUE
    /\ Finishes
    /\ UNCHANGED <<disk, scan, listing, asked, serving, lagged, detected, refetch,
                   fileVars, actions, since, excused>>

(* The cache is left for the next scan to correct.  A removal that fails,  *)
(* before or after the folder is gone, is not announced.                   *)
RemoveMod(m) ==
    /\ disk[m] # Absent
    /\ Command("select", NoMod, Absent)
    /\ \/ SetDisk(m, Absent) /\ Announce("remove", m)
       \/ /\ SetDisk(m, Absent) \/ UNCHANGED <<disk, since, excused>>
          /\ UNCHANGED <<changes, lost>>
    /\ UNCHANGED <<cacheVars, lagged, detected, refetch, fileVars, stale>>
-----------------------------------------------------------------------------
(* The listener and load_order.txt (mods.rs)                               *)

(* A change after which load_order.txt is written anew.                    *)
Rearranges(change) == change[1] \in {"add", "remove"}

(* reconcile_load_order, and set_load_order, list the packs ...            *)
Lists(w) ==
    /\ w \notin writing /\ writing' = writing \cup {w}
    /\ found' = [found EXCEPT ![w] = Installed]
    /\ UNCHANGED <<lines, dropped>>

(* ... and write a line for each of those, and for no other, whatever      *)
(* another has written since.  A pack that came after the listing loses    *)
(* its line: the listener has yet to hear of it, a caller never does.      *)
Writes(w) ==
    /\ lines' = found[w]
    /\ dropped' = IF w = Listener THEN {} ELSE (dropped \cup lines) \ found[w]

(* A write that fails leaves the file as it was, or cut off; the listener  *)
(* does not come back to the packs it would have added.                    *)
WriteFails(w) ==
    /\ Acts
    /\ lines' \in {lines} \cup SUBSET found[w]
    /\ dropped' = (dropped \cup lines \cup IF w = Listener THEN found[w] ELSE {}) \ lines'

(* The page is told that the mods have changed.                            *)
Tell == refetch' = TRUE /\ stale' = FALSE

(* The listener takes a change ...                                         *)
Hear ==
    /\ Listener \notin writing
    /\ changes # <<>> /\ changes' = Tail(changes)
    /\ UNCHANGED <<disk, cacheVars, managerVars, detected, since, excused, lost>>

(* Variant: a pack that arrives does not reconcile the file.               *)
ListenToRemovals ==
    /\ Hear /\ UNCHANGED actions
    /\ IF Head(changes)[1] = "remove"
       THEN Lists(Listener) /\ UNCHANGED <<refetch, stale>>
       ELSE Tell /\ UNCHANGED fileVars

(* Variant: the page is not told of updates.                               *)
ListenQuietly ==
    /\ Hear /\ UNCHANGED actions
    /\ IF Rearranges(Head(changes)) THEN Lists(Listener) ELSE UNCHANGED fileVars
    /\ UNCHANGED <<refetch, stale>>

(* ... and reconciles load_order.txt before it tells the page if a pack    *)
(* has arrived or left; it tells the page of every change.                 *)
Listen ==
    /\ Hear /\ UNCHANGED actions
    /\ IF Rearranges(Head(changes))
       THEN Lists(Listener) /\ UNCHANGED <<refetch, stale>>
       ELSE Tell /\ UNCHANGED fileVars

(* reconcile_load_order_quietly: the packs cannot be listed, and nobody is *)
(* told of it.                                                             *)
ListenFails ==
    /\ Hear /\ Acts /\ Rearranges(Head(changes))
    /\ Tell
    /\ dropped' = dropped \cup ({Head(changes)[2]} \ lines)
    /\ UNCHANGED <<lines, writing, found>>

Write(w) ==
    /\ w \in writing /\ writing' = writing \ {w}
    /\ found' = [found EXCEPT ![w] = {}]
    /\ \/ Writes(w) /\ UNCHANGED actions
       \/ WriteFails(w)
    /\ IF w = Listener THEN Tell ELSE UNCHANGED <<refetch, stale>>
    /\ UNCHANGED <<disk, cacheVars, managerVars, channels, since, excused, lost>>

(* The game is launched, the level editor has made a pack, or the user     *)
(* enables or disables one (set_load_order).  No lock keeps them and the   *)
(* listener apart.                                                         *)
Launch(c) ==
    /\ Acts /\ Lists(c)
    /\ UNCHANGED <<disk, cacheVars, managerVars, channels, refetch, observers>>

(* scan_now, called by the page's Refresh.                                 *)
ScanNow ==
    /\ Acts /\ ~asked /\ ~serving
    /\ asked' = TRUE /\ since' = {}
    /\ UNCHANGED <<disk, cache, scan, listing, serving, managerVars, channels, refetch,
                   fileVars, stale, excused, lost>>

(* A pack is copied in, edited or deleted without the app, but not while   *)
(* the app itself is working on it.                                        *)
Edit(m, c) ==
    /\ Acts /\ disk[m] # c /\ (Listens \/ m # target)
    /\ SetDisk(m, c)
    /\ UNCHANGED <<cacheVars, managerVars, channels, refetch, fileVars, stale, lost>>
-----------------------------------------------------------------------------
CacheStep ==
    \/ PopulateLists \/ Populate \/ ScanLists \/ FailureEnds \/ ScanLocks \/ ScanEnds
    \/ \E m \in Mods : ScanCorrects(m)

ListenerStep == Listen \/ ListenFails \/ Write(Listener)

ManagerStep == Forward \/ Lag \/ DiskInstalls \/ DiskUpdates \/ CacheLearns

User ==
    \/ \E m \in Mods :
          \/ \E v \in Versions : InstallMod(m, v)
          \/ UpdateMod(m) \/ RemoveMod(m)
          \/ \E c \in Contents : Edit(m, c)
    \/ \E c \in Callers : Launch(c) \/ Write(c)
    \/ ScanNow

Next == CacheStep \/ ScanFails \/ ManagerStep \/ ListMods \/ ListenerStep \/ User

(* The three tasks and the page are scheduled; the cache's lock is handed  *)
(* on in turn and select! draws lots, so no branch is passed over for      *)
(* ever; the mods folder can be listed again and again.  Users owe nothing.*)
Spec ==
    /\ Init /\ [][Next]_vars
    /\ WF_vars(CacheStep) /\ SF_vars(ManagerStep) /\ SF_vars(ListMods)
    /\ WF_vars(ListenerStep)
-----------------------------------------------------------------------------
(* Properties                                                              *)

(* Once packs have stopped changing the cache comes to agree with the      *)
(* disk, whatever stale listings and installations raced before (cache.rs  *)
(* local_scan, mod_installed, mod_updated).                                *)
CacheConverges == <>[](cache = disk)

(* The page is told of every change of the cache, later, unless the        *)
(* channels overflowed (cache.rs send_change, manager.rs, mods.rs setup).  *)
ChangesAreAnnounced == []~lost => (stale ~> ~stale)

(* What the page has not been told, it is going to be: after a change of   *)
(* the cache a message waits in a channel, or the listener has one in hand *)
(* (cache.rs send_change, manager.rs handle_detected, mods.rs setup).      *)
StaleIsWaiting == stale => detected # <<>> \/ changes # <<>> \/ Listener \in writing

(* When scan_now returns, which it does in the same way when the mods      *)
(* folder could not be listed, then unless that is so the cache is right   *)
(* about every pack that has not been changed since the call (cache.rs     *)
(* scan_now, local_scan, run).                                             *)
RefreshIsFresh ==
    [][serving /\ ~serving' =>
          scan = "failed" \/ \A m \in Mods \ since : cache[m] = disk[m]]_vars

(* load_order.txt comes to have a line for every installed pack, and for   *)
(* no other, unless the channels overflowed.  Excepted are packs that were *)
(* away for a while without a scan noticing, packs that came before the    *)
(* first listing, and those that a reconcile that failed, or a write of an *)
(* older listing, has left without their line (mods.rs setup,              *)
(* reconcile_load_order, set_load_order).                                  *)
OrderFollowsDisk ==
    []~lost => <>[](\A m \in Mods \ (excused \cup dropped) :
                       m \in lines <=> disk[m] # Absent)

Waits(q, msg) == \E i \in 1..Len(q) : q[i] = msg

(* the listener is going to give m its line *)
IsExpected(m) ==
    \/ Waits(detected, <<"added", m>>) \/ Waits(changes, <<"add", m>>)
    \/ m \in found[Listener]

(* And until then no pack is forgotten: one that has a line is there, and  *)
(* one that the cache knows of has its line, or its arrival still waits in *)
(* a channel, or the listener has listed it and is about to write (cache.rs*)
(* mod_installed, local_scan, mods.rs setup, reconcile_load_order).        *)
KnownPacksHaveLines ==
    ~lost => \A m \in Mods \ excused :
        /\ m \in lines => disk[m] # Absent
        /\ disk[m] # Absent /\ cache[m] # Absent =>
              m \in lines \/ m \in dropped \/ IsExpected(m)
=============================================================================
