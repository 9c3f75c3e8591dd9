# A verification project for Modlunky2

Modlunky2 (`src/app`, a Tauri application, on the crates under `src/crates`) installs
and launches mods of Spelunky 2 and feeds "trackers", small overlays that show what a
running game does, to windows, OBS browser sources and text files.  This directory
holds TLA+ models of the parts of it in which several tasks share state, the TLC
configurations that check them, and proofs that TLAPS checks.

    tlc -workers 2 -config MCTrackerServer.cfg MCTrackerServer
    tlapm TrackerServerProofs.tla

Paths below are relative to `src/`; `trackers/` is `app/src-tauri/src/trackers/`,
`mods.rs` is `app/src-tauri/src/mods.rs`, and `manager.rs`, `cache.rs` and `disk.rs`
are in `crates/ml2_mods/src/` and its `local/`; `runstate.rs`, `label.rs`, `chain.rs` and
`chain_impl/` are in `crates/ml2_trackers/src/`; `link.rs`, `fyi_ws.rs`, `config.rs` and
`mod_state.rs` are next to `mods.rs`.

## 1. Inventory

### Trackers

| Component | State | Operations | Talks to |
|---|---|---|---|
| Server (`trackers/server.rs`, `mod.rs`) | `TrackerServerState.running`: a `Mutex<Option<RunningServer>>` with the port, the axum task's shutdown sender and the file writers | `start_tracker_server`, `stop_tracker_server`, accept and upgrade a WebSocket, send payloads to it, close it | the registry (attach, drop of `ConsumerGuard`), the slots' watch channels |
| Consumer registry (`trackers/consumers.rs`) | per slug: how many viewers, and the sender that stops its tick task | `attach`, `detach`, `shutdown_all` | spawns and stops tick tasks, resets slots |
| Tick task (`trackers/tick_task.rs`, `slot.rs`) | the process handle, `AttachHealth`, `ever_attached`, the last payload | attach, read, publish, sleep, give the handle up | the game's memory, the slot's watch channel, one process-wide attach problem |
| File output (`trackers/file_task.rs`, `mod.rs`) | one shutdown sender per slug; `{slug}.txt` and `{slug}.txt.tmp` | enable, disable, open and close a window, write on every payload | the slot's watch channel, the disk |
| Category tracker (`runstate.rs`, `label.rs`, `chain.rs`, `chain_impl/`) | `RunState`: the labels of the run, four quest chains, some 30 flags and the last sample's traces | one `update` per tick with its 25 detectors in a fixed order; reset when the game's clock goes back; the text of the labels | called by the tick task with a sample of the game |
| Payload to text (`trackers/render.rs`), the counting trackers (`ml2_trackers`), memory reader (`ml2_mem`) | none shared | pure functions; reads of another process | called by the tick task |

Correct means here: a viewer is served as long as it is connected; nothing reads the
game for nobody; a server or a task that was started can be stopped; what a viewer
sees is current; the handle of a dead game is given up and a new game is found.
Hard: the lock of `running` is let go between the check and the commit of a start
and between the two halves of a stop; a connection attaches and detaches on its own
task, at any time, also after the server it came from is gone; a tick task looks at
its kill signal once per iteration; two writers of one file share a temporary file.  The
category adds a different kind of hardness: no concurrency, but detectors that depend on each
other's flags, two copied chains that must agree, label rules that are checked after the fact
and whose error is dropped, and runs of any length that may be seen only in part.

### Mods

| Component | State | Operations | Talks to |
|---|---|---|---|
| Mods on disk (`disk.rs`) | `Mods/Packs/<id>`, `Mods/.ml/` (manifest, latest, stash of an update) | list, get, install, update, remove | the file system |
| Mod cache (`cache.rs`) | a map of packs behind one lock | populate, scan on a timer or on request, poll spelunky.fyi, learn of installs and updates | disk; sends `DetectedChange`s |
| Mod manager (`manager.rs`) | none but its channels | one command at a time; forwards what the cache detects | cache; broadcasts `Change`s |
| Mods page backend (`mods.rs`) | the subsystem's tasks, `load_order.txt`, the set of packs with an update | commands of the page, the change listener, `rebuild_mods` | manager, page (events), disk |
| spelunky.fyi client and socket (`spelunkyfyi/`, `fyi_ws.rs`) | connection, ping and pong timers | download; install on request of the site | manager |
| Mods page (`components/mods/ModsPage.tsx`) | the list and the order it shows | reload, enable, disable, reorder | backend |

Correct means here: no operation that fails or is interrupted costs the user a save or
a pack; success means a complete pack; the cache comes to agree with the disk; the page
and `load_order.txt` hear of every change.  Hard: every step of an operation can fail;
the app can crash, and `rebuild_mods` can abort the task, between two steps; a listing is
taken before the lock and compared after it; broadcast channels lose messages when full.

### Account, configuration, push socket

| Component | State | Operations | Talks to |
|---|---|---|---|
| Account link (`link.rs`) | `SESSION`: the one sender that cancels an attempt; per attempt a task, a listener and its channels | `start_account_link`, `cancel_account_link`, callback, timeout, exchange of the code | browser, configuration, `rebuild`, `refresh`, one event |
| Rebuild (`mods.rs`) | `ModsSlot`: handle, cache handle, task | `rebuild`: load the configuration, build, swap, abort | configuration, mods |
| Push socket slot (`fyi_ws.rs`) | `FyiWsSlot`: the running socket with the token and the `ModManagerHandle` it was given | `stop`, `start_if_configured`, `refresh` | configuration, `ModsSlot`, page (status) |
| Settings modal, `SetupContext`, status pill (`SettingsModal.tsx`, `SetupContext.tsx`, `App.tsx`) | the form as read and as edited | open, edit, close, save, be told of a link; rebuild; reconnect | all of the above |
| Configuration (`config.rs`) | `config.json`, its `.tmp`, files moved aside | load, `apply_patch`, `apply_json_field`, `set_nested` | the file system |
| Per-mod state (`mod_state.rs`) | `mod-state.json` | load, `set_favorite`, `mark_used`, `set_check`, `prune` | the file system |

Correct means here: an attempt can be ended by the user and always ends with an event; a token
that was stored is not written over by a form that does not know of it; new credentials reach the
subsystem that installs and the socket that listens; a configuration survives failures and
crashes whole.  Hard: an attempt's command and its task run side by side, and either may reach the
session slot of another attempt; rebuild and refresh are many steps without a lock around
them, started from four places; both documents are read, changed and written without a lock.  A socket must
end when it is told to, in whatever it is waiting for, and must tell a dead connection from a busy one: an
install is awaited in the loop that reads the answers to its pings, and old and new sockets tell one pill.

### The rest

The self-updater (`updater.rs`), asset extraction (`extract.rs`), game launch and third-party
tools, the shell (log and toast buffers), the level and character editors, and the format crates
(levels, sprites, assets, ciphers).  `PROJECT.json` lists every one with its status; section 7
says why.

`PROJECT.json` also lists the hazards: what can go wrong in this code that a unit test
would hardly reach, at the line where it bites, with the properties that would catch it.

## 2. Modules

Each component has a module with its state, `Init`, one action per critical section or
per step between two awaits, `Next` and `Spec`; an `MC` module that only gives it to TLC;
and a module of proofs (that of FyiSocket and of AccountSocket is AccountLinkProofs).  `PROJECT.json` maps each definition to lines.
A definition whose comment starts with "Variant:" is used by nothing: it is what the
code could plausibly have been instead, and a property is trusted only if TLC finds it
violated when the variant takes the place of the definition it is a variant of.

### TrackerServer

The server, the connections, the registry and the tick tasks as the registry sees them.

* A start call is `StartCheck` (the lock is taken and released), `StartBind`, and
  `StartCommit` (the lock again; the `RunningServer` it overwrites drops its sender, which
  ends that server).  A stop is `StopTake` (up to `drop(guard)`) and `StopDrain`
  (`shutdown_all`); `AxumShutdown` is the axum task seeing its signal.
* A connection is accepted (`Accept`), and counted later, on its own task (`Attach`); it may
  close without having been counted (`UpgradeFails`).  It outlives the server (axum's graceful
  shutdown does not end upgraded connections, and nothing else does) until `Close`.
* `RegistryAttach` and `RegistryDetach` are the two methods under the registry's lock with
  everything they do: on 0 to 1 a task is spawned and its sender stored, which drops a
  sender stored before; on 1 to 0 the task is told to stop and the slot reset.
* A task alternates between `TickCheck` (the kill signal) and one iteration (`TickRead`,
  `TickNoGame`) that may publish.  What it reads is left to `TickLoop`.
* `owed`, `staleDrop` and `late` only observe: connections attached since the last
  drain, slugs detached by an older connection, payloads published after the kill.

### TickLoop, TrackerDisplay and TickTask

One tick task, on a discrete clock.  Instants are kept as the time since then, so that
the state space is finite without a bound on how long the system runs.  `OnSuccess`,
`OnFeedcodeMissing` and `OnReadError` are the methods of `AttachHealth`; the loop is
`Top` (kill signal), `Attach`, `Tick`, `Wake`.  A handle can be of the game that runs or
of one that is gone; a game can be absent, refuse the attach, lack its marker, fail
its reads, or answer.  `TrackerDisplay` is the abstract specification: what the comments of
`TrackerPayload` promise a viewer (Empty until the game was seen, then labels, then
Detached, never Empty again; stopping blanks it, and one payload that was under way
may follow).  `Display == INSTANCE TrackerDisplay WITH ...` maps the payload channel to
`display`, and the kill signal with the place of the loop to `phase`.

`TickTask` joins TickLoop to TrackerServer, which has the same tasks with most of their state left
out.  It adds `late`, and maps the one task to a task of TrackerServer that runs for the one viewer of one
tracker: attaching and reading are one piece of work, a sleep is on the way to the top of the loop, and `Kill` is
the viewer's `Close`, with all that the registry does then.

### FileMirror

One slug's file.  The commands of `mod.rs` and the window's events are actions as far as the
lock of `running` makes them so: `open_tracker_window` is four (window, spawn,
register, event handler), because it holds the lock for none of them but the third.
Writers are slots; one is spawned, writes the current payload, then waits for the
next or its signal, and writes an empty text at the end.  `write_atomic` is three steps
(truncate, put, rename) and a renamed file stays open under its new name: `fd` says what
the file a writer has open is called by now.  Each step may fail (`OpenFails`, `PutFails`, `RenameFails`),
and the writer goes on as if it had not (`CarriesOn`), since the code logs the error or drops it.
A file that does not exist shows nothing in OBS and is taken for a blank one, so `file` begins as `Blank`.
Two observers account for failures: `missed` (the last write of a writer that was alone has failed) and
`unblanked` (so has a final blank, and no blank has reached the file since).

`LoneWriter` adds `solo`, which writers have had the file for themselves since they took up the text they write
or wrote last.

### ModDisk

One pack's folder, its stash and its two JSON files.  A folder is the set of its files, each
a pair of what is in it (code of a version, a save of the user, one that came with an archive) and its
name; a write replaces what has its name (`Over`).  Versions share file names and differ in others.  `install_local`, `install_remote`, `update_local` and
`update_remote` differ by `op` and `remote` and share their steps, as the code's do:
`CheckSource`, `PrepForUpdate`, `MakeDestDir`, `ExtractPiece`, `MainInstalled`, the
manifest and `latest.json` in two steps each (`fs::write` truncates first), then
`CopySave`, `SavesCopied`, `CopyFails` or `Restore` (the two halves of `finish_update`).
Every step may fail, the rename back in `Restore` for any reason; `Crash` ends the process and leaves the stash,
`Abort` drops it and leaves the thread that extracts.  That thread truncates and writes every file it has not written yet,
whatever stands there by then (`GhostExtracts`): a save of the user, or a file of the operation that runs now.  The poll writes
`latest.json` (`PollBegins`, `PollEnds`) and the game writes saves (`Play`) meanwhile.
Three observers account for what is lost: `gone` (user saves deleted with a stash or overwritten by such a thread),
`broken` (code lost so since the last installation that no thread has touched), and `haunted` (what threads have written during
the operation that runs).  The removal of a stash, and the writing or copying of one file, is one step: a file operation of tokio that an abort catches
is taken as done or as not begun, and a failed one as not done.

### ModLibrary

All packs, each with a version or absent, and the three tasks: the cache (population,
the scan in four steps: list, lock, correct pack by pack, release), the manager (a
command runs to its end; `Forward` is `handle_detected`; `Lag` is the receiver's error, on which
the branch stays disabled until another branch of that `select!` completes), and the listener
with `load_order.txt`, of which only the set of packs that have a line is kept.  That file has several writers without
a lock: the listener, and whoever launches the game, scaffolds a pack or calls `set_load_order` (`Callers`).  Each lists the packs
in one step (`Lists`) and writes their lines in another (`Write`), over whatever was written since.  Listing may fail
(`ListenFails`) and so may writing, which leaves the file as it was or cut off (`WriteFails`); nobody is told.
`dropped` observes which packs such a failure, or a caller's write of an older listing, has left without their line; a later write
of the listener takes all of them out of it again, and any write those that it gives a line.
A listing that a refresh asked for may fail too (`ScanFails`), and is then answered like any other (`FailureEnds`).  Users
install, update, remove, refresh and launch; other programs change packs.  `Pushed` is tokio's
broadcast: a full channel loses its oldest message.

### RunLabel, QuestChains, CategoryTracker and CategoryRun

The category tracker, from what a tick reads to what a viewer sees.  `RunLabel` is `label.rs`: the
tables of the labels, `Add`, `Discard`, `SetTerminus`, and the filter passes of `visible`, `percent`
and `text`, with a text abstracted to the set of labels it is made of.  `QuestChains` is the four
chains of `chain_impl/` as tables from a step and a sample to the next step.  `CategoryTracker`
composes them: `Sample` is what `ChainInputs` holds; every detector of `RunState::update` is an operator
that takes a run and returns it changed, and `Update` composes them in the order of the code.
The actions are `Tick` (any sample the constant `Samples` has that may follow the last one, or
that begins a new run) and `BlindTick` (the tick cannot read the player; the clock is still compared).
`CategoryRun` is the abstract specification: within a run a lost modifier stays lost, the quest
goes forward and fails for good, a final death is final, and only a clock that goes back starts
over.  `Promise == INSTANCE CategoryRun WITH ...` maps the labels and flags to it.

### ConfigStore

Both documents, and any number of commands on them.  A command reads (`Read`), may find a corrupt
file and move it aside (`MoveAside`), leaves without writing (`Leave`), or opens (`Open`), fills
(`Fill`, `FillFails`) and, for `config.json`, renames (`Rename`, `RenameFails`).  The file that a
command has open is followed through the renames of the others (`handle`), since two of them
share one temporary file.  A document is a map from keys to values, and a text is a document or does
not parse.  A read may fail (`ok` in `Read`), and the command goes on as if there were no file, as the code does.
`Crash` ends all commands at any step.  `alone` and `found` (what was there to be read) only observe.

### AccountLink

Link attempts, the Settings modal, `SetupContext`, the pill, the subsystem and the socket.  An
attempt is two threads: the command (`Start`, `Bind`, `Store`; the session is stored after the task
is spawned) and the task (`Callback`, `Refused`, `WasCancelled`, `TimesOut`, `Exchange`,
`TakeSession`, then its job, `Announce`).  A `job` is a rebuild (`Load`, `Swap`) followed, where the
caller does so, by a refresh (`Stop`, `ReadToken`, `ReadHandle`, `Connect`), one action per lock or
read, for every worker that can be in one.  Sync commands run on the main thread one at a time
(`MainFree`); async ones and tasks run next to them.  A configuration is written as one step
here.  `live` says that a socket's `ModManagerHandle` is of the current subsystem; `alone`
only observes.

### FyiSocket

The sockets that `AccountLink` starts, from within: one client task per socket, which waits
(`Leave`, `Retry`), attempts a connection (`Upgrade`, `UpgradeFails`, `Refuse`), and runs its loop
(`Close`, `SendPing`, `PongTimeout`, `Receive`, `ReceiveError`: the branches of the `select!`) with an
install awaited inside it (`InstallEnds`).  A call of `refresh` is taken apart at the slot's lock, so that calls may overlap:
`StopClient` takes the handle, `StopTaken` shuts it down, `EmitStopped` says Disconnected; then either nothing is started
(`StartsNothing`), or the client and its watcher begin to run (`SpawnClient`) before their handle gets into the slot (`PlaceClient`).
The slot may hold a socket from setup on (`ClientInit`); the oneshot that is fired and the task that forwards it are one step (`told`), and `Abort` is the end of
`SHUTDOWN_GRACE`.  A socket's watch channel is its last value and whether its watcher has seen it
(`status`, `unseen`); the watcher's `Emit` sets the `pill`.  The site and the clock are the outside: a
connection is up, silent or reset (`LinkBreaks`), and a timer may run out (`TimerEnds`) whenever it is set
and no message is waiting for a loop that is free to take it.  `refused`, `busy` and `clean` only observe.

### AccountSocket

The two together.  AccountLink has who stops and starts sockets, in which order, with which token, and
keeps of a socket only what the slot holds; FyiSocket has the sockets, those that are still ending with
them.  They meet where a call has the slot's lock: `StopSocket` is a `Stop` with a `StopClient`,
and `StartSocket` a `Connect` with a `PlaceClient`, in one step.  Between the two, a worker has the handle of a socket that it is about
to tell or to place (`holds`), or an event to emit (`owes`): `TellSocket`, `EmitSocket`, `SpawnSocket`.  (FyiSocket's definitions
have names of their own so that
the composition can extend both.)  Of the remaining actions each belongs to one side and
leaves the other's state alone (`AppStep`, `ClientStep`).  `given` observes which token a socket was started
with.  `ImplementsAccount` and `ImplementsSocket` say that the composition is a behaviour of each,
`SlotsAgree` how their states correspond, and `OldListenersAreTold` what neither could say alone: after credentials
have changed, no socket that was started before, however long it takes to end, is left listening with the old ones untold.

## 3. Runs

State counts are those of one complete run.

| Run | Module, cfg | States | Shows |
|---|---|---|---|
| tracker_server | MCTrackerServer | 437,024 | `CountIsOwed`, `ViewerIsServed`, `AliveTickIsOwned`, `OneLatePublish`, `NoLostServer` |
| tracker_stale_guard | MCTrackerServerStaleGuard | | `ConsumerHasTick` is violated |
| tick_loop | MCTickLoop | 13,552 | `HandleIsReleased`, `LabelIsFresh`, `DropIsJustified`, `Recovers`, `ProblemClears`, `ImplementsDisplay`, `ImplementsServerTask` |
| file_mirror | MCFileMirror | 1,069,780 | `AllStoppedIsBlank`, `WriterIsOwned`, `LoneWriterCatchesUp` |
| mod_disk | MCModDisk | 26,300,897 | `SavesAreOnDisk`, `CopyIsOnDisk`, `SuccessIsComplete` |
| mod_disk_restore | MCModDiskRestore | | `FailedUpdateRestores` is violated |
| mod_disk_abort | MCModDiskAbort | | `AbortIsSafe` is violated |
| mod_library | MCModLibrary | 1,442,083 | `CacheConverges`, `ChangesAreAnnounced`, `StaleIsWaiting`, `RefreshIsFresh`, `OrderFollowsDisk`, `KnownPacksHaveLines` |
| category | MCCategoryTracker | 256,862 | `LabelsAreValid`, `DisplayIsSafe`, `LabelsFollowChains`, `LowNeedsItsChain`, `ImplementsCategoryRun` |
| config_store | MCConfigStore | 3,508,410 | `LoneWriteIsAtomic`, `WriteIsStored` |
| account | MCAccountLink | 353,846 | `NoOrphanListener`, `TokenIsKept`, `CredentialsTakeEffect`, `LinkAnnounces` |
| fyi_socket | MCFyiSocket | 542,006 | `StatusIsShown`, `StoppedSocketEnds`, `DeadSiteIsNoticed`, `LiveSiteIsKept`, `OnlyRefusalEnds` |

Every passing run also checks deadlock.  The type invariant of every
module is a theorem of section 6.

**tracker_server.**  Two start calls race for two ports while stops come at any moment, with
three connections and two task slots.  The count is never higher than the viewers that
are owed, and until a connection from before the last stop closes, a viewer that has attached is
served by a live task up to its own close; every
task that has not been told to stop is the one its entry can stop; a task publishes at most
one payload after it was told; a server that listens is the registered one or one that is
about to be.

**tick_loop.**  For every sequence of game states and read results: the handle is given up no later
than the grace, a poll and a tick after the last good read, and not before a
reason the code names; a label is shown only while reads succeed; once the game stays
readable the tracker shows labels again, and once it is gone the attach problem clears.  The loop is
also what TrackerServer takes a task for, which a wait for the game that ignores the signal is not.

**file_mirror.**  Every writer that lives is registered or in the hands of the command that
will register or drop it; the file is blank when none lives, although two of them may have
fought for one temporary file; and a writer that is alone writes what was published.  Any write may fail.  A final blank that fails does leave
its text in the file, and a payload whose write fails is not written later: `AllStoppedIsBlank` and
`LoneWriterCatchesUp` except exactly these (`unblanked`, `missed`), and say that nothing else has such an effect.

**mod_disk.**  Every install, update and removal, failing, crashing or aborted at any step:
the user's saves and one complete copy are in the folder, the stash or a leftover
stash, unless they were deleted with a stash or overwritten by the thread of an aborted extraction (`gone`, `broken`);
and an operation that says it succeeded has installed its
version, no file of another, kept the saves it found in the old copy, and written its manifest.  After an abort this is
still claimed, of every file but those that such a thread has written while the operation ran (`Untouched`); those may be
of the aborted version, or shipped saves over the user's.  Nothing is claimed of `latest.json`, which the poll writes as well.

**mod_library.**  Scans that race installs, updates, removals and edits: when users stop, the cache
agrees with the disk; the page is told after every change of the cache; when a refresh
returns, the cache is right about every pack that was not touched meanwhile; and
`load_order.txt` comes to have the lines it should.  A refresh whose listing failed returns in the same way, and without an
error (`cache.rs:207-213`, `300-303`); `RefreshIsFresh` names that case and promises nothing in it.  A reconcile that failed
does leave a pack without its line until the next one, and so does a launch or `set_load_order` that writes an older listing
last: the two properties of the lines except exactly those packs (`dropped`), besides the ones that were away or came before
the first listing (`excused`).  The last and the second are stated for
behaviours in which no channel overflows; the overflow is in the model (see below).  `StaleIsWaiting` and
`KnownPacksHaveLines` are what must hold until then, at every step: what the page has not been told waits
in a channel or with the listener, and a pack the cache knows of has its line, or an arrival that waits, or was listed by
the listener, which is about to write.

**category.**  Every order of the samples that a run of the game allows, some of them missed,
with new runs in between: no two labels that exclude each other, although the check that would say
so drops its error; whatever a streamer leaves out there is a text, and rendering it does not
reach the panic of `percent`; the two sunken chains start together and the chain labels say
where they are; low% falls with the chain it leaned on, whichever detector saw what first; and the
tracker implements `CategoryRun`.

**config_store.**  Three commands at any interleaving, with failures, corrupt files and crashes.  What
happens when they overlap (fields are lost; a rename can publish another command's half-written
text; two writers of `mod-state.json` can leave a text that does not parse) is in the
model, and no document promises otherwise.  What is checked is what a command that has
its document to itself can rely on, *whatever earlier overlaps and crashes left behind*: the file
reads as before until the rename, and a write that reports success stored its keys and kept the rest.  The exception
is in the code: a file that is there but cannot be read counts as missing (`config.rs:214-217`, `mod_state.rs:79-84`), so
the write that follows reports success with every other key gone.  `WriteIsStored` says that this is then the outcome (`ReadFailed`),
and that there is no other.

**account.**  No task waits for a browser that the next Connect or Cancel does not reach, in whatever
order attempts store, take and replace the one session; saving another setting keeps a token that was
linked under the open form, once the form was told; after an undisturbed link, or a save that
changed the credentials, the subsystem and the socket are those of the configuration;
and every attempt ends with its event unless the site never answers the exchange.

**fyi_socket.**  A socket that the slot does not hold ends, even in an install or an attempt to connect that
never does; a site that is gone without a word is noticed; a site that is there is dropped only
if an install kept the loop from reading its answer; a socket that was not stopped gives up only
where the site has refused it; and the pill comes to show where the slot's socket stands, if no
watcher of an earlier socket, and no `stop` of another refresh, is left to speak after it.

### What the violation runs show

Each states what a comment of the code says, and TLC finds a behaviour that differs.

* **ConsumerHasTick** (`consumers.rs:81-83`: late guards "just find their entry drained and
  noop").  The server is stopped and started; a new viewer attaches; then a connection of
  the old server closes.  Its guard finds the new entry, counts it down to 0 and stops
  the new viewer's tick task.
* **FailedUpdateRestores** (`disk.rs:798-799`: "A failed install has to put the old copy
  back").  The failed installation has made the folder, so the rename back fails, and the
  stash is deleted.
* **AbortIsSafe** (`mods.rs:256-257`: "they hold no unsaved state so aborting is safe").  The abort
  drops the `TempDir` of a running update with the user's save in it.

Other behaviours of the code that the models have and no run states as a property: a tick task
in the middle of an iteration publishes once over the slot that `reset_payload` has just emptied
(`slot.rs:65-66`); a replaced writer's final blank can follow its successor's first text, which
has then nothing left to notice until the payload changes (`file_task.rs:37-38`); an attempt that
ends takes whatever session is stored, and so cancels a newer attempt (`link.rs:307`); nobody looks at the
cancel channel during the exchange (`link.rs:367`), so that an attempt cancelled then still links; a
save of another folder alone, and the rebuild of `SetupContext`, leave the socket with the handle of the
aborted subsystem, or without a socket, until the next refresh (`SettingsModal.tsx:317-321`); two
rebuilds that overlap may leave the one with the older configuration (`mods.rs:284`); a form saved
after a link was stored and before its event arrived writes the old token back; one scan may detect more
changes than the channel holds, and those it loses are never announced, and their packs have no line
(`manager.rs:456`); a socket that is aborted at the end of its grace never says Disconnected, and the watcher of
an earlier socket may speak last, so that the pill shows Connected for a socket that is gone
(`fyi_ws.rs:162`), and that two overlapping refreshes may leave it at Disconnected over a socket that has connected
(`fyi_ws.rs:123`); an attempt to connect has no time limit, and one that hangs is never tried again; a failed final blank
leaves the last text in the file (`file_task.rs:63`); a thread that goes on extracting after an abort overwrites saves of the
user and files of a newer version (`disk.rs:113`); a command that cannot read its document drops all that is in it
(`config.rs:214`); a failed reconcile is not tried again (`mods.rs:644`).

## 4. Bounds

* TrackerServer: one slug, since slugs share nothing but the lock; two calls and two ports,
  as two are needed to race; three connections, so that one can be of an earlier server
  while two are of the current one; two task slots, so that an old task lives next to its
  successor.  All actors but the slug are symmetric.
* TickLoop: a tick is 1 unit, the other durations keep their order (tick <= feedcode poll < attach
  backoff < grace), the error limit is the code's; a read takes 0 or 1; two labels, so that
  one can replace another.  Nothing bounds the length of a behaviour.
* FileMirror: two writers (an old and a new one, which is when they interfere) and two texts.
  With all slots taken a spawn waits, which only leaves out behaviours with three writers.
* ModDisk: two versions, one of two files (so that an extraction can stop half-way) and one that has only the first of them (so that
  each is missing or in the way after the other: `MCFiles`), one save
  file, one crash or abort (none for `FailedUpdateRestores`, to show that it takes none).
* ModLibrary: two packs, one version, one caller besides the listener, channels of 2, and `MaxActions` = 2: user actions,
  changes by other programs, and failures of a reconcile together (a listing of the cache fails without a bound).  There is one scan
  request at a time.  The code's channels are made with 10, for which tokio allots 16 slots.  What matters is whether a
  channel can overflow within the behaviours explored: with 2 it takes more changes than one scan
  of two packs makes.

* CategoryTracker: the samples (`RunSamples`) are every stage of the two sunken chains with every set
  of their items, one sample per remaining detector, and the stages and items of the Cosmic Ocean and
  Eggplant chains; times are 0 and 1, which is enough for a clock to go back.  Nothing bounds the length
  of a run.
* ConfigStore: three commands (two that overlap and one after or between them), two keys, one value
  besides none; six commands cover setting, clearing, reading and pruning.  Commands are symmetric.
* AccountLink: two attempts, two tokens, and `MaxBusy` = 2: of the attempts, the modal's saves, `SetupContext`
  and the pill, two are under way at a time (guard `Room`); the behaviours in question are between
  two of them.  With three, and one token, the run was made once and passed, but takes too long to keep.
* FyiSocket: two sockets, so that one may still be ending when the next starts; one unread message, since an
  install has left the inbox when an answer arrives behind it; two calls of `refresh` under way at a time (`MaxCalls`),
  which is what overlaps.  The site pushes messages to the first socket only (`Pushed`): the second is there to be started, connected,
  silent, refused and stopped next to it.  Connections, pings and retries are not counted.

## 5. Fairness

* TickLoop: `WF_vars(Step)`.  The task runs on a thread of its own, its sleeps end, and its
  reads and attaches return.  The game and the user owe nothing.
* FileMirror: weak fairness per writer; the runtime polls every task that can go on.  A
  command need not be finished, a window need not be closed.
* ModLibrary: weak fairness of the cache task and of the listener.  Strong fairness of the
  manager and of the page's list: both wait for the lock, which the scan takes again and again, but
  tokio's mutex is handed on in order, and `select!` chooses among the ready branches at random.
  No scan is owed success on request: a failing population, listing or reconcile stays possible, but the folder
  can be listed again and again.
* AccountLink: weak fairness of each attempt's task (timeout, taking the session, its job, its event): the
  runtime polls tasks that are ready and its timers fire.  The browser, the site and the user owe nothing.
* FyiSocket: weak fairness of the loop's `select!`, of the wait between attempts, of the timers, of the watcher and of the
  grace's end: the runtime polls what is ready and its timers fire.  The site, the manager that installs and an
  attempt to connect owe nothing.
* TrackerServer, ModDisk, CategoryTracker and ConfigStore have safety properties only, and no fairness.

## 6. Proofs

For all values of the constants that satisfy the named assumptions.  What is assumed:
`Distinct` (special values are not ordinary ones; in ModDisk also that no file of a version has a save file's
name and that archives hold something), `WritersDiffer` (the listener is none of the callers), `DurationAssumption` of TickLoop (positive durations; a
feedcode poll is no shorter than a tick), `KillsAssumption`; `BoundsAssumption` of FyiSocket and ModLibrary (numbers of sockets, messages, actions are natural);
that samples are samples (CategoryTracker),
that commands are commands and the special values no ordinary ones (ConfigStore, AccountLink).

* **TrackerServerProofs.**  `TypeCorrect`.  `NoOrphanTick`: that a live task is owned is not inductive;
  `OwnerInv` adds that a task an entry holds is alive and runs for that slug, and that
  a free slot carries no kill.  `LatePublishOnce`: `LateInv` says that a task that has
  published late is back at the top of its loop with the kill signal set, so that its next step ends it.  `ServerIsStoppable` is inductive with the types.
  `CountNeverTooHigh` and `CountIsExact`: `CountInv` relates the count and the finite set of connections attached since
  the drain; the steps are about cardinalities of that set with one element more or less.  `ViewersServed` puts the two
  together: an exact count makes the entry of an open connection count somebody, `CountedHasTick` gives it a sender, and
  `OwnerInv` takes that to a live task of its tracker.
* **TickLoopProofs.**  `LoopInv` ties the clocks together: while a handle is held, the time without a
  reading exceeds that of the unhealthy stretch by at most one tick and one read
  (`HealthyInv`, `UnhealthyInv`, `ClockInv`), and what is shown follows from where the loop
  stands (`PlaceInv`, `DisplayInv`).  `TypeCorrect`, `HandleAlwaysReleased`, `LabelAlwaysFresh` and
  `DropAlwaysJustified` follow, and `Implementation`: every step of the loop is one of
  `TrackerDisplay` or changes nothing of it.  `LoopIsServerTask` does the same for TrackerServer's view of a
  task (`ImplementsServerTask`): one lemma per step, with `DisplayInv` for the idle payload that the two compute
  differently (`SameIdle`).  It says nothing of the state the task is spawned in, which is TrackerServer's own.
* **FileMirrorProofs.**  `TypeCorrect`; `NoOrphanWriter` by `OwnerInv` (a command holds a
  handle only between spawning the writer and registering it); `StoppedIsBlank` by `BlankInv`: a
  writer on its way out writes nothing but blanks, and while the file shows a text some writer
  that lives will still blank it, whatever name its file goes by, or a final blank has failed.
  `LoneWriterShows` is the safety half of `LoneWriterCatchesUp`: whatever a writer that is alone has written and has nothing
  to see beyond is what the file shows, unless that write has failed (`missed`).  `SoloInv` says of each of its steps where the current payload is by then
  (`OnItsWay`), and that nobody has moved its temporary file (`HasTheFile`).  No run lists `SoloIsShown`;
  TLC has checked it, and `SoloInv`, once (1,138,424 states).
* **ModDiskProofs.**  `TypeCorrect`, with `Control` (which operation can be at which step, with which files to do).
  `SavesStayOnDisk` by `SaveInv`: during an update no user save is in the new folder
  that is not in the stash (`StashHasIt`, `NoneWritten`), and one that was copied is there or overwritten since (`CopiedBack`), so that
  replacing a file by its copy, or dropping the stash at the
  end, loses none.  `CopyStaysOnDisk`: `CodeThere` says that what the extraction is through with is
  there, or a thread has written over it, which `broken` or `haunted` then says.  `SuccessComplete`: `NewInv` says that the folder being built
  holds code of the new version only, besides what threads have written meanwhile (`OnlyNew`), and that the manifest is the new one's
  (`Manifested`).  `OutcomeIsOnDisk` is what ModLibrary
  relies on, which has an operation's effect on the disk in one step: after an update that had begun a folder of the pack is there,
  or the contents of its stash are accounted for in `gone` and `broken` (ModLibrary's update may leave the pack absent, too);
  after an installation that succeeded it is there; after a removal that succeeded it is not (`GoneInv`: unless
  the thread of an aborted operation makes the folder again).
* **CategoryTrackerProofs.**  `RunFacts` is the inductive invariant: the types, the exclusion rules,
  what each chain's step says of the chain labels, and the flags low% depends on.  It is proved
  method by method, in the order of `Update`, so that each lemma is about one detector: `LabelsConsistent`,
  `LabelsFollow` and `LowCorrect` follow.  `DisplayCorrect` goes through the filter passes of `visible`:
  a label that survives each pass is exhibited, and two survivors of one percent priority would exclude each
  other.  `TrackerKeepsPromise`: every tick is a `Play` or a `NewRun` of `CategoryRun`, or changes nothing of it.
* **ConfigStoreProofs.**  `LoneAtomic` and `Stored` need to know, of a command that is alone, that the open file
  at each place is its own: `IInv` adds to the types that a command holds a file only between opening and
  renaming it (`Handles`), that a command that is alone shares its document with nobody (`Apart`), and what
  the temporary file holds at each of its steps (`Lone`), with `FilesRead` for what a text that does not parse reads as.
  What such a command has read is what was there, or nothing (`LoneFacts`), which is the case that `Stored` names.
* **AccountLinkProofs.**  `ListenersAreReached` is inductive with the types of the four variables it is about.
  `TokenKept`: `FormIsCurrent` says that an open form holds the stored token or an event is on its way to it.
  `CredentialsTaken`: `LoneJob` says what a worker that is alone has got right by each of its steps.
  They hold for any number of attempts and tokens, and whatever `MaxBusy` is.

  The module also has the proofs about FyiSocket, for any number of sockets and of unread messages.  `ClientInv` is inductive: per socket,
  `Local` (outside the loop there is no connection; the inbox holds an answer only if a ping is out, and at most one)
  and `Live` (while the site is up, a ping that is out is with the site or its answer is in the inbox, so
  that a timer that rings with neither has an install to blame); of the slot, `SlotInv` (who runs untold is the
  one in the slot, or in the hands of one call that is about to tell or to place it); of the pill, `ShownInv` (if no earlier watcher and no other call
  was left, none is, and the pill is where the slot's watcher left it).  `SocketTypes`, `StatusShown`, `LiveSiteKept` and `RefusalEnds` follow.

  And those about the composition, AccountSocket: `BothImplementAccount` and `BothImplementSocket`, step by step, so that all
  of the above holds in it; `SlotsAlwaysAgree` from the invariants of both, `HandsInv` (a handle outside the slot is with exactly one worker,
  at the step that deals with it) and `GivenInv` (the tokens); and `OldListenersTold`,
  which is `CredentialsTaken` with what the slots' agreement says of the sockets that are no longer in it.
  No run has AccountSocket: the product of two modules of 540,000 and 350,000 states is too
  large to search, so TLC has only simulated it (two attempts, two tokens, three sockets, some thirty
  million states, no error); leaving the shutdown of the replaced socket out of `PlaceClient` was found at once.

* **ModLibraryProofs.**  `TypeCorrect`, with both channels within their capacity and, while a command is under way,
  a pack and a version it is about.  `RefreshFresh` by `ListingIsFresh`: a scan that serves a refresh has
  listed after the call, and its listing is right about every pack that has not been touched since (a scan whose listing failed
  is in a state of its own, of which the theorem says nothing).
  `PageIsGoingToBeTold` needs the channels' types only.  `KnownHaveLines`: `LineInv` adds that of the packs that are not
  excused one that is not on the disk has never been seen by cache, listing, file or a writer of it (`NeverThere`), that a command that
  has taken its pack away has excused it (`Away`), and that a pack that is known, to the cache or from a listing of it, has its line, is accounted for in `dropped`, is
  about to get it from the listener or has an arrival that waits, the last two also while the listener is about to
  write an older listing (`NotForgotten`); `Kept` says that a step loses no arrival that waits.  `SettledOrder` follows: in the state that
  `CacheConverges` says is reached, with nothing left to hear and the listener not writing, the lines are what `OrderFollowsDisk` says they become.

Only model-checked: the liveness properties (`Recovers`, `ProblemClears`, `LoneWriterCatchesUp`, `LinkAnnounces`,
`StoppedSocketEnds`, `DeadSiteIsNoticed`, and `CacheConverges`, `ChangesAreAnnounced` and `OrderFollowsDisk` of ModLibrary; the
safety halves of the last two, and of `LoneWriterCatchesUp`, are proved), as TLAPS does not reason about ENABLED and fairness here.  Every invariant
and every action property that a passing run checks is a theorem.

## 7. Not modelled, and why

The mapped lines are about 8 percent of the repository's implementation.  Most of the rest is data: the
tables and transformations of the sprite crate, the parsers, serializers and ciphers of the
level, asset and audio formats, the level and character editors, tests, and the rendering of pages.
They keep no state between calls that two actors could disturb; a model of them would repeat the
code, and the repository's round-trip tests suit them better.

Of the stateful parts these are left out:

* *Which packs are enabled.*  `ModLibrary` keeps which packs have a line in `load_order.txt`.  The page's cached
  order, overlapping `set_load_order` calls (`ModsPage.tsx:134`) and a line lost while its pack is stashed away
  would be a module of their own above it.
* *The updates-available set, `CACHE_READY_TIMEOUT`, and a torn manifest* that makes every listing fail
  (`mods.rs:371`, `mods.rs:891`, `disk.rs:85`).
* *The counting trackers* (pacifist, timer, gems, golf) of `ml2_trackers`: sums over samples.
* *The self-updater* (`updater.rs:159`) and *asset extraction*: one thread each; what follows a crash of the
  former is outside the repository's code.
* *Process launching, downloads of tools, memory reading, the shell's ring buffers*: I/O and wiring.

Within modelled components: routes of the server that only read, the Origin check, configuration
watches, tracker window geometry, download progress, zip path rewriting and logos.  `TickLoop` has one
task, so what two tasks do to the shared attach problem is not covered.  The samples of the category
tracker carry scores, ghosts and teleport shadows as Booleans, and how they are read out of the game's
memory is an input.
