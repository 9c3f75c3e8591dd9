---------------------------- MODULE ConfigStore ----------------------------
(***************************************************************************)
(* The two JSON documents of the app and the commands that read, change    *)
(* and write them whole, without a lock: config.json (config.rs), written  *)
(* through one shared temporary file, and mod-state.json (mod_state.rs),   *)
(* written in place.  Async commands and the tasks they spawn run on the   *)
(* workers of the runtime, next to the sync commands of the main thread:   *)
(* each of them is a process here.                                         *)
(*                                                                         *)
(* An open file is followed through renames: `handle` is where the file    *)
(* that a process has open is now.  A document is a function from keys to  *)
(* values; its JSON text is abstracted to whether it parses.               *)
(***************************************************************************)
EXTENDS Naturals, FiniteSets

CONSTANTS
  Procs,       \* commands under way
  Keys,        \* the keys of a document
  Values,      \* what a key can be set to
  NoValue,     \* a key that is not in the document
  Keep,        \* a key that a patch says nothing of
  Ops          \* what the commands do

ASSUME ValuesAssumption ==
  NoValue \notin Values /\ Keep \notin Values \cup {NoValue}

Documents == {"config", "mods"}
\* the files of the documents, and <config.json>.tmp
Paths     == Documents \cup {"tmp"}

Map   == [Keys -> Values \cup {NoValue}]
Empty == [k \in Keys |-> NoValue]

\* A patch keeps a key, removes it or sets it.  Without `always` a patch that
\* changes nothing is not written: `load` in config.rs, which only reads, and
\* the pruning of build_mod_dtos.
Op == [ doc: Documents, patch: [Keys -> Values \cup {NoValue, Keep}],
        always: BOOLEAN ]

ASSUME OpsAssumption == Ops \subseteq Op

\* What a file holds.  A file that was truncated, or into which two texts
\* were written, does not parse.
File == [kind: {"absent", "empty", "torn", "json"}, map: Map]
Absent == [kind |-> "absent", map |-> Empty]
Blank  == [kind |-> "empty", map |-> Empty]
Torn   == [kind |-> "torn", map |-> Empty]
Json(map) == [kind |-> "json", map |-> map]

VARIABLES
  disk,        \* the files
  pc,          \* where each process is
  op,          \* what it does
  before,      \* the document as it read it
  found,       \* the document as the file had it then (observer)
  handle,      \* where the file is that it has open
  alone        \* nobody else has worked on its document since it began
               \* (observer)

vars == << disk, pc, op, before, found, handle, alone >>

\* the locals of a command that is not running
NoOp == [ doc |-> "config", patch |-> [k \in Keys |-> Keep],
          always |-> FALSE ]

Active(p) == pc[p] # "idle"

\* were config.json written in place
WrittenInPlace(doc) == doc

\* the file that a write of the document opens
Written(doc) == IF doc = "config" THEN "tmp" ELSE doc

\* apply_field, apply_json_field, the changes of set_favorite and its like
Patched(patch, map) ==
  [k \in Keys |-> IF patch[k] = Keep THEN map[k] ELSE patch[k]]

(***************************************************************************)
(* Reading: load_raw of config.rs, load of mod_state.rs                    *)
(***************************************************************************)

\* A file that is missing, cannot be read (not `ok`) or does not parse reads
\* as an empty document; a config.json that does not parse is to be moved
\* aside first.
Read(p, o, ok) ==
  /\ ~Active(p)
  /\ op' = [op EXCEPT ![p] = o]
  /\ before' = [before EXCEPT ![p] = IF ok THEN disk[o.doc].map ELSE Empty]
  /\ found' = [found EXCEPT ![p] = disk[o.doc].map]
  /\ pc' = [pc EXCEPT ![p] =
              IF ok /\ o.doc = "config" /\ disk["config"].kind \in {"empty", "torn"}
              THEN "corrupt" ELSE "read"]
  /\ alone' = [q \in Procs |->
                 IF q = p
                 THEN \A r \in Procs \ {p} : Active(r) => op[r].doc # o.doc
                 ELSE alone[q] /\ (Active(q) => op[q].doc # o.doc)]
  /\ UNCHANGED << disk, handle >>

\* The rename to config.corrupt.<seconds>.json takes whatever file has the
\* name by now.  An error is logged and ignored.
MoveAside(p) ==
  /\ pc[p] = "corrupt"
  /\ pc' = [pc EXCEPT ![p] = "read"]
  /\ \/ /\ disk' = [disk EXCEPT !["config"] = Absent]
        /\ handle' = [q \in Procs |->
                        IF handle[q] = "config" THEN "gone" ELSE handle[q]]
     \/ UNCHANGED << disk, handle >>
  /\ UNCHANGED << op, before, found, alone >>

\* the process is done, with or without an error
Done(p) ==
  /\ pc' = [pc EXCEPT ![p] = "idle"]
  /\ op' = [op EXCEPT ![p] = NoOp]
  /\ before' = [before EXCEPT ![p] = Empty]
  /\ found' = [found EXCEPT ![p] = Empty]
  /\ alone' = [alone EXCEPT ![p] = TRUE]

\* nothing to write, or an error before anything is written
Leave(p) ==
  /\ pc[p] = "read"
  /\ Done(p)
  /\ UNCHANGED << disk, handle >>

(***************************************************************************)
(* Writing: atomic_write of config.rs, save of mod_state.rs                *)
(***************************************************************************)

\* were the file not truncated when it is opened
OpenUntruncated(p) ==
  LET f == Written(op[p].doc) IN
  /\ pc[p] = "read"
  /\ op[p].always \/ Patched(op[p].patch, before[p]) # before[p]
  /\ disk' = [disk EXCEPT ![f] = IF @ = Absent THEN Blank ELSE @]
  /\ handle' = [handle EXCEPT ![p] = f]
  /\ pc' = [pc EXCEPT ![p] = "open"]
  /\ UNCHANGED << op, before, found, alone >>

\* fs::write, first half: the file is created or truncated
Open(p) ==
  LET f == Written(op[p].doc) IN
  /\ pc[p] = "read"
  /\ op[p].always \/ Patched(op[p].patch, before[p]) # before[p]
  /\ disk' = [disk EXCEPT ![f] = Blank]
  /\ handle' = [handle EXCEPT ![p] = f]
  /\ pc' = [pc EXCEPT ![p] = "open"]
  /\ UNCHANGED << op, before, found, alone >>

\* What a file holds after a text was written from its start: a text that
\* was there already may be longer.
Overwritten(file, map) ==
  IF file = Blank THEN {Json(map)} ELSE {Json(map), Torn}

\* fs::write, second half.  mod-state.json is written by then.
Fill(p) ==
  /\ pc[p] = "open"
  /\ IF handle[p] \in Paths
     THEN \E file \in Overwritten(disk[handle[p]],
                                  Patched(op[p].patch, before[p])) :
            disk' = [disk EXCEPT ![handle[p]] = file]
     ELSE UNCHANGED disk
  /\ handle' = [handle EXCEPT ![p] = "gone"]
  /\ IF op[p].doc = "config"
     THEN /\ pc' = [pc EXCEPT ![p] = "filled"]
          /\ UNCHANGED << op, before, found, alone >>
     ELSE Done(p)

\* A write that fails half way leaves the file as far as it got.
FillFails(p) ==
  /\ pc[p] = "open"
  /\ IF handle[p] \in Paths
     THEN disk' = [disk EXCEPT ![handle[p]] = Torn]
     ELSE UNCHANGED disk
  /\ handle' = [handle EXCEPT ![p] = "gone"]
  /\ Done(p)

\* the file at `tmp` goes to `to`, or is removed
MoveTmp(to) ==
  handle' = [q \in Procs |->
               CASE handle[q] = "tmp"    -> to
                 [] handle[q] = "config" ->
                      IF to = "config" THEN "gone" ELSE handle[q]
                 [] OTHER                -> handle[q]]

\* fs::rename over config.json
Rename(p) ==
  /\ pc[p] = "filled"
  /\ disk["tmp"] # Absent
  /\ disk' = [disk EXCEPT !["config"] = disk["tmp"], !["tmp"] = Absent]
  /\ MoveTmp("config")
  /\ Done(p)

\* The rename fails, at the latest because there is nothing to rename, and
\* the temporary file is removed.
RenameFails(p) ==
  /\ pc[p] = "filled"
  /\ disk' = [disk EXCEPT !["tmp"] = Absent]
  /\ MoveTmp("gone")
  /\ Done(p)

\* the app ends at any moment, and is started again
Crash ==
  /\ \E p \in Procs : Active(p)
  /\ pc' = [p \in Procs |-> "idle"]
  /\ handle' = [p \in Procs |-> "gone"]
  /\ op' = [p \in Procs |-> NoOp]
  /\ before' = [p \in Procs |-> Empty]
  /\ found' = [p \in Procs |-> Empty]
  /\ alone' = [p \in Procs |-> TRUE]
  /\ UNCHANGED disk

Init ==
  /\ disk = [f \in Paths |-> Absent]
  /\ pc = [p \in Procs |-> "idle"]
  /\ op = [p \in Procs |-> NoOp]
  /\ before = [p \in Procs |-> Empty]
  /\ found = [p \in Procs |-> Empty]
  /\ handle = [p \in Procs |-> "gone"]
  /\ alone = [p \in Procs |-> TRUE]

Step(p) ==
  \/ \E o \in Ops, ok \in BOOLEAN : Read(p, o, ok)
  \/ MoveAside(p)
  \/ Leave(p)
  \/ Open(p)
  \/ Fill(p)
  \/ FillFails(p)
  \/ Rename(p)
  \/ RenameFails(p)

Next == Crash \/ \E p \in Procs : Step(p)

Spec == Init /\ [][Next]_vars

(***************************************************************************)
(* Properties                                                              *)
(***************************************************************************)

TypeOK ==
  /\ disk \in [Paths -> File]
  /\ pc \in [Procs -> {"idle", "corrupt", "read", "open", "filled"}]
  /\ op \in [Procs -> Op]
  /\ before \in [Procs -> Map] /\ found \in [Procs -> Map]
  /\ handle \in [Procs -> Paths \cup {"gone"}]
  /\ alone \in [Procs -> BOOLEAN]

\* While a command works on the configuration with nobody next to it, the
\* file reads as it did when the command began, whatever fails, reading it
\* included: the app may end at any of these moments (atomic_write: "a crash
\* mid-write leaves the previous file intact").
LoneWriteIsAtomic ==
  \A p \in Procs :
    Active(p) /\ alone[p] /\ op[p].doc = "config" =>
      disk["config"].map = found[p]

\* the write of p returns without an error
Succeeds(p) == Rename(p) \/ (op[p].doc = "mods" /\ Fill(p))

\* The file was there and could not be read.
ReadFailed(p) == before[p] # found[p]

\* A write that reports success, and had its document to itself, has stored
\* a document that parses, with its own keys changed and every other key as
\* it was (apply_json_field: "Preserves every other field the file
\* carries"), in spite of what earlier failures and crashes left behind --
\* unless it failed to read the document, and then every other key is gone
\* (load_raw and load take any error for a file that is missing).
WriteIsStored ==
  [][\A p \in Procs :
       Succeeds(p) /\ alone[p] =>
         disk'[op[p].doc] =
           Json(Patched(op[p].patch,
                        IF ReadFailed(p) THEN Empty ELSE found[p]))]_vars
=============================================================================
