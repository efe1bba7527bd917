---------------------------- MODULE PersistentData ----------------------------
(***************************************************************************)
(* The configuration on the data partition, which both firmware slots      *)
(* share: its preparation at boot with the migration of its schema         *)
(* (radio_web/persistent_config.py, radio-persistent-boot), and its backup *)
(* and restore from the web page (radio_web/data_backup.py).               *)
(*                                                                         *)
(* A root is a directory below /data.  A tree is what it holds: the        *)
(* settings, and for the root "radio" the schema number and the            *)
(* compatibility file.  A restore renames one root after the other out of  *)
(* the way and the extracted one into place, and renames back when         *)
(* anything fails.  Power may fail between any two renames; temporary      *)
(* directories survive it, and no code looks at them again.                *)
(***************************************************************************)
EXTENDS Naturals, FiniteSets, Sequences, SequencesExt

CONSTANTS
  Roots,         \* INCLUDED_ROOTS: the sequence of root names, "radio" first
  Firmwares,     \* the firmware in the two slots
  Current,       \* its CURRENT_SCHEMA
  MinReader,     \* its MINIMUM_READER_SCHEMA
  FirstSchema,   \* the schema that the radio's first firmware left behind
  Uploads,       \* archives that are uploaded: a tree for each root, and
                 \* whether digests and structure are right
  MaxBackups,    \* MAX_BACKUPS
  ClockSet,      \* backups are named after a clock that is right
  Threads,       \* bound: web requests at a time
  MaxRestores, MaxLosses, MaxFaults   \* bounds on what happens how often

Names == ToSet(Roots)
NoFile == [writer |-> 0, min |-> 0]
NoTree == [settings |-> "none", schema |-> 0, compat |-> NoFile]
Empty == [settings |-> "empty", schema |-> 0, compat |-> NoFile]
NoArchive == [sound |-> FALSE, trees |-> [r \in Names |-> NoTree]]

ASSUME RootsAssumption ==
  /\ Roots \in Seq(Names) /\ Len(Roots) > 0 /\ Roots[1] = "radio"
  /\ \A i, j \in DOMAIN Roots : i # j => Roots[i] # Roots[j]
ASSUME ContractAssumption ==   \* firmware_archive.py: rollback stays possible
  /\ Current \in [Firmwares -> Nat] /\ MinReader \in [Firmwares -> Nat]
  /\ \A f, g \in Firmwares : 1 <= MinReader[f] /\ MinReader[f] <= Current[g]
ASSUME BoundsAssumption ==
  /\ FirstSchema \in Nat /\ MaxBackups \in Nat
  /\ MaxRestores \in Nat /\ MaxLosses \in Nat /\ MaxFaults \in Nat

VARIABLES
  root,      \* [Names -> tree]: the directories
  upload,    \* RESTORE_PATH
  req,       \* the requests: where, at which root, what extracted from
  staging,   \* their extracted trees
  saved,     \* and their rollback directories
  left,      \* <<root, tree>> in temporary directories nobody owns
  backups,   \* update/config-backups in the order of the names
  prep,      \* prepare(): where, and for whom
  phase,     \* the radio is "off", "booting", "up", or "refused" its data
  firmware,  \* what the radio runs
  agreed,    \* observer: the settings of each root before, or after, a restore
  cut,       \* observer: a restore was cut off
  restores, losses, faults

restore == <<upload, req, staging, saved, left, agreed, cut, restores>>
vars == <<root, restore, backups, prep, phase, firmware, losses, faults>>

Idle == [at |-> "idle", i |-> 0]
NoTrees == [r \in Names |-> NoTree]

TypeOK ==
  /\ \A r \in Names : root[r].settings # "none" \/ root[r] = NoTree
  /\ req \in [Threads -> [at : {"idle", "inspect", "validate", "extract", "out", "in",
                                "prepare", "render", "undoOut", "undoIn", "finish"},
                          i : 0 .. Len(Roots)]]
  /\ \A i \in DOMAIN backups : backups[i].accepted => backups[i].complete
  /\ prep \in [at : {"idle", "check", "copy", "publish", "compat", "schema"},
               for : Threads \union {0}]
  /\ phase \in {"off", "booting", "up", "refused"}
  /\ firmware \in Firmwares
  /\ restores \in 0 .. MaxRestores /\ losses \in 0 .. MaxLosses /\ faults \in 0 .. MaxFaults

Tree(settings, schema, min) ==
  [settings |-> settings, schema |-> schema, compat |-> [writer |-> schema, min |-> min]]

Init ==
  /\ root = [r \in Names |->
               IF r = "radio" THEN [settings |-> "own", schema |-> FirstSchema, compat |-> NoFile]
               ELSE [Empty EXCEPT !.settings = "own"]]
  /\ upload = NoArchive
  /\ req = [t \in Threads |-> Idle]
  /\ staging = [t \in Threads |-> NoTrees] /\ saved = [t \in Threads |-> NoTrees]
  /\ left = {} /\ backups = <<>>
  /\ prep = [at |-> "idle", for |-> 0] /\ phase = "off" /\ firmware \in Firmwares
  /\ agreed = [r \in Names |-> "own"] /\ cut = FALSE
  /\ restores = 0 /\ losses = 0 /\ faults = 0

Fault == faults < MaxFaults /\ faults' = faults + 1

-----------------------------------------------------------------------------
(* prepare(): called at boot, and by a restore for the trees it put there. *)

\* _schema_version: an absent or unreadable file is schema 0.
Schema == root["radio"].schema
Compat == root["radio"].compat

\* compatibility_state answers, and with which minimum reader.
Agrees == Compat # NoFile /\ Compat.writer = Schema
Answers == Agrees \/ (Compat = NoFile /\ Schema <= Current[firmware])
Minimum == IF Compat = NoFile THEN Schema ELSE Compat.min

\* prepare returns to radio-persistent-boot, or to the thread of a restore.
Returns(ok) ==
  /\ prep' = [at |-> "idle", for |-> 0]
  /\ IF prep.for = 0
     THEN phase' = (IF ok THEN "up" ELSE "refused") /\ UNCHANGED req
     ELSE /\ req' = [req EXCEPT ![prep.for] =
                       IF ok THEN [@ EXCEPT !.at = "render"]
                       ELSE [at |-> "undoOut", i |-> Len(Roots)]]
          /\ UNCHANGED phase

\* migrate: newer data are used if their minimum reader allows it; present
\* data get the compatibility file they lack; older data are migrated.
MigrateChecks ==
  /\ prep.at = "check"
  /\ \/ /\ Schema < Current[firmware]
        /\ prep' = [prep EXCEPT !.at = "copy"]
        /\ UNCHANGED <<root, req, phase>>
     \/ /\ Schema = Current[firmware] /\ Answers
        /\ root' = [root EXCEPT !["radio"].compat =
                      IF Compat = NoFile THEN [writer |-> Schema, min |-> Minimum] ELSE @]
        /\ Returns(TRUE)
     \/ /\ Schema > Current[firmware] /\ Answers /\ Minimum <= Current[firmware]
        /\ Returns(TRUE) /\ UNCHANGED root
     \/ /\ Schema >= Current[firmware]
        /\ ~Answers \/ Minimum > Current[firmware]
        /\ Returns(FALSE) /\ UNCHANGED root
  /\ UNCHANGED <<upload, staging, saved, left, agreed, cut, restores, backups, firmware,
                 losses, faults>>

\* _backup_configuration: a copy in a directory whose name sorts first.
MigrateCopies ==
  /\ prep.at = "copy"
  /\ backups' = <<[complete |-> FALSE, accepted |-> FALSE, source |-> Schema, target |-> 0,
                   settings |-> root["radio"].settings]>> \o backups
  /\ prep' = [prep EXCEPT !.at = "publish"]
  /\ UNCHANGED <<root, restore, phase, firmware, losses, faults>>

\* Mutant: the newest goes.
PrunedNewest(s) == IF Len(s) > MaxBackups THEN SubSeq(s, 1, MaxBackups) ELSE s

\* While there are too many, the first goes that is not the last accepted one.
Pruned(s) ==
  LET accepted == {i \in DOMAIN s : s[i].accepted}
      protected == IF accepted = {} THEN 0 ELSE CHOOSE i \in accepted : \A j \in accepted : j <= i
      others == {i \in DOMAIN s : i # protected}
      surplus == Len(s) - MaxBackups
      goes(i) == i # protected /\ Cardinality({j \in others : j <= i}) <= surplus
      kept == {i \in DOMAIN s : ~goes(i)}
  IN  IF surplus <= 0 THEN s
      ELSE [k \in 1 .. Cardinality(kept) |->
              s[CHOOSE i \in kept : Cardinality({j \in kept : j <= i}) = k]]

\* The copy gets its description and its name, which sorts last if the clock was
\* set; then surplus backups go.
MigratePublishes ==
  /\ prep.at = "publish"
  /\ LET own == [backups[1] EXCEPT !.complete = TRUE, !.target = Current[firmware]]
         old == Tail(backups)
         from == Cardinality({i \in DOMAIN old : ~old[i].complete})
     IN  \E i \in from + 1 .. Len(old) + 1 :
           /\ ClockSet => i = Len(old) + 1
           /\ backups' = Pruned(InsertAt(old, i, own))
  /\ prep' = [prep EXCEPT !.at = "compat"]
  /\ UNCHANGED <<root, restore, phase, firmware, losses, faults>>

\* The steps of the migration, which rewrite nothing, and the compatibility
\* file, written before the schema number commits it.
MigrateWritesCompat ==
  /\ prep.at = "compat"
  /\ root' = [root EXCEPT !["radio"].compat =
                [writer |-> Current[firmware], min |-> MinReader[firmware]]]
  /\ prep' = [prep EXCEPT !.at = "schema"]
  /\ UNCHANGED <<restore, backups, phase, firmware, losses, faults>>

MigrateCommits ==
  /\ prep.at = "schema"
  /\ root' = [root EXCEPT !["radio"].schema = Current[firmware]]
  /\ Returns(TRUE)
  /\ UNCHANGED <<upload, staging, saved, left, agreed, cut, restores, backups, firmware,
                 losses, faults>>

\* mark_migration_accepted, after the health service accepted a trial: the last
\* backup made for the present schema, and two accepted ones are kept.
MarkAccepted ==
  /\ phase = "up"
  /\ LET fitting == {i \in DOMAIN backups : backups[i].complete /\ backups[i].target = Schema}
         last == CHOOSE i \in fitting : \A j \in fitting : j <= i
         marked == [backups EXCEPT ![last].accepted = TRUE]
         accepted == {i \in DOMAIN marked : marked[i].accepted}
         expired == {i \in accepted : Cardinality({j \in accepted : j >= i}) > 2}
     IN  /\ fitting # {}
         /\ backups' = [k \in 1 .. Len(marked) - Cardinality(expired) |->
                          marked[CHOOSE i \in DOMAIN marked \ expired :
                                   Cardinality({j \in DOMAIN marked \ expired : j <= i}) = k]]
  /\ UNCHANGED <<root, restore, prep, phase, firmware, losses, faults>>

-----------------------------------------------------------------------------
(* Booting, in whichever slot was selected, and power.                     *)

\* radio-persistent-paths creates what is missing.
Boot ==
  /\ phase = "off"
  /\ firmware' \in Firmwares
  /\ root' = [r \in Names |-> IF root[r] = NoTree THEN Empty ELSE root[r]]
  /\ phase' = "booting" /\ prep' = [at |-> "check", for |-> 0]
  /\ UNCHANGED <<restore, backups, losses, faults>>

\* Temporary directories stay behind.
Leftovers ==
  UNION {{<<r, tree>> : tree \in {staging[t][r], saved[t][r]} \ {NoTree}} :
           t \in Threads, r \in Names}

PowerFails ==
  /\ phase # "off" /\ losses < MaxLosses
  /\ losses' = losses + 1
  /\ phase' = "off" /\ prep' = [at |-> "idle", for |-> 0]
  /\ left' = left \union Leftovers
  /\ req' = [t \in Threads |-> Idle]
  /\ staging' = [t \in Threads |-> NoTrees] /\ saved' = [t \in Threads |-> NoTrees]
  /\ cut' = (cut \/ \E t \in Threads : req[t].at \notin {"idle", "inspect", "validate", "extract"})
  /\ UNCHANGED <<root, upload, agreed, restores, backups, firmware, faults>>

-----------------------------------------------------------------------------
(* Backup and restore.                                                     *)

Step(t, from, to) == req[t].at = from /\ req' = [req EXCEPT ![t].at = to]

\* create_backup: what the archive would hold, if all roots are there and the
\* schema can be told.
Exported == [sound |-> TRUE, trees |-> root]
Exportable == Answers /\ \A r \in Names : root[r] # NoTree

\* stage_restore: an upload, or a backup made on this radio, replaces the file.
Stage(t) ==
  /\ phase = "up" /\ restores < MaxRestores
  /\ upload' \in Uploads \union (IF Exportable THEN {Exported} ELSE {})
  /\ restores' = restores + 1
  /\ Step(t, "idle", "inspect")
  /\ UNCHANGED <<root, staging, saved, left, agreed, cut, backups, prep, phase, firmware,
                 losses, faults>>

\* _validated: digests, structure, and a minimum reader this firmware meets.
Valid(a) == a.sound /\ a.trees["radio"].compat.min <= Current[firmware]

\* inspect_restore, and cancel_restore when it refuses.
Inspect(t) ==
  /\ IF Valid(upload)
     THEN Step(t, "inspect", "validate") /\ UNCHANGED upload
     ELSE Step(t, "inspect", "idle") /\ upload' = NoArchive
  /\ UNCHANGED <<root, staging, saved, left, agreed, cut, restores, backups, prep, phase,
                 firmware, losses, faults>>

\* apply_restore validates once more, and extracts from the path.
Validate(t) ==
  /\ IF Valid(upload) THEN Step(t, "validate", "extract") ELSE Step(t, "validate", "idle")
  /\ UNCHANGED <<root, upload, staging, saved, left, agreed, cut, restores, backups, prep, phase,
                 firmware, losses, faults>>

\* Temporary directories, extraction and the stop of the services succeed, or
\* nothing has been replaced yet.
Extract(t) ==
  /\ \/ /\ upload # NoArchive
        /\ req[t].at = "extract" /\ req' = [req EXCEPT ![t] = [at |-> "out", i |-> 1]]
        /\ staging' = [staging EXCEPT ![t] = upload.trees]
        /\ UNCHANGED faults
     \/ /\ upload = NoArchive \/ faults < MaxFaults
        /\ faults' = IF upload = NoArchive THEN faults ELSE faults + 1
        /\ Step(t, "extract", "idle") /\ UNCHANGED staging
  /\ UNCHANGED <<root, upload, saved, left, agreed, cut, restores, backups, prep, phase, firmware,
                 losses>>

Here(t) == Roots[req[t].i]
Undo(t, i) == req' = [req EXCEPT ![t] = [at |-> "undoOut", i |-> i]]

\* os.replace(current, saved), which fails if there is no such directory.
MoveOut(t) ==
  /\ req[t].at = "out"
  /\ \/ /\ root[Here(t)] # NoTree
        /\ saved' = [saved EXCEPT ![t][Here(t)] = root[Here(t)]]
        /\ root' = [root EXCEPT ![Here(t)] = NoTree]
        /\ Step(t, "out", "in") /\ UNCHANGED faults
     \/ /\ root[Here(t)] = NoTree \/ faults < MaxFaults
        /\ faults' = IF root[Here(t)] = NoTree THEN faults ELSE faults + 1
        /\ Undo(t, req[t].i - 1) /\ UNCHANGED <<root, saved>>
  /\ UNCHANGED <<upload, staging, left, agreed, cut, restores, backups, prep, phase, firmware,
                 losses>>

\* Mutant: what was replaced is removed root by root.
MoveInRemoves(t) ==
  /\ req[t].at = "in" /\ root[Here(t)] = NoTree
  /\ root' = [root EXCEPT ![Here(t)] = staging[t][Here(t)]]
  /\ staging' = [staging EXCEPT ![t][Here(t)] = NoTree]
  /\ saved' = [saved EXCEPT ![t][Here(t)] = NoTree]
  /\ req' = [req EXCEPT ![t] = IF req[t].i < Len(Roots)
                               THEN [at |-> "out", i |-> @.i + 1]
                               ELSE [@ EXCEPT !.at = "prepare"]]
  /\ UNCHANGED <<upload, left, agreed, cut, restores, backups, prep, phase, firmware, losses,
                 faults>>

\* os.replace(incoming, current); a failure puts the saved one back at once.
MoveIn(t) ==
  /\ req[t].at = "in"
  /\ \/ /\ root[Here(t)] = NoTree
        /\ root' = [root EXCEPT ![Here(t)] = staging[t][Here(t)]]
        /\ staging' = [staging EXCEPT ![t][Here(t)] = NoTree]
        /\ req' = [req EXCEPT ![t] = IF req[t].i < Len(Roots)
                                     THEN [at |-> "out", i |-> @.i + 1]
                                     ELSE [@ EXCEPT !.at = "prepare"]]
        /\ UNCHANGED <<saved, faults>>
     \/ /\ Fault
        /\ root' = [root EXCEPT ![Here(t)] = saved[t][Here(t)]]
        /\ saved' = [saved EXCEPT ![t][Here(t)] = NoTree]
        /\ Undo(t, req[t].i - 1) /\ UNCHANGED staging
  /\ UNCHANGED <<upload, left, agreed, cut, restores, backups, prep, phase, firmware, losses>>

\* persistent_config.prepare on the new trees, under its lock.
Prepare(t) ==
  /\ req[t].at = "prepare" /\ prep.at = "idle"
  /\ prep' = [at |-> "check", for |-> t]
  /\ UNCHANGED <<root, restore, backups, phase, firmware, losses, faults>>

\* apply_root_password and render_runtime.
Render(t) ==
  /\ req[t].at = "render"
  /\ \/ Step(t, "render", "finish") /\ UNCHANGED faults
     \/ Fault /\ Undo(t, Len(Roots))
  /\ UNCHANGED <<root, upload, staging, saved, left, agreed, cut, restores, backups, prep, phase,
                 firmware, losses>>

\* The reverse walk over what was replaced.
UndoOut(t) ==
  /\ req[t].at = "undoOut" /\ req[t].i > 0
  /\ staging' = [staging EXCEPT ![t][Here(t)] = root[Here(t)]]
  /\ root' = [root EXCEPT ![Here(t)] = NoTree]
  /\ Step(t, "undoOut", "undoIn")
  /\ UNCHANGED <<upload, saved, left, agreed, cut, restores, backups, prep, phase, firmware,
                 losses, faults>>

\* Mutant: what was saved is not put back.
ForgetsSaved(t) ==
  /\ req[t].at = "undoIn"
  /\ root' = [root EXCEPT ![Here(t)] = Empty]
  /\ req' = [req EXCEPT ![t] = [at |-> "undoOut", i |-> @.i - 1]]
  /\ UNCHANGED <<upload, staging, saved, left, agreed, cut, restores, backups, prep, phase,
                 firmware, losses, faults>>

UndoIn(t) ==
  /\ req[t].at = "undoIn"
  /\ root' = [root EXCEPT ![Here(t)] = saved[t][Here(t)]]
  /\ saved' = [saved EXCEPT ![t][Here(t)] = NoTree]
  /\ req' = [req EXCEPT ![t] = [at |-> "undoOut", i |-> @.i - 1]]
  /\ UNCHANGED <<upload, staging, left, agreed, cut, restores, backups, prep, phase, firmware,
                 losses, faults>>

\* The temporary directories go.
Ends(t) ==
  /\ req' = [req EXCEPT ![t] = Idle]
  /\ staging' = [staging EXCEPT ![t] = NoTrees]
  /\ saved' = [saved EXCEPT ![t] = NoTrees]
  /\ UNCHANGED <<root, left, restores, backups, prep, phase, firmware, losses, faults>>

Undone(t) ==
  /\ req[t].at = "undoOut" /\ req[t].i = 0
  /\ Ends(t)
  /\ UNCHANGED <<upload, agreed, cut>>

Finish(t) ==
  /\ req[t].at = "finish"
  /\ upload' = NoArchive
  /\ agreed' = [r \in Names |-> root[r].settings] /\ cut' = FALSE
  /\ Ends(t)

-----------------------------------------------------------------------------

Migrate ==
  \/ MigrateChecks \/ MigrateCopies \/ MigratePublishes \/ MigrateWritesCompat \/ MigrateCommits

Restore(t) ==
  \/ Stage(t) \/ Inspect(t) \/ Validate(t) \/ Extract(t) \/ MoveOut(t) \/ MoveIn(t)
  \/ Prepare(t) \/ Render(t) \/ UndoOut(t) \/ UndoIn(t) \/ Undone(t) \/ Finish(t)

Next ==
  \/ Boot \/ PowerFails \/ MarkAccepted \/ Migrate
  \/ \E t \in Threads : Restore(t)

Spec == Init /\ [][Next]_vars

-----------------------------------------------------------------------------
(* Properties.                                                             *)

Untouched == \A t \in Threads : req[t].at = "idle"

\* A restore replaces all roots or, when it fails, none (data_backup.py:285,
\* "rolling back on any activation failure"), and the present trees are what
\* the last one that succeeded left, unless the power failed in between.
AllOrNothing ==
  /\ TypeOK
  /\ Untouched /\ ~cut => \A r \in Names : root[r].settings = agreed[r]

\* Until a restore has succeeded, what it replaces is in its place or in a
\* temporary directory, even after the power failed.
NothingLost ==
  \A r \in Names :
    \/ root[r].settings = agreed[r]
    \/ \E t \in Threads : saved[t][r].settings = agreed[r]
    \/ \E tree \in {l[2] : l \in {l \in left : l[1] = r}} : tree.settings = agreed[r]

\* When a migration begins to write, there is a complete backup of the tree it
\* works on.
MigratesWhatIsSaved ==
  prep.at \in {"compat", "schema"} =>
    \E i \in DOMAIN backups :
      /\ backups[i].complete /\ backups[i].source = Schema
      /\ backups[i].settings = root["radio"].settings

\* Whatever is pruned, some accepted generation stays.
AcceptedStays ==
  (\E i \in DOMAIN backups : backups[i].accepted) => \E i \in DOMAIN backups' : backups'[i].accepted

\* Pruning (persistent_config.py:159) leaves what the migration under way and a
\* later fall-back need.
BackupsKept == [][MigratesWhatIsSaved' /\ AcceptedStays]_vars

=============================================================================
