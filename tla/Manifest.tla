------------------------------ MODULE Manifest ------------------------------
(***************************************************************************)
(* The manifest (src/src/manifest): which table is on which level, in      *)
(* memory and in the file MANIFEST, with the steps at which a crash leaves *)
(* the two apart.  ManifestHandler takes no lock; one thread uses it.      *)
(*                                                                         *)
(* A file is the sequence of the batches appended to it (the strings       *)
(* EncodeTo builds).  A crash inside an append leaves a part of the batch; *)
(* what Sync wrote survives, and rename is atomic.                         *)
(***************************************************************************)
EXTENDS Naturals, Sequences, FiniteSets, SequencesExt, Functions

CONSTANTS Tables,      \* sst ids, without 0
          MaxLevel,    \* the levels are 0 .. MaxLevel
          MaxAdds,     \* bound on the calls of AddChanges
          MaxRewrites, \* bound on the calls of ReWrite
          MaxCrashes   \* bound on crashes
ASSUME TablesAssumption == Tables \subseteq Nat \ {0}
ASSUME MaxLevelAssumption == MaxLevel \in Nat

Levels == 0 .. MaxLevel
Create(id, l) == [op |-> "create", id |-> id, level |-> l]
Delete(id)    == [op |-> "delete", id |-> id, level |-> 0]
Batches == {<<Create(t, l)>> : t \in Tables, l \in Levels}   \* AddTableMeta
           \cup {<<Delete(t)>> : t \in Tables}               \* AddChanges
           \cup {<<Delete(t), Create(t, l)>> : t \in Tables, l \in Levels}

VARIABLES
    level_tables,  \* level_tables_map: element l + 1 is the set of level l
    table_levels,  \* table_levels_map: from table ids to levels
    creations,     \* Manifest::creations
    deletions,     \* Manifest::deletions
    files,         \* the manifest files that exist: name to batches
    ssts,          \* the ids of the table files in the directory
    pc,            \* "down", "started", "up", or the step inside a call
    batch,         \* the input of the current AddChanges
    opened,        \* what OpenManifestFile last returned to this process
    adds, rewrites, crashes   \* the bounds

memory  == <<level_tables, table_levels, creations, deletions>>
bounds  == <<adds, rewrites, crashes>>
vars    == <<memory, files, ssts, pc, batch, opened, bounds>>

Cleared ==   \* Manifest::Clear
    /\ level_tables' = <<>>
    /\ table_levels' = <<>>
    /\ creations' = 0
    /\ deletions' = 0

Init ==
    /\ level_tables = <<>> /\ table_levels = <<>> /\ creations = 0 /\ deletions = 0
    /\ files = <<>>
    /\ ssts = {}
    /\ pc = "started"
    /\ batch = <<>>
    /\ opened = "no"
    /\ adds = 0 /\ rewrites = 0 /\ crashes = 0

\* One entry of a map is set, the others are kept.
With(f, x, v) == [y \in DOMAIN f \cup {x} |-> IF y = x THEN v ELSE f[y]]

Contents(name) == IF name \in DOMAIN files THEN files[name] ELSE <<>>

\* Mutant: the file is opened with O_TRUNC.
Overwrite(name, b) == With(files, name, <<b>>)

\* A FileWriter opened with O_APPEND | O_CREAT, Append, Sync and Close.
AppendTo(name, b) == With(files, name, Append(Contents(name), b))

\* FileTool::Rename onto MANIFEST.
Renamed == With(Restrict(files, DOMAIN files \ {"REWRITE"}), "MANIFEST", files["REWRITE"])

-----------------------------------------------------------------------------
(* ManifestChangeEdit::ApplyChangeSet, on the maps                         *)
(* m = [levels, where, creations, stop, undefined].                        *)

\* Mutant: one level too many.
ResizedTooFar(levels, l) ==
    IF Len(levels) < l
    THEN levels \o [i \in 1 .. l + 2 - Len(levels) |-> {}]
    ELSE levels

\* Mutant: the test for the resize is off by one more.
ResizedLate(levels, l) ==
    IF Len(levels) + 1 < l
    THEN levels \o [i \in 1 .. l + 1 - Len(levels) |-> {}]
    ELSE levels

\* resize only when size < level: level = size is left out.
Resized(levels, l) ==
    IF Len(levels) < l
    THEN levels \o [i \in 1 .. l + 1 - Len(levels) |-> {}]
    ELSE levels

\* Mutant: the set of the level is left as it was.
ApplyCreateOneMap(m, c) ==
    LET levels == Resized(m.levels, c.level) IN
    IF c.level < Len(levels)
    THEN [m EXCEPT !.where = With(@, c.id, c.level), !.levels = levels,
                   !.creations = @ + 1]
    ELSE [m EXCEPT !.undefined = TRUE]

ApplyCreate(m, c) ==
    LET levels == Resized(m.levels, c.level) IN
    IF c.level < Len(levels)
    THEN [m EXCEPT !.where = With(@, c.id, c.level),
                   !.levels = [levels EXCEPT ![c.level + 1] = @ \cup {c.id}],
                   !.creations = @ + 1]
    ELSE [m EXCEPT !.undefined = TRUE]

\* Mutant: a table within the vector is erased from one map only.
ApplyDeleteOneMap(m, c) ==
    IF c.id \notin DOMAIN m.where THEN [m EXCEPT !.stop = TRUE]
    ELSE [m EXCEPT !.where = Restrict(@, DOMAIN @ \ {c.id})]

\* An unknown table ends the whole change set; a known one is erased only when
\* its level is beyond the vector.
ApplyDelete(m, c) ==
    IF c.id \notin DOMAIN m.where THEN [m EXCEPT !.stop = TRUE]
    ELSE IF Len(m.levels) < m.where[c.id] THEN [m EXCEPT !.undefined = TRUE]
    ELSE m

ApplyChange(m, c) ==
    IF m.stop \/ m.undefined THEN m
    ELSE IF c.op = "create" THEN ApplyCreate(m, c) ELSE ApplyDelete(m, c)

\* One change after the other; a change set of Batches has one or two.
ApplyChangeSet(b) ==
    LET maps  == [levels |-> level_tables, where |-> table_levels,
                  creations |-> creations, stop |-> FALSE, undefined |-> FALSE]
        first == ApplyChange(maps, b[1])
    IN  IF Len(b) = 1 THEN first ELSE ApplyChange(first, b[2])

\* Mutant: the entries resize made are not followed by the real ones.
ParseDefaultEntries ==
    [i \in 1 .. Cardinality(DOMAIN table_levels) |-> Create(0, 0)]

\* ParseFromManifest: resize to one default entry per table, then append the
\* real entries after them.
ParseFromManifest ==
    [i \in 1 .. Cardinality(DOMAIN table_levels) |-> Create(0, 0)]
    \o SetToSeq({Create(t, table_levels[t]) : t \in DOMAIN table_levels})

-----------------------------------------------------------------------------
(* The operations of ManifestHandler.                                      *)

\* An external caller writes a table file before it records the table.
WriteTable(t) ==
    /\ pc = "up"
    /\ t \notin ssts
    /\ ssts' = ssts \cup {t}
    /\ UNCHANGED <<memory, files, pc, batch, opened, bounds>>

\* AddChanges, and AddTableMeta which calls it: the memory first.
AddChanges(b) ==
    LET m == ApplyChangeSet(b) IN
    /\ pc = "up"
    /\ adds < MaxAdds
    /\ adds' = adds + 1
    /\ batch' = b
    /\ level_tables' = m.levels
    /\ table_levels' = m.where
    /\ creations' = m.creations
    /\ pc' = IF m.undefined THEN "undefined" ELSE "append"
    /\ UNCHANGED <<deletions, files, ssts, opened, rewrites, crashes>>

\* Then the file.  The thresholds for ReWrite need deletions, which stay 0.
AppendBatch ==
    /\ pc = "append"
    /\ files' = AppendTo("MANIFEST", batch)
    /\ pc' = "up"
    /\ UNCHANGED <<memory, ssts, batch, opened, bounds>>

\* RecoverFromReWriteManifestFile writes nothing for an empty manifest.
RewriteAppend ==
    /\ pc = "up"
    /\ rewrites < MaxRewrites
    /\ rewrites' = rewrites + 1
    /\ files' = IF table_levels = <<>> THEN files
                ELSE AppendTo("REWRITE", ParseFromManifest)
    /\ pc' = "rename"
    /\ UNCHANGED <<memory, ssts, batch, opened, adds, crashes>>

RewriteRename ==
    /\ pc = "rename"
    /\ "REWRITE" \in DOMAIN files
    /\ files' = Renamed
    /\ creations' = Cardinality(DOMAIN table_levels)
    /\ deletions' = 0
    /\ pc' = "up"
    /\ UNCHANGED <<level_tables, table_levels, ssts, batch, opened, bounds>>

\* std::rename fails: ReWrite returns false.
RewriteFails ==
    /\ pc = "rename"
    /\ "REWRITE" \notin DOMAIN files
    /\ pc' = "up"
    /\ UNCHANGED <<memory, files, ssts, batch, opened, bounds>>

\* OpenManifestFile: without a MANIFEST the file REWRITE takes its place, or the
\* open fails.  ReplayManifestFile reads size bytes into a string of length 0,
\* which DecodeTo takes for an empty input: no change is applied.
OpenManifestFile ==
    /\ pc = "started"
    /\ pc' = "up"
    /\ Cleared
    /\ files' = IF "MANIFEST" \notin DOMAIN files /\ "REWRITE" \in DOMAIN files
                THEN Renamed ELSE files
    /\ opened' = IF Contents("MANIFEST") # <<>>
                    \/ ("MANIFEST" \notin DOMAIN files /\ Contents("REWRITE") # <<>>)
                 THEN "true" ELSE "false"
    /\ UNCHANGED <<ssts, batch, bounds>>

\* A caller that does not open, as in src/src/tests/manifest_test.cpp:20-21.
SkipOpen ==
    /\ pc = "started"
    /\ pc' = "up"
    /\ UNCHANGED <<memory, files, ssts, batch, opened, bounds>>

\* RevertToManifest(the table files found in the directory), after an open that
\* succeeded: nothing when the manifest knows a table that is missing, else the
\* unknown files are removed, up to the first that cannot be.
RevertToManifest ==
    /\ pc = "up"
    /\ opened = "true"
    /\ DOMAIN table_levels \subseteq ssts
    /\ \E gone \in SUBSET (ssts \ DOMAIN table_levels) : ssts' = ssts \ gone
    /\ UNCHANGED <<memory, files, pc, batch, opened, bounds>>

-----------------------------------------------------------------------------
(* Crashes                                                                 *)

\* What a crash leaves of the append it interrupts: the file just created, or
\* a part of the batch at its end.
Interrupted(name, b) ==
    {With(files, name, Contents(name))}
    \cup {AppendTo(name, SubSeq(b, 1, i)) : i \in 0 .. Len(b)}

Crash ==
    /\ pc # "down"
    /\ crashes < MaxCrashes
    /\ crashes' = crashes + 1
    /\ \/ UNCHANGED files
       \/ pc = "append" /\ files' \in Interrupted("MANIFEST", batch)
       \/ pc = "up" /\ table_levels # <<>> /\ rewrites < MaxRewrites
          /\ files' \in Interrupted("REWRITE", ParseFromManifest)
    /\ Cleared
    /\ pc' = "down"
    /\ batch' = <<>>
    /\ opened' = "no"
    /\ UNCHANGED <<ssts, adds, rewrites>>

Restart ==
    /\ pc = "down"
    /\ pc' = "started"
    /\ UNCHANGED <<memory, files, ssts, batch, opened, bounds>>

Next ==
    \/ \E t \in Tables : WriteTable(t)
    \/ \E b \in Batches : AddChanges(b)
    \/ AppendBatch \/ RewriteAppend \/ RewriteRename \/ RewriteFails
    \/ OpenManifestFile \/ SkipOpen \/ RevertToManifest
    \/ Crash \/ Restart

Spec == Init /\ [][Next]_vars

-----------------------------------------------------------------------------
(* Properties *)

Recorded(t, l) ==
    \E i \in 1 .. Len(Contents("MANIFEST")) : \E j \in 1 .. Len(Contents("MANIFEST")[i]) :
        Contents("MANIFEST")[i][j] = Create(t, l)

TypeOK ==
    /\ \A i \in 1 .. Len(level_tables) : level_tables[i] \subseteq Tables
    /\ Len(level_tables) <= MaxLevel + 1
    /\ DOMAIN table_levels \subseteq Tables
    /\ creations \in Nat /\ deletions \in Nat
    /\ DOMAIN files \subseteq {"MANIFEST", "REWRITE"}
    /\ ssts \subseteq Tables
    /\ pc \in {"down", "started", "up", "append", "rename", "undefined"}
    /\ opened \in {"no", "true", "false"}

\* The level table_levels_map names for a table is a level of level_tables_map
\* that contains it, through re-creations on other levels.
KnownIsListed ==
    pc # "undefined" =>
        \A t \in DOMAIN table_levels :
            /\ table_levels[t] < Len(level_tables)
            /\ t \in level_tables[table_levels[t] + 1]

\* And no level holds a table that table_levels_map does not know.  (That it
\* holds only tables of this level is not so: a table that moves stays on the
\* level it leaves.)
ListedIsKnown ==
    \A i \in 1 .. Len(level_tables) : level_tables[i] \subseteq DOMAIN table_levels

\* A change indexes level_tables_map out of bounds only when its level is exactly
\* the number of levels there are: the resize covers every level beyond it.
MissedBySizeOnly ==
    pc = "undefined" =>
        \E j \in 1 .. Len(batch) :
            batch[j].op = "create" /\ batch[j].level = Len(level_tables)

\* The two maps agree as far as ApplyChangeSet keeps them together.
MapsAgree == KnownIsListed /\ ListedIsKnown /\ MissedBySizeOnly

\* Between calls, every table the process knows is recorded on its level in the
\* MANIFEST file, whatever ReWrite replaced it with and a crash left in it.
KnownIsRecorded ==
    pc = "up" => \A t \in DOMAIN table_levels : Recorded(t, table_levels[t])

\* Only a finished ReWrite takes a record out of MANIFEST, and none of a table
\* that is still on that level: a crash at any step of it loses nothing known.
RewriteLosesNothing ==
    [][\A t \in Tables, l \in Levels :
           Recorded(t, l) /\ ~ Recorded(t, l)'
               => pc = "rename" /\ ~ (t \in DOMAIN table_levels /\ table_levels[t] = l)]_vars

\* "Replay the manifest file" (src/src/manifest/manifest.cpp:25): after an open
\* that succeeded the process knows every table whose record was never followed
\* by a delete.
ReplayRestores ==
    [][OpenManifestFile /\ opened' = "true" =>
           \A t \in Tables :
               (\E l \in Levels : Recorded(t, l)')
               /\ ~ (\E i \in 1 .. Len(files'["MANIFEST"]) :
                         \E j \in 1 .. Len(files'["MANIFEST"][i]) :
                             files'["MANIFEST"][i][j].op = "delete")
               => t \in DOMAIN table_levels']_vars
=============================================================================
