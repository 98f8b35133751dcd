-------------------------- MODULE SchemaMigration --------------------------
(***************************************************************************)
(* How gamd brings its database to the schema its code expects:            *)
(* ControlDatabase.migrate and the migrations V1 to V27 of                 *)
(* control/src/database.ts.                                                *)
(*                                                                         *)
(* Each migration is a transaction of its own, but the version is recorded *)
(* once, after the last of them: gamd may stop in between, and another     *)
(* gamd, started before the first one answers, may do the same work at the *)
(* same time, or still be doing it when the first one serves requests.     *)
(*                                                                         *)
(* The schema is a set of parts: <<table, "*">> or <<trigger, "*">> and    *)
(* <<table, column>> for the columns that some migration adds or that tell *)
(* an old form from a new one.  All other columns, the indexes and the     *)
(* constraints come with their table.  Of the rows, those are kept that a  *)
(* migration rewrites: one AgentSlot with the lineage of its conversations *)
(* and one agent workspace.                                                *)
(***************************************************************************)
EXTENDS Integers, FiniteSets

CONSTANTS Opener,      \* gamd processes
          MaxCrashes,  \* bound: stops while migrating
          MaxGen       \* bound: conversations of the slot

ASSUME MigrationAssumption == {MaxCrashes, MaxGen} \subseteq Nat

VARIABLES version,    \* schema_meta.schema_version (0: no row)
          schema,     \* the parts there are
          slot,       \* the AgentSlot: whether it has a conversation, and its generation
          lineage,    \* agent_conversations of the slot
          workspace,  \* status of the agent_workspaces row ("none": no row)
          opener,     \* where each gamd is: at, and the next migration
          stops

databaseVars == <<version, schema, slot, lineage, workspace>>
migrationVars == <<databaseVars, opener, stops>>
-----------------------------------------------------------------------------
(* What each migration asks for: tables made if they do not exist, columns  *)
(* added if the table does not have them, triggers dropped and made anew.   *)

Migration(makes, adds) == [makes |-> makes, adds |-> adds, remakes |-> {}]
Makes(tables) == Migration(tables, {})
Adds(table, columns) == Migration({}, {table} \X columns)

MigrateV1 == Makes({"projects", "agent_slots", "resources", "leases", "capabilities", "events"})
MigrateV2 == Makes({"claims", "artifacts", "verifications"})
MigrateV3 == Adds("claims", {"lease_id"})
MigrateV4 == Makes({"change_requests", "change_request_revisions", "supervisor_reviews", "merge_queue"})
MigrateV5 == Migration({}, {<<"change_requests", "target_branch">>}
               \cup {"merge_queue"} \X {"target_branch", "candidate_base_sha", "candidate_sha"})
MigrateV6 == Makes({"browser_runtime"})
MigrateV7 == Adds("agent_slots", {"desired_state", "browser_state", "browser_profile_id",
                                  "browser_tab_id", "browser_error", "browser_observed_at"})
MigrateV8 == Makes({"worker_requests"})
MigrateV9 == Adds("capabilities", {"agent_slot_id"})
MigrateV10 == Adds("browser_runtime", {"page_health"})
MigrateV11 == Makes({"manager_work_meta", "manager_tasks", "manager_attempts", "manager_messages"})
MigrateV12 == Migration({"browser_operations", "runtime_incidents", "manager_work_mutations"},
                {"agent_slots"} \X {"browser_lease_id", "browser_lease_epoch", "browser_content_epoch",
                   "browser_observation_revision", "browser_page_status", "browser_runtime_observed_at",
                   "browser_quarantined", "browser_quarantine_reason"})
MigrateV13 == Migration({"agent_conversations", "worker_checkpoints", "agent_rollovers"},
                {"agent_slots"} \X {"conversation_generation", "rollover_state", "active_rollover_id"})
MigrateV14 == Makes({"task_workspaces"})
MigrateV15 == Makes({"self_hosting_promotions"})
MigrateV16 == Makes({"organizations", "departments", "organization_domains", "organization_agents",
                     "agent_domain_assignments", "missions", "mission_members",
                     "organization_work_items", "work_requests", "work_outcomes"})
MigrateV17 == Makes({"agent_workspaces"})
MigrateV18 == Adds("agent_workspaces", {"security_mode"})
MigrateV19 == Makes({"organization_agent_conversations"})
MigrateV20 == Makes({"findings", "finding_evidence"})
MigrateV21 == Makes({"review_requests", "review_slots"})
MigrateV22 == Makes({"organization_runtime_acquisitions"})
MigrateV23 == Makes({"acquired_slot", "acquired_slot_update"})
MigrateV24 == Makes({"intent", "intent_update", "binding", "binding_update"})
MigrateV25 == [makes |-> {}, adds |-> {}, remakes |-> {"binding", "binding_update"}]
MigrateV26 == Adds("organization_work_items", {"completion_policy"})
MigrateV27 == Makes({"organization_review_work_items"})

Chain == <<MigrateV1, MigrateV2, MigrateV3, MigrateV4, MigrateV5, MigrateV6, MigrateV7, MigrateV8,
           MigrateV9, MigrateV10, MigrateV11, MigrateV12, MigrateV13, MigrateV14, MigrateV15,
           MigrateV16, MigrateV17, MigrateV18, MigrateV19, MigrateV20, MigrateV21, MigrateV22,
           MigrateV23, MigrateV24, MigrateV25, MigrateV26, MigrateV27>>
Latest == 27

(* Columns that the text of an earlier migration has been given since: a    *)
(* table made today has them, one made by the release of the time has not.  *)
MadeWith == MigrateV7.adds \cup MigrateV10.adds \cup {"binding", "binding_update"} \X {"guarded"}
Rebuild == 18

Has(parts, table) == <<table, "*">> \in parts
New(parts, tables) == {t \in tables : ~Has(parts, t)}
Wanted(m) == m.adds \cup m.makes \X {"*"} \cup m.remakes \X {"*", "guarded"}

Additions(parts, m) == m.adds \ parts

(* SQLite refuses a column the table has, and any of a table that is not.   *)
Refused(parts, m) ==
  LET there == parts \cup New(parts, m.makes) \X {"*"} IN
  \E c \in Additions(parts, m) : c \in parts \/ ~Has(there, c[1])

After(parts, m) ==
  parts \cup New(parts, m.makes) \X {"*"} \cup {c \in MadeWith : c[1] \in New(parts, m.makes)}
        \cup m.adds \cup m.remakes \X {"*", "guarded"}

Current == UNION {Wanted(Chain[n]) : n \in 1..Latest}
-----------------------------------------------------------------------------
(* A database as a release left it whose last migration was the v-th: with  *)
(* or without the columns that were written into an earlier one afterwards. *)
Left(v) ==
  LET full == UNION {Wanted(Chain[n]) : n \in 1..v}
      early == {c \in MadeWith : Has(full, c[1])}
  IN {full, full \cup early}

InitDatabase ==
  /\ version \in 0..Latest
  /\ schema \in Left(version)
  /\ slot \in IF version = 0 THEN {[chat |-> FALSE, gen |-> 0]}
              ELSE {[chat |-> b, gen |-> IF b /\ version >= 13 THEN 1 ELSE 0] : b \in BOOLEAN}
  /\ lineage = IF version >= 13 /\ slot.chat THEN {[gen |-> 1, active |-> TRUE]} ELSE {}
  /\ workspace \in IF version < 17 THEN {"none"}
                   ELSE {"none", "ready", IF version = 17 THEN "provisioning" ELSE "configuring"}
  /\ opener = [o \in Opener |-> [at |-> "closed", next |-> 0]]
  /\ stops = 0

Rows == <<slot, lineage, workspace>>
Goto(o, at, next) == opener' = [opener EXCEPT ![o] = [at |-> at, next |-> next]]
Fails(o) == Goto(o, "failed", 0)
Migrates(o) == opener[o].at = "migrating"

(* Slip: the recorded migration counts as the next one.                     *)
FirstIsRecordedNext(v) == v + 2

First(v) == v + 1

(* The version is read once.                                                *)
OpenDatabase(o) ==
  /\ opener[o].at = "closed"
  /\ Goto(o, "migrating", First(version))
  /\ UNCHANGED <<databaseVars, stops>>

(* V13 also counts the conversation a slot had, and begins its lineage; an  *)
(* entry that is there, or would have generation 0, is not inserted.        *)
Backfilled == slot' = IF slot.chat /\ slot.gen = 0 THEN [slot EXCEPT !.gen = 1] ELSE slot

Began == lineage' = IF slot'.chat /\ slot'.gen > 0 /\ ~\E c \in lineage : c.gen = slot'.gen
                    THEN lineage \cup {[gen |-> slot'.gen, active |-> TRUE]} ELSE lineage

(* One migration, in its transaction.                                       *)
Migrate(o) ==
  LET n == opener[o].next
      m == Chain[n]
  IN
  /\ Migrates(o) /\ n \in 1..Latest \ {Rebuild}
  /\ IF Refused(schema, m) THEN Fails(o) /\ UNCHANGED databaseVars
     ELSE /\ schema' = After(schema, m) /\ Goto(o, "migrating", n + 1)
          /\ IF n = 13 THEN Backfilled /\ Began ELSE UNCHANGED <<slot, lineage>>
          /\ UNCHANGED <<version, workspace>>
  /\ UNCHANGED stops

(* V18 looks at the table before its transaction begins,                    *)
LookBeforeRebuild(o) ==
  /\ Migrates(o) /\ opener[o].next = Rebuild
  /\ IF <<"agent_workspaces", "security_mode">> \in schema
     THEN Goto(o, "migrating", Rebuild + 1) ELSE Goto(o, "rebuilding", Rebuild)
  /\ UNCHANGED <<databaseVars, stops>>

StatusMapped == IF workspace = "provisioning" THEN "configuring" ELSE workspace

(* and in it moves the old table away, makes the new one, copies the rows   *)
(* and drops the old.  The rows of the new form cannot be copied again.     *)
RebuildWorkspaces(o) ==
  /\ opener[o].at = "rebuilding"
  /\ IF <<"agent_workspaces", "security_mode">> \in schema
     THEN Fails(o) /\ UNCHANGED databaseVars
     ELSE /\ schema' = schema \cup MigrateV18.adds /\ workspace' = StatusMapped
          /\ Goto(o, "migrating", Rebuild + 1) /\ UNCHANGED <<version, slot, lineage>>
  /\ UNCHANGED stops

RecordVersion(o) ==
  /\ Migrates(o) /\ opener[o].next > Latest
  /\ version' = Latest /\ Goto(o, "open", 0)
  /\ UNCHANGED <<schema, slot, lineage, workspace, stops>>

(* gamd stops: a transaction that is under way is rolled back.              *)
CutOff(o) ==
  /\ opener[o].at \in {"migrating", "rebuilding"} /\ stops < MaxCrashes
  /\ stops' = stops + 1 /\ Goto(o, "closed", 0) /\ UNCHANGED databaseVars

Close(o) ==
  /\ opener[o].at \in {"open", "failed"} /\ stops < MaxCrashes
  /\ stops' = stops + 1 /\ Goto(o, "closed", 0) /\ UNCHANGED databaseVars

(* Meanwhile an open gamd serves: the slot gets a conversation, or one      *)
(* follows another, and workspaces are requested and configured.            *)
Converse(o) ==
  /\ opener[o].at = "open" /\ slot.gen < MaxGen
  /\ slot' = [chat |-> TRUE, gen |-> slot.gen + 1]
  /\ lineage' = {[c EXCEPT !.active = FALSE] : c \in lineage} \cup {[gen |-> slot.gen + 1, active |-> TRUE]}
  /\ UNCHANGED <<version, schema, workspace, opener, stops>>

UseWorkspace(o) ==
  /\ opener[o].at = "open" /\ workspace # "ready"
  /\ workspace' = IF workspace = "none" THEN "configuring" ELSE "ready"
  /\ UNCHANGED <<version, schema, slot, lineage, opener, stops>>

DatabaseNext ==
  \/ \E o \in Opener : OpenDatabase(o)
  \/ \E o \in Opener : Migrate(o)
  \/ \E o \in Opener : LookBeforeRebuild(o)
  \/ \E o \in Opener : RebuildWorkspaces(o)
  \/ \E o \in Opener : RecordVersion(o)
  \/ \E o \in Opener : CutOff(o)
  \/ \E o \in Opener : Close(o)
  \/ \E o \in Opener : Converse(o)
  \/ \E o \in Opener : UseWorkspace(o)

DatabaseSpec == InitDatabase /\ [][DatabaseNext]_migrationVars
-----------------------------------------------------------------------------
(* Whoever migrated it, from whatever version and however often they were  *)
(* interrupted: a database that is served, or recorded as up to date, has   *)
(* every table, column and trigger, and no status of the old form.          *)
SchemaIsComplete ==
  version = Latest \/ (\E o \in Opener : opener[o].at = "open") =>
    Current \subseteq schema /\ workspace \in {"none", "configuring", "ready"}

(* A slot that has a conversation is in exactly one open entry of its       *)
(* lineage, under the generation the slot has, although the migration that  *)
(* began it may run again, or late, while conversations already follow one  *)
(* another.                                                                 *)
LineageIsWhole ==
  (\E o \in Opener : opener[o].at = "open") =>
    {c.gen : c \in {d \in lineage : d.active}} = IF slot.chat THEN {slot.gen} ELSE {}

(* Both: whoever migrates, and whoever serves meanwhile.                    *)
UpgradeIsWhole == SchemaIsComplete /\ LineageIsWhole

(* What was interrupted can be taken up again: gamd fails at no database of *)
(* an earlier release, whatever was done of its migration, except where     *)
(* another gamd rebuilt the workspaces after this one looked at them.       *)
OnlyOvertakenFails ==
  [][\A o \in Opener : opener[o].at # "failed" /\ opener'[o].at = "failed" =>
       /\ opener[o].at = "rebuilding" /\ <<"agent_workspaces", "security_mode">> \in schema]_migrationVars
=============================================================================
