------------------------------- MODULE Deployment -------------------------------
(***************************************************************************)
(* How an installation comes up.  start.sh applies the migrations, stops   *)
(* when the schema still differs, seeds when told to, and starts the API;  *)
(* outside production the API may be started directly and repair its       *)
(* schema first (bootstrap-schema-repair.ts).  Several containers come up  *)
(* at the same time, are killed and come up again.                         *)
(*                                                                         *)
(* The permission catalogue is cut down to the keys that the migration of  *)
(* old permissions touches and one more, the roles to two system roles and *)
(* the roles that administrators made.  Prisma's upsert is one statement.  *)
(* A statement of the repair stands for the consecutive statements of its  *)
(* source that make the named objects.                                     *)
(***************************************************************************)
EXTENDS Naturals, Sequences, FiniteSets, TLC

CONSTANTS
    Boots,         \* containers
    CustomRoles,   \* roles that administrators made
    Worlds,        \* what a behaviour starts with: [mode, lacks, pending, grants]
    MaxTroubles,   \* bound: containers killed and statements that fail by chance
    MaxEdits       \* bound: changes by administrators

VARIABLES
    mode,      \* "script" for start.sh, "direct" for node dist/main.js with repair
    boot,      \* where each container is, and what it has read
    lacks,     \* objects that the schema lacks
    pending,   \* objects whose migration is not recorded as applied
    perms,     \* rows of permissions
    grants,    \* the permissions of each role
    admin,     \* the initial administrator: "none", "bare" without role, "full"
    worker,    \* a demo worker: "none", "bare", "ready", "disabled"
    was,       \* the grants, and what the schema lacked, at the start
    edited,    \* roles that administrators have changed since
    cut,       \* a container was killed during its seed or repair
    faults, kills

deployVars == <<mode, boot, lacks, pending, perms, grants, admin, worker, was, edited, cut,
                faults, kills>>
access == <<perms, grants>>
people == <<admin, worker>>
history == <<was, edited>>
counts == <<cut, faults, kills>>

-----------------------------------------------------------------------------
(* The catalogue.                                                          *)

PERMISSIONS == {"warehouses.view", "warehouses.update", "locations.view", "locations.update",
                "receiving.execute"}

ROLES == [SUPER_ADMIN |-> PERMISSIONS,
          RECEIVING_WORKER |-> {"warehouses.view", "locations.view", "receiving.execute"}]
RoleOrder == <<"SUPER_ADMIN", "RECEIVING_WORKER">>
Roles == DOMAIN ROLES \cup CustomRoles

LEGACY_GRANTS == <<
    [legacy |-> "warehouse.view", targets |-> {"warehouses.view"}],
    [legacy |-> "warehouse.manage", targets |-> {"warehouses.view", "warehouses.update"}],
    [legacy |-> "locations.view", targets |-> {"locations.view"}],
    [legacy |-> "locations.manage", targets |-> {"locations.view", "locations.update"}]>>
LegacyOnly == {LEGACY_GRANTS[i].legacy : i \in DOMAIN LEGACY_GRANTS} \ PERMISSIONS

-----------------------------------------------------------------------------
(* The repair: what the statements make and what they need, in order.      *)

Makes(objects, needed) == [makes |-> objects, needs |-> needed]

RepairTypes == <<Makes({"types"}, {}), Makes({"values"}, {"types"})>>
RepairStations == <<
    Makes({"rc_source"}, {"types"}), Makes({"rs_device", "rs_station"}, {}),
    Makes({"stations", "station_wh"}, {"types"}),
    Makes({"operation_corrections"}, {"types"}),
    Makes({"station references"}, {"stations", "operation_corrections", "rs_station"})>>
RepairPutaway == <<
    Makes({"carton_loc", "carton_stored"}, {}), Makes({"putaway_sessions"}, {"types"}),
    Makes({"carton_placements"}, {"types"}),
    Makes({"placement references"}, {"carton_loc", "putaway_sessions", "carton_placements", "stations"})>>
RepairCategories == <<
    Makes({"category types"}, {}), Makes({"category_master"}, {"category types"}),
    Makes({"category_zone_mappings"}, {"category_master"}),
    Makes({"item categories"}, {"category types"})>>
(* Mutant: tables before the tables they refer to.                         *)
RepairFlowShuffled == <<
    Makes({"flow types"}, {}), Makes({"article_units"}, {"flow types", "category types"}),
    Makes({"article references"}, {"article_units", "operational_containers", "outbound_shipments"}),
    Makes({"outbound_shipments"}, {"flow types", "operational_containers"}),
    Makes({"operational_containers"}, {"flow types"}), Makes({"void states"}, {"flow types"})>>
RepairFlow == <<
    Makes({"flow types"}, {}), Makes({"operational_containers"}, {"flow types"}),
    Makes({"outbound_shipments"}, {"flow types", "operational_containers"}),
    Makes({"article_units"}, {"flow types", "category types"}),
    Makes({"article references"}, {"article_units", "operational_containers", "outbound_shipments"}),
    Makes({"void states"}, {"flow types"})>>
RepairTasks == <<
    Makes({"AssignmentStatus"}, {}), Makes({"tasks"}, {"AssignmentStatus"}),
    Makes({"AssignmentStatus", "lifecycle"}, {"tasks"}),
    Makes({"task links"}, {"tasks", "outbound_shipments", "operational_containers", "stations"})>>
RepairChain == <<
    Makes({"receiving_scan_events"}, {}), Makes({"carton_claim"}, {}),
    Makes({"device reference"}, {"stations"}), Makes({"exception type"}, {}),
    Makes({"station_zone"}, {"stations"}), Makes({"container_qr"}, {"operational_containers"}),
    Makes({"shipping_verifications"}, {"outbound_shipments"}),
    Makes({"operational_exceptions"}, {"exception type"})>>
RepairDisplays == <<
    Makes({"station_displays"}, {"stations"}), Makes({"station_display_actions"}, {"station_displays"}),
    Makes({"station_print_jobs"}, {"station_displays"}),
    Makes({"station_display_messages"}, {}),
    Makes({"message references"}, {"station_display_messages", "station_displays"})>>

REPAIR_STATEMENTS == RepairTypes \o RepairStations \o RepairPutaway \o RepairCategories
                     \o RepairFlow \o RepairTasks \o RepairChain \o RepairDisplays
Repairable == UNION {REPAIR_STATEMENTS[i].makes : i \in DOMAIN REPAIR_STATEMENTS}

Recorded == Repairable \ UNION {RepairDisplays[i].makes : i \in DOMAIN RepairDisplays}

(* The probe asks for tables and columns, not for types, enumeration       *)
(* values, indexes and references.                                         *)
PROBE == Repairable \ {"types", "values", "station references", "placement references",
    "category types", "flow types", "article references", "void states", "AssignmentStatus",
    "lifecycle", "device reference", "exception type", "message references"}

(* What only the migrations make.                                          *)
Objects == Repairable \cup {"batches", "temporary storage"}

(* Labels and columns are of a type that is there.                         *)
Whole(l) == "AssignmentStatus" \in l => {"lifecycle", "tasks"} \subseteq l

ASSUME DeploymentAssumption ==
    /\ Boots # {} /\ Worlds # {}
    /\ CustomRoles \cap DOMAIN ROLES = {}
    /\ MaxTroubles \in Nat /\ MaxEdits \in Nat
    /\ \A w \in Worlds : /\ w.mode \in {"script", "direct"}
                         /\ w.lacks \subseteq Objects /\ w.pending \subseteq Objects
                         /\ Whole(w.lacks)
                         /\ DOMAIN w.grants = Roles
                         /\ \A r \in Roles : w.grants[r] \subseteq PERMISSIONS \cup LegacyOnly

-----------------------------------------------------------------------------
DeployFrom(w) ==
    /\ mode = w.mode /\ lacks = w.lacks /\ pending = w.pending
    /\ grants = w.grants /\ was = [grants |-> w.grants, lacks |-> w.lacks]
    /\ perms = PERMISSIONS \cup LegacyOnly
    /\ boot = [b \in Boots |-> [at |-> "down"]]
    /\ admin = "none" /\ worker = "none"
    /\ edited = {} /\ cut = FALSE /\ faults = 0 /\ kills = 0

At(b, place) == boot[b].at = place
Becomes(b, state) == boot' = [boot EXCEPT ![b] = state]
Goes(b, place) == Becomes(b, [at |-> place])

(* The entry point of the container.                                       *)
Start(b) ==
    /\ At(b, "down")
    /\ Goes(b, IF mode = "script" THEN "migrate" ELSE "probe")
    /\ UNCHANGED <<mode, lacks, pending, access, people, history, counts>>

(* migrate deploy: one container at a time applies what is not recorded.   *)
Migrate(b) ==
    /\ At(b, "migrate")
    /\ lacks' = lacks \ pending
    /\ pending' = {}
    /\ Goes(b, "diff")
    /\ UNCHANGED <<mode, access, people, history, counts>>

(* migrate diff: a difference stops the boot.                              *)
Diff(b) ==
    /\ At(b, "diff")
    /\ Goes(b, IF lacks = {} THEN "permissions" ELSE "down")
    /\ UNCHANGED <<mode, lacks, pending, access, people, history, counts>>

-----------------------------------------------------------------------------
(* The seed.                                                               *)

SeedPermissions(b) ==
    /\ At(b, "permissions")
    /\ perms' = perms \cup PERMISSIONS
    /\ Becomes(b, [at |-> "legacy", i |-> 1])
    /\ UNCHANGED <<mode, lacks, pending, grants, people, history, counts>>

Legacy(b) == LEGACY_GRANTS[boot[b].i]

(* Mutant: a key that is not there is migrated all the same.               *)
FindAnyLegacy(b) ==
    /\ At(b, "legacy")
    /\ IF boot[b].i > Len(LEGACY_GRANTS) THEN Becomes(b, [at |-> "role", i |-> 1])
       ELSE Becomes(b, [at |-> "strip", i |-> boot[b].i,
                        holders |-> {r \in Roles : Legacy(b).legacy \in grants[r]}])
    /\ UNCHANGED <<mode, lacks, pending, access, people, history, counts>>

(* A key that is there: its holders are read.                              *)
FindLegacy(b) ==
    /\ At(b, "legacy")
    /\ IF boot[b].i > Len(LEGACY_GRANTS) THEN Becomes(b, [at |-> "role", i |-> 1])
       ELSE IF Legacy(b).legacy \notin perms THEN Becomes(b, [at |-> "legacy", i |-> boot[b].i + 1])
       ELSE Becomes(b, [at |-> "strip", i |-> boot[b].i,
                        holders |-> {r \in Roles : Legacy(b).legacy \in grants[r]}])
    /\ UNCHANGED <<mode, lacks, pending, access, people, history, counts>>

(* One holder loses the old key, ...                                       *)
Strip(b) ==
    /\ At(b, "strip") /\ boot[b].holders # {}
    /\ LET r == CHOOSE r \in boot[b].holders : TRUE
       IN  /\ grants' = [grants EXCEPT ![r] = @ \ {Legacy(b).legacy}]
           /\ Becomes(b, [at |-> "retarget", i |-> boot[b].i, holders |-> boot[b].holders, role |-> r,
                          todo |-> Legacy(b).targets \ {Legacy(b).legacy}])
    /\ UNCHANGED <<mode, lacks, pending, perms, people, history, counts>>

(* ... and gets its targets, one by one.                                   *)
Retarget(b) ==
    /\ At(b, "retarget")
    /\ IF boot[b].todo = {}
       THEN /\ Becomes(b, [at |-> "strip", i |-> boot[b].i, holders |-> boot[b].holders \ {boot[b].role}])
            /\ grants' = grants
       ELSE LET k == CHOOSE k \in boot[b].todo : TRUE
            IN  /\ grants' = [grants EXCEPT ![boot[b].role] = @ \cup {k}]
                /\ boot' = [boot EXCEPT ![b].todo = @ \ {k}]
    /\ UNCHANGED <<mode, lacks, pending, perms, people, history, counts>>

StillHeld(b) == \E r \in Roles : Legacy(b).legacy \in grants[r]

DropLegacy(b) ==
    /\ At(b, "strip") /\ boot[b].holders = {}
    /\ IF StillHeld(b) \/ Legacy(b).legacy \in PERMISSIONS
       THEN Becomes(b, [at |-> "legacy", i |-> boot[b].i + 1])
       ELSE Becomes(b, [at |-> "delete", i |-> boot[b].i])
    /\ UNCHANGED <<mode, lacks, pending, access, people, history, counts>>

(* The row another container has deleted is an error, and ends the boot.   *)
DeleteLegacy(b) ==
    /\ At(b, "delete")
    /\ IF Legacy(b).legacy \in perms
       THEN /\ perms' = perms \ {Legacy(b).legacy}
            /\ grants' = [r \in Roles |-> grants[r] \ {Legacy(b).legacy}]
            /\ Becomes(b, [at |-> "legacy", i |-> boot[b].i + 1])
       ELSE Goes(b, "down") /\ UNCHANGED access
    /\ UNCHANGED <<mode, lacks, pending, people, history, counts>>

Role(b) == RoleOrder[boot[b].i]

ReadRole(b) ==
    /\ At(b, "role")
    /\ IF boot[b].i > Len(RoleOrder) THEN Goes(b, "admin?")
       ELSE Becomes(b, [at |-> "trim", i |-> boot[b].i, seen |-> grants[Role(b)]])
    /\ UNCHANGED <<mode, lacks, pending, access, people, history, counts>>

(* Mutant: a role keeps what the catalogue no longer gives it.             *)
TrimNothing(b) ==
    /\ At(b, "trim")
    /\ boot' = [boot EXCEPT ![b].at = "fill"]
    /\ UNCHANGED <<mode, lacks, pending, access, people, history, counts>>

TrimRole(b) ==
    /\ At(b, "trim")
    /\ grants' = [grants EXCEPT ![Role(b)] = @ \ (boot[b].seen \ ROLES[Role(b)])]
    /\ boot' = [boot EXCEPT ![b].at = "fill"]
    /\ UNCHANGED <<mode, lacks, pending, perms, people, history, counts>>

FillRole(b) ==
    /\ At(b, "fill")
    /\ grants' = [grants EXCEPT ![Role(b)] = @ \cup (ROLES[Role(b)] \ boot[b].seen)]
    /\ Becomes(b, [at |-> "role", i |-> boot[b].i + 1])
    /\ UNCHANGED <<mode, lacks, pending, perms, people, history, counts>>

FindAdmin(b) ==
    /\ At(b, "admin?")
    /\ Goes(b, IF admin = "none" THEN "admin" ELSE "workforce")
    /\ UNCHANGED <<mode, lacks, pending, access, people, history, counts>>

CreateAdmin(b) ==
    /\ At(b, "admin")
    /\ IF admin = "none" THEN admin' = "bare" /\ Goes(b, "admin role")
       ELSE admin' = admin /\ Goes(b, "down")   \* the code is taken
    /\ UNCHANGED <<mode, lacks, pending, access, worker, history, counts>>

GiveAdminRole(b) ==
    /\ At(b, "admin role")
    /\ admin' = "full"
    /\ Goes(b, "workforce")
    /\ UNCHANGED <<mode, lacks, pending, access, worker, history, counts>>

(* Demo structure, taxonomy, stations and workers are upserts; a worker is *)
(* written, and set active, first, and gets the role after it.             *)
SeedWorker(b) ==
    /\ At(b, "workforce")
    /\ worker' = IF worker \in {"none", "bare"} THEN "bare" ELSE "ready"
    /\ Goes(b, "worker role")
    /\ UNCHANGED <<mode, lacks, pending, access, admin, history, counts>>

SeedWorkerRole(b) ==
    /\ At(b, "worker role")
    /\ worker' = IF worker = "bare" THEN "ready" ELSE worker
    /\ Goes(b, "up")
    /\ UNCHANGED <<mode, lacks, pending, access, admin, history, counts>>

Seed(b) ==
    \/ SeedPermissions(b) \/ FindLegacy(b) \/ Strip(b) \/ Retarget(b) \/ DropLegacy(b)
    \/ DeleteLegacy(b) \/ ReadRole(b) \/ TrimRole(b) \/ FillRole(b)
    \/ FindAdmin(b) \/ CreateAdmin(b) \/ GiveAdminRole(b) \/ SeedWorker(b) \/ SeedWorkerRole(b)

-----------------------------------------------------------------------------
(* The repair.                                                             *)

Probe(b) ==
    /\ At(b, "probe")
    /\ IF PROBE \cap lacks = {} THEN Goes(b, "up") ELSE Becomes(b, [at |-> "repair", i |-> 1])
    /\ UNCHANGED <<mode, lacks, pending, access, people, history, counts>>

(* The query of the probe fails: the boot goes on, unrepaired.             *)
ProbeFault(b) ==
    /\ At(b, "probe")
    /\ faults + kills < MaxTroubles
    /\ faults' = faults + 1
    /\ Goes(b, "up")
    /\ UNCHANGED <<mode, lacks, pending, access, people, history, cut, kills>>

(* The table of the tasks has a default of the old labels.  CREATE TYPE    *)
(* with the new ones needs no table to rebuild the type in.                *)
Runs(s) ==
    \/ s.needs \cap lacks = {} /\ ("tasks" \in s.makes => "lifecycle" \in lacks)
    \/ "lifecycle" \in s.makes /\ "AssignmentStatus" \in lacks

(* A statement that fails is skipped; IF NOT EXISTS makes the others safe. *)
Repair(b) ==
    /\ At(b, "repair") /\ boot[b].i <= Len(REPAIR_STATEMENTS)
    /\ LET s == REPAIR_STATEMENTS[boot[b].i]
       IN  lacks' = IF Runs(s) THEN lacks \ s.makes ELSE lacks
    /\ boot' = [boot EXCEPT ![b].i = @ + 1]
    /\ UNCHANGED <<mode, pending, access, people, history, counts>>

(* A lock that is not granted, a connection that breaks.                   *)
RepairFault(b) ==
    /\ At(b, "repair") /\ boot[b].i <= Len(REPAIR_STATEMENTS)
    /\ faults + kills < MaxTroubles
    /\ faults' = faults + 1
    /\ boot' = [boot EXCEPT ![b].i = @ + 1]
    /\ UNCHANGED <<mode, lacks, pending, access, people, history, cut, kills>>

(* The migrations are recorded as applied, whatever failed; that of the    *)
(* displays is not in the list.                                            *)
Record(b) ==
    /\ At(b, "repair") /\ boot[b].i > Len(REPAIR_STATEMENTS)
    /\ pending' = pending \ Recorded
    /\ Goes(b, "up")
    /\ UNCHANGED <<mode, lacks, access, people, history, counts>>

-----------------------------------------------------------------------------
Kill(b) ==
    /\ ~At(b, "down") /\ faults + kills < MaxTroubles
    /\ kills' = kills + 1 /\ cut' = (cut \/ ~At(b, "up"))
    /\ Goes(b, "down")
    /\ UNCHANGED <<mode, lacks, pending, access, people, history, faults>>

(* Administrators, through a container that is up.                         *)
Served == \E b \in Boots : At(b, "up")

(* roles.service: the permissions of a role are replaced in a transaction. *)
EditRole(r, ks) ==
    /\ Served /\ Cardinality(edited) < MaxEdits
    /\ ks \subseteq perms /\ ks # grants[r]
    /\ grants' = [grants EXCEPT ![r] = ks] /\ edited' = edited \cup {r}
    /\ UNCHANGED <<mode, boot, lacks, pending, perms, people, was, counts>>

DisableWorker ==
    /\ Served /\ Cardinality(edited) < MaxEdits /\ worker = "ready"
    /\ worker' = "disabled" /\ edited' = edited \cup {"worker"}
    /\ UNCHANGED <<mode, boot, lacks, pending, access, admin, was, counts>>

BootStep(b) ==
    \/ Start(b) \/ Migrate(b) \/ Diff(b) \/ Seed(b)
    \/ Probe(b) \/ ProbeFault(b) \/ Repair(b) \/ RepairFault(b) \/ Record(b)

DeployNext ==
    \/ \E b \in Boots : BootStep(b) \/ Kill(b)
    \/ \E r \in Roles : EditRole(r, {"receiving.execute"})
    \/ DisableWorker

-----------------------------------------------------------------------------
Places == {"down", "migrate", "diff", "permissions", "legacy", "strip", "retarget", "delete", "role",
           "trim", "fill", "admin?", "admin", "admin role", "workforce", "worker role",
           "probe", "repair", "up"}

DeployTypeOK ==
    /\ mode \in {"script", "direct"}
    /\ \A b \in Boots : boot[b].at \in Places
    /\ lacks \subseteq Objects /\ pending \subseteq Objects
    /\ perms \subseteq PERMISSIONS \cup LegacyOnly
    /\ grants \in [Roles -> SUBSET perms]
    /\ admin \in {"none", "bare", "full"} 
    /\ worker \in {"none", "bare", "ready", "disabled"}
    /\ edited \subseteq Roles \cup {"worker"}
    /\ cut \in BOOLEAN /\ faults + kills \in 0 .. MaxTroubles

AllUp == \A b \in Boots : At(b, "up")

(* When every container is up and none was killed during its seed, the     *)
(* system roles have exactly the permissions of the catalogue, a role that *)
(* administrators made has what its old keys stood for, and the first      *)
(* administrator has the role: whatever the seeds of the others did in     *)
(* between.  locations.view is left out: the migration takes it from such  *)
(* a role at every seed after the first.  The demo worker has the role     *)
(* even after kills.                                                       *)
SeedIsWhole ==
    (AllUp /\ mode = "script") =>
        /\ worker # "bare"
        /\ ~cut =>
            /\ admin = "full"
            /\ \A r \in Roles \ edited :
                  IF r \in DOMAIN ROLES THEN grants[r] = ROLES[r]
                  ELSE \A i \in DOMAIN LEGACY_GRANTS :
                          LEGACY_GRANTS[i].legacy \in was.grants[r]
                             => LEGACY_GRANTS[i].targets \ {"locations.view"} \subseteq grants[r]

(* Where the labels are new and the table of the tasks is missing, its     *)
(* CREATE TABLE fails at every boot.                                       *)
BeyondRepair ==
    IF "tasks" \in was.lacks /\ "lifecycle" \notin was.lacks THEN {"tasks", "task links"} ELSE {}

MadeBefore(n) == UNION {REPAIR_STATEMENTS[i].makes : i \in 1 .. n - 1}

(* Whatever a database lacks: a container that came up by repair found or  *)
(* made every object that the probe names, and all that comes in the list  *)
(* before one that the probe missed at first, also when a pass was killed  *)
(* half way.  When none was, and none is still under way, all that the     *)
(* repair knows is there.  What is out of its reach is excepted.           *)
RepairLeavesNoHole ==
    (mode = "direct" /\ faults = 0 /\ \E b \in Boots : At(b, "up")) =>
        /\ PROBE \cap lacks \subseteq BeyondRepair
        /\ \A n \in DOMAIN REPAIR_STATEMENTS :
              (PROBE \cap was.lacks) \ MadeBefore(n) # {} => MadeBefore(n) \cap lacks \subseteq BeyondRepair
        /\ ~cut /\ AllUp /\ PROBE \cap was.lacks # {} => Repairable \cap lacks \subseteq BeyondRepair
=============================================================================
