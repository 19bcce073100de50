------------------------------- MODULE DataReset -------------------------------
(***************************************************************************)
(* The two scripts that empty a test installation: test-data-reset.ts,     *)
(* which works through Prisma, and test-data-reset-pg.ts, which works      *)
(* through pg and asks before it deletes.  Both audit the database, print  *)
(* a plan, delete in one transaction, and then create one worker.          *)
(*                                                                         *)
(* The database is a set of rows; Table and Parent say where a row lives   *)
(* and which rows it refers to by a foreign key that cascades or refuses   *)
(* (prisma/schema.prisma; references that are set to null are left out,    *)
(* except those of stations and devices to their worker).  A statement     *)
(* sees the rows that are committed when it runs, and the floor goes on    *)
(* working in between.                                                     *)
(***************************************************************************)
EXTENDS Naturals, Sequences, FiniteSets

CONSTANTS
    Table,          \* the table of each row that can exist
    Parent,         \* the rows that a row refers to
    Scripts,        \* the scripts that are used
    MaxWrites,      \* bound: rows inserted by others
    MaxRuns         \* bound: how often the operator starts a script

Row == DOMAIN Table
Rows(t) == {r \in Row : Table[r] = t}
Users == Rows("users")
Furniture == {"stations", "devices"}

ASSUME ResetAssumption ==
    /\ Parent \in [Row -> SUBSET Row]
    /\ Scripts \subseteq {"prisma", "pg"}
    /\ "TEST_WORKER" \in Users /\ "RECEIVING_WORKER" \in Rows("roles")
    /\ \E g \in Rows("user_roles") : Parent[g] = {"TEST_WORKER", "RECEIVING_WORKER"}
    /\ MaxWrites \in Nat /\ MaxRuns \in Nat

VARIABLES
    db,        \* committed rows
    works,     \* the worker of the station and of the device
    script,    \* the script that runs
    pc,        \* where it is
    line,      \* the statement of the transaction that comes next
    gone,      \* rows the open transaction has deleted
    unbound,   \* furniture whose worker it has cleared
    workers,   \* testWorkerIds, as the audit read them
    planned,   \* rows of the plan
    removed,   \* rows the committed transaction deleted
    fresh,     \* rows others have inserted since the script began
    runs       \* scripts that were started

resetVars == <<db, works, script, pc, line, gone, unbound, workers, planned, removed, fresh, runs>>
Free == "free"

(* onDelete of the references to rows that the scripts can delete, other   *)
(* than those set to null: rows go along, or the deletion is refused.      *)
ReceivingRecords == {"receiving_cartons", "receiving_scan_events", "receiving_products",
    "receiving_discrepancies", "receiving_worker_logs", "receiving_reports"}
ReportRecords == {"receiving_report_lines", "receiving_report_photos"}
Cascades == {<<"user_roles", "users">>, <<"sessions", "users">>, <<"push_tokens", "users">>,
    <<"receiving_sessions", "expected_arrivals">>, <<"expected_arrival_items", "expected_arrivals">>,
    <<"shipping_verifications", "outbound_shipments">>,
    <<"warehouse_cartons", "warehouse_shipments">>, <<"carton_placements", "warehouse_cartons">>}
    \cup (ReceivingRecords \X {"receiving_sessions"}) \cup (ReportRecords \X {"receiving_reports"})
Restricts == {<<"worker_task_assignments", "users">>, <<"operation_corrections", "users">>,
    <<"order_items", "warehouse_orders">>, <<"physical_items", "order_items">>,
    <<"outbound_shipments", "warehouse_orders">>}

Hangs(r, p) == p \in Parent[r] /\ <<Table[r], Table[p]>> \in Cascades
Refuses(r, p) == p \in Parent[r] /\ <<Table[r], Table[p]>> \notin Cascades

(* The rows of S with all that hangs on them, three references deep.       *)
With(S, in) == S \cup {r \in in : \E p \in S : Hangs(r, p)}
Branch(S, in) == With(With(With(S, in), in), in)

-----------------------------------------------------------------------------
(* The audit.                                                              *)

OPERATIONAL_ROLES == {"INBOUND_WORKER", "RECEIVING_WORKER", "SORTING_WORKER",
    "PUTAWAY_WORKER", "PICKER", "PACKER", "PACKING_WORKER", "SHIPPING_WORKER"}

(* Users that hold a role of that list; no other role keeps them.          *)
TestWorkers(in) ==
    {u \in Users : \E g \in in : /\ Table[g] = "user_roles"
                                 /\ u \in Parent[g]
                                 /\ Parent[g] \cap OPERATIONAL_ROLES # {}}

(* The tables whose rows the plans count as deleted, as they are audited.  *)
AuditedInbound == {"expected_arrivals", "warehouse_shipments", "warehouse_cartons"}
AuditedReceiving == {"receiving_sessions", "receiving_cartons"}
AuditedOutbound == {"article_units", "operational_containers", "outbound_shipments"}
AuditedTasks == {"shipping_verifications", "worker_task_assignments", "operational_exceptions"}
AuditedOrders == {"operation_corrections", "carton_placements", "putaway_sessions",
                  "warehouse_orders", "order_items", "physical_items"}
PgAudited == AuditedInbound \cup AuditedReceiving \cup AuditedOutbound \cup AuditedTasks
             \cup AuditedOrders \cup {"expected_arrival_items"}

(* What the schema says of the rows: a reference to a row that the scripts *)
(* can delete is one of the above, one that cascades is never null, and a  *)
(* user refers to nothing.                                                 *)
CanGo == PgAudited \cup {"users"} \cup {c[1] : c \in Cascades}

ASSUME SchemaAssumption ==
    /\ \A r \in Row : \A p \in Parent[r] :
          Table[p] \in CanGo => <<Table[r], Table[p]>> \in Cascades \cup Restricts
    /\ \A c \in Cascades : \A r \in Rows(c[1]) : \E p \in Parent[r] : Table[p] = c[2]
    /\ \A u \in Users : Parent[u] = {}

PlanOf(s, w) ==
    LET tables == IF s = "pg" THEN PgAudited ELSE PgAudited \ {"expected_arrival_items"}
        logins == IF s = "prisma" THEN {r \in db : Table[r] = "sessions" /\ Parent[r] \cap w # {}} ELSE {}
    IN  {r \in db : Table[r] \in tables} \cup (w \cap db) \cup logins

-----------------------------------------------------------------------------
(* The statements of the transaction, in their order.  "warehouse_cartons" *)
(* is also updated first, which changes no row's existence.                *)

PrismaFloor == <<"stations", "devices", "shipping_verifications", "outbound_shipments",
                 "article_units", "operational_containers">>
PrismaLedgers == <<"operation_corrections", "operational_exceptions", "carton_placements",
                   "putaway_sessions">>
PrismaInbound == <<"warehouse_cartons", "warehouse_shipments", "receiving_sessions",
                   "worker_task_assignments", "expected_arrival_items", "expected_arrivals">>
(* Mutant: parents first.                                                  *)
PrismaOrdersFirst == <<"warehouse_orders", "order_items", "physical_items">>
PrismaOrders == <<"physical_items", "order_items", "warehouse_orders">>
PrismaWorkers == <<"sessions", "users">>
PgFloor == PrismaFloor
PgLedgers == PrismaLedgers
PgInbound == PrismaInbound
PgOrders == PrismaOrders
PgWorkers == <<"sessions", "user_roles", "users">>

Statements(s) ==
    IF s = "prisma"
    THEN PrismaFloor \o PrismaLedgers \o PrismaInbound \o PrismaOrders \o PrismaWorkers
    ELSE PgFloor \o PgLedgers \o PgInbound \o PgOrders \o PgWorkers

(* Mutant: the workers are looked up again.                                *)
AimNow(t, in) ==
    LET now == workers \cup TestWorkers(in)
        ofWorkers == {r \in in : Parent[r] \cap now # {}}
    IN  {r \in in : Table[r] = t} \cap
        (CASE t = "users" -> now
           [] t \in {"sessions", "user_roles"} -> ofWorkers
           [] OTHER -> in)

(* The rows that DELETE names itself.                                      *)
Aim(t, in) ==
    LET ofWorkers == {r \in in : Parent[r] \cap workers # {}}
    IN  {r \in in : Table[r] = t} \cap
        (CASE t = "users" -> workers
           [] t \in {"sessions", "user_roles"} -> ofWorkers
           [] OTHER -> in)

Visible == db \ gone
-----------------------------------------------------------------------------
(* The script.                                                             *)

ResetFrom(floor, who) ==
    /\ db = floor /\ works = who
    /\ script = "none" /\ pc = "idle" /\ line = 1
    /\ gone = {} /\ unbound = {} /\ workers = {} /\ planned = {} /\ removed = {}
    /\ fresh = {} /\ runs = 0

(* Phase 1 and 2: every question of the audit is one step.                 *)
Audit ==
    /\ pc = "idle" /\ runs < MaxRuns
    /\ script' \in Scripts
    /\ workers' = TestWorkers(db)
    /\ planned' = PlanOf(script', workers')
    /\ pc' = "planned" /\ runs' = runs + 1 /\ fresh' = {}
    /\ UNCHANGED <<db, works, line, gone, unbound, removed>>

(* The script is over; an open transaction is rolled back.                 *)
Over ==
    /\ script' = "none" /\ pc' = "idle" /\ line' = 1
    /\ gone' = {} /\ unbound' = {} /\ workers' = {} /\ planned' = {} /\ removed' = {}
    /\ fresh' = {}
    /\ UNCHANGED <<db, works, runs>>

(* --dry-run, and an answer other than yes.                                *)
DryRun == pc = "planned" /\ Over

(* pg asks the operator; Prisma goes on at once.                           *)
Begin ==
    /\ pc = "planned"
    /\ pc' = "deleting" /\ line' = 1 /\ gone' = {} /\ unbound' = {}
    /\ UNCHANGED <<db, works, script, workers, planned, removed, fresh, runs>>

Unbind(f) ==
    /\ unbound' = IF works[f] \in workers THEN unbound \cup {f} ELSE unbound
    /\ gone' = gone

(* Mutant: with the triggers of the references disabled.                   *)
DeleteUnchecked(t) ==
    LET hit == Branch(Aim(t, Visible), Visible)
    IN  gone' = gone \cup hit /\ unbound' = unbound

(* A row that still refers to a deleted one makes the statement fail.      *)
Delete(t) ==
    LET hit == Branch(Aim(t, Visible), Visible)
    IN  /\ \A r \in Visible \ hit, p \in hit : ~Refuses(r, p)
        /\ gone' = gone \cup hit
        /\ unbound' = unbound

Statement ==
    /\ pc = "deleting" /\ line <= Len(Statements(script))
    /\ LET t == Statements(script)[line] IN IF t \in Furniture THEN Unbind(t) ELSE Delete(t)
    /\ line' = line + 1
    /\ UNCHANGED <<db, works, script, pc, workers, planned, removed, fresh, runs>>

Refused ==
    LET t == Statements(script)[line]
        hit == Branch(Aim(t, Visible), Visible)
    IN  /\ t \notin Furniture
        /\ \E r \in Visible \ hit, p \in hit : Refuses(r, p)

StatementFails ==
    /\ pc = "deleting" /\ line <= Len(Statements(script))
    /\ Refused
    /\ pc' = "refused" /\ gone' = {} /\ unbound' = {}
    /\ UNCHANGED <<db, works, script, line, workers, planned, removed, fresh, runs>>

Commit ==
    /\ pc = "deleting" /\ line > Len(Statements(script))
    /\ db' = Visible /\ removed' = gone
    /\ works' = [f \in Furniture |-> IF f \in unbound \/ works[f] \in gone THEN Free ELSE works[f]]
    /\ pc' = "committed" /\ gone' = {} /\ unbound' = {}
    /\ UNCHANGED <<script, line, workers, planned, fresh, runs>>

(* Phase 4: the references that join to nothing are counted and reported.  *)
Orphans == {r \in db : ~(Parent[r] \subseteq db)}

Verify ==
    /\ pc = "committed"
    /\ pc' = "verified"
    /\ UNCHANGED <<db, works, script, line, gone, unbound, workers, planned, removed, fresh, runs>>

(* Mutant: a worker that is there is taken to be complete.                 *)
CreateOnce ==
    /\ pc = "verified"
    /\ db' = db \cup {"TEST_WORKER"}
    /\ pc' = IF "TEST_WORKER" \in db THEN "done" ELSE "created"
    /\ UNCHANGED <<works, script, line, gone, unbound, workers, planned, removed, fresh, runs>>

(* Phase 5, three calls of their own.                                      *)
CreateWorker ==
    /\ pc = "verified"
    /\ db' = db \cup {"TEST_WORKER"}
    /\ pc' = "created"
    /\ UNCHANGED <<works, script, line, gone, unbound, workers, planned, removed, fresh, runs>>

GiveRole ==
    /\ pc = "created"
    /\ db' = db \cup {g \in Rows("user_roles") : Parent[g] = {"TEST_WORKER", "RECEIVING_WORKER"}}
    /\ pc' = "employed"
    /\ UNCHANGED <<works, script, line, gone, unbound, workers, planned, removed, fresh, runs>>

GiveStation ==
    /\ pc = "employed"
    /\ works' = [works EXCEPT !["stations"] = "TEST_WORKER"]
    /\ pc' = "done"
    /\ UNCHANGED <<db, script, line, gone, unbound, workers, planned, removed, fresh, runs>>

(* The script stops: killed, disconnected, or the five seconds that Prisma *)
(* gives a transaction are over.  The operator may run it again, as after  *)
(* an error or a report.                                                   *)
Stop == pc \notin {"idle", "refused", "done"} /\ Over

Again == pc \in {"refused", "done"} /\ runs < MaxRuns /\ Over

-----------------------------------------------------------------------------
(* The rest of the system, on the rows it can see.  A row whose parent the *)
(* open transaction has deleted waits for its end, and then has no parent. *)

FloorInserts(r) ==
    /\ pc # "idle" /\ Cardinality(fresh) < MaxWrites
    /\ r \notin db /\ r # "TEST_WORKER" /\ "TEST_WORKER" \notin Parent[r]
    /\ Parent[r] \subseteq Visible
    /\ db' = db \cup {r} /\ fresh' = fresh \cup {r}
    /\ UNCHANGED <<works, script, pc, line, gone, unbound, workers, planned, removed, runs>>

AdminAssigns(f, u) ==
    /\ pc # "idle" /\ Cardinality(fresh) < MaxWrites
    /\ u \in Visible /\ f \notin unbound /\ works[f] # u
    /\ works' = [works EXCEPT ![f] = u]
    /\ fresh' = fresh \cup {f}
    /\ UNCHANGED <<db, script, pc, line, gone, unbound, workers, planned, removed, runs>>

ResetNext ==
    \/ Audit \/ DryRun \/ Begin \/ Statement \/ StatementFails \/ Commit
    \/ Verify \/ CreateWorker \/ GiveRole \/ GiveStation \/ Stop \/ Again
    \/ \E r \in Row : FloorInserts(r)
    \/ \E f \in Furniture, u \in Users : AdminAssigns(f, u)

-----------------------------------------------------------------------------
ResetTypeOK ==
    /\ db \subseteq Row /\ gone \subseteq db /\ Orphans = {}
    /\ works \in [Furniture -> {Free} \cup Users]
    /\ script \in Scripts \cup {"none"}
    /\ pc \in {"idle", "planned", "deleting", "refused", "committed", "verified",
               "created", "employed", "done"}
    /\ line \in 1 .. Len(Statements(script)) + 1
    /\ unbound \subseteq Furniture /\ workers \subseteq Users
    /\ planned \subseteq Row /\ removed \subseteq Row /\ fresh \subseteq Row \cup Furniture
    /\ runs \in 0 .. MaxRuns

(* When nothing is written meanwhile, a run deletes what its plan told the *)
(* operator and nothing else but what hangs on it: no statement is refused *)
(* because an earlier one was left out or comes too late, and no table is  *)
(* forgotten.                                                              *)
QuietRunDoesItsPlan ==
    fresh = {} =>
        /\ pc # "refused"
        /\ pc \in {"committed", "verified", "created", "employed", "done"} =>
              planned \subseteq removed /\ removed \subseteq Branch(planned, removed)

(* Whatever the floor does between the audit and the deletion, no user     *)
(* goes who was not in the audit's list, no login or role of such a user,  *)
(* and no row of the configuration.                                        *)
OthersStay ==
    [][\A r \in db \ db' :
          \/ Table[r] \in PgAudited \cup ReceivingRecords \cup ReportRecords
          \/ (workers \cap ({r} \cup Parent[r])) # {}]_resetVars

(* A run that reaches its report leaves one user with a role of the        *)
(* script's list (OPERATIONAL_ROLES), TEST_WORKER, unless others have      *)
(* added one since the audit: also after a run that stopped half way, and  *)
(* when TEST_WORKER was there before.  A worker whose only role is not on  *)
(* the list stays, and the report of the script does not count it:         *)
(* TEMP_STORAGE_WORKER and BATCH_WORKER are operational in seed.ts.        *)
OneTestWorker ==
    (pc = "done" /\ fresh = {}) => TestWorkers(db) = {"TEST_WORKER"}
=============================================================================
