----------------------------- MODULE MCMaintenance -----------------------------
(* Values of the constants of Maintenance for the model checker.           *)
EXTENDS Maintenance

CONSTANTS c1, c2, crew, f1, f2, e1, p1, k1

Rw(t, p) == [table |-> t, parent |-> p]

(* A warehouse with one row of each kind, an account that is both worker   *)
(* and administrator, a worker who is hired and an administrator who gets  *)
(* a worker's role meanwhile.                                              *)
Warehouse ==
    [ADMIN001 |-> Rw("users", {}), worker |-> Rw("users", {}), both |-> Rw("users", {}),
     hired |-> Rw("users", {}), TEST_WORKER |-> Rw("users", {}),
     RECEIVING_WORKER |-> Rw("roles", {}), SUPER_ADMIN |-> Rw("roles", {}),
     adminRole |-> Rw("user_roles", {"ADMIN001", "SUPER_ADMIN"}),
     workerRole |-> Rw("user_roles", {"worker", "RECEIVING_WORKER"}),
     bothRole |-> Rw("user_roles", {"both", "RECEIVING_WORKER"}),
     bothAdmin |-> Rw("user_roles", {"both", "SUPER_ADMIN"}),
     promoted |-> Rw("user_roles", {"ADMIN001", "RECEIVING_WORKER"}),
     hiredRole |-> Rw("user_roles", {"hired", "RECEIVING_WORKER"}),
     testRole |-> Rw("user_roles", {"TEST_WORKER", "RECEIVING_WORKER"}),
     TEMP_STORAGE_WORKER |-> Rw("roles", {}), stager |-> Rw("users", {}),
     stagerRole |-> Rw("user_roles", {"stager", "TEMP_STORAGE_WORKER"}),
     login |-> Rw("sessions", {"worker"}), adminLogin |-> Rw("sessions", {"ADMIN001"}),
     arrival |-> Rw("expected_arrivals", {}), item |-> Rw("expected_arrival_items", {"arrival"}),
     receiving |-> Rw("receiving_sessions", {"arrival"}),
     report |-> Rw("receiving_reports", {"receiving"}),
     reportLine |-> Rw("receiving_report_lines", {"report"}),
     shipment |-> Rw("warehouse_shipments", {}), carton |-> Rw("warehouse_cartons", {"shipment"}),
     location |-> Rw("locations", {}), product |-> Rw("products", {}),
     placement |-> Rw("carton_placements", {"carton", "location"}),
     order |-> Rw("warehouse_orders", {}), orderItem |-> Rw("order_items", {"order", "product"}),
     physical |-> Rw("physical_items", {"orderItem", "location"}),
     outbound |-> Rw("outbound_shipments", {"order"}),
     verified |-> Rw("shipping_verifications", {"outbound"}),
     article |-> Rw("article_units", {}),
     assignment |-> Rw("worker_task_assignments", {"worker"}),
     correction |-> Rw("operation_corrections", {"both"})]
TableHere == [r \in DOMAIN Warehouse |-> Warehouse[r].table]
ParentHere == [r \in DOMAIN Warehouse |-> Warehouse[r].parent]
Configuration == {"ADMIN001", "SUPER_ADMIN", "RECEIVING_WORKER", "adminRole", "adminLogin",
                  "location", "product"}
FloorsHere == {Configuration,
               DOMAIN Warehouse \ {"TEST_WORKER", "testRole", "hired", "hiredRole", "promoted"}}

World(m, l, p, custom) ==
    [mode |-> m, lacks |-> l, pending |-> p,
     grants |-> [r \in Roles |-> CASE r = "SUPER_ADMIN" -> {"warehouse.manage"}
                                   [] r \in CustomRoles -> custom
                                   [] OTHER -> {"warehouses.update"}]]
After(steps) == UNION {steps[i].makes : i \in DOMAIN steps}

(* A new database, one whose migrations are recorded and not there, one    *)
(* the repair finds empty, one it finds as it was before the workers' task *)
(* states, one with gaps of which the probe sees only the first, and one   *)
(* whose table of tasks is gone.                                           *)
WorldsHere ==
    {World("script", Objects, Objects, {"locations.manage", "locations.view"}),
     World("script", {"stations"}, {}, {}),
     World("direct", Repairable, {}, {}),
     World("direct", {"lifecycle", "task links"} \cup After(RepairChain) \cup After(RepairDisplays), {}, {}),
     World("direct", {"stations", "station_wh", "placement references", "lifecycle"}, {}, {}),
     World("direct", {"tasks", "task links", "station_display_messages"}, {}, {})}
=============================================================================
