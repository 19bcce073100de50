-------------------------------- MODULE GoodsDay --------------------------------
(***************************************************************************)
(* The way of goods through the building: cartons are announced, received  *)
(* and stowed (CartonFlow); the report of a receiving session hands its    *)
(* confirmed lines off (ReceivingReport); the stations of Temporary        *)
(* Storage scan the units of such moves into containers                    *)
(* (TemporaryStorage).  Each part runs in tables of its own: what one      *)
(* leaves to the next, an arrival or a move, is a row that the next only   *)
(* reads.  A behaviour shows one of the three.                             *)
(***************************************************************************)
EXTENDS CartonFlow

CONSTANTS
    Scenes,      \* what behaviours show
    Lines, Expected, Damages, Handlers,   \* of ReceivingReport
    Submits,     \* its handler calls
    Stations, Moves, Skus, Customers, SkuOf, CustomerOf,
    ConfirmedQuantity, OpIds, Codes, Capacities,   \* of TemporaryStorage
    Scans        \* its handler calls

VARIABLES
    scene,
    session, received, damaged, status, drafted, snapshot, moves, locked,
    submits, declared, paused,   \* of ReceivingReport
    capacity, move, container, item, scans   \* of TemporaryStorage

Rep == INSTANCE ReceivingReport WITH Requests <- Submits, req <- submits
TS == INSTANCE TemporaryStorage WITH Requests <- Scans, req <- scans

ASSUME GoodsAssumption ==
    /\ Scenes \subseteq {"cartons", "report", "storage"}
    /\ Rep!ReportAssumption
    /\ TS!StorageAssumption

reportScene == <<session, received, damaged, status, drafted, snapshot, moves,
                 locked, submits, declared, paused>>
storageScene == <<capacity, move, container, item, scans>>
goodsVars == <<vars, reportScene, storageScene, scene>>

(* What is not shown begins in one way.                                    *)
GoodsInit ==
    /\ scene \in Scenes
    /\ Init /\ Rep!Init /\ TS!Init
    /\ scene # "cartons" => handlers = CHOOSE h \in Workloads : TRUE
    /\ scene # "storage" => capacity = CHOOSE n \in Capacities : TRUE

GoodsNext ==
    \/ scene = "cartons" /\ Next /\ UNCHANGED <<reportScene, storageScene, scene>>
    \/ scene = "report" /\ Rep!Next /\ UNCHANGED <<vars, storageScene, scene>>
    \/ scene = "storage" /\ TS!Next /\ UNCHANGED <<vars, reportScene, scene>>

GoodsSpec == GoodsInit /\ [][GoodsNext]_goodsVars

-----------------------------------------------------------------------------
(* When no draft came before the submission, the goods of a line enter the *)
(* STAGING pool once, however many submits of the session overlap: the     *)
(* unique index on the session lets one create win                         *)
(* (receiving-reports.service.ts, submitReport).                           *)
HandedOffOnce == Rep!HandedOffOnce

(* Every unit lies in a container of its own customer, also when two calls *)
(* of different customers open the same container at once                  *)
(* (temporary-storage.service.ts, place).                                  *)
StoredWithItsCustomer == TS!StoredWithItsCustomer

(* One operation id makes one row, stored or in review: also when a device *)
(* repeats a scan whose first call is still running                        *)
(* (temporary-storage.service.ts, clientOperationId).                      *)
OneItemPerOperation == TS!OneItemPerOperation

(* A station loses a move it has taken only to an acceptance that was      *)
(* checked before: the claim of a placement never takes it away            *)
(* (temporary-storage.service.ts, the guarded update of place).            *)
PlaceNeverSteals == TS!PlaceNeverSteals
=============================================================================
