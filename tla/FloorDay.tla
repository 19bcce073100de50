-------------------------------- MODULE FloorDay --------------------------------
(***************************************************************************)
(* The floor at which goods arrive: receiving sessions (Receiving), the    *)
(* tasks that the workers are given as the work goes on (TaskDispatch),    *)
(* and the screens that show a station its session (StationScreens).  Each *)
(* part runs in tables of its own, and reads of the others no more than    *)
(* its module says.  A behaviour shows one of the three.                   *)
(***************************************************************************)
EXTENDS Receiving

CONSTANTS
    Scenes,      \* what behaviours show
    Stations,
    Workers, Roles, Place, Jobs, Key, Following, Parcels, MaxTasks, Calls,
    Shifts,      \* of TaskDispatch: what occurs in one behaviour
    Pages, LinkOf, Profiles, Sets, Texts, Admins, MaxDisplays, MaxLinks, MaxFloor,
    MaxMessages, Take, MaxActions, MaxOutages, MaxChanges,
    Days         \* of StationScreens: what occurs in one behaviour

VARIABLES
    scene,
    user, station, task, work, call, handlers,   \* of TaskDispatch
    display, issued, created, message, floor, calling, page, stream, read, acting,
    up, admin, used, events   \* of StationScreens

TD == INSTANCE TaskDispatch WITH Workloads <- Shifts
Scr == INSTANCE StationScreens WITH Workloads <- Days

ASSUME FloorAssumption ==
    /\ Scenes \subseteq {"receiving", "tasks", "screens"}
    /\ TD!DispatchAssumption
    /\ Scr!ScreensAssumption

taskScene == <<user, station, task, work, call, handlers>>
screenScene == <<display, issued, created, message, floor, calling, page, stream, read,
                 acting, up, admin, used, events>>
floorVars == <<vars, taskScene, screenScene, scene>>

FloorInit == scene \in Scenes /\ Init /\ TD!Init /\ Scr!Init

FloorNext ==
    \/ scene = "receiving" /\ Next /\ UNCHANGED <<taskScene, screenScene, scene>>
    \/ scene = "tasks" /\ TD!Next /\ UNCHANGED <<vars, screenScene, scene>>
    \/ scene = "screens" /\ Scr!Next /\ UNCHANGED <<vars, taskScene, scene>>

FloorSpec == FloorInit /\ [][FloorNext]_floorVars

(* Calls that are under way go on; in the other scenes there are none.     *)
FairFloorSpec == FloorSpec /\ Fairness /\ TD!Fairness

(* A behaviour of the screens, which go on as their module says.           *)
ScreenInit == FloorInit /\ scene = "screens"
FairScreenSpec == ScreenInit /\ [][FloorNext]_floorVars /\ Scr!Fairness

-----------------------------------------------------------------------------
(* Dispatch makes no task of a job that has one or is done, except in a    *)
(* call that saw none before (dispatch.service.ts).                        *)
NoNeedlessTask == TD!NoNeedlessTask

(* Work that becomes possible is given to somebody, when no call fails and *)
(* the floor keeps its workers (dispatch.service.ts).                      *)
WorkIsOffered == scene = "tasks" => TD!WorkIsOffered

(* A quiet station ends up on its screen (display-views.controller.ts).    *)
ScreenCatchesUp == scene = "screens" => Scr!ScreenCatchesUp

(* A page whose link is dead ends in the notice that it is not valid       *)
(* (StationDisplay.tsx).                                                   *)
DeadLinkGoesDark == scene = "screens" => Scr!DeadLinkGoesDark

(* The role of a screen changes only when an administrator asks for it     *)
(* (displays.service.ts).                                                  *)
RolesAsAsked == Scr!RolesAsAsked
=============================================================================
