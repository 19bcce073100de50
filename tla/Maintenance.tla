------------------------------ MODULE Maintenance ------------------------------
(***************************************************************************)
(* What operators and administrators do to an installation: they bring it  *)
(* up (Deployment), empty it (DataReset), or keep its staff (StaffPage).  A *)
(* behaviour shows one of the three: a container that starts and a reset   *)
(* meet only in rows that both leave alone, the roles, and nobody uses the *)
(* pages of an installation that is down or being emptied.                 *)
(***************************************************************************)
EXTENDS DataReset, Deployment

CONSTANTS
    Scenes,   \* what behaviours show
    Floors,   \* the sets of rows a reset can start from
    Forms, Codes, Posts, TaskKeys, MaxTries, NoPost   \* those of StaffPage

VARIABLES
    scene,
    form, account, bound, tasks, cancelled, late, unsure

S == INSTANCE StaffPage

ASSUME MaintenanceAssumption ==
    /\ Scenes \subseteq {"reset", "deploy", "staff"}
    /\ \A f \in Floors : /\ f \subseteq Row /\ "RECEIVING_WORKER" \in f
                        /\ \A r \in f : Parent[r] \subseteq f
    /\ S!StaffAssumption

staffVars == <<form, account, bound, tasks, cancelled, late, unsure>>
vars == <<resetVars, deployVars, staffVars, scene>>
Nobody == [f \in Furniture |-> Free]

NoReset == ResetFrom({}, Nobody)
NoDeploy == DeployFrom(CHOOSE w \in Worlds : TRUE)
NoForms ==
    /\ form = [f \in Forms |-> S!Closed] /\ account = [c \in Codes |-> S!NoAccount]
    /\ bound = [p \in Posts |-> NoPost]
    /\ tasks = {} /\ cancelled = {} /\ late = {} /\ unsure = {}

Init ==
    /\ scene \in Scenes
    /\ \/ /\ scene = "reset" /\ NoDeploy /\ NoForms
          /\ \E f \in Floors : \E who \in [Furniture -> {Free} \cup TestWorkers(f)] : ResetFrom(f, who)
       \/ scene = "deploy" /\ NoReset /\ NoForms /\ \E w \in Worlds : DeployFrom(w)
       \/ scene = "staff" /\ NoReset /\ NoDeploy /\ S!StaffInit

Next ==
    \/ scene = "reset" /\ ResetNext /\ UNCHANGED <<deployVars, staffVars, scene>>
    \/ scene = "deploy" /\ DeployNext /\ UNCHANGED <<resetVars, staffVars, scene>>
    \/ scene = "staff" /\ S!StaffNext /\ UNCHANGED <<resetVars, deployVars, scene>>

(* A container that is down or on its way up goes on: the platform starts  *)
(* it, and the calls it makes return.                                      *)
GoesOn(b) == scene = "deploy" /\ BootStep(b) /\ UNCHANGED <<resetVars, staffVars, scene>>

Spec == Init /\ [][Next]_vars
FairSpec == Spec /\ \A b \in Boots : WF_vars(GoesOn(b))

-----------------------------------------------------------------------------
(* Containers that seed at the same time take each other's rows and stop,  *)
(* but the platform starts them again, and in the end all of them are up,  *)
(* unless the schema is one that start.sh refuses (start.sh:15-21).        *)
AllComeUp ==
    (scene = "deploy" /\ (mode = "direct" \/ <>(lacks = {}))) => <>[]AllUp

(* A worker who is added gets the tasks of one form, each once, whatever   *)
(* fails on the way; only a task that is assigned by itself can be there   *)
(* twice, and only after a failure whose outcome the form does not know    *)
(* (Workers.tsx:417-447, 546-564).                                         *)
TasksAsAsked == S!TasksAsAsked
=============================================================================
