------------------------------- MODULE MCFloorDay -------------------------------
(* Values of the constants of FloorDay for the model checker: a run shows  *)
(* one scene, and gives the others as little as they can do with.          *)
EXTENDS FloorDay, TLC

CONSTANTS l1, l2, c1, o1, r1, r2, r3, r4, r5, q1, q2, s1, s2, w1, w2, p1, a1, a2,
          jArrival, jTote, jGoods, jBin, jParcel, jOther, jCarton, jNote

(* Receiving.  A card of two units and a card of one; a scan with an       *)
(* operation id is of two units.                                           *)
TwoLines == (l1 :> 2 @@ l2 :> 1)
SameLine == (o1 :> l1)
FirstQty == (o1 :> 2)
SameCarton == (o1 :> c1)

(* Tasks.  An arrival, its tote and the sorting of that; a bin, which may  *)
(* be packed twice, and its shipments; a carton to be stowed; an           *)
(* instruction.                                                            *)
KeyOf == (jArrival :> "receiving") @@ (jTote :> "container") @@ (jGoods :> "sorting")
         @@ (jBin :> "packing") @@ (jParcel :> "shipping") @@ (jOther :> "shipping")
         @@ (jCarton :> "putaway") @@ (jNote :> "instruction")
Chain == [j \in Jobs |-> CASE j = jArrival -> jTote [] j = jTote -> jGoods [] OTHER -> None]
ParcelsHere == [j \in Jobs |-> IF j = jBin THEN {jParcel, jOther} ELSE {}]

(* w1 may do everything, w2 everything but receive and fill totes.         *)
LaterKeys == {"sorting", "packing", "shipping", "putaway"}
RolesHere == (w1 :> LaterKeys \cup {"receiving", "container"}) @@ (w2 :> LaterKeys)
Places == (s1 :> "PACKING") @@ (s2 :> "SORTING")
OnePlace == (s1 :> "RECEIVING")

(* Calls are interchangeable.                                              *)
SameRequests == Permutations(Requests)
SameCalls == Permutations(Calls)

(* Without incidents; with interventions and failures, with instructions,  *)
(* and while the floor changes.                                            *)
QuietShifts == {{"receiving", "container", "sorting"}, {"packing", "shipping"}}
ShiftsHere == {{"packing", "shipping", "reopen"}, {"packing", "create"},
               {"packing", "cancel", "fail"}, {"packing", "block", "fail"},
               {"receiving", "container", "sorting", "cancel", "fail"},
               {"receiving", "container", "block"},
               {"putaway", "create", "stations"}, {"packing", "users"},
               {"instruction", "create", "complete"}}

(* Screens.                                                                *)
LinkHere == [p \in Pages |-> 1]

(* A profile that names a role, one that does not, and one for a screen    *)
(* with nothing to press.                                                  *)
ProfilesHere == {[view |-> "ALERTS"], [interactive |-> TRUE],
                 [interactive |-> TRUE, actions |-> {}, blocks |-> {"lastScan"}]}
(* One that hides another when a screen carries one message.              *)
TextsHere == {[severity |-> "URGENT", ack |-> TRUE], [severity |-> "INFO", ack |-> FALSE]}

SetsHere == {{"BOARD", "ALERTS"}}

DaysHere == {{"page", "outage", "floor"}, {"page", "press", "message"}, {"page", "press", "floor"},
             {"page", "link", "config"}, {"config", "create", "link"}, {"config", "bulk", "link"}}

NoDay == {{}}
Nothing == <<>>
=================================================================================
