---------------------------- MODULE MCFulfillment ----------------------------
(* Values of the constants of Fulfillment for the model checker.           *)
EXTENDS Fulfillment, TLC

CONSTANTS a1, a2, a3, k1, o1, o2, t1, b1, b2, b3, s1, s2, h1, h2, i1, i2, i3, c1, c2

(* An order for two units and one for a single unit of the same code.      *)
TwoAndOne == (o1 :> (k1 :> 2)) @@ (o2 :> (k1 :> 1))

(* The receiving line, and everything behind it.                           *)
LineAndFloor ==
    {{"scan", "close", "stage", "store"},
     {"scan", "createBin", "store", "assign", "reopen", "pack", "verify", "ship"}}

(* Two workers scan into one tote.                                         *)
ScansOnly == {{"scan"}}

NoStock == <<>>

Symmetric == Permutations(Articles) \cup Permutations(OpIds) \cup Permutations(Calls)
             \cup Permutations(Bins) \cup Permutations(Shipments) \cup Permutations(Stations)
=============================================================================
