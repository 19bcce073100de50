------------------------------ MODULE MCGoodsDay ------------------------------
(* Values of the constants of GoodsDay for the model checker: the three    *)
(* scenes in one run.                                                      *)
EXTENDS GoodsDay, TLC

CONSTANTS k1, k2, s1, l1, l2, v1, v2, x1, r1, r2, shoe,
          g1, q1, q2, q3, b1, b2, a1, a2, w1, w2, o1, o2, o3

(* Cartons.  The shipment card and the card of k2 are about the same       *)
(* arrival; the shipment card lists k1, and so may a card of its own.      *)
ContentsHere == (s1 :> {k1})
RefHere == [e \in ShipmentCards \cup Cartons |-> x1]
ProductHere == [c \in Cartons |-> shoe]

Days == {{"card", "delete", "deleteArrival"},
         {"card", "start", "scan", "reset", "void"},
         {"scan", "reverse", "place", "void"},
         {"scan", "place", "open", "delete"},
         {"scan", "claim", "place"},
         {"scan", "place", "block"},
         {"scan", "place", "session"}}

(* The report: one line.                                                   *)
Two == (g1 :> 2)

(* Storage.  Four units of one product, and two single units of another:   *)
(* the first for the same customer, the second for somebody else.          *)
TwoSkus == (1 :> b1) @@ (2 :> b2) @@ (3 :> b2)
TwoCustomers == (1 :> a1) @@ (2 :> a1) @@ (3 :> a2)
FourOneOne == (1 :> 4) @@ (2 :> 1) @@ (3 :> 1)

(* Calls, workers, locations, stations and operation ids are               *)
(* interchangeable.  One exchange, of a and b and of c and d together,     *)
(* does for what belongs to different scenes.                              *)
Exchange(a, b, c, d) ==
    {p @@ [x \in {c, d} |-> IF p[a] = a THEN x ELSE IF x = c THEN d ELSE c] :
        p \in Permutations({a, b})}
SameGoods ==
    Exchange(r1, r2, q1, q2) \cup Exchange(v1, v2, w1, w2) \cup Exchange(l1, l2, o1, o2)
=============================================================================
