------------------------------ MODULE GoodsProofs ------------------------------
(***************************************************************************)
(* Theorems about the way of goods through the building, for every number  *)
(* of cartons, cards, arrivals, locations, report lines, stations, moves,  *)
(* containers and concurrent handler calls.                                *)
(***************************************************************************)
EXTENDS GoodsDay, FiniteSetTheorems, TLAPS

(* A day of each scene is a behaviour of its module: in the other scenes   *)
(* its variables stay as they are.                                         *)
LEMMA CartonScene == GoodsSpec => Spec
  <1>1. GoodsInit => Init
    BY DEF GoodsInit
  <1>2. [GoodsNext]_goodsVars => [Next]_vars
    BY DEF GoodsNext, goodsVars
  <1> QED
    BY <1>1, <1>2, PTL DEF GoodsSpec, Spec

LEMMA ReportScene == GoodsSpec => Rep!Spec
  <1>1. GoodsInit => Rep!Init
    BY DEF GoodsInit
  <1>2. [GoodsNext]_goodsVars => [Rep!Next]_Rep!vars
    BY DEF GoodsNext, goodsVars, reportScene, Rep!vars
  <1> QED
    BY <1>1, <1>2, PTL DEF GoodsSpec, Rep!Spec

LEMMA StorageScene == GoodsSpec => TS!Spec
  <1>1. GoodsInit => TS!Init
    BY DEF GoodsInit
  <1>2. [GoodsNext]_goodsVars => [TS!Next]_TS!vars
    BY DEF GoodsNext, goodsVars, storageScene, TS!vars
  <1> QED
    BY <1>1, <1>2, PTL DEF GoodsSpec, TS!Spec

LEMMA ReportAssumed == Rep!ReportAssumption
  BY GoodsAssumption

LEMMA StorageAssumed == TS!StorageAssumption
  BY GoodsAssumption

-----------------------------------------------------------------------------
(***************************************************************************)
(* Cartons.                                                                *)
(***************************************************************************)
CartonStages == {"scan", "void", "delete", "reverse", "claim", "place", "placing"}

(* The rows a call has read are there, or the call has failed; and what    *)
(* came to an arrival after its deletion had looked is remembered.         *)
CallStands(k) ==
    /\ call[k].at \in CartonStages => Exists(call[k].carton)
    /\ (call[k].at = "shipment" /\ call[k].arrival # None) =>
         /\ arrival[call[k].arrival] # NoRow
         /\ arrival[call[k].arrival].ref = Ref[call[k].card]
    /\ (call[k].at = "card" /\ call[k].arrival # None) =>
         /\ arrival[call[k].arrival] # NoRow
         /\ arrival[call[k].arrival].ref = Ref[call[k].carton]
    /\ call[k].at \in {"start", "voidArrival", "deleteArrival"} =>
         arrival[call[k].arrival] # NoRow
    /\ call[k].at = "deleteArrival" =>
         \A e \in ShipmentsOf(call[k].arrival) \ call[k].shipments :
             <<arrival[call[k].arrival].ref, "deleteArrival", "card">> \in overlap

(* A carton is on a shipment.                                              *)
CartonStands(c) == Exists(c) => shipment[carton[c].shipment] # NoRow

(* A carton is counted in an arrival once at most, and not beside the      *)
(* customer card; a line that is linked is of the arrival its carton is    *)
(* of; and a carton of an arrival has a line, or one that is of no carton  *)
(* stands for it.                                                          *)
AtMostOnce(c, a) == items[c][a].linked + items[c][a].loose <= 1
LinkedStands(c, a) == items[c][a].linked > 0 => Exists(c) /\ ArrivalOf(c) = a
NotBeside(c, a) ==
    arrival[a] # NoRow /\ Product[c] \in arrival[a].declared => items[c][a] = Uncounted
Counts(c, a) == Exists(c) /\ ArrivalOf(c) = a => items[c][a].linked = 1 \/ Mirrored(c, a)
LinesStand ==
    \A c \in Cartons, a \in Arrivals :
        AtMostOnce(c, a) /\ LinkedStands(c, a) /\ NotBeside(c, a) /\ Counts(c, a)

FlowInv ==
    /\ TypeOK
    /\ \A k \in Calls : CallStands(k)
    /\ \A c \in Cartons : CartonStands(c)
    /\ LocatedIsPlaced
    /\ NoOrphanCarton
    /\ LinesStand

-----------------------------------------------------------------------------
(* What a call has read is determined by its stage.                        *)
LEMMA CallFields ==
    ASSUME TypeOK, NEW r \in Calls
    PROVE  /\ call[r].at = "shipment" =>
                call[r] \in [at : {"shipment"}, card : ShipmentCards, arrival : Arrivals \cup {None}]
           /\ call[r].at = "card" =>
                call[r] \in [at : {"card"}, carton : Cartons, arrival : Arrivals \cup {None}]
           /\ call[r].at \in {"start", "voidArrival"} => call[r].arrival \in Arrivals
           /\ call[r].at = "deleteArrival" =>
                call[r] \in [at : {"deleteArrival"}, arrival : Arrivals, shipments : SUBSET Externals]
           /\ call[r].at \in CartonStages => call[r].carton \in Cartons
           /\ call[r].at = "reverse" => call[r].receipt \in 1 .. MaxReceipts
           /\ call[r].at = "claim" => call[r].worker \in Workers
           /\ call[r].at = "session" => call[r].worker \in Workers
           /\ call[r].at = "place" => call[r].location \in Locations
           /\ call[r].at = "placing" =>
                call[r] \in [at : {"placing"}, carton : Cartons, location : Locations,
                             from : Locations \cup {None}, seen : SUBSET (1 .. MaxPlaces)]
  <1>1. call[r] \in Call
    BY DEF TypeOK
  <1> QED
    BY <1>1 DEF Call, Idle, CartonStages

LEMMA RowKinds ==
    /\ \A x \in Carton : x # NoRow
    /\ \A x \in Arrival : x # NoRow
    /\ \A x \in Shipment : x # NoRow
    /\ \A x \in Session : x # NoRow
    /\ Idle \in Call /\ Idle.at = "idle"
  BY DEF Carton, Arrival, Shipment, Session, NoRow, Call, Idle

(* A call that has failed or answered stands on nothing.                   *)
LEMMA IdleStands ==
    ASSUME NEW k \in Calls, call'[k] = Idle
    PROVE  CallStands(k)'
  BY DEF CallStands, Idle, CartonStages

(* The calls after a return, and after rows have gone.                     *)
LEMMA ReturnType ==
    ASSUME TypeOK, NEW r \in Calls, Return(r)
    PROVE  /\ call' \in [Calls -> Call] /\ handlers' = handlers
           /\ \A k \in Calls : call'[k] = IF k = r THEN Idle ELSE call[k]
  BY RowKinds DEF TypeOK, Return

LEMMA FailType ==
    ASSUME TypeOK, NEW dead \in SUBSET Calls, Fail(dead)
    PROVE  /\ call' \in [Calls -> Call] /\ handlers' = handlers
           /\ \A k \in Calls : call'[k] = IF k \in dead THEN Idle ELSE call[k]
  BY RowKinds DEF TypeOK, Fail

(* Whoever commits, what was overtaken stays so.                           *)
LEMMA OvertakeGrows ==
    ASSUME NEW r, NEW s, NEW w, Overtake(r, s, w)
    PROVE  overlap \subseteq overlap'
  BY DEF Overtake

(* A card that comes to an arrival overtakes the deletions of it.          *)
LEMMA CardOvertakes ==
    ASSUME NEW r \in Calls, NEW x, Overtake(r, {x}, "card"),
           NEW k \in Calls, k # r, call[k].at = "deleteArrival",
           arrival[call[k].arrival].ref = x
    PROVE  <<x, "deleteArrival", "card">> \in overlap'
  <1>1. About(k) = {x}
    BY DEF About, At
  <1>2. <<call[k].at, "card">> \in Overtaken
    BY DEF Overtaken
  <1> QED
    BY <1>1, <1>2 DEF Overtake

-----------------------------------------------------------------------------
(* Steps that leave arrivals and shipments alone, and let no carton come   *)
(* or go.                                                                  *)
CartonsKeep ==
    \A c \in Cartons : /\ Exists(c)' <=> Exists(c)
                       /\ Exists(c) => carton'[c].shipment = carton[c].shipment

LEMMA CallsKept ==
    ASSUME FlowInv, CartonsKeep, UNCHANGED <<arrival, shipment>>, overlap \subseteq overlap',
           NEW k \in Calls, call'[k] = call[k]
    PROVE  CallStands(k)'
  <1>1. CallStands(k) /\ TypeOK
    BY DEF FlowInv
  <1>2. call[k].at \in CartonStages => call[k].carton \in Cartons
    BY <1>1, CallFields
  <1> QED
    BY <1>1, <1>2 DEF CallStands, CartonsKeep, ShipmentsOf

LEMMA RowsKept ==
    ASSUME FlowInv, CartonsKeep, UNCHANGED <<arrival, shipment>>, overlap \subseteq overlap'
    PROVE  NoOrphanCarton' /\ \A c \in Cartons : CartonStands(c)'
  <1>1. \A c \in Cartons : CartonStands(c)'
    BY DEF FlowInv, CartonStands, CartonsKeep
  <1>2. NoOrphanCarton'
    BY DEF FlowInv, NoOrphanCarton, CartonsKeep, ArrivalOf, Overlapped
  <1> QED
    BY <1>1, <1>2

ArrivalsKeep ==
    \A a \in Arrivals : /\ arrival'[a] = NoRow <=> arrival[a] = NoRow
                        /\ arrival[a] # NoRow => arrival'[a].declared = arrival[a].declared

LEMMA LinesKept ==
    ASSUME FlowInv, CartonsKeep, ArrivalsKeep, UNCHANGED <<shipment, items>>
    PROVE  LinesStand'
  <1> SUFFICES ASSUME NEW c \in Cartons, NEW a \in Arrivals
               PROVE  (AtMostOnce(c, a) /\ LinkedStands(c, a) /\ NotBeside(c, a) /\ Counts(c, a))'
    BY DEF LinesStand
  <1>1. AtMostOnce(c, a) /\ LinkedStands(c, a) /\ NotBeside(c, a) /\ Counts(c, a)
    BY DEF FlowInv, LinesStand
  <1>2. (Exists(c)' <=> Exists(c)) /\ (Exists(c) => ArrivalOf(c)' = ArrivalOf(c))
    BY DEF CartonsKeep, ArrivalOf
  <1>3. /\ arrival'[a] = NoRow <=> arrival[a] = NoRow
        /\ arrival[a] # NoRow => arrival'[a].declared = arrival[a].declared
    BY DEF ArrivalsKeep
  <1>4. Mirrored(c, a) => Mirrored(c, a)'
    BY <1>3 DEF Mirrored
  <1> QED
    BY <1>1, <1>2, <1>3, <1>4 DEF AtMostOnce, LinkedStands, NotBeside, Counts

(* A step of these changes the status, the claim or the place of cartons,  *)
(* and every call goes on, ends or is the one that moves.                  *)
LEMMA QuietKeeps ==
    ASSUME FlowInv, TypeOK', CartonsKeep, UNCHANGED <<arrival, shipment, items>>,
           overlap \subseteq overlap', LocatedIsPlaced',
           \A k \in Calls : call'[k] = call[k] \/ call'[k] = Idle \/ CallStands(k)'
    PROVE  FlowInv'
  <1>1. \A k \in Calls : CallStands(k)'
    BY CallsKept, IdleStands
  <1>2. ArrivalsKeep
    BY DEF ArrivalsKeep
  <1> QED
    BY <1>1, <1>2, RowsKept, LinesKept DEF FlowInv

(* Only the database reads: one call has read.                             *)
LEMMA ReadKeeps ==
    ASSUME FlowInv, NEW r \in Calls, NEW x \in Call, Reads(r, x), CallStands(r)'
    PROVE  FlowInv'
  <1>1. /\ UNCHANGED <<arrival, shipment, items, carton, receipts, placements, putaway, blocked,
                       opened, overlap, handlers>>
        /\ call' = [call EXCEPT ![r] = x]
    BY DEF Reads, cards, history, floor
  <1>2. TypeOK'
    BY <1>1 DEF FlowInv, TypeOK
  <1>3. CartonsKeep /\ LocatedIsPlaced'
    BY <1>1 DEF FlowInv, CartonsKeep, Exists, LocatedIsPlaced, OpenPlaces
  <1>4. \A k \in Calls : call'[k] = call[k] \/ CallStands(k)'
    BY <1>1 DEF FlowInv, TypeOK
  <1> QED
    BY <1>1, <1>2, <1>3, <1>4, QuietKeeps

-----------------------------------------------------------------------------
(* The first steps of the calls                                            *)
ReadStep(r) ==
    \/ \E s \in ShipmentCards : ReceiveShipment(r, s)
    \/ \E c \in Cartons :
          \/ ReceiveCartonCard(r, c) \/ ConfirmCarton(r, c) \/ ReverseCarton(r, c)
          \/ VoidCarton(r, c) \/ DeleteCarton(r, c)
          \/ \E w \in Workers : ClaimCarton(r, c, w)
          \/ \E l \in Locations : Place(r, c, l)
    \/ \E a \in Arrivals : Start(r, a) \/ VoidArrival(r, a) \/ DeleteArrival(r, a)
    \/ \E w \in Workers : StartPutaway(r, w)
    \/ PlaceReads(r)

(* What a read must show for the call to stand on it.                      *)
ReadStands(x) ==
    /\ x.at \in CartonStages => Exists(x.carton)
    /\ (x.at = "shipment" /\ x.arrival # None) =>
         arrival[x.arrival] # NoRow /\ arrival[x.arrival].ref = Ref[x.card]
    /\ (x.at = "card" /\ x.arrival # None) =>
         arrival[x.arrival] # NoRow /\ arrival[x.arrival].ref = Ref[x.carton]
    /\ x.at \in {"start", "voidArrival", "deleteArrival"} => arrival[x.arrival] # NoRow
    /\ x.at = "deleteArrival" => ShipmentsOf(x.arrival) \subseteq x.shipments

LEMMA ReadIsKept ==
    ASSUME FlowInv, NEW r \in Calls, NEW x \in Call, Reads(r, x), ReadStands(x)
    PROVE  FlowInv'
  <1>1. /\ UNCHANGED <<arrival, shipment, carton, overlap>>
        /\ call' = [call EXCEPT ![r] = x]
    BY DEF Reads, cards, history, floor
  <1>2. call'[r] = x
    BY <1>1 DEF FlowInv, TypeOK
  <1>3. CallStands(r)'
    BY <1>1, <1>2 DEF CallStands, ReadStands, Exists, ShipmentsOf
  <1> QED
    BY <1>3, ReadKeeps

LEMMA LookupFinds ==
    ASSUME TypeOK, NEW x \in Refs, NEW a \in Lookup(x)
    PROVE  a \in Arrivals \cup {None} /\ (a # None => arrival[a] # NoRow /\ arrival[a].ref = x)
  BY DEF Lookup, ArrivalsOf

LEMMA ReadStepsKeep ==
    ASSUME FlowInv, NEW r \in Calls, ReadStep(r)
    PROVE  FlowInv'
  <1> USE CartonAssumption
  <1>0. TypeOK
    BY DEF FlowInv
  <1>1. ASSUME NEW s \in ShipmentCards, ReceiveShipment(r, s)
        PROVE  FlowInv'
    <2>1. PICK a \in Lookup(Ref[s]) : Reads(r, [at |-> "shipment", card |-> s, arrival |-> a])
      BY <1>1 DEF ReceiveShipment
    <2>2. Ref[s] \in Refs
      OBVIOUS
    <2>3. a \in Arrivals \cup {None} /\ (a # None => arrival[a] # NoRow /\ arrival[a].ref = Ref[s])
      BY <1>0, <2>2, LookupFinds
    <2> DEFINE x == [at |-> "shipment", card |-> s, arrival |-> a]
    <2>4. x \in Call /\ ReadStands(x)
      BY <2>3 DEF Call, ReadStands, CartonStages
    <2> QED
      BY <2>1, <2>4, ReadIsKept
  <1>2. ASSUME NEW c \in Cartons, ReceiveCartonCard(r, c)
        PROVE  FlowInv'
    <2>1. PICK a \in Lookup(Ref[c]) : Reads(r, [at |-> "card", carton |-> c, arrival |-> a])
      BY <1>2 DEF ReceiveCartonCard
    <2>2. Ref[c] \in Refs
      OBVIOUS
    <2>3. a \in Arrivals \cup {None} /\ (a # None => arrival[a] # NoRow /\ arrival[a].ref = Ref[c])
      BY <1>0, <2>2, LookupFinds
    <2> DEFINE x == [at |-> "card", carton |-> c, arrival |-> a]
    <2>4. x \in Call /\ ReadStands(x)
      BY <2>3 DEF Call, ReadStands, CartonStages
    <2> QED
      BY <2>1, <2>4, ReadIsKept
  <1>3. ASSUME NEW c \in Cartons, ConfirmCarton(r, c) \/ VoidCarton(r, c) \/ DeleteCarton(r, c)
        PROVE  FlowInv'
    <2>1. PICK t \in {"scan", "void", "delete"} : Reads(r, [at |-> t, carton |-> c]) /\ Exists(c)
      BY <1>3 DEF ConfirmCarton, VoidCarton, DeleteCarton
    <2> DEFINE x == [at |-> t, carton |-> c]
    <2>2. x \in Call /\ ReadStands(x)
      BY <2>1 DEF Call, ReadStands
    <2> QED
      BY <2>1, <2>2, ReadIsKept
  <1>4. ASSUME NEW c \in Cartons, ReverseCarton(r, c)
        PROVE  FlowInv'
    <2>1. PICK i \in DOMAIN receipts[c] :
             Reads(r, [at |-> "reverse", carton |-> c, receipt |-> i]) /\ Exists(c)
      BY <1>4 DEF ReverseCarton
    <2>2. i \in 1 .. MaxReceipts
      BY <1>0 DEF TypeOK
    <2> DEFINE x == [at |-> "reverse", carton |-> c, receipt |-> i]
    <2>3. x \in Call /\ ReadStands(x)
      BY <2>1, <2>2 DEF Call, ReadStands
    <2> QED
      BY <2>1, <2>3, ReadIsKept
  <1>5. ASSUME NEW c \in Cartons, NEW w \in Workers, ClaimCarton(r, c, w)
        PROVE  FlowInv'
    <2> DEFINE x == [at |-> "claim", carton |-> c, worker |-> w]
    <2>1. Reads(r, x) /\ x \in Call /\ ReadStands(x)
      BY <1>5 DEF ClaimCarton, Awaiting, Call, ReadStands
    <2> QED
      BY <2>1, ReadIsKept
  <1>6. ASSUME NEW c \in Cartons, NEW l \in Locations, Place(r, c, l)
        PROVE  FlowInv'
    <2> DEFINE x == [at |-> "place", carton |-> c, location |-> l]
    <2>1. Reads(r, x) /\ x \in Call /\ ReadStands(x)
      BY <1>6 DEF Place, Stowable, Call, ReadStands
    <2> QED
      BY <2>1, ReadIsKept
  <1>7. ASSUME NEW a \in Arrivals, Start(r, a) \/ VoidArrival(r, a)
        PROVE  FlowInv'
    <2>1. PICK t \in {"start", "voidArrival"} :
             Reads(r, [at |-> t, arrival |-> a]) /\ arrival[a] # NoRow
      BY <1>7 DEF Start, VoidArrival
    <2> DEFINE x == [at |-> t, arrival |-> a]
    <2>2. x \in Call /\ ReadStands(x)
      BY <2>1 DEF Call, ReadStands, CartonStages
    <2> QED
      BY <2>1, <2>2, ReadIsKept
  <1>8. ASSUME NEW a \in Arrivals, DeleteArrival(r, a)
        PROVE  FlowInv'
    <2> DEFINE x == [at |-> "deleteArrival", arrival |-> a, shipments |-> ShipmentsOf(a)]
    <2>1. Reads(r, x) /\ arrival[a] # NoRow
      BY <1>8 DEF DeleteArrival, Found
    <2>2. ShipmentsOf(a) \in SUBSET Externals
      BY DEF ShipmentsOf
    <2>3. x \in Call /\ ReadStands(x)
      BY <2>1, <2>2 DEF Call, ReadStands, CartonStages
    <2> QED
      BY <2>1, <2>3, ReadIsKept
  <1>9. ASSUME NEW w \in Workers, StartPutaway(r, w)
        PROVE  FlowInv'
    <2> DEFINE x == [at |-> "session", worker |-> w]
    <2>1. Reads(r, x) /\ x \in Call /\ ReadStands(x)
      BY <1>9 DEF StartPutaway, Call, ReadStands, CartonStages
    <2> QED
      BY <2>1, ReadIsKept
  <1>10. ASSUME PlaceReads(r)
         PROVE  FlowInv'
    <2> DEFINE c == call[r].carton
               x == [at |-> "placing", carton |-> c, location |-> call[r].location,
                     from |-> carton[c].location, seen |-> OpenPlaces(c)]
    <2>1. /\ c \in Cartons /\ call[r].location \in Locations /\ Exists(c)
      BY <1>0, <1>10, CallFields DEF PlaceReads, At, FlowInv, CallStands, CartonStages
    <2>2. carton[c] \in Carton
      BY <1>0, <2>1 DEF TypeOK, Exists
    <2>3. OpenPlaces(c) \in SUBSET (1 .. MaxPlaces)
      BY <1>0, <2>1 DEF TypeOK, OpenPlaces
    <2>4. x \in Call /\ ReadStands(x)
      BY <2>1, <2>2, <2>3 DEF Call, ReadStands, Carton, CartonStages
    <2>5. Idle \in Call /\ ReadStands(Idle)
      BY RowKinds DEF ReadStands, CartonStages
    <2>6. Reads(r, Idle) \/ Reads(r, x)
      BY <1>10 DEF PlaceReads
    <2> QED
      BY <2>4, <2>5, <2>6, ReadIsKept
  <1> QED
    BY <1>1, <1>2, <1>3, <1>4, <1>5, <1>6, <1>7, <1>8, <1>9, <1>10 DEF ReadStep

-----------------------------------------------------------------------------
(* The floor: sessions of putaway, locations, articles                     *)
FloorStep ==
    \/ \E r \in Calls, c \in Cartons : ScanArticle(r, c)
    \/ \E r \in Calls : PutawayStarted(r) \/ CardFails(r)
    \/ \E s \in Sessions : PausePutaway(s) \/ ResumePutaway(s) \/ CompletePutaway(s)
    \/ \E l \in Locations : BlockLocation(l) \/ UnblockLocation(l)

LEMMA FloorKeeps ==
    ASSUME FlowInv, FloorStep
    PROVE  FlowInv'
  <1>0. TypeOK
    BY DEF FlowInv
  <1>1. ASSUME UNCHANGED <<arrival, shipment, items, carton, receipts, placements>>,
               putaway' \in [Sessions -> Session \cup {NoRow}], blocked' \subseteq Locations,
               opened' \subseteq Cartons, call' \in [Calls -> Call], handlers' = handlers,
               overlap \subseteq overlap',
               \A k \in Calls : call'[k] = call[k] \/ call'[k] = Idle
        PROVE  FlowInv'
    <2>1. TypeOK'
      BY <1>0, <1>1 DEF TypeOK
    <2>2. CartonsKeep /\ LocatedIsPlaced'
      BY <1>1 DEF FlowInv, CartonsKeep, Exists, LocatedIsPlaced, OpenPlaces
    <2> QED
      BY <1>1, <2>1, <2>2, QuietKeeps
  <1>2. ASSUME NEW r \in Calls, NEW c \in Cartons, ScanArticle(r, c)
        PROVE  FlowInv'
    BY <1>0, <1>1, <1>2, OvertakeGrows DEF ScanArticle, cards, history, TypeOK
  <1>3. ASSUME NEW r \in Calls, PutawayStarted(r)
        PROVE  FlowInv'
    <2>1. call[r].worker \in Workers
      BY <1>0, <1>3, CallFields DEF PutawayStarted, At
    <2>2. [worker |-> call[r].worker, status |-> "ACTIVE"] \in Session
      BY <2>1 DEF Session
    <2>3. putaway' \in [Sessions -> Session \cup {NoRow}]
      BY <1>0, <1>3, <2>2 DEF PutawayStarted, TypeOK
    <2> QED
      BY <1>0, <1>1, <1>3, <2>3, ReturnType DEF PutawayStarted, cards, history, TypeOK
  <1>4. ASSUME NEW r \in Calls, CardFails(r)
        PROVE  FlowInv'
    BY <1>0, <1>1, <1>4, ReturnType DEF CardFails, cards, history, floor, TypeOK
  <1>5. ASSUME NEW s \in Sessions, NEW t \in {"PAUSED", "ACTIVE", "COMPLETED"}, SetPutaway(s, t)
        PROVE  FlowInv'
    <2>1. putaway[s] \in Session /\ putaway' = [putaway EXCEPT ![s] = [putaway[s] EXCEPT !.status = t]]
      BY <1>0, <1>5 DEF SetPutaway, TypeOK
    <2>2. [putaway[s] EXCEPT !.status = t] \in Session
      BY <2>1 DEF Session
    <2>3. putaway' \in [Sessions -> Session \cup {NoRow}]
      BY <1>0, <2>1, <2>2 DEF TypeOK
    <2> QED
      BY <1>0, <1>1, <1>5, <2>3 DEF SetPutaway, cards, history, TypeOK
  <1>6. ASSUME NEW l \in Locations, BlockLocation(l)
        PROVE  FlowInv'
    BY <1>0, <1>1, <1>6, OvertakeGrows DEF BlockLocation, cards, history, TypeOK
  <1>7. ASSUME NEW l \in Locations, UnblockLocation(l)
        PROVE  FlowInv'
    BY <1>0, <1>1, <1>7 DEF UnblockLocation, cards, history, TypeOK
  <1> QED
    BY <1>2, <1>3, <1>4, <1>5, <1>6, <1>7
    DEF FloorStep, PausePutaway, ResumePutaway, CompletePutaway


-----------------------------------------------------------------------------
(* Steps that change a carton                                              *)
LEMMA CartonChanges ==
    ASSUME FlowInv, NEW c \in Cartons, Exists(c), NEW x \in Carton,
           x.shipment = carton[c].shipment, carton' = [carton EXCEPT ![c] = x]
    PROVE  /\ carton' \in [Cartons -> Carton \cup {NoRow}] /\ CartonsKeep
           /\ \A d \in Cartons : carton'[d] = IF d = c THEN x ELSE carton[d]
  <1>1. \A d \in Cartons : carton'[d] = IF d = c THEN x ELSE carton[d]
    BY DEF FlowInv, TypeOK
  <1>2. x # NoRow
    BY RowKinds
  <1> QED
    BY <1>1, <1>2 DEF CartonsKeep, Exists, FlowInv, TypeOK

(* The status and the claim of a carton, whose place stays.                *)
LEMMA StatusKeeps ==
    ASSUME FlowInv, NEW c \in Cartons, Exists(c), NEW x \in Carton,
           x.shipment = carton[c].shipment, x.location = carton[c].location,
           carton' = [carton EXCEPT ![c] = x],
           UNCHANGED <<arrival, shipment, items, placements, putaway, blocked, opened>>,
           receipts' \in [Cartons -> Seq({"RECEIVED", "REVERSED"})],
           \A d \in Cartons : Len(receipts'[d]) <= MaxReceipts,
           call' \in [Calls -> Call], handlers' = handlers, overlap \subseteq overlap',
           \A k \in Calls : call'[k] = call[k] \/ call'[k] = Idle
    PROVE  FlowInv'
  <1>1. /\ carton' \in [Cartons -> Carton \cup {NoRow}] /\ CartonsKeep
        /\ \A d \in Cartons : carton'[d] = IF d = c THEN x ELSE carton[d]
    BY CartonChanges
  <1>2. TypeOK'
    BY <1>1 DEF FlowInv, TypeOK
  <1>3. LocatedIsPlaced'
    BY <1>1 DEF FlowInv, LocatedIsPlaced, Exists, OpenPlaces
  <1> QED
    BY <1>1, <1>2, <1>3, QuietKeeps

(* The carton of a call that stands on it.                                 *)
LEMMA CallCarton ==
    ASSUME FlowInv, NEW r \in Calls, call[r].at \in CartonStages
    PROVE  call[r].carton \in Cartons /\ Exists(call[r].carton) /\ carton[call[r].carton] \in Carton
  <1>1. call[r].carton \in Cartons
    BY CallFields DEF FlowInv
  <1>2. Exists(call[r].carton)
    BY DEF FlowInv, CallStands
  <1> QED
    BY <1>1, <1>2 DEF FlowInv, TypeOK, Exists

StatusStep ==
    \/ \E r \in Calls : Confirmed(r) \/ Reversed(r) \/ Claimed(r) \/ CartonVoided(r)
    \/ \E c \in Cartons : ClaimExpires(c) \/ \E w \in Workers : ReleaseCarton(c, w)

LEMMA StatusStepsKeep ==
    ASSUME FlowInv, StatusStep
    PROVE  FlowInv'
  <1> DEFINE Histories == [Cartons -> Seq({"RECEIVED", "REVERSED"})]
  <1>0. /\ TypeOK /\ receipts \in Histories /\ call \in [Calls -> Call]
        /\ \A d \in Cartons : Len(receipts[d]) <= MaxReceipts
        /\ \A k \in Calls : call[k] = call[k]
    BY DEF FlowInv, TypeOK
  <1>1. ASSUME NEW x \in Carton
        PROVE  /\ \A t \in {"EXPECTED", "RECEIVED", "VOIDED"} :
                     /\ [x EXCEPT !.status = t] \in Carton
                     /\ [x EXCEPT !.status = t].shipment = x.shipment
                     /\ [x EXCEPT !.status = t].location = x.location
               /\ \A m \in Claim :
                     /\ [x EXCEPT !.claim = m] \in Carton
                     /\ [x EXCEPT !.claim = m].shipment = x.shipment
                     /\ [x EXCEPT !.claim = m].location = x.location
    BY DEF Carton
  <1>2. ASSUME NEW r \in Calls, Return(r), overlap \subseteq overlap',
               NEW c \in Cartons, Exists(c), carton[c] \in Carton,
               NEW t \in {"EXPECTED", "RECEIVED", "VOIDED"}, carton' = [carton EXCEPT ![c].status = t],
               UNCHANGED <<arrival, shipment, items, placements, putaway, blocked, opened>>,
               receipts' \in Histories, \A d \in Cartons : Len(receipts'[d]) <= MaxReceipts
        PROVE  FlowInv'
    <2> DEFINE x == [carton[c] EXCEPT !.status = t]
    <2>1. x \in Carton /\ x.shipment = carton[c].shipment /\ x.location = carton[c].location
      BY <1>1, <1>2
    <2>2. carton' = [carton EXCEPT ![c] = x]
      BY <1>2
    <2> HIDE DEF x
    <2> QED
      BY <1>0, <1>2, <2>1, <2>2, StatusKeeps, ReturnType
  <1>3. ASSUME NEW r \in Calls, Confirmed(r)
        PROVE  FlowInv'
    <2>1. PICK c \in Cartons : c = call[r].carton /\ Exists(c) /\ carton[c] \in Carton
      BY <1>3, CallCarton DEF Confirmed, At, CartonStages
    <2>2. /\ Len(receipts[c]) < MaxReceipts
          /\ receipts' = [receipts EXCEPT ![c] = Append(@, "RECEIVED")]
          /\ carton' = [carton EXCEPT ![c].status = "RECEIVED"]
      BY <1>3, <2>1 DEF Confirmed
    <2>3. receipts' \in Histories /\ \A d \in Cartons : Len(receipts'[d]) <= MaxReceipts
      <3>1. Append(receipts[c], "RECEIVED") \in Seq({"RECEIVED", "REVERSED"})
            /\ Len(Append(receipts[c], "RECEIVED")) = Len(receipts[c]) + 1
        BY <1>0
      <3>2. Len(receipts[c]) \in Nat /\ MaxReceipts \in Nat
        BY <1>0, CartonAssumption
      <3> QED
        BY <1>0, <2>2, <3>1, <3>2
    <2> QED
      BY <1>2, <1>3, <2>1, <2>2, <2>3 DEF Confirmed, cards, floor
  <1>4. ASSUME NEW r \in Calls, Reversed(r)
        PROVE  FlowInv'
    <2>1. PICK c \in Cartons : c = call[r].carton /\ Exists(c) /\ carton[c] \in Carton
      BY <1>4, CallCarton DEF Reversed, At, CartonStages
    <2>2. PICK i : i = call[r].receipt
      OBVIOUS
    <2>3. /\ receipts' = [receipts EXCEPT ![c][i] = "REVERSED"]
          /\ carton' = [carton EXCEPT ![c].status = "EXPECTED"]
          /\ overlap \subseteq overlap'
      BY <1>4, <2>1, <2>2, OvertakeGrows DEF Reversed
    <2> DEFINE t == [receipts[c] EXCEPT ![i] = "REVERSED"]
    <2>4. t \in Seq({"RECEIVED", "REVERSED"}) /\ Len(t) = Len(receipts[c])
      <3>1. receipts[c] \in [1 .. Len(receipts[c]) -> {"RECEIVED", "REVERSED"}]
            /\ Len(receipts[c]) \in Nat
        BY <1>0
      <3>2. t \in [1 .. Len(receipts[c]) -> {"RECEIVED", "REVERSED"}]
        BY <3>1
      <3> QED
        BY <3>1, <3>2
    <2>5. receipts' = [receipts EXCEPT ![c] = t]
      BY <2>3
    <2> HIDE DEF t
    <2>6. receipts' \in Histories /\ \A d \in Cartons : Len(receipts'[d]) <= MaxReceipts
      BY <1>0, <2>4, <2>5
    <2> QED
      BY <1>2, <1>4, <2>1, <2>3, <2>6 DEF Reversed, cards, floor
  <1>5. ASSUME NEW r \in Calls, CartonVoided(r)
        PROVE  FlowInv'
    <2>1. PICK c \in Cartons : c = call[r].carton /\ Exists(c) /\ carton[c] \in Carton
      BY <1>5, CallCarton DEF CartonVoided, At, CartonStages
    <2>2. carton' = [carton EXCEPT ![c].status = "VOIDED"] /\ overlap \subseteq overlap'
      BY <1>5, <2>1, OvertakeGrows DEF CartonVoided
    <2> QED
      BY <1>0, <1>2, <1>5, <2>1, <2>2 DEF CartonVoided, cards, history, floor
  <1>6. ASSUME NEW c \in Cartons, Exists(c), carton[c] \in Carton, NEW m \in Claim,
               carton' = [carton EXCEPT ![c].claim = m],
               UNCHANGED <<arrival, shipment, items, receipts, placements, putaway, blocked, opened>>,
               call' \in [Calls -> Call], handlers' = handlers, overlap \subseteq overlap',
               \A k \in Calls : call'[k] = call[k] \/ call'[k] = Idle
        PROVE  FlowInv'
    <2> DEFINE x == [carton[c] EXCEPT !.claim = m]
    <2>1. x \in Carton /\ x.shipment = carton[c].shipment /\ x.location = carton[c].location
      BY <1>1, <1>6
    <2>2. carton' = [carton EXCEPT ![c] = x]
      BY <1>6
    <2> HIDE DEF x
    <2> QED
      BY <1>0, <1>6, <2>1, <2>2, StatusKeeps
  <1>7. ASSUME NEW r \in Calls, Claimed(r)
        PROVE  FlowInv'
    <2>1. PICK c \in Cartons : c = call[r].carton /\ Exists(c) /\ carton[c] \in Carton
      BY <1>7, CallCarton DEF Claimed, At, CartonStages
    <2>2. [worker |-> call[r].worker, fresh |-> TRUE] \in Claim
      BY <1>0, <1>7, CallFields DEF Claimed, At, Claim
    <2>3. carton' = [carton EXCEPT ![c].claim = [worker |-> call[r].worker, fresh |-> TRUE]]
          /\ overlap \subseteq overlap'
      BY <1>7, <2>1, OvertakeGrows DEF Claimed
    <2>4. UNCHANGED <<arrival, shipment, items, receipts, placements, putaway, blocked, opened>>
      BY <1>7 DEF Claimed, cards, history, floor
    <2>5. call' \in [Calls -> Call] /\ handlers' = handlers
          /\ \A k \in Calls : call'[k] = call[k] \/ call'[k] = Idle
      BY <1>0, <1>7, ReturnType DEF Claimed
    <2> QED
      BY <1>6, <2>1, <2>2, <2>3, <2>4, <2>5
  <1>8. ASSUME NEW c \in Cartons, NEW w \in Workers, ReleaseCarton(c, w)
        PROVE  FlowInv'
    <2>1. Unclaimed \in Claim /\ carton[c] \in Carton /\ Exists(c)
      BY <1>0, <1>8 DEF ReleaseCarton, Exists, TypeOK, Unclaimed, Claim
    <2>2. /\ carton' = [carton EXCEPT ![c].claim = Unclaimed]
          /\ UNCHANGED <<arrival, shipment, items, receipts, placements, putaway, blocked, opened,
                         call, overlap, handlers>>
      BY <1>8 DEF ReleaseCarton, cards, history, floor
    <2> QED
      BY <1>0, <1>6, <2>1, <2>2
  <1>9. ASSUME NEW c \in Cartons, ClaimExpires(c)
        PROVE  FlowInv'
    <2>1. carton[c] \in Carton /\ Exists(c)
      BY <1>0, <1>9 DEF ClaimExpires, Exists, TypeOK
    <2> DEFINE m == [carton[c].claim EXCEPT !.fresh = FALSE]
    <2>2. m \in Claim
      BY <2>1 DEF Carton, Claim
    <2>3. /\ carton' = [carton EXCEPT ![c].claim = m]
          /\ UNCHANGED <<arrival, shipment, items, receipts, placements, putaway, blocked, opened,
                         call, overlap, handlers>>
      BY <1>9 DEF ClaimExpires, cards, history, floor
    <2> HIDE DEF m
    <2> QED
      BY <1>0, <1>6, <2>1, <2>2, <2>3
  <1> QED
    BY <1>3, <1>4, <1>5, <1>7, <1>8, <1>9 DEF StatusStep

(* A placement closes what it found open, and opens the one the carton's   *)
(* location says.                                                          *)
LEMMA PlaceKeeps ==
    ASSUME FlowInv, NEW r \in Calls, PlaceCommits(r)
    PROVE  FlowInv'
  <1>0. TypeOK
    BY DEF FlowInv
  <1>1. PICK c \in Cartons : c = call[r].carton /\ Exists(c) /\ carton[c] \in Carton
    BY CallCarton DEF PlaceCommits, At, CartonStages
  <1>2. PICK l \in Locations : l = call[r].location
    BY <1>0, CallFields DEF PlaceCommits, At
  <1>3. PICK ended : placements' = [placements EXCEPT ![c] = Moved(c, l, ended)]
    BY <1>1, <1>2 DEF PlaceCommits
  <1>4. /\ Len(placements[c]) < MaxPlaces /\ carton' = Stowed(c, l) /\ overlap \subseteq overlap'
        /\ Return(r)
        /\ UNCHANGED <<arrival, shipment, items, receipts, putaway, blocked, opened>>
    BY <1>1, <1>2, OvertakeGrows DEF PlaceCommits, cards, floor
  <1> DEFINE x == [carton[c] EXCEPT !.location = l, !.status = "STORED", !.claim = Unclaimed]
             n == Len(placements[c])
             closed == [i \in DOMAIN placements[c] |->
                           [placements[c][i] EXCEPT !.open = @ /\ i \notin ended]]
             new == [location |-> l, open |-> TRUE]
  <1>5. x \in Carton /\ x.shipment = carton[c].shipment /\ x.location = l
    BY <1>1 DEF Carton, Claim, Unclaimed
  <1>6. carton' = [carton EXCEPT ![c] = x]
    BY <1>4 DEF Stowed
  <1> HIDE DEF x
  <1>7. /\ carton' \in [Cartons -> Carton \cup {NoRow}] /\ CartonsKeep
        /\ \A d \in Cartons : carton'[d] = IF d = c THEN x ELSE carton[d]
    BY <1>1, <1>5, <1>6, CartonChanges
  <1>8. placements[c] \in Seq(Placement) /\ n \in Nat /\ MaxPlaces \in Nat
    BY <1>0, CartonAssumption DEF TypeOK
  <1>9. closed \in Seq(Placement) /\ Len(closed) = n
    <2>1. ASSUME NEW i \in 1 .. n
          PROVE  [placements[c][i] EXCEPT !.open = @ /\ i \notin ended] \in Placement
      <3>1. placements[c][i] \in Placement
        BY <1>8
      <3>2. PICK b \in BOOLEAN : b = (placements[c][i].open /\ i \notin ended)
        OBVIOUS
      <3>3. [placements[c][i] EXCEPT !.open = b] \in Placement
        BY <3>1 DEF Placement
      <3> QED
        BY <3>2, <3>3
    <2>2. closed \in [1 .. n -> Placement]
      BY <1>8, <2>1
    <2> HIDE DEF closed
    <2> QED
      BY <1>8, <2>2
  <1> HIDE DEF closed
  <1>10. new \in Placement /\ new.open /\ new.location = l
    BY DEF Placement
  <1> HIDE DEF new
  <1>11. /\ Append(closed, new) \in Seq(Placement) /\ Len(Append(closed, new)) = n + 1
         /\ n + 1 \in DOMAIN Append(closed, new) /\ Append(closed, new)[n + 1] = new
    BY <1>8, <1>9, <1>10
  <1>12. \A d \in Cartons : placements'[d] = IF d = c THEN Append(closed, new) ELSE placements[d]
    BY <1>0, <1>3 DEF Moved, closed, new, TypeOK
  <1>13. placements' \in [Cartons -> Seq(Placement)]
         /\ \A d \in Cartons : Len(placements'[d]) <= MaxPlaces
    <2>1. placements' = [placements EXCEPT ![c] = Append(closed, new)]
      BY <1>3 DEF Moved, closed, new
    <2> QED
      BY <1>0, <1>4, <1>8, <1>11, <1>12, <2>1 DEF TypeOK
  <1>14. TypeOK'
    BY <1>0, <1>4, <1>7, <1>13, ReturnType DEF TypeOK
  <1>15. LocatedIsPlaced'
    <2> SUFFICES ASSUME NEW d \in Cartons, carton'[d] # NoRow, carton'[d].location # None
                 PROVE  \E i \in DOMAIN placements'[d] :
                           placements'[d][i].open /\ placements'[d][i].location = carton'[d].location
      BY DEF LocatedIsPlaced, Exists, OpenPlaces
    <2>1. CASE d = c
      <3>1. carton'[d].location = l /\ placements'[d] = Append(closed, new)
        BY <1>5, <1>7, <1>12, <2>1
      <3>2. n + 1 \in DOMAIN placements'[d] /\ placements'[d][n + 1] = new
        BY <1>11, <3>1
      <3> HIDE DEF n
      <3> QED
        BY <1>10, <3>1, <3>2
    <2>2. CASE d # c
      <3>1. PICK i \in OpenPlaces(d) : placements[d][i].location = carton[d].location
        BY <1>7, <2>2 DEF FlowInv, LocatedIsPlaced, Exists
      <3> QED
        BY <1>7, <1>12, <2>2, <3>1 DEF OpenPlaces
    <2> QED
      BY <2>1, <2>2
  <1> QED
    BY <1>0, <1>4, <1>7, <1>14, <1>15, ReturnType, QuietKeeps


-----------------------------------------------------------------------------
(* Arrivals that are started or voided keep their reference.               *)
LEMMA ArrivalKeeps ==
    ASSUME FlowInv, NEW r \in Calls, Started(r) \/ ArrivalVoided(r)
    PROVE  FlowInv'
  <1>0. TypeOK
    BY DEF FlowInv
  <1>1. PICK a \in Arrivals : a = call[r].arrival /\ arrival[a] # NoRow
    BY <1>0, CallFields DEF Started, ArrivalVoided, At, FlowInv, CallStands
  <1>2. arrival[a] \in Arrival
    BY <1>0, <1>1 DEF TypeOK
  <1>3. PICK x \in Arrival : /\ arrival' = [arrival EXCEPT ![a] = x] /\ x.ref = arrival[a].ref
                            /\ x.declared = arrival[a].declared
    <2> DEFINE y == [arrival[a] EXCEPT !.status = "RECEIVING", !.session = TRUE]
               z == [arrival[a] EXCEPT !.status = "VOIDED"]
    <2>1. /\ y \in Arrival /\ y.ref = arrival[a].ref /\ y.declared = arrival[a].declared
          /\ z \in Arrival /\ z.ref = arrival[a].ref /\ z.declared = arrival[a].declared
      BY <1>2 DEF Arrival
    <2>2. arrival' = [arrival EXCEPT ![a] = y] \/ arrival' = [arrival EXCEPT ![a] = z]
      BY <1>1, <1>0 DEF Started, ArrivalVoided, TypeOK
    <2> HIDE DEF y, z
    <2> QED
      BY <2>1, <2>2
  <1>4. \A b \in Arrivals : arrival'[b] = IF b = a THEN x ELSE arrival[b]
    BY <1>0, <1>3 DEF TypeOK
  <1>5. /\ Return(r) /\ UNCHANGED <<shipment, items, carton, receipts, placements, putaway, blocked,
                                    opened, overlap>>
    BY DEF Started, ArrivalVoided, history, floor
  <1>6. TypeOK'
    BY <1>0, <1>3, <1>4, <1>5, ReturnType DEF TypeOK
  <1>7. x # NoRow
    BY RowKinds
  <1>8. \A k \in Calls : CallStands(k)'
    <2> TAKE k \in Calls
    <2>1. CASE k = r
      BY <1>0, <1>5, <2>1, ReturnType, IdleStands
    <2>2. CASE k # r
      <3>1. call'[k] = call[k] /\ CallStands(k)
        BY <1>0, <1>5, <2>2, ReturnType DEF FlowInv
      <3>2. \A b \in Arrivals : arrival[b] # NoRow => arrival'[b] # NoRow /\ arrival'[b].ref = arrival[b].ref
        BY <1>3, <1>4, <1>7
      <3>3. /\ call[k].at \in {"shipment", "card"} => call[k].arrival \in Arrivals \cup {None}
            /\ call[k].at \in {"start", "voidArrival", "deleteArrival"} => call[k].arrival \in Arrivals
        BY <1>0, CallFields
      <3> QED
        BY <1>5, <3>1, <3>2, <3>3 DEF CallStands, Exists, ShipmentsOf
    <2> QED
      BY <2>1, <2>2
  <1>9. CartonsKeep /\ LocatedIsPlaced'
    BY <1>5 DEF FlowInv, CartonsKeep, Exists, LocatedIsPlaced, OpenPlaces
  <1>10. LinesStand'
    <2>1. ArrivalsKeep
      BY <1>1, <1>3, <1>4, <1>7 DEF ArrivalsKeep
    <2> QED
      BY <1>5, <1>9, <2>1, LinesKept
  <1>11. NoOrphanCarton' /\ \A c \in Cartons : CartonStands(c)'
    BY <1>5 DEF FlowInv, CartonStands, NoOrphanCarton, Exists, ArrivalOf, Overlapped
  <1> QED
    BY <1>6, <1>8, <1>9, <1>10, <1>11 DEF FlowInv

-----------------------------------------------------------------------------
(* The transaction of a card: cartons cs come on the shipment e, which is  *)
(* new or was there, of the arrival a, which is new or was seen.           *)
LEMMA CardKeeps ==
    ASSUME FlowInv, NEW r \in Calls, NEW x \in Refs, NEW seen, NEW a \in Arrivals,
           NEW cs \in SUBSET Cartons, NEW e \in Externals,
           ForArrival(seen, x, a), seen # None => arrival[seen] # NoRow /\ arrival[seen].ref = x,
           \A c \in cs : ~Exists(c),
           \/ UNCHANGED shipment /\ e \in ShipmentsOf(a)
           \/ /\ shipment[e] = NoRow
              /\ shipment' = [shipment EXCEPT ![e] = [status |-> "row", arrival |-> a]],
           AddCartons(cs, e, a), Overtake(r, {x}, "card"), Return(r),
           UNCHANGED <<receipts, placements, putaway, blocked, opened>>
    PROVE  FlowInv'
  <1> USE CartonAssumption
  <1>0. TypeOK /\ a # None
    BY DEF FlowInv, Arrivals
  <1>1. /\ arrival' \in [Arrivals -> Arrival \cup {NoRow}]
        /\ \A b \in Arrivals : arrival[b] # NoRow => arrival'[b] = arrival[b]
        /\ arrival[a] # NoRow => arrival[a].ref = x
        /\ \A b \in Arrivals : arrival[b] = NoRow /\ arrival'[b] # NoRow => arrival'[b].declared = {}
    <2> DEFINE new == [status |-> "EXPECTED", ref |-> x, session |-> FALSE, declared |-> {}]
    <2>1. new \in Arrival /\ new.declared = {}
      BY DEF Arrival
    <2> HIDE DEF new
    <2>2. \/ seen = a /\ UNCHANGED arrival
          \/ arrival[a] = NoRow /\ arrival' = [arrival EXCEPT ![a] = new]
      BY DEF ForArrival, FreeArrivals, new
    <2>3. CASE seen = a /\ UNCHANGED arrival
      BY <1>0, <2>3 DEF TypeOK
    <2>4. CASE arrival[a] = NoRow /\ arrival' = [arrival EXCEPT ![a] = new]
      <3>1. arrival \in [Arrivals -> Arrival \cup {NoRow}]
        BY <1>0 DEF TypeOK
      <3> QED
        BY <2>1, <2>4, <3>1
    <2> QED
      BY <2>2, <2>3, <2>4
  <1>2. /\ shipment' \in [Externals -> Shipment \cup {NoRow}]
        /\ shipment'[e] # NoRow /\ shipment'[e].arrival = a
        /\ \A f \in Externals : shipment[f] # NoRow => shipment'[f] = shipment[f]
        /\ \A f \in Externals : f # e => shipment'[f] = shipment[f]
    <2> DEFINE new == [status |-> "row", arrival |-> a]
    <2>1. new \in Shipment /\ new.arrival = a /\ new # NoRow
      BY DEF Shipment, NoRow
    <2> HIDE DEF new
    <2>2. \/ UNCHANGED shipment /\ e \in ShipmentsOf(a)
          \/ shipment[e] = NoRow /\ shipment' = [shipment EXCEPT ![e] = new]
      BY DEF new
    <2>3. CASE UNCHANGED shipment /\ e \in ShipmentsOf(a)
      BY <1>0, <2>3 DEF TypeOK, ShipmentsOf
    <2>4. CASE shipment[e] = NoRow /\ shipment' = [shipment EXCEPT ![e] = new]
      <3>1. shipment \in [Externals -> Shipment \cup {NoRow}]
        BY <1>0 DEF TypeOK
      <3> QED
        BY <2>1, <2>4, <3>1
    <2> QED
      BY <2>2, <2>3, <2>4
  <1> DEFINE row(c) == [Announced(c) EXCEPT !.shipment = e]
  <1>3. \A c \in Cartons : /\ row(c) \in Carton /\ row(c) # NoRow
                           /\ row(c).location = None /\ row(c).shipment = e
    BY DEF Announced, Carton, Claim, Unclaimed, NoRow, Externals
  <1>4. carton' = [c \in Cartons |-> IF c \in cs THEN row(c) ELSE carton[c]]
    BY DEF AddCartons
  <1> HIDE DEF row
  <1>5. /\ carton' \in [Cartons -> Carton \cup {NoRow}]
        /\ \A c \in cs : carton'[c] = row(c)
        /\ \A c \in Cartons \ cs : carton'[c] = carton[c]
    BY <1>0, <1>3, <1>4 DEF TypeOK
  <1> DEFINE Adds(c, b) == c \in cs /\ b = a /\ ~Mirrored(c, a)
  <1>6. /\ \A c \in Cartons, b \in Arrivals : items[c][b] \in Rows
        /\ \A c \in Cartons, b \in Arrivals : Adds(c, b) =>
              /\ items'[c][b].linked = items[c][b].linked + 1
              /\ items'[c][b].loose = items[c][b].loose
        /\ \A c \in Cartons, b \in Arrivals : ~Adds(c, b) => items'[c][b] = items[c][b]
        /\ items' \in [Cartons -> [Arrivals -> Rows]]
    <2>1. items \in [Cartons -> [Arrivals -> Rows]]
      BY <1>0 DEF TypeOK
    <2>2. items' = [c \in Cartons |-> IF c \in cs /\ ~Mirrored(c, a)
                                     THEN [items[c] EXCEPT ![a].linked = @ + 1] ELSE items[c]]
      BY DEF AddCartons, Linked
    <2>3. \A c \in Cartons, b \in Arrivals : items[c] \in [Arrivals -> Rows] /\ items[c][b] \in Rows
      BY <2>1
    <2>4. ASSUME NEW c \in Cartons
          PROVE  /\ [items[c] EXCEPT ![a].linked = @ + 1] \in [Arrivals -> Rows]
                 /\ [items[c] EXCEPT ![a].linked = @ + 1][a].linked = items[c][a].linked + 1
                 /\ [items[c] EXCEPT ![a].linked = @ + 1][a].loose = items[c][a].loose
                 /\ \A b \in Arrivals \ {a} : [items[c] EXCEPT ![a].linked = @ + 1][b] = items[c][b]
      <3>1. items[c] \in [Arrivals -> Rows] /\ items[c][a] \in Rows
        BY <2>3
      <3> DEFINE y == [items[c][a] EXCEPT !.linked = @ + 1]
      <3>2. y \in Rows /\ y.linked = items[c][a].linked + 1 /\ y.loose = items[c][a].loose
        BY <3>1 DEF Rows
      <3>3. [items[c] EXCEPT ![a].linked = @ + 1] = [items[c] EXCEPT ![a] = y]
        OBVIOUS
      <3> HIDE DEF y
      <3> QED
        BY <3>1, <3>2, <3>3
    <2>5. \A c \in Cartons : items'[c] = IF c \in cs /\ ~Mirrored(c, a)
                                        THEN [items[c] EXCEPT ![a].linked = @ + 1] ELSE items[c]
      BY <2>2
    <2>6. items' \in [Cartons -> [Arrivals -> Rows]]
      BY <2>2, <2>3, <2>4
    <2>7. ASSUME NEW c \in Cartons, NEW b \in Arrivals
          PROVE  /\ Adds(c, b) => /\ items'[c][b].linked = items[c][b].linked + 1
                                  /\ items'[c][b].loose = items[c][b].loose
                 /\ ~Adds(c, b) => items'[c][b] = items[c][b]
      <3>1. CASE c \in cs /\ ~Mirrored(c, a)
        <4>1. items'[c] = [items[c] EXCEPT ![a].linked = @ + 1]
          BY <2>5, <3>1
        <4> QED
          BY <2>4, <3>1, <4>1
      <3>2. CASE ~(c \in cs /\ ~Mirrored(c, a))
        <4>1. items'[c] = items[c]
          BY <2>5, <3>2
        <4> QED
          BY <3>2, <4>1
      <3> QED
        BY <3>1, <3>2
    <2> QED
      BY <2>3, <2>6, <2>7
  <1> HIDE DEF Adds
  <1>7. items' \in [Cartons -> [Arrivals -> Rows]]
    BY <1>6
  <1>8. TypeOK'
    BY <1>0, <1>1, <1>2, <1>5, <1>7, ReturnType DEF TypeOK
  <1>9. overlap \subseteq overlap'
    BY OvertakeGrows
  <1>10. \A c \in Cartons : Exists(c) => /\ carton'[c] = carton[c] /\ Exists(c)'
                                         /\ shipment'[carton[c].shipment] = shipment[carton[c].shipment]
                                         /\ shipment[carton[c].shipment] # NoRow
    <2> TAKE c \in Cartons
    <2> HAVE Exists(c)
    <2>1. carton'[c] = carton[c] /\ carton[c] \in Carton
      BY <1>0, <1>5 DEF Exists, TypeOK
    <2>2. carton[c].shipment \in Externals /\ shipment[carton[c].shipment] # NoRow
      BY <2>1 DEF Carton, FlowInv, CartonStands
    <2> QED
      BY <1>2, <2>1, <2>2 DEF Exists
  <1>11. \A c \in cs : Exists(c)' /\ carton'[c].shipment = e /\ carton'[c].location = None
    BY <1>3, <1>5 DEF Exists
  <1>12. ASSUME NEW k \in Calls PROVE CallStands(k)'
    <2>1. CASE k = r
      BY <1>0, <2>1, ReturnType, IdleStands
    <2>2. CASE k # r
      <3>1. call'[k] = call[k] /\ CallStands(k)
        BY <1>0, <2>2, ReturnType DEF FlowInv
      <3>2. /\ call[k].at \in {"shipment", "card"} => call[k].arrival \in Arrivals \cup {None}
            /\ call[k].at \in {"start", "voidArrival", "deleteArrival"} => call[k].arrival \in Arrivals
            /\ call[k].at \in CartonStages => call[k].carton \in Cartons
        BY <1>0, CallFields
      <3>3. ASSUME call[k].at = "deleteArrival",
                   NEW f \in Externals, shipment'[f] # NoRow, shipment'[f].arrival = call[k].arrival,
                   f \notin call[k].shipments
            PROVE  <<arrival[call[k].arrival].ref, "deleteArrival", "card">> \in overlap'
        <4>1. arrival[call[k].arrival] # NoRow
          BY <3>1, <3>3 DEF CallStands
        <4>2. CASE shipment[f] # NoRow
          BY <1>2, <1>9, <3>1, <3>3, <4>2 DEF CallStands, ShipmentsOf
        <4>3. CASE shipment[f] = NoRow
          <5>1. f = e /\ call[k].arrival = a
            BY <1>2, <3>3, <4>3
          <5>2. arrival[call[k].arrival].ref = x
            BY <1>1, <4>1, <5>1
          <5> QED
            BY <2>2, <3>3, <5>2, CardOvertakes
        <4> QED
          BY <4>2, <4>3
      <3>4. \A b \in Arrivals : arrival[b] # NoRow => arrival'[b] # NoRow /\ arrival'[b].ref = arrival[b].ref
        BY <1>1
      <3>5. call[k].at = "deleteArrival" =>
              \A f \in ShipmentsOf(call[k].arrival)' \ call[k].shipments :
                 <<arrival[call[k].arrival].ref, "deleteArrival", "card">> \in overlap'
        BY <3>1, <3>3 DEF ShipmentsOf
      <3> QED
        BY <1>10, <3>1, <3>2, <3>4, <3>5 DEF CallStands
    <2> QED
      BY <2>1, <2>2
  <1>13. LocatedIsPlaced'
    BY <1>5, <1>10, <1>11 DEF FlowInv, LocatedIsPlaced, Exists, OpenPlaces
  <1>14. \A c \in Cartons : CartonStands(c)'
    BY <1>2, <1>5, <1>10, <1>11 DEF CartonStands, Exists
  <1>15. NoOrphanCarton'
    BY <1>0, <1>2, <1>5, <1>9, <1>10, <1>11 DEF FlowInv, NoOrphanCarton, Exists, ArrivalOf, Overlapped
  <1>16. \A c \in cs : items[c][a].linked = 0
    BY <1>6 DEF FlowInv, LinesStand, LinkedStands, Rows
  <1>17. \A c \in Cartons : Mirrored(c, a) <=> Mirrored(c, a)'
    <2>1. \A d \in Cartons : items'[d][a].loose = items[d][a].loose
      BY <1>6
    <2>2. \A c \in Cartons : (arrival[a] # NoRow /\ Product[c] \in arrival[a].declared)
                             <=> (arrival'[a] # NoRow /\ Product[c] \in arrival'[a].declared)
      BY <1>1
    <2> QED
      BY <2>1, <2>2 DEF Mirrored
  <1>18. \A c \in Cartons : ~Mirrored(c, a) => items[c][a].loose = 0
    BY <1>6 DEF Mirrored, Rows
  <1>19. ASSUME NEW c \in Cartons, NEW b \in Arrivals
         PROVE  (AtMostOnce(c, b) /\ LinkedStands(c, b) /\ NotBeside(c, b) /\ Counts(c, b))'
    <2>1. AtMostOnce(c, b) /\ LinkedStands(c, b) /\ NotBeside(c, b) /\ Counts(c, b)
      BY DEF FlowInv, LinesStand
    <2>2. Exists(c) => Exists(c)' /\ ArrivalOf(c)' = ArrivalOf(c)
      BY <1>10 DEF ArrivalOf
    <2>3. c \in cs => ~Exists(c) /\ Exists(c)' /\ ArrivalOf(c)' = a
      BY <1>2, <1>11 DEF ArrivalOf
    <2>4. c \notin cs => (Exists(c)' <=> Exists(c))
      BY <1>5 DEF Exists
    <2>5. b # a => (Mirrored(c, b) => Mirrored(c, b)')
      <3> SUFFICES ASSUME b # a, Mirrored(c, b) PROVE Mirrored(c, b)'
        OBVIOUS
      <3>1. \A d \in Cartons : items'[d][b] = items[d][b]
        BY <1>6 DEF Adds
      <3>2. arrival[b] # NoRow => arrival'[b] = arrival[b]
        BY <1>1
      <3> QED
        BY <3>1, <3>2 DEF Mirrored
    <2>6. /\ items[c][b].linked \in Nat /\ items[c][b].loose \in Nat
      BY <1>6 DEF Rows
    <2>7. CASE c \in cs /\ b = a /\ ~Mirrored(c, a)
      <3>1. items'[c][b].linked = 1 /\ items'[c][b].loose = 0
        <4>1. Adds(c, b)
          BY <2>7 DEF Adds
        <4> QED
          BY <1>6, <1>16, <1>18, <2>7, <4>1
      <3>2. ~(arrival'[b] # NoRow /\ Product[c] \in arrival'[b].declared)
        BY <1>17, <2>7 DEF Mirrored
      <3> QED
        BY <2>3, <2>7, <3>1, <3>2 DEF AtMostOnce, LinkedStands, NotBeside, Counts
    <2>8. CASE ~(c \in cs /\ b = a /\ ~Mirrored(c, a))
      <3>1. items'[c][b] = items[c][b]
        BY <1>6, <2>8 DEF Adds
      <3>2. AtMostOnce(c, b)' /\ LinkedStands(c, b)'
        BY <2>1, <2>2, <3>1 DEF AtMostOnce, LinkedStands
      <3>3. NotBeside(c, b)'
        BY <1>1, <2>1, <3>1 DEF NotBeside
      <3>4. Counts(c, b)'
        <4>1. CASE c \in cs
          BY <1>17, <2>3, <2>8, <4>1 DEF Counts
        <4>2. CASE c \notin cs
          BY <1>17, <2>1, <2>2, <2>4, <2>5, <3>1, <4>2 DEF Counts
        <4> QED
          BY <4>1, <4>2
      <3> QED
        BY <3>2, <3>3, <3>4
    <2> QED
      BY <2>7, <2>8
  <1> QED
    BY <1>8, <1>12, <1>13, <1>14, <1>15, <1>19 DEF FlowInv, LinesStand

LEMMA InsertKeeps ==
    ASSUME FlowInv, NEW r \in Calls, InsertShipment(r) \/ InsertCarton(r)
    PROVE  FlowInv'
  <1> USE CartonAssumption
  <1>0. TypeOK /\ CallStands(r)
    BY DEF FlowInv
  <1>1. CASE InsertShipment(r)
    <2>1. PICK s \in ShipmentCards : s = call[r].card
      BY <1>0, <1>1, CallFields DEF InsertShipment, At
    <2>2. PICK seen : seen = call[r].arrival
      OBVIOUS
    <2>3. PICK a \in Arrivals :
            /\ ForArrival(seen, Ref[s], a)
            /\ shipment' = [shipment EXCEPT ![s] = [status |-> "row", arrival |-> a]]
            /\ AddCartons(Contents[s], s, a)
      BY <1>1, <2>1, <2>2 DEF InsertShipment
    <2>4. /\ shipment[s] = NoRow /\ \A c \in Contents[s] : ~Exists(c)
          /\ Overtake(r, {Ref[s]}, "card") /\ Return(r)
          /\ UNCHANGED <<receipts, placements, putaway, blocked, opened>>
      BY <1>1, <2>1 DEF InsertShipment, history, floor
    <2>5. Ref[s] \in Refs /\ Contents[s] \in SUBSET Cartons /\ s \in Externals
      BY DEF Externals
    <2>6. seen # None => arrival[seen] # NoRow /\ arrival[seen].ref = Ref[s]
      BY <1>0, <1>1, <2>1, <2>2 DEF InsertShipment, At, CallStands
    <2> QED
      BY <2>3, <2>4, <2>5, <2>6, CardKeeps
  <1>2. CASE InsertCarton(r)
    <2>1. PICK c \in Cartons : c = call[r].carton
      BY <1>0, <1>2, CallFields DEF InsertCarton, At
    <2>2. PICK seen : seen = call[r].arrival
      OBVIOUS
    <2>3. PICK a \in Arrivals :
            /\ ForArrival(seen, Ref[c], a)
            /\ \/ \E e \in ShipmentsOf(a) : UNCHANGED shipment /\ AddCartons({c}, e, a)
               \/ /\ shipment[c] = NoRow
                  /\ shipment' = [shipment EXCEPT ![c] = [status |-> "row", arrival |-> a]]
                  /\ AddCartons({c}, c, a)
      BY <1>2, <2>1, <2>2 DEF InsertCarton
    <2>4. /\ \A d \in {c} : ~Exists(d)
          /\ Overtake(r, {Ref[c]}, "card") /\ Return(r)
          /\ UNCHANGED <<receipts, placements, putaway, blocked, opened>>
      BY <1>2, <2>1 DEF InsertCarton, history, floor
    <2>5. Ref[c] \in Refs /\ {c} \in SUBSET Cartons /\ c \in Externals
      BY DEF Externals
    <2>6. seen # None => arrival[seen] # NoRow /\ arrival[seen].ref = Ref[c]
      BY <1>0, <1>2, <2>1, <2>2 DEF InsertCarton, At, CallStands
    <2>7. ASSUME NEW e \in ShipmentsOf(a), UNCHANGED shipment, AddCartons({c}, e, a)
          PROVE  FlowInv'
      <3>1. e \in Externals
        BY DEF ShipmentsOf
      <3> QED
        BY <2>3, <2>4, <2>5, <2>6, <2>7, <3>1, CardKeeps
    <2>8. ASSUME shipment[c] = NoRow, AddCartons({c}, c, a),
                 shipment' = [shipment EXCEPT ![c] = [status |-> "row", arrival |-> a]]
          PROVE  FlowInv'
      BY <2>3, <2>4, <2>5, <2>6, <2>8, CardKeeps
    <2> QED
      BY <2>3, <2>7, <2>8
  <1> QED
    BY <1>1, <1>2


-----------------------------------------------------------------------------
(* Rows go: the cartons cs, the arrivals gone; a carton that stays is on   *)
(* the shipment it was on, or on one that has lost its arrival and had     *)
(* come in while the arrival was being deleted.                            *)
LEMMA RemovalKeeps ==
    ASSUME FlowInv, NEW cs \in SUBSET Cartons, NEW gone \in SUBSET Arrivals,
           NEW dead \in SUBSET Calls, Without(cs), Fail(dead),
           OnCarton(cs) \subseteq dead, OnArrival(gone) \subseteq dead,
           \A a \in Arrivals : arrival'[a] = IF a \in gone THEN NoRow ELSE arrival[a],
           arrival' \in [Arrivals -> Arrival \cup {NoRow}],
           shipment' \in [Externals -> Shipment \cup {NoRow}],
           putaway' \in [Sessions -> Session \cup {NoRow}],
           \A e \in Externals : (shipment'[e] # NoRow /\ shipment'[e].arrival # None)
                                => shipment'[e] = shipment[e],
           \A c \in Cartons \ cs : Exists(c) =>
               \/ /\ shipment'[carton[c].shipment] = shipment[carton[c].shipment]
                  /\ ArrivalOf(c) \notin gone
               \/ /\ shipment'[carton[c].shipment] # NoRow
                  /\ shipment'[carton[c].shipment].arrival = None /\ ArrivalOf(c) \in gone
                  /\ \E x \in Refs : <<x, "deleteArrival", "card">> \in overlap,
           items' = Unlinked(cs, gone),
           UNCHANGED <<blocked, overlap>>
    PROVE  FlowInv'
  <1> USE CartonAssumption
  <1>0. TypeOK /\ None \notin gone
    BY DEF FlowInv, Arrivals
  <1>1. /\ carton' \in [Cartons -> Carton \cup {NoRow}]
        /\ \A c \in cs : carton'[c] = NoRow
        /\ \A c \in Cartons \ cs : carton'[c] = carton[c] /\ placements'[c] = placements[c]
                                   /\ receipts'[c] = receipts[c]
    BY <1>0 DEF Without, TypeOK
  <1>2. /\ placements' \in [Cartons -> Seq(Placement)]
        /\ receipts' \in [Cartons -> Seq({"RECEIVED", "REVERSED"})]
        /\ \A c \in Cartons : Len(receipts'[c]) <= MaxReceipts /\ Len(placements'[c]) <= MaxPlaces
    <2>1. <<>> \in Seq(Placement) /\ <<>> \in Seq({"RECEIVED", "REVERSED"}) /\ Len(<<>>) = 0
      OBVIOUS
    <2> QED
      BY <1>0, <2>1 DEF Without, TypeOK
  <1>3. /\ items \in [Cartons -> [Arrivals -> Rows]]
        /\ \A c \in Cartons, a \in Arrivals : items'[c][a] =
              IF a \in gone THEN Uncounted
              ELSE IF c \in cs
                   THEN [linked |-> 0, loose |-> items[c][a].loose + items[c][a].linked]
                   ELSE items[c][a]
    BY <1>0 DEF Unlinked, TypeOK
  <1>4. items' \in [Cartons -> [Arrivals -> Rows]]
    <2>1. \A c \in Cartons, a \in Arrivals :
             /\ items[c][a] \in Rows /\ Uncounted \in Rows
             /\ [linked |-> 0, loose |-> items[c][a].loose + items[c][a].linked] \in Rows
      BY <1>3 DEF Rows, Uncounted
    <2> QED
      BY <1>3, <2>1 DEF Unlinked
  <1>5. TypeOK'
    BY <1>0, <1>1, <1>2, <1>4, FailType DEF Without, TypeOK
  <1>6. \A c \in Cartons : Exists(c)' => Exists(c) /\ c \notin cs /\ carton'[c] = carton[c]
    BY <1>1 DEF Exists
  <1>7. ASSUME NEW k \in Calls PROVE CallStands(k)'
    <2>1. CASE k \in dead
      BY <1>0, <2>1, FailType, IdleStands
    <2>2. CASE k \notin dead
      <3>1. call'[k] = call[k] /\ CallStands(k)
        BY <1>0, <2>2, FailType DEF FlowInv
      <3>2. call[k].at \in CartonStages => call[k].carton \in Cartons /\ call[k].carton \notin cs
        BY <1>0, <2>2, CallFields DEF OnCarton, CartonStages
      <3>3. call[k].at \in {"shipment", "card", "start", "voidArrival", "deleteArrival"} =>
              call[k].arrival \in Arrivals \cup {None} /\ call[k].arrival \notin gone
        BY <1>0, <2>2, CallFields DEF OnArrival
      <3>4. call[k].at \in {"start", "voidArrival", "deleteArrival"} => call[k].arrival \in Arrivals
        BY <1>0, CallFields
      <3>5. call[k].at = "deleteArrival" =>
              ShipmentsOf(call[k].arrival)' \subseteq ShipmentsOf(call[k].arrival)
        BY <1>0, <3>1, <3>4 DEF ShipmentsOf, Arrivals
      <3>6. \A a \in Arrivals \ gone : arrival'[a] = arrival[a]
        OBVIOUS
      <3>7. call[k].at \in CartonStages => Exists(call[k].carton)'
        BY <1>1, <3>1, <3>2 DEF CallStands, Exists
      <3>8. /\ (call[k].at = "shipment" /\ call[k].arrival # None) =>
                  /\ arrival'[call[k].arrival] # NoRow
                  /\ arrival'[call[k].arrival].ref = Ref[call[k].card]
            /\ (call[k].at = "card" /\ call[k].arrival # None) =>
                  /\ arrival'[call[k].arrival] # NoRow
                  /\ arrival'[call[k].arrival].ref = Ref[call[k].carton]
            /\ call[k].at \in {"start", "voidArrival", "deleteArrival"} =>
                  arrival'[call[k].arrival] # NoRow
        BY <3>1, <3>3, <3>4, <3>6 DEF CallStands
      <3>9. call[k].at = "deleteArrival" =>
              \A e \in ShipmentsOf(call[k].arrival)' \ call[k].shipments :
                 <<arrival'[call[k].arrival].ref, "deleteArrival", "card">> \in overlap'
        BY <3>1, <3>3, <3>4, <3>5, <3>6 DEF CallStands
      <3> QED
        BY <3>1, <3>7, <3>8, <3>9 DEF CallStands
    <2> QED
      BY <2>1, <2>2
  <1>8. LocatedIsPlaced'
    <2> SUFFICES ASSUME NEW c \in Cartons, Exists(c)', carton'[c].location # None
                 PROVE  \E i \in OpenPlaces(c)' : placements'[c][i].location = carton'[c].location
      BY DEF LocatedIsPlaced
    <2>1. Exists(c) /\ carton'[c] = carton[c] /\ placements'[c] = placements[c]
      BY <1>1, <1>6
    <2> QED
      BY <2>1 DEF FlowInv, LocatedIsPlaced, OpenPlaces
  <1>9. \A c \in Cartons : CartonStands(c)'
    BY <1>6 DEF FlowInv, CartonStands, Exists
  <1>10. NoOrphanCarton'
    <2> SUFFICES ASSUME NEW c \in Cartons, Exists(c)', ArrivalOf(c)' = None
                 PROVE  \E x \in Refs : Overlapped(x, {"deleteArrival"}, "card")'
      BY DEF NoOrphanCarton
    <2>1. Exists(c) /\ c \notin cs /\ carton'[c] = carton[c]
      BY <1>6
    <2>2. CASE shipment'[carton[c].shipment] = shipment[carton[c].shipment]
      BY <2>1, <2>2 DEF FlowInv, NoOrphanCarton, ArrivalOf, Overlapped
    <2>3. CASE \E x \in Refs : <<x, "deleteArrival", "card">> \in overlap
      BY <2>3 DEF Overlapped
    <2> QED
      BY <2>1, <2>2, <2>3
  <1>11. ASSUME NEW c \in Cartons, NEW a \in Arrivals
         PROVE  (AtMostOnce(c, a) /\ LinkedStands(c, a) /\ NotBeside(c, a) /\ Counts(c, a))'
    <2>1. AtMostOnce(c, a) /\ LinkedStands(c, a) /\ NotBeside(c, a) /\ Counts(c, a)
      BY DEF FlowInv, LinesStand
    <2>2. items[c][a].linked \in Nat /\ items[c][a].loose \in Nat
      BY <1>3 DEF Rows
    <2>3. a # None
      BY DEF Arrivals
    <2>4. (Exists(c)' /\ ArrivalOf(c)' = a) => /\ Exists(c) /\ c \notin cs /\ a \notin gone
                                              /\ ArrivalOf(c) = a
      <3> SUFFICES ASSUME Exists(c)', ArrivalOf(c)' = a
                   PROVE  Exists(c) /\ c \notin cs /\ a \notin gone /\ ArrivalOf(c) = a
        OBVIOUS
      <3>1. Exists(c) /\ c \notin cs /\ carton'[c] = carton[c]
        BY <1>6
      <3> QED
        BY <2>3, <3>1 DEF ArrivalOf
    <2>5. CASE a \in gone
      <3>1. items'[c][a] = Uncounted
        BY <1>3, <2>5
      <3> QED
        BY <2>4, <2>5, <3>1 DEF AtMostOnce, LinkedStands, NotBeside, Counts, Uncounted
    <2>6. CASE a \notin gone /\ c \in cs
      <3>1. items'[c][a] = [linked |-> 0, loose |-> items[c][a].loose + items[c][a].linked]
        BY <1>3, <2>6
      <3>2. AtMostOnce(c, a)' /\ LinkedStands(c, a)' /\ Counts(c, a)'
        BY <2>1, <2>2, <2>4, <2>6, <3>1 DEF AtMostOnce, LinkedStands, Counts
      <3>3. NotBeside(c, a)'
        BY <2>1, <2>6, <3>1 DEF NotBeside, Uncounted
      <3> QED
        BY <3>2, <3>3
    <2>7. CASE a \notin gone /\ c \notin cs
      <3>1. items'[c][a] = items[c][a] /\ arrival'[a] = arrival[a]
        BY <1>3, <2>7
      <3>2. AtMostOnce(c, a)' /\ NotBeside(c, a)'
        BY <2>1, <3>1 DEF AtMostOnce, NotBeside
      <3>3. LinkedStands(c, a)'
        <4> SUFFICES ASSUME items[c][a].linked > 0 PROVE Exists(c)' /\ ArrivalOf(c)' = a
          BY <3>1 DEF LinkedStands
        <4>1. Exists(c) /\ ArrivalOf(c) = a
          BY <2>1 DEF LinkedStands
        <4>2. carton'[c] = carton[c] /\ shipment'[carton[c].shipment] = shipment[carton[c].shipment]
          BY <1>1, <2>7, <4>1
        <4> QED
          BY <4>1, <4>2 DEF Exists, ArrivalOf
      <3>4. Counts(c, a)'
        <4> SUFFICES ASSUME Exists(c)', ArrivalOf(c)' = a, items[c][a].linked # 1
                     PROVE  Mirrored(c, a)'
          BY <3>1 DEF Counts
        <4>1. Mirrored(c, a)
          BY <2>1, <2>4 DEF Counts
        <4>2. CASE arrival[a] # NoRow /\ Product[c] \in arrival[a].declared
          BY <3>1, <4>2 DEF Mirrored
        <4>3. CASE \E d \in Cartons : items[d][a].loose > 0 /\ Product[d] = Product[c]
          <5>1. PICK d \in Cartons : items[d][a].loose > 0 /\ Product[d] = Product[c]
            BY <4>3
          <5>2. items[d][a].linked \in Nat /\ items[d][a].loose \in Nat
            BY <1>3 DEF Rows
          <5>3. items'[d][a].loose >= items[d][a].loose
            <6>1. CASE d \in cs
              <7>1. items'[d][a] = [linked |-> 0, loose |-> items[d][a].loose + items[d][a].linked]
                BY <1>3, <2>7, <6>1
              <7> QED
                BY <5>2, <7>1
            <6>2. CASE d \notin cs
              <7>1. items'[d][a] = items[d][a]
                <8>1. items'[d][a] =
                        IF a \in gone THEN Uncounted
                        ELSE IF d \in cs
                             THEN [linked |-> 0, loose |-> items[d][a].loose + items[d][a].linked]
                             ELSE items[d][a]
                  BY <1>3
                <8> QED
                  BY <2>7, <6>2, <8>1
              <7> QED
                BY <5>2, <7>1
            <6> QED
              BY <6>1, <6>2
          <5>4. items'[d][a].loose \in Nat
            BY <1>4 DEF Rows
          <5>5. items'[d][a].loose > 0
            BY <5>1, <5>2, <5>3, <5>4
          <5> QED
            BY <5>1, <5>5 DEF Mirrored
        <4> QED
          BY <4>1, <4>2, <4>3 DEF Mirrored
      <3> QED
        BY <3>2, <3>3, <3>4
    <2> QED
      BY <2>5, <2>6, <2>7
  <1> QED
    BY <1>5, <1>7, <1>8, <1>9, <1>10, <1>11 DEF FlowInv, LinesStand

LEMMA DeletionsKeep ==
    ASSUME FlowInv, TrialReset \/ \E r \in Calls : CartonDeleted(r) \/ ArrivalDeleted(r)
    PROVE  FlowInv'
  <1> USE CartonAssumption
  <1>0. TypeOK
    BY DEF FlowInv
  <1>1. ASSUME NEW r \in Calls, CartonDeleted(r)
        PROVE  FlowInv'
    <2>1. PICK c \in Cartons : c = call[r].carton
      BY <1>1, CallCarton DEF CartonDeleted, At, CartonStages
    <2>2. /\ Without({c}) /\ items' = Unlinked({c}, {}) /\ Fail(OnCarton({c}))
          /\ UNCHANGED <<arrival, shipment, putaway, blocked, overlap>>
      BY <1>1, <2>1 DEF CartonDeleted
    <2>4. /\ OnCarton({c}) \in SUBSET Calls /\ OnArrival({}) \subseteq OnCarton({c})
          /\ {c} \in SUBSET Cartons /\ {} \in SUBSET Arrivals
      BY DEF OnCarton, OnArrival
    <2>5. /\ arrival' \in [Arrivals -> Arrival \cup {NoRow}]
          /\ shipment' \in [Externals -> Shipment \cup {NoRow}]
          /\ putaway' \in [Sessions -> Session \cup {NoRow}]
      BY <1>0, <2>2 DEF TypeOK
    <2>6. \A a \in Arrivals : arrival'[a] = IF a \in {} THEN NoRow ELSE arrival[a]
      BY <2>2
    <2>7. \A d \in Cartons \ {c} : Exists(d) =>
             /\ shipment'[carton[d].shipment] = shipment[carton[d].shipment]
             /\ ArrivalOf(d) \notin {}
      BY <2>2
    <2> QED
      BY <2>2, <2>4, <2>5, <2>6, <2>7, RemovalKeeps
  <1>2. ASSUME NEW r \in Calls, ArrivalDeleted(r)
        PROVE  FlowInv'
    <2>1. PICK a \in Arrivals : a = call[r].arrival
      BY <1>0, <1>2, CallFields DEF ArrivalDeleted, At
    <2>2. PICK es \in SUBSET Externals : es = call[r].shipments
      BY <1>0, <1>2, CallFields DEF ArrivalDeleted, At
    <2> DEFINE cs == {c \in Cartons : Exists(c) /\ carton[c].shipment \in es}
               dead == OnCarton(cs) \cup OnArrival({a})
               gone == {a}
    <2>3. /\ arrival' = [arrival EXCEPT ![a] = NoRow]
          /\ shipment' = [e \in Externals |->
                             IF e \in es THEN NoRow
                             ELSE IF e \in ShipmentsOf(a) THEN [shipment[e] EXCEPT !.arrival = None]
                             ELSE shipment[e]]
          /\ Without(cs) /\ items' = Unlinked(cs, gone)
          /\ Fail(dead) /\ UNCHANGED <<putaway, blocked, overlap>>
      BY <1>2, <2>1, <2>2 DEF ArrivalDeleted
    <2>4. /\ arrival[a] # NoRow
          /\ \A e \in ShipmentsOf(a) \ es : <<arrival[a].ref, "deleteArrival", "card">> \in overlap
      BY <1>2, <2>1, <2>2 DEF ArrivalDeleted, At, FlowInv, CallStands
    <2>5. arrival[a].ref \in Refs
      BY <1>0, <2>4 DEF TypeOK, Arrival
    <2>6. \A e \in ShipmentsOf(a) : /\ e \in Externals /\ shipment[e] \in Shipment
                                    /\ [shipment[e] EXCEPT !.arrival = None] \in Shipment
                                    /\ [shipment[e] EXCEPT !.arrival = None].arrival = None
      <3> TAKE e \in ShipmentsOf(a)
      <3>1. e \in Externals /\ shipment[e] \in Shipment
        BY <1>0 DEF ShipmentsOf, TypeOK
      <3> QED
        BY <3>1 DEF Shipment
    <2>7. /\ arrival' \in [Arrivals -> Arrival \cup {NoRow}]
          /\ shipment' \in [Externals -> Shipment \cup {NoRow}]
          /\ putaway' \in [Sessions -> Session \cup {NoRow}]
      BY <1>0, <2>3, <2>6 DEF TypeOK
    <2>8. \A b \in Arrivals : arrival'[b] = IF b \in gone THEN NoRow ELSE arrival[b]
      BY <1>0, <2>3 DEF TypeOK
    <2>9. \A e \in Externals : (shipment'[e] # NoRow /\ shipment'[e].arrival # None)
                               => shipment'[e] = shipment[e]
      BY <2>3, <2>6
    <2>10. ASSUME NEW c \in Cartons \ cs, Exists(c)
           PROVE  \/ /\ shipment'[carton[c].shipment] = shipment[carton[c].shipment]
                     /\ ArrivalOf(c) \notin gone
                  \/ /\ shipment'[carton[c].shipment] # NoRow
                     /\ shipment'[carton[c].shipment].arrival = None /\ ArrivalOf(c) \in gone
                     /\ \E x \in Refs : <<x, "deleteArrival", "card">> \in overlap
      <3>1. PICK e \in Externals : e = carton[c].shipment
        BY <1>0, <2>10 DEF TypeOK, Exists, Carton
      <3>2. e \notin es /\ shipment[e] # NoRow
        BY <2>10, <3>1 DEF FlowInv, CartonStands
      <3>3. CASE e \in ShipmentsOf(a)
        <4>1. shipment'[e] = [shipment[e] EXCEPT !.arrival = None]
          BY <2>3, <3>2, <3>3
        <4>2. shipment'[e] # NoRow /\ shipment'[e].arrival = None
          BY <2>6, <3>3, <4>1, RowKinds
        <4>3. ArrivalOf(c) \in gone
          BY <3>1, <3>3 DEF ArrivalOf, ShipmentsOf
        <4> QED
          BY <2>4, <2>5, <3>1, <3>2, <3>3, <4>2, <4>3
      <3>4. CASE e \notin ShipmentsOf(a)
        BY <2>3, <3>1, <3>2, <3>4 DEF ArrivalOf, ShipmentsOf
      <3> QED
        BY <3>3, <3>4
    <2>11. /\ cs \in SUBSET Cartons /\ gone \in SUBSET Arrivals /\ dead \in SUBSET Calls
           /\ OnCarton(cs) \subseteq dead /\ OnArrival(gone) \subseteq dead
      BY DEF OnCarton, OnArrival
    <2> HIDE DEF cs, gone, dead
    <2> QED
      BY <2>3, <2>7, <2>8, <2>9, <2>10, <2>11, RemovalKeeps
  <1>3. CASE TrialReset
    <2> DEFINE dead == OnCarton(Cartons) \cup OnArrival(Arrivals)
    <2>1. /\ arrival' = [a \in Arrivals |-> NoRow]
          /\ shipment' = [e \in Externals |->
                             IF shipment[e] = NoRow THEN NoRow
                             ELSE [shipment[e] EXCEPT !.arrival = None]]
          /\ Without(Cartons) /\ items' = Unlinked(Cartons, Arrivals) /\ putaway' = [s \in Sessions |-> NoRow]
          /\ Fail(dead) /\ UNCHANGED <<blocked, overlap>>
      BY <1>3 DEF TrialReset
    <2>2. \A e \in Externals : shipment[e] # NoRow =>
             /\ [shipment[e] EXCEPT !.arrival = None] \in Shipment
             /\ [shipment[e] EXCEPT !.arrival = None].arrival = None
      <3> TAKE e \in Externals
      <3> HAVE shipment[e] # NoRow
      <3>1. shipment[e] \in Shipment
        BY <1>0 DEF TypeOK
      <3> QED
        BY <3>1 DEF Shipment
    <2>3. /\ arrival' \in [Arrivals -> Arrival \cup {NoRow}]
          /\ shipment' \in [Externals -> Shipment \cup {NoRow}]
          /\ putaway' \in [Sessions -> Session \cup {NoRow}]
      BY <1>0, <2>1, <2>2 DEF TypeOK
    <2>4. \A e \in Externals : (shipment'[e] # NoRow /\ shipment'[e].arrival # None)
                               => shipment'[e] = shipment[e]
      BY <2>1, <2>2
    <2>6. /\ dead \in SUBSET Calls /\ OnCarton(Cartons) \subseteq dead
          /\ OnArrival(Arrivals) \subseteq dead
      BY DEF OnCarton, OnArrival
    <2>7. \A a \in Arrivals : arrival'[a] = IF a \in Arrivals THEN NoRow ELSE arrival[a]
      BY <2>1
    <2> HIDE DEF dead
    <2> QED
      BY <2>1, <2>3, <2>4, <2>6, <2>7, RemovalKeeps
  <1> QED
    BY <1>1, <1>2, <1>3

-----------------------------------------------------------------------------
LEMMA FlowStarts ==
    ASSUME Init
    PROVE  FlowInv
  <1> USE CartonAssumption
  <1>1. Idle.at = "idle" /\ Idle \in Call
    BY RowKinds
  <1>2. \A c \in Cartons : /\ Announced(c) \in Carton /\ Announced(c) # NoRow
                           /\ Announced(c).shipment = c /\ Announced(c).location = None
    BY DEF Announced, Carton, Claim, Unclaimed, Externals, NoRow
  <1>3. /\ receipts = [c \in Cartons |-> <<>>] /\ placements = [c \in Cartons |-> <<>>]
        /\ blocked = {} /\ opened = {} /\ call = [r \in Calls |-> Idle] /\ overlap = {}
        /\ handlers \in Workloads
    BY DEF Init
  <1>4. putaway \in [Sessions -> Session \cup {NoRow}]
    BY DEF Init, Session
  <1>5. \A k \in Calls : CallStands(k)
    BY <1>1, <1>3 DEF CallStands, CartonStages
  <1>6. ASSUME arrival \in [Arrivals -> Arrival \cup {NoRow}],
               shipment \in [Externals -> Shipment \cup {NoRow}],
               carton \in [Cartons -> Carton \cup {NoRow}],
               items \in [Cartons -> [Arrivals -> Rows]]
        PROVE  TypeOK
    <2>1. /\ receipts \in [Cartons -> Seq({"RECEIVED", "REVERSED"})]
          /\ placements \in [Cartons -> Seq(Placement)]
          /\ \A c \in Cartons : Len(receipts[c]) <= MaxReceipts /\ Len(placements[c]) <= MaxPlaces
      BY <1>3
    <2> QED
      BY <1>1, <1>3, <1>4, <1>6, <2>1 DEF TypeOK
  <1>7. CASE InitCards
    <2>1. \A c \in Cartons, a \in Arrivals : items[c][a] = Uncounted
      BY <1>7 DEF InitCards
    <2>2. items \in [Cartons -> [Arrivals -> Rows]]
      BY <1>7 DEF InitCards, Uncounted, Rows
    <2>3. arrival \in [Arrivals -> Arrival \cup {NoRow}]
      <3>1. CASE arrival = [a \in Arrivals |-> NoRow]
        BY <3>1
      <3>2. ASSUME NEW x \in Refs, NEW known \in SUBSET Products,
                   arrival = [a \in Arrivals |->
                      IF a = 1 THEN [status |-> "EXPECTED", ref |-> x, session |-> FALSE,
                                     declared |-> known]
                      ELSE NoRow]
            PROVE  arrival \in [Arrivals -> Arrival \cup {NoRow}]
        BY <3>2 DEF Arrival
      <3> QED
        BY <1>7, <3>1, <3>2 DEF InitCards
    <2>4. TypeOK
      BY <1>6, <1>7, <2>2, <2>3 DEF InitCards
    <2>5. \A c \in Cartons : ~Exists(c)
      BY <1>7 DEF InitCards, Exists
    <2>6. LinesStand
      BY <2>1, <2>5 DEF LinesStand, AtMostOnce, LinkedStands, NotBeside, Counts, Uncounted
    <2> QED
      BY <1>5, <2>4, <2>5, <2>6 DEF FlowInv, CartonStands, LocatedIsPlaced, NoOrphanCarton
  <1>8. CASE InitArrived
    <2> DEFINE row == [status |-> "row", arrival |-> 1]
               one == [linked |-> 1, loose |-> 0]
    <2>0. 1 \in Arrivals /\ None # 1
      BY DEF Arrivals
    <2>1. /\ shipment = [e \in Externals |-> IF e \in Arrived THEN row ELSE NoRow]
          /\ carton = [c \in Cartons |-> IF c \in Arrived THEN Announced(c) ELSE NoRow]
          /\ items = [c \in Cartons |-> [a \in Arrivals |->
                        IF c \in Arrived /\ a = 1 THEN one ELSE Uncounted]]
      BY <1>8 DEF InitArrived
    <2>2. row \in Shipment /\ row.arrival = 1 /\ row # NoRow
      BY <2>0 DEF Shipment, NoRow
    <2>3. one \in Rows /\ Uncounted \in Rows /\ one.linked = 1 /\ one.loose = 0
          /\ Uncounted.linked = 0 /\ Uncounted.loose = 0
      BY DEF Rows, Uncounted
    <2>4. /\ arrival \in [Arrivals -> Arrival \cup {NoRow}]
          /\ \A a \in Arrivals : arrival[a] # NoRow => arrival[a].declared = {}
      BY <1>8 DEF InitArrived, Arrival
    <2> HIDE DEF row, one
    <2>5. TypeOK
      BY <1>2, <1>6, <2>1, <2>2, <2>3, <2>4
    <2>6. \A c \in Cartons : Exists(c) => /\ c \in Arrived /\ c \in Externals /\ carton[c] = Announced(c)
                                          /\ shipment[carton[c].shipment] = row
      BY <1>2, <2>1 DEF Exists, Externals
    <2>7. \A c \in Arrived : Exists(c) /\ ArrivalOf(c) = 1
      BY <1>2, <2>1, <2>2, <2>6 DEF Exists, ArrivalOf
    <2>8. LinesStand
      <3> SUFFICES ASSUME NEW c \in Cartons, NEW a \in Arrivals
                   PROVE  AtMostOnce(c, a) /\ LinkedStands(c, a) /\ NotBeside(c, a) /\ Counts(c, a)
        BY DEF LinesStand
      <3>1. items[c][a] = IF c \in Arrived /\ a = 1 THEN one ELSE Uncounted
        BY <2>1
      <3> QED
        BY <2>3, <2>4, <2>6, <2>7, <3>1 DEF AtMostOnce, LinkedStands, NotBeside, Counts
    <2>10. \A c \in Cartons : CartonStands(c)
      BY <2>2, <2>6 DEF CartonStands
    <2>11. LocatedIsPlaced
      BY <1>2, <2>6 DEF LocatedIsPlaced
    <2>12. NoOrphanCarton
      BY <2>0, <2>6, <2>7 DEF NoOrphanCarton
    <2> QED
      BY <1>5, <2>5, <2>8, <2>10, <2>11, <2>12 DEF FlowInv
  <1> QED
    BY <1>7, <1>8 DEF Init

LEMMA FlowKept ==
    ASSUME FlowInv, [Next]_vars
    PROVE  FlowInv'
  <1>1. CASE UNCHANGED vars
    <2>1. TypeOK' /\ CartonsKeep /\ LocatedIsPlaced'
      BY <1>1 DEF vars, cards, history, floor, FlowInv, TypeOK, CartonsKeep, Exists, LocatedIsPlaced,
                  OpenPlaces
    <2> QED
      BY <1>1, <2>1, QuietKeeps DEF vars, cards, history, floor
  <1>2. ASSUME Next PROVE FlowInv'
    BY <1>2, ReadStepsKeep, FloorKeeps, StatusStepsKeep, PlaceKeeps, ArrivalKeeps, InsertKeeps,
       DeletionsKeep DEF Next, ReadStep, FloorStep, StatusStep
  <1> QED
    BY <1>1, <1>2

LEMMA FlowInvariant == Spec => []FlowInv
  BY FlowStarts, FlowKept, PTL DEF Spec

(* Every row keeps its type, whatever is called at once.                   *)
THEOREM CartonTypeCorrect == GoodsSpec => []TypeOK
  BY FlowInvariant, CartonScene, PTL DEF FlowInv

(* Where a carton is, an open placement says so: the transaction of a      *)
(* placement closes at most what was open when it came to close, and then  *)
(* appends its own, in whatever order several placements commit; deleting  *)
(* a carton fails the placements that have read it.                        *)
THEOREM CartonIsWherePlaced == GoodsSpec => []LocatedIsPlaced
  BY FlowInvariant, CartonScene, PTL DEF FlowInv

(* A carton without an arrival is one whose card overtook the deletion of  *)
(* the arrival: the deletion takes with it every carton of the shipments   *)
(* it found, and what came in after it looked is what CallStands remembers.*)
THEOREM OrphansCameLate == GoodsSpec => []NoOrphanCarton
  BY FlowInvariant, CartonScene, PTL DEF FlowInv

(* A carton is counted in an arrival once at most, and never beside a      *)
(* declaration of the customer card; one that has no line of its own is    *)
(* mirrored by a line of no carton.  A card adds a line only where none    *)
(* mirrors it, also not the one the same carton has left when it was       *)
(* deleted before; and what is linked is of the carton's own arrival,      *)
(* LinkedStands, so that a carton that comes anew has no line.             *)
THEOREM ManifestCountsOnce == GoodsSpec => []CountedOnce
  <1>1. FlowInv => CountedOnce
    BY DEF FlowInv, LinesStand, AtMostOnce, NotBeside, Counts, CountedOnce
  <1> QED
    BY <1>1, FlowInvariant, CartonScene, PTL

-----------------------------------------------------------------------------
(***************************************************************************)
(* The report.  Its verdicts, handoffs and calls.                          *)
(***************************************************************************)
(* Type correctness                                                        *)

(* What a line is worth: the damage counted against it never exceeds what  *)
(* was scanned, so that the confirmed quantity is a natural number.        *)
LEMMA VerdictType ==
    ASSUME Rep!TypeOK, NEW l \in Lines
    PROVE  Rep!Verdict(l) \in Rep!LineVerdict
  BY DEF Rep!TypeOK, Rep!Verdict, Rep!LineVerdict

LEMMA LiveType ==
    ASSUME Rep!TypeOK
    PROVE  [l \in Lines |-> Rep!Verdict(l)] \in Rep!Live
  BY VerdictType DEF Rep!Live

(* The fields a call has in each of its stages.                            *)
LEMMA ReportCallFields ==
    ASSUME NEW c \in Rep!Call
    PROVE  /\ c.stage \in {"draft", "computing", "writing", "tally"} => c.exists \in BOOLEAN
           /\ c.stage \in {"writing", "tally", "closing"} => c.live \in Rep!Live
           /\ c.stage = "damage" => c.line \in Lines /\ c.qty \in Nat /\ c.total \in Nat
           /\ c.stage = "accepting" => c.move \in Rep!MoveId
  BY DEF Rep!Call

(* The submits that have ended and those that have taken their first step.   *)
LEMMA DoneType == Rep!Done \in Rep!Call
  BY DEF Rep!Done, Rep!Call

LEMMA SendType ==
    ASSUME Rep!TypeOK, NEW r \in Submits, Rep!Send(r)
    PROVE  Rep!TypeOK'
  <1>1. UNCHANGED Rep!dbVars /\ \E c \in Rep!Call : submits' = [submits EXCEPT ![r] = c]
    <2>1. CASE Rep!SaveDraft(r)
      <3>1. [stage |-> "draft", exists |-> status = "DRAFT"] \in Rep!Call
        BY DEF Rep!Call
      <3> QED
        BY <2>1, <3>1 DEF Rep!SaveDraft, Rep!Goto
    <2>2. CASE Rep!SubmitReport(r)
      <3>1. [stage |-> "computing", exists |-> status = "DRAFT"] \in Rep!Call
        BY DEF Rep!Call
      <3> QED
        BY <2>2, <3>1 DEF Rep!SubmitReport, Rep!Goto
    <2>3. CASE Rep!Review(r)
      <3>1. [stage |-> "reviewing"] \in Rep!Call
        BY DEF Rep!Call
      <3> QED
        BY <2>3, <3>1 DEF Rep!Review, Rep!Goto
    <2>4. CASE Rep!Close(r)
      <3>1. [stage |-> "shutting"] \in Rep!Call
        BY DEF Rep!Call
      <3> QED
        BY <2>4, <3>1 DEF Rep!Close, Rep!Goto
    <2>5. ASSUME NEW l \in Lines, NEW q \in Damages, Rep!MarkDamage(r, l, q)
          PROVE  UNCHANGED Rep!dbVars /\ \E c \in Rep!Call : submits' = [submits EXCEPT ![r] = c]
      <3>1. damaged[l] \in Nat /\ q \in Nat
        BY ReportAssumed DEF Rep!TypeOK, Rep!ReportAssumption
      <3>2. [stage |-> "damage", line |-> l, qty |-> q, total |-> damaged[l] + q] \in Rep!Call
        BY <3>1 DEF Rep!Call
      <3> QED
        BY <2>5, <3>2 DEF Rep!MarkDamage, Rep!Goto
    <2>6. ASSUME NEW m \in moves, Rep!Accept(r, m)
          PROVE  UNCHANGED Rep!dbVars /\ \E c \in Rep!Call : submits' = [submits EXCEPT ![r] = c]
      <3>1. m \in Rep!Move
        BY DEF Rep!TypeOK
      <3>2. [stage |-> "accepting", move |-> [by |-> m.by, line |-> m.line]] \in Rep!Call
        BY <3>1 DEF Rep!Call, Rep!MoveId, Rep!Move
      <3> QED
        BY <2>6, <3>2 DEF Rep!Accept, Rep!Goto
    <2> QED
      BY <2>1, <2>2, <2>3, <2>4, <2>5, <2>6 DEF Rep!Send
  <1>2. PICK c \in Rep!Call : submits' = [submits EXCEPT ![r] = c]
    BY <1>1
  <1>3. submits' \in [Submits -> Rep!Call]
    BY <1>2 DEF Rep!TypeOK
  <1> QED
    BY <1>1, <1>3 DEF Rep!TypeOK, Rep!dbVars, Rep!countVars, Rep!reportVars

(* The moves after the commit of a submit and after an acceptance.         *)
LEMMA HandoffType ==
    ASSUME NEW r \in Submits, submits[r].live \in Rep!Live
    PROVE  Rep!Handoff(r) \subseteq {m \in Rep!Move : m.by = r}
  <1> SUFFICES ASSUME NEW m \in Rep!Handoff(r) PROVE m \in Rep!Move /\ m.by = r
    OBVIOUS
  <1>1. PICK l \in Lines : m = [by |-> r, line |-> l, qty |-> submits[r].live[l].confirmed,
                               linked |-> TRUE, accepts |-> 0]
    BY DEF Rep!Handoff
  <1>2. submits[r].live[l].confirmed \in Nat
    BY DEF Rep!Live, Rep!LineVerdict
  <1> QED
    BY <1>1, <1>2 DEF Rep!Move

LEMMA UnlinkedType ==
    ASSUME Rep!TypeOK, NEW m \in moves
    PROVE  /\ [m EXCEPT !.linked = FALSE] \in Rep!Move
           /\ [m EXCEPT !.linked = FALSE].by = m.by
           /\ [m EXCEPT !.linked = FALSE].line = m.line
  <1>1. m \in Rep!Move
    BY DEF Rep!TypeOK
  <1> QED
    BY <1>1 DEF Rep!Move

LEMMA AcceptedType ==
    ASSUME Rep!TypeOK, NEW m \in moves
    PROVE  /\ [m EXCEPT !.accepts = @ + 1] \in Rep!Move
           /\ [m EXCEPT !.accepts = @ + 1].by = m.by
           /\ [m EXCEPT !.accepts = @ + 1].line = m.line
  <1>1. m \in Rep!Move
    BY DEF Rep!TypeOK
  <1> QED
    BY <1>1 DEF Rep!Move

LEMMA ContinueType ==
    ASSUME Rep!TypeOK, NEW r \in Submits, Rep!Continue(r)
    PROVE  Rep!TypeOK'
  <1>0. submits[r] \in Rep!Call /\ submits \in [Submits -> Rep!Call]
    BY DEF Rep!TypeOK
  <1>1. ASSUME Rep!Goto(r, Rep!Done) PROVE submits' \in [Submits -> Rep!Call]
    BY <1>0, <1>1, DoneType DEF Rep!Goto
  <1>2. CASE Rep!WriteDraft(r)
    <2>1. submits[r].exists \in BOOLEAN
      BY <1>0, <1>2, ReportCallFields DEF Rep!WriteDraft, Rep!At
    <2>2. drafted' \in BOOLEAN
      BY <1>2 DEF Rep!WriteDraft, Rep!TypeOK
    <2> QED
      BY <1>1, <1>2, <2>2 DEF Rep!WriteDraft, Rep!TypeOK, Rep!countVars
  <1>3. CASE Rep!WriteDamage(r)
    <2>1. submits[r].line \in Lines /\ submits[r].qty \in Nat /\ submits[r].total \in Nat
      BY <1>0, <1>3, ReportCallFields DEF Rep!WriteDamage, Rep!At
    <2>2. damaged' \in [Lines -> Nat] /\ declared' \in [Lines -> Nat]
      BY <1>3, <2>1 DEF Rep!WriteDamage, Rep!TypeOK
    <2> QED
      BY <1>1, <1>3, <2>2 DEF Rep!WriteDamage, Rep!TypeOK, Rep!reportVars
  <1>4. CASE Rep!ComputeLive(r)
    <2>1. submits[r].exists \in BOOLEAN
      BY <1>0, <1>4, ReportCallFields DEF Rep!ComputeLive, Rep!At
    <2> DEFINE c == [stage |-> "writing", exists |-> submits[r].exists,
                     live |-> [l \in Lines |-> Rep!Verdict(l)]]
    <2>2. c \in Rep!Call
      BY <2>1, LiveType DEF Rep!Call
    <2>3. submits' = [submits EXCEPT ![r] = c]
      BY <1>4 DEF Rep!ComputeLive, Rep!Goto
    <2> HIDE DEF c
    <2>4. submits' \in [Submits -> Rep!Call]
      BY <1>0, <2>2, <2>3
    <2> QED
      BY <1>4, <2>4 DEF Rep!ComputeLive, Rep!TypeOK, Rep!dbVars, Rep!countVars, Rep!reportVars
  <1>5. CASE Rep!WriteReport(r)
    <2>1. submits[r].stage = "writing"
      BY <1>5 DEF Rep!WriteReport, Rep!At
    <2>2. [submits[r] EXCEPT !.stage = "tally"] \in Rep!Call
      BY <1>0, <2>1 DEF Rep!Call
    <2>3. submits' \in [Submits -> Rep!Call]
      BY <1>0, <1>5, <2>2 DEF Rep!WriteReport, Rep!Goto
    <2> QED
      BY <1>5, <2>3 DEF Rep!WriteReport, Rep!TypeOK, Rep!countVars
  <1>6. CASE Rep!Tally(r)
    <2>1. submits[r].live \in Rep!Live
      BY <1>0, <1>6, ReportCallFields DEF Rep!Tally, Rep!At
    <2>2. PICK d \in BOOLEAN : d = (\E l \in Lines : received[l] # Expected[l])
      OBVIOUS
    <2>3. [stage |-> "closing", live |-> submits[r].live, dirty |-> d] \in Rep!Call
      BY <2>1 DEF Rep!Call
    <2>4. submits' = [submits EXCEPT ![r] = [stage |-> "closing", live |-> submits[r].live, dirty |-> d]]
      BY <1>6, <2>2 DEF Rep!Tally, Rep!Goto
    <2>5. submits' \in [Submits -> Rep!Call]
      BY <1>0, <2>3, <2>4
    <2> QED
      BY <1>6, <2>5 DEF Rep!Tally, Rep!TypeOK, Rep!dbVars, Rep!countVars, Rep!reportVars
  <1>7. CASE Rep!CommitSubmit(r)
    <2>1. submits[r].live \in Rep!Live
      BY <1>0, <1>7, ReportCallFields DEF Rep!CommitSubmit, Rep!At
    <2>2. snapshot' \in [by : Submits, live : Rep!Live]
      BY <1>7, <2>1 DEF Rep!CommitSubmit
    <2>3. moves' \subseteq Rep!Move
      BY <1>7, <2>1, HandoffType, UnlinkedType DEF Rep!CommitSubmit
    <2>4. session' \in {"RECEIVING", "PAUSED"} \cup Rep!Closed
      BY <1>7 DEF Rep!CommitSubmit, Rep!CompleteSession, Rep!TypeOK, Rep!Closed
    <2>5. status' \in Rep!Locked /\ locked' = Rep!Nobody /\ UNCHANGED <<paused, drafted, received, damaged, declared>>
      BY <1>7 DEF Rep!CommitSubmit, Rep!Locked, Rep!countVars
    <2>6. submits' \in [Submits -> Rep!Call]
      BY <1>1, <1>7 DEF Rep!CommitSubmit
    <2> QED
      BY <2>2, <2>3, <2>4, <2>5, <2>6 DEF Rep!TypeOK
  <1>8. CASE Rep!WriteReview(r) \/ Rep!WriteClose(r)
    <2>1. status' \in Rep!Locked /\ Rep!Goto(r, Rep!Done)
          /\ UNCHANGED <<session, paused, Rep!countVars, drafted, snapshot, moves, locked>>
      BY <1>8 DEF Rep!WriteReview, Rep!WriteClose, Rep!Locked
    <2> QED
      BY <1>1, <2>1 DEF Rep!TypeOK, Rep!countVars
  <1>9. CASE Rep!WriteAccept(r)
    <2>1. moves' \subseteq Rep!Move
      <3> SUFFICES ASSUME NEW n \in moves' PROVE n \in Rep!Move
        OBVIOUS
      <3>1. PICK m \in moves : n = IF [by |-> m.by, line |-> m.line] = submits[r].move
                                 THEN [m EXCEPT !.accepts = @ + 1] ELSE m
        BY <1>9 DEF Rep!WriteAccept
      <3>2. m \in Rep!Move /\ [m EXCEPT !.accepts = @ + 1] \in Rep!Move
        BY AcceptedType DEF Rep!TypeOK
      <3> QED
        BY <3>1, <3>2
    <2> QED
      BY <1>1, <1>9, <2>1 DEF Rep!WriteAccept, Rep!TypeOK, Rep!countVars
  <1> QED
    BY <1>2, <1>3, <1>4, <1>5, <1>6, <1>7, <1>8, <1>9 DEF Rep!Continue

LEMMA AbortType ==
    ASSUME Rep!TypeOK, NEW r \in Submits, Rep!Abort(r)
    PROVE  Rep!TypeOK'
  <1>1. submits' \in [Submits -> Rep!Call]
    BY DoneType DEF Rep!Abort, Rep!Goto, Rep!TypeOK
  <1> QED
    BY <1>1 DEF Rep!Abort, Rep!TypeOK, Rep!countVars

LEMMA FloorType ==
    ASSUME Rep!TypeOK, Rep!Floor
    PROVE  Rep!TypeOK'
  <1>1. ASSUME NEW l \in Lines, Rep!ScanUnit(l) PROVE Rep!TypeOK'
    <2>1. received' \in [Lines -> Nat]
      BY <1>1 DEF Rep!ScanUnit, Rep!TypeOK
    <2> QED
      BY <1>1, <2>1 DEF Rep!ScanUnit, Rep!TypeOK, Rep!reportVars
  <1>2. ASSUME NEW l \in Lines, NEW n \in 0 .. (Expected[l] + 1), Rep!CorrectQuantity(l, n)
        PROVE  Rep!TypeOK'
    <2>1. received' \in [Lines -> Nat]
      BY <1>2 DEF Rep!CorrectQuantity, Rep!TypeOK
    <2> QED
      BY <1>2, <2>1 DEF Rep!CorrectQuantity, Rep!TypeOK, Rep!reportVars
  <1>3. CASE Rep!PauseSession
    <2>1. session' \in {"RECEIVING", "PAUSED"} \cup Rep!Closed /\ paused' \in BOOLEAN
      BY <1>3 DEF Rep!PauseSession, Rep!TypeOK
    <2> QED
      BY <1>3, <2>1 DEF Rep!PauseSession, Rep!TypeOK, Rep!countVars, Rep!reportVars
  <1> QED
    BY <1>1, <1>2, <1>3 DEF Rep!Floor

LEMMA InitType == Rep!Init => Rep!TypeOK
  <1>1. Rep!Unsent \in Rep!Call
    BY DEF Rep!Unsent, Rep!Call
  <1>2. Rep!Init => /\ session \in {"RECEIVING", "PAUSED"} \cup Rep!Closed
                /\ received \in [Lines -> Nat] /\ damaged \in [Lines -> Nat]
                /\ declared \in [Lines -> Nat]
    BY DEF Rep!Init
  <1>3. Rep!Init => /\ status \in {"none", "DRAFT"} \cup Rep!Locked
                /\ snapshot \in {Rep!NoLines} \cup [by : Submits, live : Rep!Live]
                /\ moves \in SUBSET Rep!Move /\ locked \in Submits \cup {Rep!Nobody}
    BY DEF Rep!Init
  <1>4. Rep!Init => submits \in [Submits -> Rep!Call] /\ drafted \in BOOLEAN /\ paused \in BOOLEAN
    BY <1>1 DEF Rep!Init
  <1> QED
    BY <1>2, <1>3, <1>4 DEF Rep!TypeOK

LEMMA ReportTypes == Rep!Spec => []Rep!TypeOK
  <1>1. Rep!TypeOK /\ [Rep!Next]_Rep!vars => Rep!TypeOK'
    <2> SUFFICES ASSUME Rep!TypeOK, [Rep!Next]_Rep!vars PROVE Rep!TypeOK'
      OBVIOUS
    <2>1. CASE Rep!Next
      BY <2>1, FloorType, SendType, ContinueType, AbortType DEF Rep!Next
    <2>2. CASE UNCHANGED Rep!vars
      BY <2>2 DEF Rep!TypeOK, Rep!vars
    <2> QED
      BY <2>1, <2>2
  <1> QED
    BY <1>1, InitType, PTL DEF Rep!Spec

(* Every reachable state of the report has its types: in particular the    *)
(* units confirmed, handed off and declared damaged never go below zero    *)
(* (receiving-reports.service.ts, computeLineVerification).                *)
THEOREM ReportTypeCorrect == GoodsSpec => []Rep!TypeOK
  BY ReportTypes, ReportScene, PTL

-----------------------------------------------------------------------------
(* One handoff                                                             *)

(* Why an undrafted report is handed off once.  Only a draft leaves a row  *)
(* behind that is not submitted, so that without one no call has found a   *)
(* row ("exists"); a submit that holds the lock therefore creates it, and  *)
(* nothing is submitted before that submit commits.                        *)
RowFound == {"draft", "computing", "writing", "tally"}
NothingFound ==
    /\ status # "DRAFT"
    /\ \A r \in Submits : submits[r].stage \in RowFound => ~submits[r].exists
LockHeld == \A r \in Submits : submits[r].stage \in {"tally", "closing"} => locked = r
FirstSubmit ==
    /\ locked # Rep!Nobody => status = "none"
    /\ status = "none" => moves = {}
    /\ \A m, n \in moves : m.by = n.by

HandoffInv == Rep!TypeOK /\ LockHeld /\ (~drafted => NothingFound /\ FirstSubmit)

(* A step that leaves the report and its submits alone.                      *)
LEMMA QuietHandoff ==
    ASSUME HandoffInv, Rep!TypeOK', UNCHANGED <<Rep!reportVars, submits>>
    PROVE  HandoffInv'
  BY DEF HandoffInv, LockHeld, NothingFound, FirstSubmit, Rep!reportVars

(* A call takes a step that leaves the report alone.                       *)
LEMMA CallHandoff ==
    ASSUME HandoffInv, Rep!TypeOK', UNCHANGED Rep!reportVars,
           NEW r \in Submits, NEW c, submits' = [submits EXCEPT ![r] = c],
           c.stage \in {"tally", "closing"} => locked = r,
           ~drafted /\ c.stage \in RowFound => ~c.exists
    PROVE  HandoffInv'
  <1>1. \A x \in Submits : submits'[x] = IF x = r THEN c ELSE submits[x]
    BY DEF HandoffInv, Rep!TypeOK
  <1>2. LockHeld'
    BY <1>1 DEF HandoffInv, LockHeld, Rep!reportVars
  <1>3. ~drafted => NothingFound' /\ FirstSubmit'
    BY <1>1 DEF HandoffInv, NothingFound, FirstSubmit, Rep!reportVars
  <1> QED
    BY <1>2, <1>3 DEF HandoffInv, Rep!reportVars

(* A call that ends at a write of the row while nobody holds its lock.     *)
LEMMA WriteHandoff ==
    ASSUME HandoffInv, Rep!TypeOK', NEW r \in Submits, Rep!Goto(r, Rep!Done), locked = Rep!Nobody,
           UNCHANGED <<locked, moves>>,
           ~drafted' => status' # "DRAFT" /\ ~drafted /\ (status' = "none" => status = "none")
    PROVE  HandoffInv'
  <1>1. \A x \in Submits : submits'[x] = IF x = r THEN Rep!Done ELSE submits[x]
    BY DEF HandoffInv, Rep!TypeOK, Rep!Goto
  <1>2. LockHeld'
    BY <1>1 DEF HandoffInv, LockHeld, Rep!Done
  <1>3. ~drafted' => NothingFound' /\ FirstSubmit'
    BY <1>1 DEF HandoffInv, NothingFound, FirstSubmit, RowFound, Rep!Done
  <1> QED
    BY <1>2, <1>3 DEF HandoffInv

LEMMA SendHandoff ==
    ASSUME HandoffInv, Rep!TypeOK', NEW r \in Submits, Rep!Send(r)
    PROVE  HandoffInv'
  <1>1. CASE Rep!SaveDraft(r) \/ Rep!SubmitReport(r)
    <2>1. PICK b \in BOOLEAN : b = (status = "DRAFT")
      OBVIOUS
    <2>2. PICK s \in {"draft", "computing"} :
             submits' = [submits EXCEPT ![r] = [stage |-> s, exists |-> b]] /\ UNCHANGED Rep!dbVars
      BY <1>1, <2>1 DEF Rep!SaveDraft, Rep!SubmitReport, Rep!Goto
    <2>3. ~drafted => ~b
      BY <2>1 DEF HandoffInv, NothingFound
    <2> QED
      BY <2>2, <2>3, CallHandoff DEF Rep!dbVars
  <1>2. CASE ~Rep!SaveDraft(r) /\ ~Rep!SubmitReport(r)
    <2>1. \E c : submits' = [submits EXCEPT ![r] = c] /\ c.stage \notin RowFound \cup {"closing"}
          /\ UNCHANGED Rep!dbVars
      <3>1. CASE Rep!Review(r) \/ Rep!Close(r)
        <4>1. \E s \in {"reviewing", "shutting"} : submits' = [submits EXCEPT ![r] = [stage |-> s]]
              /\ UNCHANGED Rep!dbVars
          BY <3>1 DEF Rep!Review, Rep!Close, Rep!Goto
        <4> QED
          BY <4>1 DEF RowFound
      <3>2. ASSUME NEW l \in Lines, NEW q \in Damages, Rep!MarkDamage(r, l, q)
            PROVE  \E c : /\ submits' = [submits EXCEPT ![r] = c]
                          /\ c.stage \notin RowFound \cup {"closing"} /\ UNCHANGED Rep!dbVars
        <4> DEFINE c == [stage |-> "damage", line |-> l, qty |-> q, total |-> damaged[l] + q]
        <4>1. submits' = [submits EXCEPT ![r] = c] /\ c.stage \notin RowFound \cup {"closing"}
              /\ UNCHANGED Rep!dbVars
          BY <3>2 DEF Rep!MarkDamage, Rep!Goto, RowFound
        <4> QED
          BY <4>1
      <3>3. ASSUME NEW m \in moves, Rep!Accept(r, m)
            PROVE  \E c : /\ submits' = [submits EXCEPT ![r] = c]
                          /\ c.stage \notin RowFound \cup {"closing"} /\ UNCHANGED Rep!dbVars
        <4> DEFINE c == [stage |-> "accepting", move |-> [by |-> m.by, line |-> m.line]]
        <4>1. submits' = [submits EXCEPT ![r] = c] /\ c.stage \notin RowFound \cup {"closing"}
              /\ UNCHANGED Rep!dbVars
          BY <3>3 DEF Rep!Accept, Rep!Goto, RowFound
        <4> QED
          BY <4>1
      <3> QED
        BY <1>2, <3>1, <3>2, <3>3 DEF Rep!Send
    <2>2. PICK c : submits' = [submits EXCEPT ![r] = c] /\ c.stage \notin RowFound \cup {"closing"}
          /\ UNCHANGED Rep!dbVars
      BY <2>1
    <2> QED
      BY <2>2, CallHandoff DEF Rep!dbVars, RowFound
  <1> QED
    BY <1>1, <1>2

LEMMA ContinueHandoff ==
    ASSUME HandoffInv, Rep!TypeOK', NEW r \in Submits, Rep!Continue(r)
    PROVE  HandoffInv'
  <1>0. Rep!TypeOK /\ LockHeld /\ submits \in [Submits -> Rep!Call] /\ submits[r] \in Rep!Call
    BY DEF HandoffInv, Rep!TypeOK
  <1>1. CASE Rep!WriteDraft(r)
    <2>1. ~drafted' => ~drafted /\ submits[r].exists
      BY <1>1 DEF Rep!WriteDraft
    <2>2. ~drafted => ~submits[r].exists
      BY <1>1 DEF Rep!WriteDraft, Rep!At, HandoffInv, NothingFound, RowFound
    <2> QED
      BY <1>1, <2>1, <2>2, WriteHandoff DEF Rep!WriteDraft
  <1>2. CASE Rep!WriteDamage(r)
    BY <1>2, CallHandoff DEF Rep!WriteDamage, Rep!Goto, Rep!Done, RowFound
  <1>3. CASE Rep!ComputeLive(r)
    <2> DEFINE c == [stage |-> "writing", exists |-> submits[r].exists,
                     live |-> [l \in Lines |-> Rep!Verdict(l)]]
    <2>1. submits' = [submits EXCEPT ![r] = c] /\ c.stage = "writing" /\ c.exists = submits[r].exists
      BY <1>3 DEF Rep!ComputeLive, Rep!Goto
    <2>2. ~drafted => ~submits[r].exists
      BY <1>3 DEF Rep!ComputeLive, Rep!At, HandoffInv, NothingFound, RowFound
    <2>3. UNCHANGED Rep!reportVars
      BY <1>3 DEF Rep!ComputeLive, Rep!dbVars
    <2> HIDE DEF c
    <2> QED
      BY <2>1, <2>2, <2>3, CallHandoff
  <1>4. CASE Rep!WriteReport(r)
    <2>1. \A x \in Submits : submits'[x] = IF x = r THEN [submits[r] EXCEPT !.stage = "tally"]
                               ELSE submits[x]
      BY <1>0, <1>4 DEF Rep!WriteReport, Rep!Goto
    <2>2. submits'[r].stage = "tally" /\ submits'[r].exists = submits[r].exists
      BY <1>0, <1>4, <2>1 DEF Rep!WriteReport, Rep!At, Rep!Call
    <2>3. LockHeld'
      BY <1>0, <1>4, <2>1, <2>2, ReportAssumed
         DEF Rep!WriteReport, LockHeld, Rep!Nobody, Rep!ReportAssumption
    <2>4. ASSUME ~drafted PROVE NothingFound' /\ FirstSubmit'
      <3>1. ~submits[r].exists
        BY <1>4, <2>4 DEF Rep!WriteReport, Rep!At, HandoffInv, NothingFound, RowFound
      <3>2. NothingFound'
        BY <1>4, <2>1, <2>2, <2>4, <3>1 DEF Rep!WriteReport, HandoffInv, NothingFound
      <3> QED
        BY <1>4, <2>4, <3>1, <3>2 DEF Rep!WriteReport, HandoffInv, FirstSubmit
    <2> QED
      BY <1>4, <2>3, <2>4 DEF Rep!WriteReport, HandoffInv
  <1>5. CASE Rep!Tally(r)
    <2> DEFINE d == \E l \in Lines : received[l] # Expected[l]
               c == [stage |-> "closing", live |-> submits[r].live, dirty |-> d]
    <2>1. submits' = [submits EXCEPT ![r] = c] /\ c.stage = "closing"
      BY <1>5 DEF Rep!Tally, Rep!Goto
    <2>2. UNCHANGED Rep!reportVars /\ locked = r
      BY <1>0, <1>5 DEF Rep!Tally, Rep!At, Rep!dbVars, LockHeld
    <2> HIDE DEF c
    <2> QED
      BY <2>1, <2>2, CallHandoff DEF RowFound
  <1>6. CASE Rep!CommitSubmit(r)
    <2>1. \A x \in Submits : submits'[x] = IF x = r THEN Rep!Done ELSE submits[x]
      BY <1>0, <1>6 DEF Rep!CommitSubmit, Rep!Goto
    <2>2. locked = r /\ submits[r].live \in Rep!Live
      BY <1>0, <1>6, ReportCallFields DEF Rep!CommitSubmit, Rep!At, LockHeld
    <2>3. LockHeld'
      BY <1>0, <2>1, <2>2 DEF LockHeld, Rep!Done
    <2>4. ASSUME ~drafted PROVE NothingFound' /\ FirstSubmit'
      <3>1. moves = {}
        BY <2>2, <2>4, ReportAssumed
           DEF HandoffInv, FirstSubmit, Rep!Nobody, Rep!ReportAssumption
      <3>2. moves' = Rep!Handoff(r)
        BY <1>6, <3>1 DEF Rep!CommitSubmit
      <3>3. \A m, n \in moves' : m.by = n.by
        BY <2>2, <3>2, HandoffType
      <3>4. NothingFound'
        BY <1>6, <2>1, <2>4 DEF Rep!CommitSubmit, HandoffInv, NothingFound, RowFound, Rep!Done
      <3> QED
        BY <1>6, <3>3, <3>4 DEF Rep!CommitSubmit, FirstSubmit
    <2> QED
      BY <1>6, <2>3, <2>4 DEF Rep!CommitSubmit, HandoffInv
  <1>7. CASE Rep!WriteReview(r) \/ Rep!WriteClose(r)
    BY <1>7, WriteHandoff DEF Rep!WriteReview, Rep!WriteClose
  <1>8. CASE Rep!WriteAccept(r)
    <2>1. \A x \in Submits : submits'[x] = IF x = r THEN Rep!Done ELSE submits[x]
      BY <1>0, <1>8 DEF Rep!WriteAccept, Rep!Goto
    <2>2. \A n \in moves' : \E m \in moves : n.by = m.by
      <3> SUFFICES ASSUME NEW n \in moves' PROVE \E m \in moves : n.by = m.by
        OBVIOUS
      <3>1. PICK m \in moves : n = IF [by |-> m.by, line |-> m.line] = submits[r].move
                                 THEN [m EXCEPT !.accepts = @ + 1] ELSE m
        BY <1>8 DEF Rep!WriteAccept
      <3> QED
        BY <1>0, <3>1, AcceptedType
    <2>3. LockHeld'
      BY <1>0, <1>8, <2>1 DEF Rep!WriteAccept, LockHeld, Rep!Done
    <2>4. ASSUME ~drafted PROVE NothingFound' /\ FirstSubmit'
      <3>1. NothingFound'
        BY <1>8, <2>1, <2>4 DEF Rep!WriteAccept, HandoffInv, NothingFound, RowFound, Rep!Done
      <3> QED
        BY <1>8, <2>2, <2>4, <3>1 DEF Rep!WriteAccept, HandoffInv, FirstSubmit
    <2> QED
      BY <1>8, <2>3, <2>4 DEF Rep!WriteAccept, HandoffInv
  <1> QED
    BY <1>1, <1>2, <1>3, <1>4, <1>5, <1>6, <1>7, <1>8 DEF Rep!Continue

LEMMA AbortHandoff ==
    ASSUME HandoffInv, Rep!TypeOK', NEW r \in Submits, Rep!Abort(r)
    PROVE  HandoffInv'
  <1>0. Rep!TypeOK
    BY DEF HandoffInv
  <1>1. \A x \in Submits : submits'[x] = IF x = r THEN Rep!Done ELSE submits[x]
    BY <1>0 DEF Rep!Abort, Rep!Goto, Rep!TypeOK
  <1>2. LockHeld'
    BY <1>1 DEF Rep!Abort, HandoffInv, LockHeld, Rep!Done
  <1>3. ~drafted => NothingFound' /\ FirstSubmit'
    BY <1>1 DEF Rep!Abort, HandoffInv, NothingFound, FirstSubmit, RowFound, Rep!Done
  <1> QED
    BY <1>2, <1>3 DEF Rep!Abort, HandoffInv

LEMMA HandoffInvariant == Rep!Spec => []HandoffInv
  <1>1. Rep!Init => HandoffInv
    BY InitType DEF Rep!Init, HandoffInv, LockHeld, NothingFound, FirstSubmit, RowFound, Rep!Unsent
  <1>2. HandoffInv /\ Rep!TypeOK' /\ [Rep!Next]_Rep!vars => HandoffInv'
    <2> SUFFICES ASSUME HandoffInv, Rep!TypeOK', [Rep!Next]_Rep!vars PROVE HandoffInv'
      OBVIOUS
    <2>1. CASE Rep!Floor
      <3>1. UNCHANGED <<Rep!reportVars, submits>>
        BY <2>1 DEF Rep!Floor, Rep!ScanUnit, Rep!CorrectQuantity, Rep!PauseSession
      <3> QED
        BY <3>1, QuietHandoff
    <2>2. CASE UNCHANGED Rep!vars
      BY <2>2, QuietHandoff DEF Rep!vars, Rep!reportVars
    <2> QED
      BY <2>1, <2>2, SendHandoff, ContinueHandoff, AbortHandoff DEF Rep!Next
  <1> QED
    BY <1>1, <1>2, ReportTypes, PTL DEF Rep!Spec

(* However many submits overlap, pause, abort or are corrected meanwhile,  *)
(* the goods of a line that was never drafted are handed off by one of     *)
(* them (receiving-reports.service.ts, submitReport).                      *)
THEOREM UndraftedHandedOffOnce == GoodsSpec => []HandedOffOnce
  <1>1. HandoffInv => HandedOffOnce
    BY DEF HandoffInv, FirstSubmit, HandedOffOnce, Rep!HandedOffOnce
  <1> QED
    BY <1>1, HandoffInvariant, ReportScene, PTL

-----------------------------------------------------------------------------
(***************************************************************************)
(* Temporary Storage.                                                      *)
(***************************************************************************)
(* The locals a call holds are determined by its stage.                    *)
LEMMA StorageCallFields ==
    ASSUME TS!TypeOK, NEW r \in Scans
    PROVE  /\ scans[r].stage \in {"begin", "claim", "store"} =>
                /\ scans[r].station \in Stations /\ scans[r].op \in OpIds
                /\ scans[r].code \in Codes /\ scans[r].move \in Moves
           /\ scans[r].stage \in {"begin", "claim"} =>
                scans[r] \in [stage : {"begin", "claim"}, station : Stations,
                            op : OpIds, code : Codes, move : Moves]
           /\ TS!At(r, "store") => scans[r].found \in TS!Container \cup {TS!NoRow}
           /\ TS!At(r, "review") =>
                scans[r].station \in Stations /\ scans[r].op \in OpIds
                /\ scans[r].sku \in Skus
           /\ TS!At(r, "accept") => scans[r].station \in Stations /\ scans[r].move \in Moves
  <1>1. scans[r] \in TS!Call
    BY DEF TS!TypeOK
  <1> QED
    BY <1>1 DEF TS!Call, TS!At, TS!Unsent, TS!Done

(* Moving a call to a well-formed stage keeps the calls well-formed.       *)
LEMMA StorageGoto ==
    ASSUME TS!TypeOK, NEW r \in Scans, NEW c \in TS!Call, TS!Goto(r, c)
    PROVE  scans' \in [Scans -> TS!Call]
  BY DEF TS!TypeOK, TS!Goto

LEMMA StorageReturn ==
    ASSUME TS!TypeOK, NEW r \in Scans, TS!Return(r)
    PROVE  scans' \in [Scans -> TS!Call]
  <1>1. TS!Done \in TS!Call
    BY DEF TS!Call
  <1> QED
    BY <1>1, StorageGoto DEF TS!Return

(* A container found by a call is still there, and still its customer's.   *)
FoundStands ==
    \A r \in Scans :
        TS!At(r, "store") /\ scans[r].found # TS!NoRow =>
            LET k == container[scans[r].station][scans[r].code] IN
            k # TS!NoRow /\ k.customer = scans[r].found.customer

(* Containers are never taken away and never change their customer.        *)
ItemStands(k, l) == k # TS!NoRow => l # TS!NoRow /\ l.customer = k.customer

(* A container stays well-formed, and its customer's, when it is filled.   *)
LEMMA FilledType ==
    ASSUME NEW k \in TS!Container
    PROVE  /\ TS!Filled(k) \in TS!Container
           /\ TS!Filled(k).customer = k.customer
           /\ TS!Filled(k) # TS!NoRow
  <1> DEFINE st == IF k.qty + 1 >= k.capacity THEN "FULL" ELSE "ACTIVE"
  <1>1. k.qty + 1 \in Nat /\ st \in {"EMPTY", "ACTIVE", "FULL"}
    BY DEF TS!Container
  <1>2. TS!Filled(k) = [k EXCEPT !.qty = k.qty + 1, !.status = st]
    BY DEF TS!Filled
  <1> HIDE DEF st
  <1>3. TS!Filled(k) \in TS!Container /\ TS!Filled(k).customer = k.customer
    BY <1>1, <1>2 DEF TS!Container
  <1> QED
    BY <1>3 DEF TS!Container, TS!NoRow

(* What the storing step puts the unit into.                               *)
LEMMA TargetType ==
    ASSUME TS!TypeOK, FoundStands, NEW r \in Scans, TS!At(r, "store")
    PROVE  /\ TS!Target(scans[r]) \in TS!Container
           /\ ~TS!Refused(scans[r]) =>
                 TS!Target(scans[r]).customer = CustomerOf[scans[r].move]
           /\ TS!Fresh(CustomerOf[scans[r].move]) \in TS!Container
  <1>1. /\ scans[r].station \in Stations /\ scans[r].code \in Codes
        /\ scans[r].move \in Moves
    BY StorageCallFields DEF TS!At
  <1>2. container[scans[r].station][scans[r].code] \in TS!Container \cup {TS!NoRow}
    BY <1>1 DEF TS!TypeOK
  <1>3. TS!Fresh(CustomerOf[scans[r].move]) \in TS!Container
    BY <1>1, StorageAssumed DEF TS!StorageAssumption, TS!TypeOK, TS!Fresh, TS!Container
  <1>4. CASE scans[r].found # TS!NoRow
    BY <1>2, <1>3, <1>4 DEF TS!Target, FoundStands, TS!Refused
  <1>5. CASE scans[r].found = TS!NoRow
    BY <1>3, <1>5 DEF TS!Target, TS!Fresh
  <1> QED
    BY <1>3, <1>4, <1>5

-----------------------------------------------------------------------------
(* The unit of every stored item lies in a container of its customer.      *)
StoredStands ==
    \A r \in Scans :
        item[r].row = "STORED" =>
            LET k == container[item[r].station][item[r].code] IN
            k # TS!NoRow /\ k.customer = CustomerOf[item[r].move]

StorageInv == TS!TypeOK /\ FoundStands /\ StoredStands /\ TS!OneItemPerOperation

(* What a step does to the stored rows: containers stand, items are only   *)
(* added, and under a free operation id.                                   *)
Grows ==
    /\ \A s \in Stations, c \in Codes : ItemStands(container[s][c], container'[s][c])
    /\ \A r \in Scans :
          \/ item'[r] = item[r]
          \/ /\ item'[r] # TS!NoRow
             /\ ~TS!Seen(item'[r].op)
             /\ \A t \in Scans \ {r} : item'[t] = item[t]
             /\ item'[r].row = "STORED" =>
                  LET k == container'[item'[r].station][item'[r].code] IN
                  k # TS!NoRow /\ k.customer = CustomerOf[item'[r].move]

LEMMA StoreGrows ==
    ASSUME TS!TypeOK, FoundStands, NEW r \in Scans, TS!Store(r)
    PROVE  TS!TypeOK' /\ Grows
  <1> DEFINE q == scans[r]
             s == q.station
             next == TS!NextCode(s)
             new == TS!Filled(TS!Target(q))
             filled == [container[s] EXCEPT ![q.code] = new]
             both == [filled EXCEPT ![next] = TS!Fresh(CustomerOf[q.move])]
             row == [row |-> "STORED", op |-> q.op, station |-> s,
                     code |-> q.code, move |-> q.move]
  <1>1. /\ TS!At(r, "store") /\ ~TS!Refused(q) /\ TS!FreeOperation(q.op)
        /\ q.found = TS!NoRow => TS!CanOpen(q)
        /\ TS!WantsSuccessor(q) => next \in Codes \ {q.code} /\ container[s][next] = TS!NoRow
        /\ move' = [move EXCEPT ![q.move] = s]
        /\ container' = [container EXCEPT ![s] =
                           IF TS!WantsSuccessor(q) THEN both ELSE filled]
        /\ item' = [item EXCEPT ![r] = row]
        /\ TS!Return(r) /\ capacity' = capacity
    BY DEF TS!Store
  <1>2. s \in Stations /\ q.op \in OpIds /\ q.code \in Codes /\ q.move \in Moves
    BY <1>1, StorageCallFields DEF TS!At
  <1>3. /\ TS!Target(q) \in TS!Container
        /\ TS!Target(q).customer = CustomerOf[q.move]
        /\ TS!Fresh(CustomerOf[q.move]) \in TS!Container
    BY <1>1, TargetType
  <1>4. new \in TS!Container /\ new.customer = CustomerOf[q.move] /\ new # TS!NoRow
    BY <1>3, FilledType
  <1>5. ItemStands(container[s][q.code], new)
    <2>1. CASE q.found # TS!NoRow
      BY <1>3, <1>4, <2>1 DEF ItemStands, TS!Target
    <2>2. CASE q.found = TS!NoRow
      BY <1>1, <2>2 DEF ItemStands, TS!CanOpen
    <2> QED
      BY <2>1, <2>2
  <1>6. container[s] \in [Codes -> TS!Container \cup {TS!NoRow}]
    BY <1>2 DEF TS!TypeOK
  <1> HIDE DEF new, next
  <1>7. /\ filled \in [Codes -> TS!Container \cup {TS!NoRow}]
        /\ filled[q.code] = new
        /\ \A c \in Codes : ItemStands(container[s][c], filled[c])
    BY <1>2, <1>4, <1>5, <1>6 DEF ItemStands
  <1>8. TS!WantsSuccessor(q) =>
          /\ both \in [Codes -> TS!Container \cup {TS!NoRow}]
          /\ both[q.code] = new
          /\ \A c \in Codes : ItemStands(container[s][c], both[c])
    <2>1. SUFFICES ASSUME TS!WantsSuccessor(q)
                   PROVE  /\ both \in [Codes -> TS!Container \cup {TS!NoRow}]
                          /\ both[q.code] = new
                          /\ \A c \in Codes : ItemStands(container[s][c], both[c])
      OBVIOUS
    <2>2. next \in Codes \ {q.code} /\ container[s][next] = TS!NoRow
      BY <1>1, <2>1
    <2> HIDE DEF filled
    <2>3. ItemStands(container[s][next], TS!Fresh(CustomerOf[q.move]))
      BY <2>2 DEF ItemStands
    <2>4. both \in [Codes -> TS!Container \cup {TS!NoRow}]
      BY <1>3, <1>7
    <2>5. \A c \in Codes : both[c] = IF c = next THEN TS!Fresh(CustomerOf[q.move])
                                     ELSE filled[c]
      BY <1>7
    <2> QED
      BY <1>2, <1>7, <2>2, <2>3, <2>4, <2>5
  <1> DEFINE row2 == IF TS!WantsSuccessor(q) THEN both ELSE filled
  <1>9. /\ row2 \in [Codes -> TS!Container \cup {TS!NoRow}]
        /\ row2[q.code] = new
        /\ \A c \in Codes : ItemStands(container[s][c], row2[c])
    BY <1>7, <1>8
  <1> HIDE DEF row2, filled, both
  <1>10. container' = [container EXCEPT ![s] = row2]
    BY <1>1 DEF row2, both, filled, new, next
  <1>11. container' \in [Stations -> [Codes -> TS!Container \cup {TS!NoRow}]]
    BY <1>2, <1>9, <1>10 DEF TS!TypeOK
  <1>12. \A t \in Stations : container'[t] = IF t = s THEN row2 ELSE container[t]
    BY <1>2, <1>10 DEF TS!TypeOK
  <1>13. row \in TS!Item
    BY <1>2 DEF TS!Item
  <1>14. item' \in [Scans -> TS!Item \cup {TS!NoRow}] /\ item'[r] = row
    BY <1>1, <1>13 DEF TS!TypeOK
  <1>15. TS!TypeOK'
    <2>1. move' \in [Moves -> Stations \cup {None}]
      BY <1>1, <1>2 DEF TS!TypeOK
    <2>2. scans' \in [Scans -> TS!Call]
      BY <1>1, StorageReturn
    <2> QED
      BY <1>1, <1>11, <1>14, <2>1, <2>2 DEF TS!TypeOK
  <1>16. \A t \in Stations, c \in Codes : ItemStands(container[t][c], container'[t][c])
    BY <1>9, <1>12 DEF ItemStands
  <1>17. \A t \in Scans \ {r} : item'[t] = item[t]
    BY <1>1 DEF TS!TypeOK
  <1>18. /\ item'[r] # TS!NoRow /\ ~TS!Seen(item'[r].op)
        /\ container'[item'[r].station][item'[r].code] # TS!NoRow
        /\ container'[item'[r].station][item'[r].code].customer
              = CustomerOf[item'[r].move]
    <2>1. container'[s][q.code] = new
      BY <1>2, <1>9, <1>12
    <2>2. /\ item'[r].station = s /\ item'[r].code = q.code
          /\ item'[r].move = q.move /\ item'[r].op = q.op /\ row # TS!NoRow
      BY <1>14 DEF TS!NoRow
    <2> QED
      BY <1>1, <1>4, <1>14, <2>1, <2>2 DEF TS!FreeOperation
  <1> QED
    BY <1>15, <1>16, <1>17, <1>18 DEF Grows

(* A step that leaves containers and items alone.                          *)
LEMMA QuietGrows ==
    ASSUME UNCHANGED <<container, item>>
    PROVE  Grows
  BY DEF Grows, ItemStands

LEMMA ReviewGrows ==
    ASSUME TS!TypeOK, NEW r \in Scans, TS!SendToReview(r)
    PROVE  TS!TypeOK' /\ Grows
  <1> DEFINE q == scans[r]
  <1>1. /\ q.station \in Stations /\ q.op \in OpIds
        /\ scans' \in [Scans -> TS!Call]
        /\ UNCHANGED <<capacity, move, container>>
    BY StorageCallFields, StorageReturn DEF TS!SendToReview
  <1>2. CASE UNCHANGED item
    BY <1>1, <1>2, QuietGrows DEF TS!TypeOK
  <1>3. ASSUME NEW m \in Moves \cup {None}, TS!FreeOperation(q.op),
               item' = [item EXCEPT ![r] = [row |-> "REVIEW", op |-> q.op,
                                            station |-> q.station, move |-> m]]
        PROVE  TS!TypeOK' /\ Grows
    <2>1. [row |-> "REVIEW", op |-> q.op, station |-> q.station, move |-> m] \in TS!Item
      BY <1>1 DEF TS!Item
    <2>2. item' \in [Scans -> TS!Item \cup {TS!NoRow}]
      BY <1>3, <2>1 DEF TS!TypeOK
    <2>3. /\ item'[r].row = "REVIEW" /\ item'[r].op = q.op /\ item'[r] # TS!NoRow
          /\ \A t \in Scans \ {r} : item'[t] = item[t]
      BY <1>3 DEF TS!TypeOK, TS!NoRow
    <2>4. Grows
      BY <1>1, <1>3, <2>3 DEF Grows, ItemStands, TS!FreeOperation
    <2> QED
      BY <1>1, <2>2, <2>4 DEF TS!TypeOK
  <1>4. \/ UNCHANGED item
        \/ /\ TS!FreeOperation(q.op)
           /\ \E m \in Moves \cup {None} :
                item' = [item EXCEPT ![r] = [row |-> "REVIEW", op |-> q.op,
                                             station |-> q.station, move |-> m]]
    BY DEF TS!SendToReview, TS!Latest
  <1> QED
    BY <1>2, <1>3, <1>4

(* The reading steps and the writes to moves and to the setting.           *)
LEMMA OtherSteps ==
    ASSUME TS!TypeOK, NEW r \in Scans,
           \/ \E s \in Stations : TS!Send(r, s)
           \/ TS!Begin(r) \/ TS!Claim(r) \/ TS!AnswerWrongContainer(r) \/ TS!WriteAccept(r)
           \/ TS!Abort(r)
    PROVE  TS!TypeOK' /\ UNCHANGED <<container, item>>
  <1>1. ASSUME NEW s \in Stations, TS!Send(r, s)
        PROVE  TS!TypeOK' /\ UNCHANGED <<container, item>>
    <2>1. ASSUME NEW k \in Skus, NEW op \in OpIds, TS!CallReview(r, s, k, op)
          PROVE  TS!TypeOK' /\ UNCHANGED <<container, item>>
      <3>1. [stage |-> "review", station |-> s, op |-> op, sku |-> k] \in TS!Call
        BY DEF TS!Call
      <3> QED
        BY <2>1, <3>1, StorageGoto DEF TS!CallReview, TS!TypeOK
    <2>2. ASSUME NEW k \in Skus, NEW op \in OpIds, NEW c \in Codes,
                 TS!Place(r, s, k, op, c)
          PROVE  TS!TypeOK' /\ UNCHANGED <<container, item>>
      <3>1. [stage |-> "review", station |-> s, op |-> op, sku |-> k] \in TS!Call
        BY DEF TS!Call
      <3>2. \A m \in Moves : [stage |-> "begin", station |-> s, op |-> op,
                               code |-> c, move |-> m] \in TS!Call
        BY DEF TS!Call
      <3>3. scans' \in [Scans -> TS!Call]
        BY <2>2, <3>1, <3>2, StorageGoto, StorageReturn
           DEF TS!Place, TS!Oldest, TS!Placeable, TS!InScope
      <3> QED
        BY <2>2, <3>3 DEF TS!Place, TS!TypeOK
    <2>3. ASSUME NEW m \in Moves, TS!Accept(r, s, m)
          PROVE  TS!TypeOK' /\ UNCHANGED <<container, item>>
      <3>1. [stage |-> "accept", station |-> s, move |-> m] \in TS!Call
        BY DEF TS!Call
      <3> QED
        BY <2>3, <3>1, StorageGoto DEF TS!Accept, TS!TypeOK
    <2> QED
      BY <1>1, <2>1, <2>2, <2>3 DEF TS!Send
  <1>2. CASE TS!Begin(r)
    <2>1. [scans[r] EXCEPT !.stage = "claim"] \in TS!Call
      BY <1>2, StorageCallFields DEF TS!Begin, TS!At, TS!Call
    <2>2. scans' \in [Scans -> TS!Call]
      BY <1>2, <2>1, StorageGoto, StorageReturn DEF TS!Begin
    <2> QED
      BY <1>2, <2>2 DEF TS!Begin, TS!TypeOK
  <1>3. CASE TS!Claim(r)
    <2> DEFINE q == scans[r]
               c == [stage |-> "store", station |-> q.station, op |-> q.op,
                     code |-> q.code, move |-> q.move,
                     found |-> container[q.station][q.code]]
    <2>1. /\ q.station \in Stations /\ q.op \in OpIds /\ q.code \in Codes
          /\ q.move \in Moves
      BY <1>3, StorageCallFields DEF TS!Claim, TS!At
    <2>2. container[q.station][q.code] \in TS!Container \cup {TS!NoRow}
      BY <2>1 DEF TS!TypeOK
    <2>3. c \in TS!Call
      BY <2>1, <2>2 DEF TS!Call
    <2>4. TS!Goto(r, c) \/ TS!Return(r)
      BY <1>3 DEF TS!Claim
    <2>5. scans' \in [Scans -> TS!Call]
      BY <2>3, <2>4, StorageGoto, StorageReturn
    <2> QED
      BY <1>3, <2>5 DEF TS!Claim, TS!TypeOK
  <1>4. CASE TS!AnswerWrongContainer(r)
    <2>1. scans[r].station \in Stations /\ scans[r].move \in Moves
      BY <1>4, StorageCallFields DEF TS!AnswerWrongContainer, TS!At
    <2> QED
      BY <1>4, <2>1, StorageReturn DEF TS!AnswerWrongContainer, TS!TypeOK
  <1>5. CASE TS!WriteAccept(r)
    <2>1. scans[r].station \in Stations /\ scans[r].move \in Moves
      BY <1>5, StorageCallFields DEF TS!WriteAccept
    <2> QED
      BY <1>5, <2>1, StorageReturn DEF TS!WriteAccept, TS!TypeOK
  <1>6. CASE TS!Abort(r)
    BY <1>6, StorageReturn DEF TS!Abort, TS!TypeOK
  <1> QED
    BY <1>1, <1>2, <1>3, <1>4, <1>5, <1>6

LEMMA StepGrows ==
    ASSUME TS!TypeOK, FoundStands, [TS!Next]_TS!vars
    PROVE  TS!TypeOK' /\ Grows
  <1>1. ASSUME NEW r \in Scans,
               (\E s \in Stations : TS!Send(r, s)) \/ TS!Continue(r) \/ TS!Abort(r)
        PROVE  TS!TypeOK' /\ Grows
    BY <1>1, StoreGrows, ReviewGrows, OtherSteps, QuietGrows DEF TS!Continue
  <1>2. ASSUME NEW n \in Capacities, TS!SetCapacity(n)
        PROVE  TS!TypeOK' /\ Grows
    BY <1>2, QuietGrows DEF TS!SetCapacity, TS!TypeOK
  <1>3. CASE UNCHANGED TS!vars
    BY <1>3, QuietGrows DEF TS!vars, TS!TypeOK
  <1> QED
    BY <1>1, <1>2, <1>3 DEF TS!Next

-----------------------------------------------------------------------------
(* The call that gets a lock in this step.                                 *)
ClaimsNow(r) ==
    LET q == scans[r] IN
    /\ TS!At(r, "claim") /\ ~TS!LockedMove(q.move) /\ TS!Claimable(q.station, q.move)
    /\ UNCHANGED <<move, container>>
    /\ \A t \in Scans \ {r} : scans'[t] = scans[t]
    /\ scans'[r] = [stage |-> "store", station |-> q.station, op |-> q.op,
                  code |-> q.code, move |-> q.move,
                  found |-> container[q.station][q.code]]

(* Calls in their storing stage got there by Claim.                        *)
LEMMA StoreCalls ==
    ASSUME TS!TypeOK, [TS!Next]_TS!vars, NEW r \in Scans, TS!At(r, "store")'
    PROVE  scans'[r] = scans[r] \/ ClaimsNow(r)
  <1>1. ASSUME NEW t \in Scans, NEW c, TS!Goto(t, c), c.stage # "store"
        PROVE  scans'[r] = scans[r]
    BY <1>1 DEF TS!Goto, TS!TypeOK, TS!At
  <1>2. TS!Done.stage # "store"
    BY DEF TS!Done
  <1>3. ASSUME NEW t \in Scans, TS!Return(t)
        PROVE  scans'[r] = scans[r]
    BY <1>1, <1>2, <1>3 DEF TS!Return
  <1>4. ASSUME NEW t \in Scans, NEW s \in Stations, TS!Send(t, s)
        PROVE  scans'[r] = scans[r]
    <2>1. ASSUME NEW k \in Skus, NEW op \in OpIds, TS!CallReview(t, s, k, op)
          PROVE  scans'[r] = scans[r]
      BY <2>1, <1>1 DEF TS!CallReview
    <2>2. ASSUME NEW k \in Skus, NEW op \in OpIds, NEW c \in Codes,
                 TS!Place(t, s, k, op, c)
          PROVE  scans'[r] = scans[r]
      BY <2>2, <1>1, <1>3 DEF TS!Place
    <2>3. ASSUME NEW m \in Moves, TS!Accept(t, s, m)
          PROVE  scans'[r] = scans[r]
      BY <2>3, <1>1 DEF TS!Accept
    <2> QED
      BY <1>4, <2>1, <2>2, <2>3 DEF TS!Send
  <1>5. ASSUME NEW t \in Scans, TS!Begin(t)
        PROVE  scans'[r] = scans[r]
    <2>1. [scans[t] EXCEPT !.stage = "claim"].stage # "store"
      BY <1>5, StorageCallFields DEF TS!Begin, TS!At
    <2> QED
      BY <1>1, <1>3, <1>5, <2>1 DEF TS!Begin
  <1>6. ASSUME NEW t \in Scans, TS!Claim(t)
        PROVE  scans'[r] = scans[r] \/ ClaimsNow(r)
    <2>1. CASE TS!Return(t)
      BY <1>3, <2>1
    <2>2. CASE r # t
      BY <1>6, <2>2 DEF TS!Claim, TS!Goto, TS!Return, TS!TypeOK
    <2>3. CASE r = t /\ ~TS!Return(t)
      BY <1>6, <2>3 DEF TS!Claim, ClaimsNow, TS!Goto, TS!TypeOK
    <2> QED
      BY <2>1, <2>2, <2>3
  <1>7. ASSUME NEW t \in Scans,
               TS!Store(t) \/ TS!AnswerWrongContainer(t) \/ TS!SendToReview(t)
               \/ TS!WriteAccept(t) \/ TS!Abort(t)
        PROVE  scans'[r] = scans[r]
    BY <1>3, <1>7 DEF TS!Store, TS!AnswerWrongContainer, TS!SendToReview, TS!WriteAccept, TS!Abort
  <1>8. CASE \E n \in Capacities : TS!SetCapacity(n)
    BY <1>8 DEF TS!SetCapacity
  <1>9. CASE UNCHANGED TS!vars
    BY <1>9 DEF TS!vars
  <1> QED
    BY <1>4, <1>5, <1>6, <1>7, <1>8, <1>9 DEF TS!Next, TS!Continue

(* What a call found stands, because containers do.                        *)
LEMMA FoundStep ==
    ASSUME TS!TypeOK, FoundStands, [TS!Next]_TS!vars
    PROVE  FoundStands'
  <1>1. Grows
    BY StepGrows
  <1>2. SUFFICES ASSUME NEW r \in Scans, TS!At(r, "store")', scans'[r].found # TS!NoRow
                 PROVE  LET k == container'[scans'[r].station][scans'[r].code] IN
                        k # TS!NoRow /\ k.customer = scans'[r].found.customer
    BY DEF FoundStands, TS!At
  <1>3. CASE scans'[r] = scans[r]
    <2>1. TS!At(r, "store") /\ scans[r].station \in Stations /\ scans[r].code \in Codes
      BY <1>2, <1>3, StorageCallFields DEF TS!At
    <2> QED
      BY <1>1, <1>2, <1>3, <2>1 DEF FoundStands, Grows, ItemStands
  <1>4. CASE ClaimsNow(r)
    BY <1>2, <1>4 DEF ClaimsNow
  <1> QED
    BY <1>2, <1>3, <1>4, StoreCalls

(* Items stay with their customer and their operation ids stay unique.     *)
LEMMA RowsStep ==
    ASSUME StorageInv, Grows, TS!TypeOK'
    PROVE  StoredStands' /\ TS!OneItemPerOperation'
  <1>1. StoredStands'
    <2>1. SUFFICES ASSUME NEW r \in Scans, item'[r].row = "STORED"
                   PROVE  LET k == container'[item'[r].station][item'[r].code] IN
                          k # TS!NoRow /\ k.customer = CustomerOf[item'[r].move]
      BY DEF StoredStands
    <2>2. CASE item'[r] = item[r]
      <3>1. item[r] \in TS!Item \cup {TS!NoRow}
        BY DEF StorageInv, TS!TypeOK
      <3>2. item[r].station \in Stations /\ item[r].code \in Codes
        BY <2>1, <2>2, <3>1 DEF TS!Item, TS!NoRow
      <3> QED
        BY <2>1, <2>2, <3>2 DEF StorageInv, StoredStands, Grows, ItemStands
    <2> QED
      BY <2>1, <2>2 DEF Grows
  <1>2. TS!OneItemPerOperation'
    BY DEF StorageInv, TS!OneItemPerOperation, Grows, TS!Seen
  <1> QED
    BY <1>1, <1>2

LEMMA StorageInit ==
    ASSUME TS!Init
    PROVE  StorageInv
  <1>1. TS!Unsent \in TS!Call
    BY DEF TS!Call
  <1>2. \A r \in Scans : item[r].row = "none" /\ item[r] = TS!NoRow
    BY DEF TS!Init, TS!NoRow
  <1>3. \A r \in Scans : ~TS!At(r, "store")
    BY DEF TS!Init, TS!At, TS!Unsent
  <1> QED
    BY <1>1, <1>2, <1>3 DEF TS!Init, StorageInv, TS!TypeOK, FoundStands, StoredStands,
                            TS!OneItemPerOperation

LEMMA StorageStep ==
    ASSUME StorageInv, [TS!Next]_TS!vars
    PROVE  StorageInv'
  <1>1. TS!TypeOK' /\ Grows
    BY StepGrows DEF StorageInv
  <1> QED
    BY <1>1, FoundStep, RowsStep DEF StorageInv

LEMMA StorageInvariant == TS!Spec => []StorageInv
  BY StorageInit, StorageStep, PTL DEF TS!Spec

(* All variables have their types.                                         *)
THEOREM StorageTypeCorrect == GoodsSpec => []TS!TypeOK
  <1>1. StorageInv => TS!TypeOK
    BY DEF StorageInv
  <1> QED
    BY <1>1, StorageInvariant, StorageScene, PTL

(* An operation id makes at most one row, whatever overlaps.               *)
THEOREM OperationStoredOnce == GoodsSpec => []OneItemPerOperation
  <1>1. StorageInv => OneItemPerOperation
    BY DEF StorageInv, OneItemPerOperation
  <1> QED
    BY <1>1, StorageInvariant, StorageScene, PTL

(* Every stored unit lies in a container of its own customer.              *)
THEOREM CustomersKeptApart == GoodsSpec => []StoredWithItsCustomer
  <1>1. StorageInv => StoredWithItsCustomer
    BY DEF StorageInv, StoredStands, StoredWithItsCustomer, TS!StoredWithItsCustomer
  <1> QED
    BY <1>1, StorageInvariant, StorageScene, PTL

-----------------------------------------------------------------------------
(* A call that stores holds a move its station may have, and nobody else   *)
(* holds it.                                                               *)
Locks ==
    /\ \A r \in Scans :
          TS!At(r, "store") => TS!Claimable(scans[r].station, scans[r].move)
    /\ \A r, t \in Scans :
          TS!At(r, "store") /\ TS!At(t, "store") /\ scans[r].move = scans[t].move => r = t

(* Who writes a move: the transaction that holds it, or an acceptance when *)
(* nobody does.                                                            *)
LEMMA MoveWrites ==
    ASSUME TS!TypeOK, [TS!Next]_TS!vars, NEW m \in Moves, move'[m] # move[m]
    PROVE  \E r \in Scans :
             \/ TS!At(r, "store") /\ scans[r].move = m /\ move'[m] = scans[r].station
             \/ TS!At(r, "accept") /\ scans[r].move = m /\ ~TS!LockedMove(m)
  <1>1. ASSUME NEW r \in Scans, TS!Store(r) \/ TS!AnswerWrongContainer(r)
        PROVE  TS!At(r, "store") /\ scans[r].move = m /\ move'[m] = scans[r].station
    <2>1. TS!At(r, "store") /\ move' = [move EXCEPT ![scans[r].move] = scans[r].station]
      BY <1>1 DEF TS!Store, TS!AnswerWrongContainer
    <2> QED
      BY <2>1 DEF TS!TypeOK
  <1>2. ASSUME NEW r \in Scans, TS!WriteAccept(r)
        PROVE  TS!At(r, "accept") /\ scans[r].move = m /\ ~TS!LockedMove(m)
    BY <1>2 DEF TS!WriteAccept, TS!TypeOK
  <1>3. ASSUME NEW r \in Scans,
               \/ \E s \in Stations : TS!Send(r, s)
               \/ TS!Begin(r) \/ TS!Claim(r) \/ TS!SendToReview(r) \/ TS!Abort(r)
        PROVE  FALSE
    BY <1>3 DEF TS!Send, TS!CallReview, TS!Place, TS!Accept, TS!Begin, TS!Claim, TS!SendToReview, TS!Abort
  <1>4. ASSUME NEW n \in Capacities, TS!SetCapacity(n)
        PROVE  FALSE
    BY <1>4 DEF TS!SetCapacity
  <1>5. ~UNCHANGED TS!vars
    BY DEF TS!vars
  <1> QED
    BY <1>1, <1>2, <1>3, <1>4, <1>5 DEF TS!Next, TS!Continue

LEMMA LocksStep ==
    ASSUME TS!TypeOK, Locks, [TS!Next]_TS!vars
    PROVE  Locks'
  <1>1. ASSUME NEW r \in Scans, TS!At(r, "store")'
        PROVE  TS!Claimable(scans[r].station, scans[r].move)' 
    <2>1. CASE scans'[r] = scans[r]
      <3>1. TS!At(r, "store") /\ scans[r].move \in Moves
        BY <1>1, <2>1, StorageCallFields DEF TS!At
      <3>2. TS!Claimable(scans[r].station, scans[r].move)
        BY <3>1 DEF Locks
      <3>3. CASE move'[scans[r].move] = move[scans[r].move]
        BY <2>1, <3>2, <3>3 DEF TS!Claimable
      <3>4. CASE move'[scans[r].move] # move[scans[r].move]
        <4>1. PICK t \in Scans :
                \/ TS!At(t, "store") /\ scans[t].move = scans[r].move
                                  /\ move'[scans[r].move] = scans[t].station
                \/ ~TS!LockedMove(scans[r].move)
          BY <3>1, <3>4, MoveWrites
        <4>2. t = r /\ move'[scans[r].move] = scans[r].station
          BY <3>1, <4>1 DEF Locks, TS!LockedMove
        <4> QED
          BY <2>1, <4>2 DEF TS!Claimable
      <3> QED
        BY <3>3, <3>4
    <2>2. CASE ClaimsNow(r)
      BY <2>2 DEF ClaimsNow, TS!Claimable
    <2> QED
      BY <1>1, <2>1, <2>2, StoreCalls
  <1>2. ASSUME NEW r \in Scans, NEW t \in Scans, TS!At(r, "store")', TS!At(t, "store")',
               scans'[r].move = scans'[t].move, r # t
        PROVE  FALSE
    <2>1. /\ scans'[r] = scans[r] \/ ClaimsNow(r)
          /\ scans'[t] = scans[t] \/ ClaimsNow(t)
      BY <1>2, StoreCalls
    <2>2. CASE scans'[r] = scans[r] /\ scans'[t] = scans[t]
      BY <1>2, <2>2 DEF Locks, TS!At
    <2>3. CASE ClaimsNow(r)
      BY <1>2, <2>3 DEF ClaimsNow, TS!LockedMove, TS!At
    <2>4. CASE ClaimsNow(t)
      BY <1>2, <2>4 DEF ClaimsNow, TS!LockedMove, TS!At
    <2> QED
      BY <2>1, <2>2, <2>3, <2>4
  <1> QED
    BY <1>1, <1>2 DEF Locks

LEMMA LocksInvariant == GoodsSpec => []Locks
  <1>1. TS!Init => Locks
    BY DEF TS!Init, Locks, TS!At, TS!Unsent
  <1>2. TS!TypeOK /\ Locks /\ [TS!Next]_TS!vars => Locks'
    BY LocksStep
  <1> QED
    BY <1>1, <1>2, StorageTypeCorrect, StorageScene, PTL DEF TS!Spec

(* A placement never takes a move from the station that has it: only an    *)
(* acceptance that was checked earlier can.                                *)
THEOREM ClaimsNeverSteal == GoodsSpec => PlaceNeverSteals
  <1> DEFINE Kept == \A m \in Moves :
                       (move[m] # None /\ move'[m] # move[m]) =>
                           \E r \in Scans : TS!At(r, "accept") /\ scans[r].move = m
  <1>1. TS!TypeOK /\ Locks /\ [TS!Next]_TS!vars => Kept
    <2>1. SUFFICES ASSUME TS!TypeOK, Locks, [TS!Next]_TS!vars, NEW m \in Moves,
                          move[m] # None, move'[m] # move[m]
                   PROVE  \E r \in Scans : TS!At(r, "accept") /\ scans[r].move = m
      OBVIOUS
    <2>2. PICK r \in Scans :
            \/ TS!At(r, "store") /\ scans[r].move = m /\ move'[m] = scans[r].station
            \/ TS!At(r, "accept") /\ scans[r].move = m
      BY <2>1, MoveWrites
    <2> QED
      BY <2>1, <2>2 DEF Locks, TS!Claimable
  <1>2. GoodsSpec => [][Kept]_TS!vars
    BY <1>1, StorageTypeCorrect, LocksInvariant, StorageScene, PTL DEF TS!Spec
  <1> QED
    BY <1>2 DEF PlaceNeverSteals, TS!PlaceNeverSteals
=============================================================================
