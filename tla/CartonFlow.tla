------------------------------ MODULE CartonFlow ------------------------------
(***************************************************************************)
(* The life of a carton record: announced by a shipment card or a carton   *)
(* card of the CRM (shipments.service.ts, carton-cards.service.ts,         *)
(* carton-content.ts), received by a scan (receiving.service.ts),          *)
(* stowed and moved (putaway.service.ts), reversed by a correction         *)
(* (corrections.service.ts), voided or deleted by an administrator         *)
(* (operations.service.ts, Data Control).                                  *)
(*                                                                         *)
(* Every handler reads before it writes, most of them outside of the       *)
(* transaction of the write: call[r] is what a call has read, and its      *)
(* second step is the commit.  A call whose row is deleted under it fails  *)
(* without effect.  overlap remembers which calls were in flight when      *)
(* another one committed, as far as a property depends on it.              *)
(*                                                                         *)
(* A carton holds one manifest line.  The session of an arrival and the    *)
(* sorting of its goods are in Receiving and Fulfillment; here a session   *)
(* is open or not.  Operation ids and tasks are left to Receiving and      *)
(* TaskDispatch.                                                           *)
(***************************************************************************)
EXTENDS Integers, Sequences

CONSTANTS
    Cartons,
    ShipmentCards,
    Contents,     \* the cartons of a shipment card
    Refs,         \* arrivals, as the CRM names them
    Ref,          \* the arrival a card, of a shipment or a carton, belongs to
    Product,      \* what the manifest line of a carton is about
    Workers,
    Locations,
    MaxArrivals,  \* bound: rows of ExpectedArrival
    MaxSessions,  \* bound: rows of PutawaySession
    MaxReceipts,  \* bound: receipts of a carton
    MaxPlaces,    \* bound: placements of a carton
    Calls,
    Arrived,      \* cartons that are announced where no card comes in
    Workloads,    \* sets of handlers that are called in one behaviour
    None

ASSUME CartonAssumption ==
    /\ Contents \in [ShipmentCards -> (SUBSET Cartons) \ {{}}]
    /\ Ref \in [ShipmentCards \cup Cartons -> Refs]
    /\ \A c \in Cartons : Product[c] # None
    /\ MaxArrivals \in Nat \ {0} /\ MaxSessions \in Nat
    /\ MaxReceipts \in Nat /\ MaxPlaces \in Nat
    /\ None \notin Workers \cup Locations \cup Cartons \cup ShipmentCards \cup (1 .. MaxArrivals)
    /\ ShipmentCards \cap Cartons = {}
    /\ Arrived \subseteq Cartons /\ \A c, d \in Arrived : Ref[c] = Ref[d]

VARIABLES
    arrival,     \* ExpectedArrival, with its receiving session open or not
    shipment,    \* WarehouseShipment, by external id; a carton's is its stub
    carton,      \* WarehouseCarton, by external id
    items,       \* ExpectedArrivalItem: rows a manifest line made, by carton and arrival
    receipts,    \* ReceivingCarton, by carton
    placements,  \* CartonPlacement, by carton
    putaway,     \* PutawaySession
    blocked,     \* locations that are not ACTIVE
    opened,      \* cartons out of which articles were scanned
    call,
    overlap,     \* calls that were overtaken, as <<subject, what by>>
    handlers

cards == <<arrival, shipment, items>>
history == <<receipts, placements>>
floor == <<putaway, blocked, opened>>
vars == <<cards, carton, history, floor, call, overlap, handlers>>

Arrivals == 1 .. MaxArrivals
Sessions == 1 .. MaxSessions
Externals == ShipmentCards \cup Cartons
NoRow == [status |-> "none"]
Idle == [at |-> "idle"]
Products == {Product[c] : c \in Cartons}
Arrival == [status : {"EXPECTED", "RECEIVING", "VOIDED"}, ref : Refs, session : BOOLEAN,
            declared : SUBSET Products]
Shipment == [status : {"row"}, arrival : Arrivals \cup {None}]
Claim == [worker : Workers \cup {None}, fresh : BOOLEAN]
Carton == [status : {"EXPECTED", "RECEIVED", "STORED", "VOIDED"}, shipment : Externals,
           location : Locations \cup {None}, claim : Claim]
Rows == [linked : Nat, loose : Nat]
Uncounted == [linked |-> 0, loose |-> 0]
Placement == [location : Locations, open : BOOLEAN]
Session == [worker : Workers, status : {"ACTIVE", "PAUSED", "COMPLETED"}]
Unclaimed == [worker |-> None, fresh |-> FALSE]

Call == {Idle}
        \cup [at : {"shipment"}, card : ShipmentCards, arrival : Arrivals \cup {None}]
        \cup [at : {"card"}, carton : Cartons, arrival : Arrivals \cup {None}]
        \cup [at : {"start", "voidArrival"}, arrival : Arrivals]
        \cup [at : {"deleteArrival"}, arrival : Arrivals, shipments : SUBSET Externals]
        \cup [at : {"scan", "void", "delete"}, carton : Cartons]
        \cup [at : {"reverse"}, carton : Cartons, receipt : 1 .. MaxReceipts]
        \cup [at : {"claim"}, carton : Cartons, worker : Workers]
        \cup [at : {"session"}, worker : Workers]
        \cup [at : {"place"}, carton : Cartons, location : Locations]
        \cup [at : {"placing"}, carton : Cartons, location : Locations,
              from : Locations \cup {None}, seen : SUBSET (1 .. MaxPlaces)]

TypeOK ==
    /\ arrival \in [Arrivals -> Arrival \cup {NoRow}]
    /\ shipment \in [Externals -> Shipment \cup {NoRow}]
    /\ carton \in [Cartons -> Carton \cup {NoRow}]
    /\ items \in [Cartons -> [Arrivals -> Rows]]
    /\ receipts \in [Cartons -> Seq({"RECEIVED", "REVERSED"})]
    /\ placements \in [Cartons -> Seq(Placement)]
    /\ \A c \in Cartons : Len(receipts[c]) <= MaxReceipts /\ Len(placements[c]) <= MaxPlaces
    /\ putaway \in [Sessions -> Session \cup {NoRow}]
    /\ blocked \subseteq Locations
    /\ opened \subseteq Cartons
    /\ call \in [Calls -> Call]
    /\ handlers \in Workloads

(* Mutant: a status of no carton.                                          *)
AnnouncedNew(c) == [status |-> "CREATED", shipment |-> c, location |-> None, claim |-> Unclaimed]

(* Where cards come in, an arrival may be there already with the products  *)
(* that its customer card declares; no handler makes these lines any more. *)
(* Where none comes in, some cartons have come, each on its own card, and  *)
(* their arrival is being received; where no putaway session is opened,    *)
(* one is active.                                                          *)
Announced(c) == [status |-> "EXPECTED", shipment |-> c, location |-> None, claim |-> Unclaimed]
InitCards ==
    /\ \/ arrival = [a \in Arrivals |-> NoRow]
       \/ \E x \in Refs, known \in (SUBSET Products) \ {{}} :
             arrival = [a \in Arrivals |->
                           IF a = 1 THEN [status |-> "EXPECTED", ref |-> x, session |-> FALSE,
                                          declared |-> known]
                           ELSE NoRow]
    /\ shipment = [e \in Externals |-> NoRow]
    /\ carton = [c \in Cartons |-> NoRow]
    /\ items = [c \in Cartons |-> [a \in Arrivals |-> Uncounted]]
InitArrived ==
    /\ \E x \in Refs :
         /\ \A c \in Arrived : Ref[c] = x
         /\ arrival = [a \in Arrivals |->
                          IF a = 1 THEN [status |-> "RECEIVING", ref |-> x, session |-> TRUE,
                                         declared |-> {}]
                          ELSE NoRow]
    /\ shipment = [e \in Externals |->
                      IF e \in Arrived THEN [status |-> "row", arrival |-> 1] ELSE NoRow]
    /\ carton = [c \in Cartons |-> IF c \in Arrived THEN Announced(c) ELSE NoRow]
    /\ items = [c \in Cartons |-> [a \in Arrivals |->
                   IF c \in Arrived /\ a = 1 THEN [linked |-> 1, loose |-> 0] ELSE Uncounted]]
Init ==
    /\ handlers \in Workloads
    /\ IF "card" \in handlers THEN InitCards ELSE InitArrived
    /\ receipts = [c \in Cartons |-> <<>>]
    /\ placements = [c \in Cartons |-> <<>>]
    /\ \E w \in Workers :
         putaway = [s \in Sessions |-> IF s = 1 /\ "session" \notin handlers
                                       THEN [worker |-> w, status |-> "ACTIVE"] ELSE NoRow]
    /\ blocked = {}
    /\ opened = {}
    /\ call = [r \in Calls |-> Idle]
    /\ overlap = {}

-----------------------------------------------------------------------------
Receives(r, handler) == call[r] = Idle /\ handler \in handlers
At(r, at) == call[r].at = at
Reads(r, c) ==
    /\ call' = [call EXCEPT ![r] = c]
    /\ UNCHANGED <<cards, carton, history, floor, overlap, handlers>>
Return(r) == call' = [call EXCEPT ![r] = Idle] /\ UNCHANGED handlers

Exists(c) == carton[c] # NoRow
ArrivalOf(c) == shipment[carton[c].shipment].arrival
ShipmentsOf(a) == {e \in Externals : shipment[e] # NoRow /\ shipment[e].arrival = a}
ArrivalsOf(x) == {a \in Arrivals : arrival[a] # NoRow /\ arrival[a].ref = x}
FreeArrivals == {a \in Arrivals : arrival[a] = NoRow}
OpenPlaces(c) == {i \in DOMAIN placements[c] : placements[c][i].open}

(* What a call in flight is about.                                         *)
About(k) ==
    CASE At(k, "shipment") -> {Ref[call[k].card]}
      [] At(k, "card") -> {Ref[call[k].carton]}
      [] At(k, "deleteArrival") -> {arrival[call[k].arrival].ref}
      [] At(k, "place") \/ At(k, "placing") -> {call[k].carton, call[k].location}
      [] At(k, "claim") \/ At(k, "void") \/ At(k, "delete") -> {call[k].carton}
      [] OTHER -> {}

(* The overlaps some property depends on: what is in flight, what commits. *)
Overtaken ==
    {<<"placing", "place">>, <<"claim", "place">>, <<"claim", "claim">>,
     <<"place", "reverse">>, <<"placing", "reverse">>, <<"place", "void">>,
     <<"placing", "void">>, <<"place", "block">>, <<"placing", "block">>,
     <<"shipment", "card">>, <<"card", "card">>, <<"deleteArrival", "card">>,
     <<"delete", "open">>}
Overtake(r, subjects, what) ==
    overlap' = overlap \cup
        UNION {{<<x, call[k].at, what>> : x \in About(k) \cap subjects} :
                  k \in {k \in Calls \ {r} : <<call[k].at, what>> \in Overtaken}}

(* The calls that fail because a row they have read is no longer there.    *)
Fail(dead) ==
    /\ call' = [k \in Calls |-> IF k \in dead THEN Idle ELSE call[k]]
    /\ UNCHANGED handlers
OnCarton(cs) == {k \in Calls :
    /\ call[k].at \in {"scan", "void", "delete", "reverse", "claim", "place", "placing"}
    /\ call[k].carton \in cs}
OnArrival(as) == {k \in Calls :
    /\ call[k].at \in {"shipment", "card", "start", "voidArrival", "deleteArrival"}
    /\ call[k].arrival \in as}

-----------------------------------------------------------------------------
(* receiveShipment: a known shipment is answered without effect; else the  *)
(* arrival is looked up, by its id or its reference, and not locked.       *)
Lookup(x) == IF ArrivalsOf(x) = {} THEN {None} ELSE ArrivalsOf(x)

ReceiveShipment(r, s) ==
    /\ Receives(r, "card")
    /\ shipment[s] = NoRow
    /\ \E a \in Lookup(Ref[s]) : Reads(r, [at |-> "shipment", card |-> s, arrival |-> a])

ReceiveCartonCard(r, c) ==
    /\ Receives(r, "card")
    /\ ~Exists(c)
    /\ \E a \in Lookup(Ref[c]) : Reads(r, [at |-> "card", carton |-> c, arrival |-> a])

(* Mutant: only the lines of the customer card are looked at.              *)
MirroredByCard(c, a) == arrival[a] # NoRow /\ Product[c] \in arrival[a].declared

(* linkCartonProductContents: a line of the arrival that is of no carton   *)
(* and names the product stands for the manifest line: a line of the       *)
(* customer card, or one that a deleted carton has left.                   *)
Mirrored(c, a) ==
    \/ arrival[a] # NoRow /\ Product[c] \in arrival[a].declared
    \/ \E d \in Cartons : items[d][a].loose > 0 /\ Product[d] = Product[c]
Linked(cs, a) ==
    [c \in Cartons |-> IF c \in cs /\ ~Mirrored(c, a)
                       THEN [items[c] EXCEPT ![a].linked = @ + 1] ELSE items[c]]

(* The arrival of a card: the one it has seen, or a new one.               *)
ForArrival(seen, x, a) ==
    \/ seen = a /\ UNCHANGED arrival
    \/ /\ seen = None /\ a \in FreeArrivals
       /\ \A b \in FreeArrivals : a <= b
       /\ arrival' = [arrival EXCEPT ![a] = [status |-> "EXPECTED", ref |-> x, session |-> FALSE,
                                              declared |-> {}]]
AddCartons(cs, e, a) ==
    /\ carton' = [c \in Cartons |->
                     IF c \in cs THEN [Announced(c) EXCEPT !.shipment = e] ELSE carton[c]]
    /\ items' = Linked(cs, a)

(* The transaction of the cards.  The external ids of shipments and of     *)
(* cartons are unique.                                                     *)
InsertShipment(r) ==
    /\ At(r, "shipment")
    /\ LET s == call[r].card IN
         /\ shipment[s] = NoRow
         /\ \A c \in Contents[s] : ~Exists(c)
         /\ \E a \in Arrivals :
              /\ ForArrival(call[r].arrival, Ref[s], a)
              /\ shipment' = [shipment EXCEPT ![s] = [status |-> "row", arrival |-> a]]
              /\ AddCartons(Contents[s], s, a)
         /\ Overtake(r, {Ref[s]}, "card")
    /\ Return(r)
    /\ UNCHANGED <<history, floor>>

(* A carton goes to a shipment of its arrival; if there is none, to a stub *)
(* that is made for it.                                                    *)
InsertCarton(r) ==
    /\ At(r, "card")
    /\ LET c == call[r].carton IN
         /\ ~Exists(c)
         /\ \E a \in Arrivals :
              /\ ForArrival(call[r].arrival, Ref[c], a)
              /\ \/ \E e \in ShipmentsOf(a) : UNCHANGED shipment /\ AddCartons({c}, e, a)
                 \/ /\ ShipmentsOf(a) = {} /\ shipment[c] = NoRow
                    /\ shipment' = [shipment EXCEPT ![c] = [status |-> "row", arrival |-> a]]
                    /\ AddCartons({c}, c, a)
         /\ Overtake(r, {Ref[c]}, "card")
    /\ Return(r)
    /\ UNCHANGED <<history, floor>>

(* The transaction fails on an id that is taken; the code of a new arrival *)
(* is one too, taken from the last code there is.                          *)
CardFails(r) ==
    /\ \/ /\ At(r, "shipment")
          /\ shipment[call[r].card] # NoRow \/ \E c \in Contents[call[r].card] : Exists(c)
       \/ /\ At(r, "card")
          /\ Exists(call[r].carton)
             \/ (shipment[call[r].carton] # NoRow /\ ShipmentsOf(call[r].arrival) = {})
       \/ /\ At(r, "shipment") \/ At(r, "card")
          /\ call[r].arrival = None /\ FreeArrivals # Arrivals
    /\ Return(r)
    /\ UNCHANGED <<cards, carton, history, floor, overlap>>

-----------------------------------------------------------------------------
(* start of a receiving session: a voided arrival is not refused.          *)
Start(r, a) ==
    /\ Receives(r, "start")
    /\ arrival[a] # NoRow /\ ~arrival[a].session
    /\ Reads(r, [at |-> "start", arrival |-> a])
Started(r) ==
    /\ At(r, "start")
    /\ arrival' = [arrival EXCEPT ![call[r].arrival].status = "RECEIVING",
                                  ![call[r].arrival].session = TRUE]
    /\ Return(r)
    /\ UNCHANGED <<shipment, items, carton, history, floor, overlap>>

(* confirmCarton, as far as it goes for a carton of the arrival: only one  *)
(* that is RECEIVED is refused as a duplicate.                             *)
ConfirmCarton(r, c) ==
    /\ Receives(r, "scan")
    /\ Exists(c) /\ ArrivalOf(c) # None
    /\ arrival[ArrivalOf(c)].session
    /\ carton[c].status # "RECEIVED"
    /\ Reads(r, [at |-> "scan", carton |-> c])
Confirmed(r) ==
    /\ At(r, "scan")
    /\ LET c == call[r].carton IN
         /\ Len(receipts[c]) < MaxReceipts
         /\ receipts' = [receipts EXCEPT ![c] = Append(@, "RECEIVED")]
         /\ carton' = [carton EXCEPT ![c].status = "RECEIVED"]
    /\ Return(r)
    /\ UNCHANGED <<cards, placements, floor, overlap>>

(* scanArticleAtReceiving names the carton an article comes out of.        *)
ScanArticle(r, c) ==
    /\ Receives(r, "open")
    /\ Exists(c)
    /\ opened' = opened \cup {c}
    /\ Overtake(r, {c}, "open")
    /\ UNCHANGED <<cards, carton, history, putaway, blocked, call, handlers>>

(* reverseCarton.                                                          *)
ReverseCarton(r, c) ==
    /\ Receives(r, "reverse")
    /\ Exists(c)
    /\ \E i \in DOMAIN receipts[c] :
          /\ receipts[c][i] = "RECEIVED"
          /\ Reads(r, [at |-> "reverse", carton |-> c, receipt |-> i])
Reversed(r) ==
    /\ At(r, "reverse")
    /\ LET c == call[r].carton IN
         /\ receipts' = [receipts EXCEPT ![c][call[r].receipt] = "REVERSED"]
         /\ carton' = [carton EXCEPT ![c].status = "EXPECTED"]
         /\ Overtake(r, {c}, "reverse")
    /\ Return(r)
    /\ UNCHANGED <<cards, placements, floor>>

-----------------------------------------------------------------------------
(* putaway.start: the open session of the worker, or a new one.            *)
OpenSessions(w) ==
    {s \in Sessions : putaway[s].status \in {"ACTIVE", "PAUSED"} /\ putaway[s].worker = w}
StartPutaway(r, w) ==
    /\ Receives(r, "session")
    /\ OpenSessions(w) = {}
    /\ Reads(r, [at |-> "session", worker |-> w])
PutawayStarted(r) ==
    /\ At(r, "session")
    /\ \E s \in Sessions :
         /\ putaway[s] = NoRow
         /\ putaway' = [putaway EXCEPT ![s] = [worker |-> call[r].worker, status |-> "ACTIVE"]]
    /\ Return(r)
    /\ UNCHANGED <<cards, carton, history, blocked, opened, overlap>>

(* pause, resume and complete: the first two ask for no status.            *)
SetPutaway(s, status) ==
    /\ "session" \in handlers
    /\ putaway[s] # NoRow
    /\ putaway' = [putaway EXCEPT ![s].status = status]
    /\ UNCHANGED <<cards, carton, history, blocked, opened, call, overlap, handlers>>
PausePutaway(s) == SetPutaway(s, "PAUSED")
ResumePutaway(s) == SetPutaway(s, "ACTIVE")
CompletePutaway(s) == SetPutaway(s, "COMPLETED")

(* claimCarton: a carton that waits for its place, and that no other       *)
(* worker has claimed of late.                                             *)
Claimable(c, w) == carton[c].claim.worker \in {None, w} \/ ~carton[c].claim.fresh
Awaiting(c) == Exists(c) /\ carton[c].status = "RECEIVED" /\ carton[c].location = None
ClaimCarton(r, c, w) ==
    /\ Receives(r, "claim")
    /\ Awaiting(c)
    /\ Claimable(c, w)
    /\ Reads(r, [at |-> "claim", carton |-> c, worker |-> w])
Claimed(r) ==
    /\ At(r, "claim")
    /\ LET c == call[r].carton IN
         /\ carton' = [carton EXCEPT ![c].claim = [worker |-> call[r].worker, fresh |-> TRUE]]
         /\ Overtake(r, {c}, "claim")
    /\ Return(r)
    /\ UNCHANGED <<cards, history, floor>>
ReleaseCarton(c, w) ==
    /\ "claim" \in handlers
    /\ Exists(c) /\ carton[c].claim.worker = w
    /\ carton' = [carton EXCEPT ![c].claim = Unclaimed]
    /\ UNCHANGED <<cards, history, floor, call, overlap, handlers>>

(* Ten minutes have gone by.                                               *)
ClaimExpires(c) ==
    /\ Exists(c) /\ carton[c].claim.fresh
    /\ carton' = [carton EXCEPT ![c].claim.fresh = FALSE]
    /\ UNCHANGED <<cards, history, floor, call, overlap, handlers>>

(* place looks at the session, at the status of the carton and at the      *)
(* location before the transaction, which reads where the carton is.  One  *)
(* that is there already is left as it is.                                 *)
Stowable(c) == Exists(c) /\ carton[c].status \in {"RECEIVED", "STORED"}
Available(l) == l \notin blocked

Place(r, c, l) ==
    /\ Receives(r, "place")
    /\ \E s \in Sessions : putaway[s].status = "ACTIVE"
    /\ Stowable(c)
    /\ Available(l)
    /\ Reads(r, [at |-> "place", carton |-> c, location |-> l])
PlaceReads(r) ==
    /\ At(r, "place")
    /\ LET c == call[r].carton IN
         IF carton[c].location = call[r].location THEN Reads(r, Idle)
         ELSE Reads(r, [at |-> "placing", carton |-> c, location |-> call[r].location,
                        from |-> carton[c].location, seen |-> OpenPlaces(c)])

(* The placements that are closed are the open ones that were committed    *)
(* when the transaction came to close them.                                *)
Closing(r) ==
    IF call[r].from = None THEN {{}}
    ELSE {call[r].seen \cap OpenPlaces(call[r].carton), OpenPlaces(call[r].carton)}

(* Mutant: the new placement is there before the old ones are closed.      *)
MovedThenClosed(c, l, ended) ==
    Append([i \in DOMAIN placements[c] |-> [placements[c][i] EXCEPT !.open = FALSE]],
           [location |-> l, open |-> ended = {}])

Moved(c, l, ended) ==
    Append([i \in DOMAIN placements[c] |->
               [placements[c][i] EXCEPT !.open = @ /\ i \notin ended]],
           [location |-> l, open |-> TRUE])

(* What a placement makes of the carton.                                   *)
Stowed(c, l) == [carton EXCEPT ![c].location = l, ![c].status = "STORED", ![c].claim = Unclaimed]

PlaceCommits(r) ==
    /\ At(r, "placing")
    /\ LET c == call[r].carton
           l == call[r].location
       IN /\ Len(placements[c]) < MaxPlaces
          /\ \E ended \in Closing(r) :
               placements' = [placements EXCEPT ![c] = Moved(c, l, ended)]
          /\ carton' = Stowed(c, l)
          /\ Overtake(r, {c}, "place")
    /\ Return(r)
    /\ UNCHANGED <<cards, receipts, floor>>

(* setStatus of a location.                                                *)
BlockLocation(l) ==
    /\ "block" \in handlers
    /\ blocked' = blocked \cup {l}
    /\ Overtake(None, {l}, "block")
    /\ UNCHANGED <<cards, carton, history, putaway, opened, call, handlers>>
UnblockLocation(l) ==
    /\ "block" \in handlers
    /\ blocked' = blocked \ {l}
    /\ UNCHANGED <<cards, carton, history, putaway, opened, call, overlap, handlers>>

-----------------------------------------------------------------------------
(* dataControlVoid: a carton out of which articles came is not voided once *)
(* it is received; an arrival with a session is not.                       *)
VoidCarton(r, c) ==
    /\ Receives(r, "void")
    /\ Exists(c) /\ carton[c].status # "VOIDED"
    /\ carton[c].status \in {"RECEIVED", "STORED"} => c \notin opened
    /\ Reads(r, [at |-> "void", carton |-> c])
CartonVoided(r) ==
    /\ At(r, "void")
    /\ LET c == call[r].carton IN
         /\ carton' = [carton EXCEPT ![c].status = "VOIDED"]
         /\ Overtake(r, {c}, "void")
    /\ Return(r)
    /\ UNCHANGED <<cards, history, floor>>
VoidArrival(r, a) ==
    /\ Receives(r, "void")
    /\ arrival[a] # NoRow
    /\ arrival[a].status # "VOIDED" /\ ~arrival[a].session
    /\ Reads(r, [at |-> "voidArrival", arrival |-> a])
ArrivalVoided(r) ==
    /\ At(r, "voidArrival")
    /\ arrival' = [arrival EXCEPT ![call[r].arrival].status = "VOIDED"]
    /\ Return(r)
    /\ UNCHANGED <<shipment, items, carton, history, floor, overlap>>

(* What is left when cartons are deleted: no receipt and no placement is   *)
(* theirs, and their manifest lines are of no carton; the lines of an      *)
(* arrival go with it.                                                     *)
Without(cs) ==
    /\ carton' = [c \in Cartons |-> IF c \in cs THEN NoRow ELSE carton[c]]
    /\ placements' = [c \in Cartons |-> IF c \in cs THEN <<>> ELSE placements[c]]
    /\ receipts' = [c \in Cartons |-> IF c \in cs THEN <<>> ELSE receipts[c]]
    /\ opened' = opened \ cs
Unlinked(cs, gone) ==
    [c \in Cartons |-> [a \in Arrivals |->
        IF a \in gone THEN Uncounted
        ELSE IF c \in cs
             THEN [linked |-> 0, loose |-> items[c][a].loose + items[c][a].linked]
             ELSE items[c][a]]]

(* dataControlForceDelete of a carton: refused if articles came out of it. *)
Deletable(c) == c \notin opened

DeleteCarton(r, c) ==
    /\ Receives(r, "delete")
    /\ Exists(c) /\ Deletable(c)
    /\ Reads(r, [at |-> "delete", carton |-> c])
CartonDeleted(r) ==
    /\ At(r, "delete")
    /\ LET c == call[r].carton IN
         /\ Without({c})
         /\ items' = Unlinked({c}, {})
         /\ Fail(OnCarton({c}))
    /\ UNCHANGED <<arrival, shipment, putaway, blocked, overlap>>

(* Mutant: the shipments that are stubs of a carton are forgotten.         *)
FoundNoStubs(a) == ShipmentsOf(a) \cap ShipmentCards

(* ... and of an arrival: the transaction finds its shipments, deletes     *)
(* them with their cartons, and then the arrival with all that is its.     *)
(* A shipment that came in between stays, of no arrival.                   *)
Found(a) == ShipmentsOf(a)

DeleteArrival(r, a) ==
    /\ Receives(r, "deleteArrival")
    /\ arrival[a] # NoRow
    /\ \A c \in opened : Exists(c) => ArrivalOf(c) # a
    /\ Reads(r, [at |-> "deleteArrival", arrival |-> a, shipments |-> Found(a)])
ArrivalDeleted(r) ==
    /\ At(r, "deleteArrival")
    /\ LET a == call[r].arrival
           es == call[r].shipments
           cs == {c \in Cartons : Exists(c) /\ carton[c].shipment \in es}
       IN /\ arrival' = [arrival EXCEPT ![a] = NoRow]
          /\ shipment' = [e \in Externals |->
                             IF e \in es THEN NoRow
                             ELSE IF e \in ShipmentsOf(a) THEN [shipment[e] EXCEPT !.arrival = None]
                             ELSE shipment[e]]
          /\ Without(cs)
          /\ items' = Unlinked(cs, {a})
          /\ Fail(OnCarton(cs) \cup OnArrival({a}))
    /\ UNCHANGED <<putaway, blocked, overlap>>

(* dataControlTrialReset wipes the arrivals, the cartons and the putaway   *)
(* sessions; WarehouseShipment is not in its list.                         *)
TrialReset ==
    /\ "reset" \in handlers
    /\ arrival' = [a \in Arrivals |-> NoRow]
    /\ shipment' = [e \in Externals |->
                       IF shipment[e] = NoRow THEN NoRow ELSE [shipment[e] EXCEPT !.arrival = None]]
    /\ Without(Cartons)
    /\ items' = Unlinked(Cartons, Arrivals)
    /\ putaway' = [s \in Sessions |-> NoRow]
    /\ Fail(OnCarton(Cartons) \cup OnArrival(Arrivals))
    /\ UNCHANGED <<blocked, overlap>>

-----------------------------------------------------------------------------
Next ==
    \/ \E r \in Calls, s \in ShipmentCards : ReceiveShipment(r, s)
    \/ \E r \in Calls, c \in Cartons :
          \/ ReceiveCartonCard(r, c)
          \/ ConfirmCarton(r, c)
          \/ ScanArticle(r, c)
          \/ ReverseCarton(r, c)
          \/ VoidCarton(r, c)
          \/ DeleteCarton(r, c)
          \/ \E w \in Workers : ClaimCarton(r, c, w)
          \/ \E l \in Locations : Place(r, c, l)
    \/ \E r \in Calls, a \in Arrivals :
          \/ Start(r, a)
          \/ VoidArrival(r, a)
          \/ DeleteArrival(r, a)
    \/ \E r \in Calls, w \in Workers : StartPutaway(r, w)
    \/ \E r \in Calls :
          \/ InsertShipment(r)
          \/ InsertCarton(r)
          \/ CardFails(r)
          \/ Started(r)
          \/ Confirmed(r)
          \/ Reversed(r)
          \/ PutawayStarted(r)
          \/ Claimed(r)
          \/ PlaceReads(r)
          \/ PlaceCommits(r)
          \/ CartonVoided(r)
          \/ ArrivalVoided(r)
          \/ CartonDeleted(r)
          \/ ArrivalDeleted(r)
    \/ \E s \in Sessions : PausePutaway(s) \/ ResumePutaway(s) \/ CompletePutaway(s)
    \/ \E c \in Cartons : ClaimExpires(c) \/ \E w \in Workers : ReleaseCarton(c, w)
    \/ \E l \in Locations : BlockLocation(l) \/ UnblockLocation(l)
    \/ TrialReset

Spec == Init /\ [][Next]_vars

-----------------------------------------------------------------------------
Overlapped(x, late, first) == \E k \in late : <<x, k, first>> \in overlap
(* putaway.service.ts:22-26, "the carton's location history stays          *)
(* reconstructable": where a carton is, a placement that is not released   *)
(* says so, in whatever order moves of several workers commit.             *)
LocatedIsPlaced ==
    \A c \in Cartons : Exists(c) /\ carton[c].location # None =>
        \E i \in OpenPlaces(c) : placements[c][i].location = carton[c].location

(* Force delete, "otherwise cartons would outlive the arrival and reappear *)
(* as orphan CARTON cards": a carton belongs to an arrival, unless its     *)
(* card came in while the arrival was being deleted.                       *)
NoOrphanCarton ==
    \A c \in Cartons : Exists(c) /\ ArrivalOf(c) = None =>
        \E x \in Refs : Overlapped(x, {"deleteArrival"}, "card")

(* carton-content.ts, "WITHOUT double counting the customer card": in an   *)
(* arrival no carton is counted twice, also not one that was deleted and   *)
(* announced again, and none is counted whose product the customer card    *)
(* declares.  And none gets lost: a carton that has no line of its own is  *)
(* mirrored by a line of no carton.                                        *)
CountedOnce ==
    \A c \in Cartons, a \in Arrivals :
        /\ items[c][a].linked + items[c][a].loose <= 1
        /\ arrival[a] # NoRow /\ Product[c] \in arrival[a].declared => items[c][a] = Uncounted
        /\ Exists(c) /\ ArrivalOf(c) = a => items[c][a].linked = 1 \/ Mirrored(c, a)

(* What does not hold.  The line that a deleted carton has left stands for *)
(* any number of cartons of its product that come after it, where "content *)
(* beyond the customer card" is "real additional content".                 *)
EachCartonCounts ==
    \A c \in Cartons : Exists(c) /\ ArrivalOf(c) # None =>
        items[c][ArrivalOf(c)].linked = 1 \/ Product[c] \in arrival[ArrivalOf(c)].declared

(* A received carton that has a place already, after a reversal or a       *)
(* second scan, is in no queue (queue, putaway.service.ts:123-126,         *)
(* "received but not yet on a shelf - the actual work queue").             *)
ReceivedAwaits ==
    \A c \in Cartons : Exists(c) /\ carton[c].status = "RECEIVED" => carton[c].location = None

(* dataControlTrialReset, "so a fresh pilot starts clean": no record of an *)
(* arrival, a shipment or a carton is left.                                *)
ResetStartsClean ==
    [][TrialReset => \A e \in Externals : shipment'[e] = NoRow]_vars
=============================================================================
