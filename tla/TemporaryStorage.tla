-------------------------- MODULE TemporaryStorage --------------------------
(***************************************************************************)
(* The Temporary Storage stations                                          *)
(* (temporary-storage/temporary-storage.service.ts): units of confirmed    *)
(* product moves are scanned into containers, one unit per call.           *)
(*                                                                         *)
(* place decides outside its transaction which move the unit belongs to    *)
(* and whether the move has a unit left.  Its transaction then looks for   *)
(* an earlier scan with the operation id (Begin), takes the move for the   *)
(* station by a guarded update that locks the row until commit (Claim) and *)
(* writes container and item (Store).  What is not committed stays in the  *)
(* call.  nextContainerCode reads over another connection: it sees only    *)
(* what is committed.                                                      *)
(*                                                                         *)
(* All customers share one section letter, so a container is named by its  *)
(* station and its number.  The article created with each item, and the    *)
(* exception created with each review row, are left out: a clash of their  *)
(* generated codes aborts the call.  So does a station that is taken from  *)
(* its worker meanwhile.                                                   *)
(***************************************************************************)
EXTENDS Naturals, FiniteSets

CONSTANTS
    Stations,   \* active stations of department STAGING
    Moves,      \* ProductStationMove rows, numbered in the order of creation
    Skus,       \* codes that are scanned
    Customers,  \* customer names
    SkuOf,      \* the code of the product of each move
    CustomerOf, \* the customer of its arrival
    ConfirmedQuantity,  \* its column of that name
    OpIds,      \* operation ids of the devices
    Codes,      \* numbers of containers
    Capacities, \* values of the capacity setting
    Requests,   \* handler calls
    None

StorageAssumption ==
    /\ Moves \subseteq Nat
    /\ SkuOf \in [Moves -> Skus]
    /\ CustomerOf \in [Moves -> Customers]
    /\ ConfirmedQuantity \in [Moves -> Nat]
    /\ Codes \subseteq Nat \ {0}
    /\ Capacities \subseteq Nat \ {0}
    /\ None \notin Stations /\ None \notin Moves

VARIABLES
    capacity,   \* the setting temporary_storage.container_capacity
    move,       \* ProductStationMove.toStationId; None: not accepted
    container,  \* TemporaryStorageContainer by station and number
    item,       \* TemporaryStorageItem, named by the call that inserted it
    req         \* the handler calls

vars == <<capacity, move, container, item, req>>

NoRow == [row |-> "none"]
Unsent == [stage |-> "unsent"]
Done == [stage |-> "done"]

Container == [row : {"container"}, customer : Customers, capacity : Capacities,
              qty : Nat, status : {"EMPTY", "ACTIVE", "FULL"}]
Item == [row : {"STORED"}, op : OpIds, station : Stations, code : Codes,
         move : Moves]
        \cup [row : {"REVIEW"}, op : OpIds, station : Stations,
              move : Moves \cup {None}]
Call == {Unsent, Done}
        \cup [stage : {"begin", "claim"}, station : Stations, op : OpIds,
              code : Codes, move : Moves]
        \cup [stage : {"store"}, station : Stations, op : OpIds, code : Codes,
              move : Moves, found : Container \cup {NoRow}]
        \cup [stage : {"review"}, station : Stations, op : OpIds, sku : Skus]
        \cup [stage : {"accept"}, station : Stations, move : Moves]

TypeOK ==
    /\ capacity \in Capacities
    /\ move \in [Moves -> Stations \cup {None}]
    /\ container \in [Stations -> [Codes -> Container \cup {NoRow}]]
    /\ item \in [Requests -> Item \cup {NoRow}]
    /\ req \in [Requests -> Call]

Init ==
    /\ capacity \in Capacities
    /\ move = [m \in Moves |-> None]
    /\ container = [s \in Stations |-> [c \in Codes |-> NoRow]]
    /\ item = [r \in Requests |-> NoRow]
    /\ req = [r \in Requests |-> Unsent]

At(r, stage) == req[r].stage = stage
Goto(r, call) == req' = [req EXCEPT ![r] = call]
Return(r) == Goto(r, Done)

-----------------------------------------------------------------------------
Seen(op) == \E r \in Requests : item[r] # NoRow /\ item[r].op = op
StoredOf(m) == {r \in Requests : item[r].row = "STORED" /\ item[r].move = m}
Remaining(m) == IF Cardinality(StoredOf(m)) < ConfirmedQuantity[m]
                THEN ConfirmedQuantity[m] - Cardinality(StoredOf(m)) ELSE 0

Oldest(S) == {m \in S : \A n \in S : m <= n}
Latest(S) == {m \in S : \A n \in S : n <= m}

(* scopeMoves and the code match: unaccepted, or accepted by this station. *)
InScope(s, k) == {m \in Moves : SkuOf[m] = k /\ move[m] \in {None, s}}

(* The moves with a confirmed unit that is not stored.                     *)
Placeable(S) == {m \in S : Remaining(m) > 0}

(* nextContainerCode: one more than the highest number in use.             *)
NextCode(s) ==
    LET used == {c \in Codes : container[s][c] # NoRow} IN
    IF used = {} THEN 1 ELSE (CHOOSE c \in Latest(used) : TRUE) + 1

(* The row of a move is locked from the claim to the end of the            *)
(* transaction.                                                            *)
LockedMove(m) == \E r \in Requests : At(r, "store") /\ req[r].move = m

-----------------------------------------------------------------------------
(* place: which unit is it?  A placeable move, else (with all units of the *)
(* code stored) the answer ALREADY_STORED, else the review lane.           *)
Place(r, s, k, op, c) ==
    LET matching == InScope(s, k)
        placeable == Placeable(matching) IN
    /\ req[r] = Unsent
    /\ \/ \E m \in Oldest(placeable) :
             Goto(r, [stage |-> "begin", station |-> s, op |-> op, code |-> c,
                      move |-> m])
       \/ /\ placeable = {} /\ matching # {}
          /\ Return(r)
       \/ /\ matching = {}
          /\ Goto(r, [stage |-> "review", station |-> s, op |-> op, sku |-> k])
    /\ UNCHANGED <<capacity, move, container, item>>

(* The transaction of place: the replay of an operation answers at once.   *)
Begin(r) ==
    /\ At(r, "begin")
    /\ IF Seen(req[r].op) THEN Return(r)
       ELSE Goto(r, [req[r] EXCEPT !.stage = "claim"])
    /\ UNCHANGED <<capacity, move, container, item>>

(* Mutant: the claim is not guarded by the station.                        *)
ClaimableAlways(s, m) == TRUE

(* The WHERE of the claim.                                                 *)
Claimable(s, m) == move[m] \in {None, s}

(* Its claim of the move, which waits for the transaction that holds the   *)
(* row, and its look at the scanned container.                             *)
Claim(r) ==
    LET q == req[r] IN
    /\ At(r, "claim")
    /\ ~LockedMove(q.move)
    /\ IF Claimable(q.station, q.move)
       THEN Goto(r, [stage |-> "store", station |-> q.station, op |-> q.op,
                     code |-> q.code, move |-> q.move,
                     found |-> container[q.station][q.code]])
       ELSE Return(r)
    /\ UNCHANGED <<capacity, move, container, item>>

(* Mutant: the setting is not read.                                        *)
FreshDefault(customer) ==
    [row |-> "container", customer |-> customer, capacity |-> 20, qty |-> 0,
     status |-> "EMPTY"]

(* A new container takes the capacity that is set when it is opened.       *)
Fresh(customer) ==
    [row |-> "container", customer |-> customer, capacity |-> capacity,
     qty |-> 0, status |-> "EMPTY"]

(* The container the unit goes to: the one found, as it is now, or a new   *)
(* one that must be the next in the section and still be free.             *)
Target(q) ==
    IF q.found # NoRow THEN container[q.station][q.code]
    ELSE Fresh(CustomerOf[q.move])
CanOpen(q) == container[q.station][q.code] = NoRow /\ q.code = NextCode(q.station)

(* Mutant: containers are shared between customers.                        *)
RefusedFull(q) == q.found # NoRow /\ q.found.status = "FULL"

(* The container found is another customer's, or was full when it was read.*)
Refused(q) == q.found # NoRow /\ \/ q.found.customer # CustomerOf[q.move]
                                 \/ q.found.status = "FULL"

(* The guarded increment, evaluated on the row as it is now.               *)
HasRoom(q) == LET k == Target(q) IN k.status # "FULL" /\ k.qty < k.capacity
Filled(k) ==
    [k EXCEPT !.qty = @ + 1,
              !.status = IF k.qty + 1 >= k.capacity THEN "FULL" ELSE "ACTIVE"]

(* Mutant: no unique index.                                                *)
FreeOperationAlways(op) == TRUE

(* The unique index on the operation id.                                   *)
FreeOperation(op) == ~Seen(op)

(* A wrong or a full container is answered with WRONG_CONTAINER, and the   *)
(* claim is committed.                                                     *)
AnswerWrongContainer(r) ==
    /\ At(r, "store")
    /\ Refused(req[r])
    /\ move' = [move EXCEPT ![req[r].move] = req[r].station]
    /\ Return(r)
    /\ UNCHANGED <<capacity, container, item>>

(* Does the filled container get a successor?  remainingAfter already      *)
(* counts the new item, and the code subtracts it once more.               *)
WantsSuccessor(q) ==
    /\ Filled(Target(q)).status = "FULL"
    /\ Cardinality(StoredOf(q.move)) + 2 < ConfirmedQuantity[q.move]

(* The unit is stored: container, item and, when the container is full, an *)
(* empty successor.  The successor's number is read outside: it is that of *)
(* the container itself if this transaction has just opened it, and then   *)
(* the insert fails.  A call that finds no room, no free number or its     *)
(* operation id taken can only abort.                                      *)
Store(r) ==
    LET q == req[r]
        s == q.station
        next == NextCode(s)
        filled == [container[s] EXCEPT ![q.code] = Filled(Target(q))] IN
    /\ At(r, "store")
    /\ ~Refused(q)
    /\ q.found = NoRow => CanOpen(q)
    /\ HasRoom(q)
    /\ FreeOperation(q.op)
    /\ WantsSuccessor(q) => /\ next \in Codes \ {q.code}
                            /\ container[s][next] = NoRow
    /\ move' = [move EXCEPT ![q.move] = s]
    /\ container' = [container EXCEPT ![s] =
                        IF WantsSuccessor(q)
                        THEN [filled EXCEPT ![next] = Fresh(CustomerOf[q.move])]
                        ELSE filled]
    /\ item' = [item EXCEPT ![r] = [row |-> "STORED", op |-> q.op, station |-> s,
                                    code |-> q.code, move |-> q.move]]
    /\ Return(r)
    /\ UNCHANGED capacity

(* sendToReview called for by the worker; place goes there by itself.      *)
CallReview(r, s, k, op) ==
    /\ req[r] = Unsent
    /\ Goto(r, [stage |-> "review", station |-> s, op |-> op, sku |-> k])
    /\ UNCHANGED <<capacity, move, container, item>>

(* Its transaction: nothing for an operation that is known; otherwise a    *)
(* review row that names the latest move of the code, wherever it is.      *)
SendToReview(r) ==
    LET q == req[r]
        known == {m \in Moves : SkuOf[m] = q.sku} IN
    /\ At(r, "review")
    /\ \/ ~FreeOperation(q.op) /\ UNCHANGED item
       \/ /\ FreeOperation(q.op)
          /\ \E m \in IF known = {} THEN {None} ELSE Latest(known) :
                item' = [item EXCEPT ![r] =
                            [row |-> "REVIEW", op |-> q.op,
                             station |-> q.station, move |-> m]]
    /\ Return(r)
    /\ UNCHANGED <<capacity, move, container>>

(* workflow.acceptAtStaging: the check, and the update it does not guard.  *)
Accept(r, s, m) ==
    /\ req[r] = Unsent
    /\ move[m] = None
    /\ Goto(r, [stage |-> "accept", station |-> s, move |-> m])
    /\ UNCHANGED <<capacity, move, container, item>>

WriteAccept(r) ==
    /\ At(r, "accept")
    /\ ~LockedMove(req[r].move)
    /\ move' = [move EXCEPT ![req[r].move] = req[r].station]
    /\ Return(r)
    /\ UNCHANGED <<capacity, container, item>>

SetCapacity(n) ==
    /\ capacity' = n
    /\ UNCHANGED <<move, container, item, req>>

(* A failed statement, a lost connection or a stopped process: the         *)
(* transaction is rolled back.                                             *)
Abort(r) ==
    /\ req[r] \notin {Unsent, Done}
    /\ Return(r)
    /\ UNCHANGED <<capacity, move, container, item>>

-----------------------------------------------------------------------------
Send(r, s) ==
    \/ \E k \in Skus, op \in OpIds :
          CallReview(r, s, k, op) \/ \E c \in Codes : Place(r, s, k, op, c)
    \/ \E m \in Moves : Accept(r, s, m)

Continue(r) ==
    \/ Begin(r) \/ Claim(r) \/ Store(r) \/ AnswerWrongContainer(r)
    \/ SendToReview(r) \/ WriteAccept(r)

Next ==
    \/ \E r \in Requests : (\E s \in Stations : Send(r, s)) \/ Continue(r) \/ Abort(r)
    \/ \E n \in Capacities : SetCapacity(n)

Spec == Init /\ [][Next]_vars

-----------------------------------------------------------------------------
(* Every unit lies in a container of its own customer, also when two calls *)
(* of different customers open the same container at once.                 *)
StoredWithItsCustomer ==
    \A r \in Requests :
        item[r].row = "STORED" =>
            container[item[r].station][item[r].code].customer
                = CustomerOf[item[r].move]

(* One operation id makes one row, stored or in review: also when a device *)
(* repeats a scan whose first call is still running.                       *)
OneItemPerOperation ==
    \A r, t \in Requests :
        item[r] # NoRow /\ item[t] # NoRow /\ item[r].op = item[t].op => r = t

(* A station loses a move it has taken only to an acceptance that was      *)
(* checked before: the claim of a placement never takes it away.           *)
PlaceNeverSteals ==
    [][\A m \in Moves :
          (move[m] # None /\ move'[m] # move[m]) =>
              \E r \in Requests : At(r, "accept") /\ req[r].move = m]_vars

-----------------------------------------------------------------------------
(* A claim of the source that its interleavings do not keep.               *)

(* A unit is placed at most once: no move has more stored than confirmed.  *)
PlacedAtMostOnce ==
    \A m \in Moves : Cardinality(StoredOf(m)) <= ConfirmedQuantity[m]
=============================================================================
