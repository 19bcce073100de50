------------------------------ MODULE Fulfillment ------------------------------
(***************************************************************************)
(* From the receiving line to the carrier                                  *)
(* (fulfillment/fulfillment.service.ts): an article is scanned into a      *)
(* tote, stored on a shelf, sorted into the bin of a customer's order,     *)
(* packed and shipped.                                                     *)
(*                                                                         *)
(* Every handler first reads what it decides on and then writes in a       *)
(* transaction of its own, most of them without looking again: what a call *)
(* has read is kept in call[r] until it returns.  A transaction is one     *)
(* step, except where two of them can miss each other's rows: the          *)
(* completeness check of orderSortingAssign and of pack.  The inserts are  *)
(* one step because their code is drawn from a count under a unique index: *)
(* of two that overlap one fails.                                          *)
(*                                                                         *)
(* An order has one line per code.  Destinations, the tasks dispatched     *)
(* after each step (module TaskDispatch) and the session, which stays      *)
(* RECEIVING here, are left out.                                           *)
(***************************************************************************)
EXTENDS Integers, FiniteSets

CONSTANTS
    Articles,   \* ArticleUnit rows
    Stock,      \* the code of those that Temporary Storage has created already
    Skus,       \* codes on articles and order lines
    Orders,     \* OPEN warehouse orders
    Requested,  \* requestedQuantity of the line of each order and code; 0: none
    Totes,      \* RECEIVING containers
    Bins,       \* CUSTOMER containers
    Capacity,   \* capacity of a tote
    Stations,   \* ACTIVE staging stations with a zone
    Shipments,  \* OutboundShipment rows
    OpIds,      \* operation ids of the devices
    Calls,      \* handler calls that run at the same time
    Workloads,  \* sets of handlers that are called in one behaviour
    None

ASSUME FulfillmentAssumption ==
    /\ Requested \in [Orders -> [Skus -> Nat]]
    /\ DOMAIN Stock \subseteq Articles /\ \A a \in DOMAIN Stock : Stock[a] \in Skus
    /\ Capacity \in Nat \ {0}
    /\ IsFiniteSet(Articles) /\ IsFiniteSet(Calls)
    /\ Totes \cap Bins = {}
    /\ None \notin Totes \cup Bins \cup Orders \cup Stations \cup Shipments \cup OpIds

VARIABLES
    article,      \* ArticleUnit
    received,     \* ReceivingProduct.receivedQuantity by code
    tote,         \* OperationalContainer of type RECEIVING
    bin,          \* OperationalContainer of type CUSTOMER
    shipment,     \* OutboundShipment
    verification, \* the latest ShippingVerification of each shipment
    call,         \* the handler calls in flight
    handlers      \* the handlers that are called

vars == <<article, received, tote, bin, shipment, verification, call, handlers>>

NoRow == [status |-> "none"]
Idle == [at |-> "idle"]

Article == [status : {"IN_CONTAINER", "STORED", "IN_CUSTOMER_BIN", "PACKED", "SHIPPED"},
            sku : Skus, op : OpIds \cup {None}, container : Totes \cup Bins \cup {None},
            order : Orders \cup {None}, shipment : Shipments \cup {None}]
Tote == [status : {"ACTIVE", "READY_FOR_SORTING"}, staged : Stations \cup {None}]
Bin == [status : {"ACTIVE", "READY_FOR_PACKING", "PACKED", "CLOSED"}, order : Orders]
Shipment == [status : {"READY_TO_SHIP", "SHIPPED"}, bin : Bins]
Verification == [status : {"fresh", "expired"}, content : SUBSET Articles]
Call == {Idle}
        \cup [at : {"scan"}, tote : Totes, sku : Skus, op : OpIds, received : Nat]
        \cup [at : {"close"}, tote : Totes]
        \cup [at : {"stage", "stageWrite"}, tote : Totes, station : Stations]
        \cup [at : {"createBin"}, order : Orders]
        \cup [at : {"store"}, article : Articles]
        \cup [at : {"assign"}, article : Articles, bin : Bins]
        \cup [at : {"assignWrite"}, article : Articles, bin : Bins, complete : BOOLEAN]
        \cup [at : {"reopen", "pack", "packWrite"}, bin : Bins]
        \cup [at : {"verify"}, shipment : Shipments, content : SUBSET Articles]
        \cup [at : {"ship"}, shipment : Shipments]

TypeOK ==
    /\ article \in [Articles -> Article \cup {NoRow}]
    /\ received \in [Skus -> Nat]
    /\ tote \in [Totes -> Tote]
    /\ bin \in [Bins -> Bin \cup {NoRow}]
    /\ shipment \in [Shipments -> Shipment \cup {NoRow}]
    /\ verification \in [Shipments -> Verification \cup {NoRow}]
    /\ call \in [Calls -> Call]
    /\ handlers \in Workloads

Init ==
    /\ article = [a \in Articles |->
                     IF a \in DOMAIN Stock
                     THEN [status |-> "IN_CONTAINER", sku |-> Stock[a], op |-> None,
                           container |-> None, order |-> None, shipment |-> None]
                     ELSE NoRow]
    /\ received = [k \in Skus |-> 0]
    /\ tote = [t \in Totes |-> [status |-> "ACTIVE", staged |-> None]]
    /\ bin = [b \in Bins |-> NoRow]
    /\ shipment = [s \in Shipments |-> NoRow]
    /\ verification = [s \in Shipments |-> NoRow]
    /\ call = [r \in Calls |-> Idle]
    /\ handlers \in Workloads

-----------------------------------------------------------------------------
Receives(r, handler) == call[r] = Idle /\ handler \in handlers
At(r, at) == call[r].at = at
Goto(r, c) == call' = [call EXCEPT ![r] = c] /\ UNCHANGED handlers
Return(r) == Goto(r, Idle)

rows == <<article, received, tote, bin, shipment, verification>>

InTote(t) == {a \in Articles : article[a].status = "IN_CONTAINER" /\ article[a].container = t}
InBin(b) == {a \in Articles : article[a].status = "IN_CUSTOMER_BIN" /\ article[a].container = b}
Content(s) == {a \in Articles : article[a] # NoRow /\ article[a].shipment = s}

(* The articles that count for the line of an order; moved is one that is  *)
(* put in a bin by the transaction that asks.                              *)
Sorted(a) == article[a].status \in {"IN_CUSTOMER_BIN", "PACKED", "SHIPPED"}
Assigned(o, k) == {a \in Articles : Sorted(a) /\ article[a].order = o /\ article[a].sku = k}

(* checkOrderCompleteness.                                                 *)
Complete(o, moved) ==
    \A k \in Skus :
        Cardinality(Assigned(o, k) \cup {a \in moved : article[a].sku = k})
            >= Requested[o][k]

(* Row locks: an assign holds its article from its update to its commit,   *)
(* pack its bin.                                                           *)
ArticleLocked(a) == \E r \in Calls : At(r, "assignWrite") /\ call[r].article = a
BinLocked(b) == \E r \in Calls : At(r, "packWrite") /\ call[r].bin = b

-----------------------------------------------------------------------------
(* scanArticleAtReceiving: the replay, the tote and the line are looked up *)
(* before the transaction.                                                 *)
Seen(op) == \E a \in Articles : article[a] # NoRow /\ article[a].op = op

ScanArticle(r, t, k, op) ==
    /\ Receives(r, "scan")
    /\ ~Seen(op)
    /\ tote[t].status = "ACTIVE"
    /\ Goto(r, [at |-> "scan", tote |-> t, sku |-> k, op |-> op,
                received |-> received[k]])
    /\ UNCHANGED rows

(* The unique index on ReceivingScanEvent.operationId.                     *)
FreeOperation(op) == ~Seen(op)

(* The new article fills the tote.                                         *)
FullNow(t) == Cardinality(InTote(t)) + 1 >= Capacity

(* Mutant: the scan and its replay are both counted.                       *)
CountedTwice(c) == c.received + 2

(* The line counts on from the copy that was read.                         *)
Counted(c) == c.received + 1

WriteScan(r) ==
    LET c == call[r] IN
    /\ At(r, "scan")
    /\ FreeOperation(c.op)
    /\ \E a \in Articles :
          /\ article[a] = NoRow
          /\ article' = [article EXCEPT ![a] =
                [status |-> "IN_CONTAINER", sku |-> c.sku, op |-> c.op,
                 container |-> c.tote, order |-> None, shipment |-> None]]
    /\ received' = [received EXCEPT ![c.sku] = Counted(c)]
    /\ tote' = IF FullNow(c.tote)
               THEN [tote EXCEPT ![c.tote].status = "READY_FOR_SORTING"] ELSE tote
    /\ Return(r)
    /\ UNCHANGED <<bin, shipment, verification>>

CloseContainer(r, t) ==
    /\ Receives(r, "close")
    /\ tote[t].status = "ACTIVE"
    /\ Goto(r, [at |-> "close", tote |-> t])
    /\ UNCHANGED rows

WriteClose(r) ==
    /\ At(r, "close")
    /\ tote' = [tote EXCEPT ![call[r].tote].status = "READY_FOR_SORTING"]
    /\ Return(r)
    /\ UNCHANGED <<article, received, bin, shipment, verification>>

(* A closed tote that waits at no station.                                 *)
MayStage(t) == tote[t].status = "READY_FOR_SORTING" /\ tote[t].staged = None

(* stageContainer looks before its transaction and again in it; the second *)
(* read takes no lock.                                                     *)
StageContainer(r, t, s) ==
    /\ Receives(r, "stage")
    /\ MayStage(t)
    /\ Goto(r, [at |-> "stage", tote |-> t, station |-> s])
    /\ UNCHANGED rows

RecheckStage(r) ==
    /\ At(r, "stage")
    /\ IF MayStage(call[r].tote) THEN Goto(r, [call[r] EXCEPT !.at = "stageWrite"])
       ELSE Return(r)
    /\ UNCHANGED rows

WriteStage(r) ==
    /\ At(r, "stageWrite")
    /\ tote' = [tote EXCEPT ![call[r].tote].staged = call[r].station]
    /\ Return(r)
    /\ UNCHANGED <<article, received, bin, shipment, verification>>

-----------------------------------------------------------------------------
(* createContainer for a customer, also by ensureCustomerContainer: the    *)
(* order has no open bin.                                                  *)
OpenBins(o) == {b \in Bins : /\ bin[b].status \in {"ACTIVE", "READY_FOR_PACKING"}
                             /\ bin[b].order = o}

CreateBin(r, o) ==
    /\ Receives(r, "createBin")
    /\ OpenBins(o) = {}
    /\ Goto(r, [at |-> "createBin", order |-> o])
    /\ UNCHANGED rows

WriteBin(r) ==
    /\ At(r, "createBin")
    /\ \E b \in Bins :
          /\ bin[b] = NoRow
          /\ bin' = [bin EXCEPT ![b] = [status |-> "ACTIVE", order |-> call[r].order]]
    /\ Return(r)
    /\ UNCHANGED <<article, received, tote, shipment, verification>>

(* Mutant: any article may be stored.                                      *)
StorableAny(a) == article[a] # NoRow

(* It waits for storage.                                                   *)
Storable(a) == article[a].status = "IN_CONTAINER"

(* sortingStore: the article goes to a shelf, wherever it is by now.       *)
SortingStore(r, a) ==
    /\ Receives(r, "store")
    /\ Storable(a)
    /\ Goto(r, [at |-> "store", article |-> a])
    /\ UNCHANGED rows

WriteStore(r) ==
    LET a == call[r].article IN
    /\ At(r, "store")
    /\ ~ArticleLocked(a)
    /\ article' = [article EXCEPT ![a].status = "STORED", ![a].container = None]
    /\ Return(r)
    /\ UNCHANGED <<received, tote, bin, shipment, verification>>

(* findOrderNeeding for the order of a bin.                                *)
Needs(o, k) == Cardinality(Assigned(o, k)) < Requested[o][k]

(* orderSortingAssign: the article is not sorted, the bin is open and its  *)
(* order needs the code.                                                   *)
OrderSortingAssign(r, a, b) ==
    /\ Receives(r, "assign")
    /\ article[a] # NoRow /\ ~Sorted(a)
    /\ bin[b].status = "ACTIVE"
    /\ Needs(bin[b].order, article[a].sku)
    /\ Goto(r, [at |-> "assign", article |-> a, bin |-> b])
    /\ UNCHANGED rows

(* Its transaction updates the article, whose row it then holds, and asks  *)
(* whether the order is complete: it sees its own article and what the     *)
(* others have committed.                                                  *)
CheckAssign(r) ==
    LET c == call[r] IN
    /\ At(r, "assign")
    /\ ~ArticleLocked(c.article)
    /\ Goto(r, [at |-> "assignWrite", article |-> c.article, bin |-> c.bin,
                complete |-> Complete(bin[c.bin].order, {c.article})])
    /\ UNCHANGED rows

(* The commit; a bin that was open when it was read is locked.             *)
WriteAssign(r) ==
    LET c == call[r] IN
    /\ At(r, "assignWrite")
    /\ c.complete => ~BinLocked(c.bin)
    /\ article' = [article EXCEPT ![c.article].status = "IN_CUSTOMER_BIN",
                                  ![c.article].container = c.bin,
                                  ![c.article].order = bin[c.bin].order]
    /\ bin' = IF c.complete THEN [bin EXCEPT ![c.bin].status = "READY_FOR_PACKING"]
              ELSE bin
    /\ Return(r)
    /\ UNCHANGED <<received, tote, shipment, verification>>

(* corrections.reopenCustomerBin.                                          *)
ReopenCustomerBin(r, b) ==
    /\ Receives(r, "reopen")
    /\ bin[b].status = "READY_FOR_PACKING"
    /\ Goto(r, [at |-> "reopen", bin |-> b])
    /\ UNCHANGED rows

WriteReopen(r) ==
    /\ At(r, "reopen")
    /\ ~BinLocked(call[r].bin)
    /\ bin' = [bin EXCEPT ![call[r].bin].status = "ACTIVE"]
    /\ Return(r)
    /\ UNCHANGED <<article, received, tote, shipment, verification>>

-----------------------------------------------------------------------------
(* pack: a first look, of which only "not empty" is not repeated.          *)
Pack(r, b) ==
    /\ Receives(r, "pack")
    /\ bin[b].status \in {"ACTIVE", "READY_FOR_PACKING"}
    /\ InBin(b) # {}
    /\ Complete(bin[b].order, {})
    /\ Goto(r, [at |-> "pack", bin |-> b])
    /\ UNCHANGED rows

(* Its transaction locks the bin and looks again.                          *)
LockPack(r) ==
    LET b == call[r].bin IN
    /\ At(r, "pack")
    /\ ~BinLocked(b)
    /\ IF bin[b].status = "READY_FOR_PACKING" /\ Complete(bin[b].order, {})
       THEN Goto(r, [at |-> "packWrite", bin |-> b])
       ELSE Return(r)
    /\ UNCHANGED rows

(* What the shipment takes: what lies in the bin.                          *)
PackedWith(b) == InBin(b)

WritePack(r) ==
    LET b == call[r].bin IN
    /\ At(r, "packWrite")
    /\ \A a \in PackedWith(b) : ~ArticleLocked(a)
    /\ \E s \in Shipments :
          /\ shipment[s] = NoRow
          /\ shipment' = [shipment EXCEPT ![s] = [status |-> "READY_TO_SHIP", bin |-> b]]
          /\ article' = [a \in Articles |->
                IF a \in PackedWith(b)
                THEN [article[a] EXCEPT !.status = "PACKED", !.shipment = s]
                ELSE article[a]]
    /\ bin' = [bin EXCEPT ![b].status = "PACKED"]
    /\ Return(r)
    /\ UNCHANGED <<received, tote, verification>>

(* shippingVerify: the content is read, its hash is stored.                *)
ShippingVerify(r, s) ==
    /\ Receives(r, "verify")
    /\ shipment[s].status = "READY_TO_SHIP"
    /\ Goto(r, [at |-> "verify", shipment |-> s, content |-> Content(s)])
    /\ UNCHANGED rows

WriteVerify(r) ==
    LET c == call[r] IN
    /\ At(r, "verify")
    /\ verification' = [verification EXCEPT ![c.shipment] =
                           [status |-> "fresh", content |-> c.content]]
    /\ Return(r)
    /\ UNCHANGED <<article, received, tote, bin, shipment>>

(* Ten minutes pass.                                                       *)
Expire(s) ==
    /\ verification[s].status = "fresh"
    /\ verification' = [verification EXCEPT ![s].status = "expired"]
    /\ UNCHANGED <<article, received, tote, bin, shipment, call, handlers>>

(* Mutant: nobody has to have verified the shipment.                       *)
VerifiedAlways(s) == TRUE

(* The latest verification is fresh and its hash that of the content.      *)
Verified(s) ==
    /\ verification[s].status = "fresh"
    /\ verification[s].content = Content(s)

Ship(r, s) ==
    /\ Receives(r, "ship")
    /\ shipment[s].status = "READY_TO_SHIP"
    /\ Verified(s)
    /\ Goto(r, [at |-> "ship", shipment |-> s])
    /\ UNCHANGED rows

(* The check under the lock of the shipment.                               *)
MayShip(s) == shipment[s].status = "READY_TO_SHIP"

(* Its transaction: the articles leave, the bin is closed.                 *)
WriteShip(r) ==
    LET s == call[r].shipment IN
    /\ At(r, "ship")
    /\ IF MayShip(s)
       THEN /\ \A a \in Content(s) : ~ArticleLocked(a)
            /\ ~BinLocked(shipment[s].bin)
            /\ shipment' = [shipment EXCEPT ![s].status = "SHIPPED"]
            /\ article' = [a \in Articles |->
                  IF a \in Content(s)
                  THEN [article[a] EXCEPT !.status = "SHIPPED", !.container = None]
                  ELSE article[a]]
            /\ bin' = [bin EXCEPT ![shipment[s].bin].status = "CLOSED"]
       ELSE UNCHANGED <<shipment, article, bin>>
    /\ Return(r)
    /\ UNCHANGED <<received, tote, verification>>

(* A failed statement, a refused access or a stopped process.              *)
Abort(r) ==
    /\ call[r] # Idle
    /\ Return(r)
    /\ UNCHANGED rows

-----------------------------------------------------------------------------
Inbound(r) ==
    \/ \E t \in Totes :
          \/ \E k \in Skus, op \in OpIds : ScanArticle(r, t, k, op)
          \/ CloseContainer(r, t)
          \/ \E s \in Stations : StageContainer(r, t, s)
    \/ WriteScan(r) \/ WriteClose(r) \/ RecheckStage(r) \/ WriteStage(r)

Sorting(r) ==
    \/ \E o \in Orders : CreateBin(r, o)
    \/ \E a \in Articles : SortingStore(r, a) \/ \E b \in Bins : OrderSortingAssign(r, a, b)
    \/ \E b \in Bins : ReopenCustomerBin(r, b)
    \/ WriteBin(r) \/ WriteStore(r) \/ CheckAssign(r) \/ WriteAssign(r) \/ WriteReopen(r)

Outbound(r) ==
    \/ \E b \in Bins : Pack(r, b)
    \/ \E s \in Shipments : ShippingVerify(r, s) \/ Ship(r, s)
    \/ LockPack(r) \/ WritePack(r) \/ WriteVerify(r) \/ WriteShip(r)

Next ==
    \/ \E r \in Calls : Inbound(r) \/ Sorting(r) \/ Outbound(r) \/ Abort(r)
    \/ \E s \in Shipments : Expire(s)

Spec == Init /\ [][Next]_vars

-----------------------------------------------------------------------------
(* However stale the copy a call counts on from, the line of a product     *)
(* never shows more than was scanned (scanArticleAtReceiving writes the    *)
(* count it has read plus one).                                            *)
Scanned(k) == {a \in Articles : article[a] # NoRow /\ article[a].sku = k
                                                  /\ article[a].op # None}
CountedWasScanned == \A k \in Skus : received[k] <= Cardinality(Scanned(k))

(* What does not hold.  "Per-unit concurrency (two workers scanning the    *)
(* same product) is enforced at the write path" (assignments.service.ts,   *)
(* assertOperationalAccess): when the scans of a product have returned,    *)
(* its line counts every article they made.                                *)
EveryScanCounted ==
    \A k \in Skus :
        (\A r \in Calls : At(r, "scan") => call[r].sku # k) =>
            received[k] = Cardinality(Scanned(k))

(* Nothing leaves that nobody verified: what a shipped shipment holds is   *)
(* part of what its latest verification saw, although the hash is compared *)
(* before the transaction that ships.                                      *)
NothingShipsUnverified ==
    \A s \in Shipments :
        shipment[s].status = "SHIPPED" =>
            /\ verification[s] # NoRow
            /\ Content(s) \subseteq verification[s].content

(* An article in a customer's bin that no call is about to move only goes  *)
(* forward - to its shipment, to the carrier - and stays with its order    *)
(* and its shipment: no scan that begins from now on puts it on a shelf or *)
(* in another bin, and no other shipment takes it.                         *)
Moving(a) ==
    \E r \in Calls : call[r].at \in {"store", "assign", "assignWrite"} /\ call[r].article = a
Rank(status) == CASE status = "IN_CUSTOMER_BIN" -> 1 [] status = "PACKED" -> 2
                  [] status = "SHIPPED" -> 3 [] OTHER -> 0

SortedStaysSorted ==
    [][\A a \in Articles :
          (Sorted(a) /\ ~Moving(a)) =>
              /\ Rank(article'[a].status) >= Rank(article[a].status)
              /\ article'[a].order = article[a].order
              /\ article[a].status # "IN_CUSTOMER_BIN" =>
                    article'[a].shipment = article[a].shipment
              /\ ~Moving(a)']_vars

-----------------------------------------------------------------------------
(* A claim of the source that its interleavings do not keep.               *)

(* Completion locks the bin: when nothing is running, no open bin holds    *)
(* the last article of a complete order.                                   *)
CompletionLocks ==
    (\A r \in Calls : call[r] = Idle) =>
        \A b \in Bins :
            bin[b].status = "ACTIVE" /\ InBin(b) # {} => ~Complete(bin[b].order, {})
=============================================================================
