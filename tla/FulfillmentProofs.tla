--------------------------- MODULE FulfillmentProofs ---------------------------
(***************************************************************************)
(* Theorems about Fulfillment, for every number of articles, totes, bins,  *)
(* orders, shipments and concurrent handler calls.                         *)
(***************************************************************************)
EXTENDS Fulfillment, FiniteSetTheorems, TLAPS

(* What a call keeps is determined by where it is.                         *)
LEMMA CallFields ==
    ASSUME TypeOK, NEW r \in Calls
    PROVE  /\ At(r, "scan") =>
                /\ call[r].tote \in Totes /\ call[r].sku \in Skus
                /\ call[r].op \in OpIds /\ call[r].received \in Nat
           /\ At(r, "close") => call[r].tote \in Totes
           /\ At(r, "stage") \/ At(r, "stageWrite") =>
                call[r].tote \in Totes /\ call[r].station \in Stations
           /\ At(r, "createBin") => call[r].order \in Orders
           /\ At(r, "store") => call[r].article \in Articles
           /\ At(r, "assign") \/ At(r, "assignWrite") =>
                call[r].article \in Articles /\ call[r].bin \in Bins
           /\ At(r, "assignWrite") => call[r].complete \in BOOLEAN
           /\ At(r, "reopen") \/ At(r, "pack") \/ At(r, "packWrite") => call[r].bin \in Bins
           /\ At(r, "verify") =>
                call[r].shipment \in Shipments /\ call[r].content \subseteq Articles
           /\ At(r, "ship") => call[r].shipment \in Shipments
  <1>1. call[r] \in Call
    BY DEF TypeOK
  <1> QED
    BY <1>1 DEF Call, At, Idle

(* The rows a call has read are still there when it writes.                *)
Founded(c) ==
    /\ c.at \in {"store", "assign", "assignWrite"} => article[c.article] # NoRow
    /\ c.at \in {"assign", "assignWrite", "reopen", "pack", "packWrite"} => bin[c.bin] # NoRow
    /\ c.at \in {"verify", "ship"} => shipment[c.shipment] # NoRow

RowsStand ==
    /\ \A r \in Calls : Founded(call[r])
    /\ \A s \in Shipments : shipment[s] # NoRow => bin[shipment[s].bin] # NoRow

TypeInv == TypeOK /\ RowsStand

(* Rows are never taken away.                                              *)
RowsKept ==
    /\ \A a \in Articles : article[a] # NoRow => article'[a] # NoRow
    /\ \A b \in Bins : bin[b] # NoRow => bin'[b] # NoRow
    /\ \A s \in Shipments : shipment[s] # NoRow => shipment'[s] # NoRow

LEMMA RowTypes ==
    ASSUME TypeOK
    PROVE  /\ \A a \in Articles : article[a] # NoRow <=> article[a] \in Article
           /\ \A a \in Articles : article[a] # NoRow <=> article[a].status # "none"
           /\ \A b \in Bins : bin[b] # NoRow <=> bin[b] \in Bin
           /\ \A b \in Bins : bin[b] # NoRow <=> bin[b].status # "none"
           /\ \A s \in Shipments : shipment[s] # NoRow <=> shipment[s] \in Shipment
           /\ \A s \in Shipments : shipment[s] # NoRow <=> shipment[s].status # "none"
  <1>1. NoRow \notin Article /\ NoRow \notin Bin /\ NoRow \notin Shipment
    BY DEF NoRow, Article, Bin, Shipment
  <1>2. /\ NoRow.status = "none"
        /\ \A x \in Article : x.status # "none"
        /\ \A x \in Bin : x.status # "none"
        /\ \A x \in Shipment : x.status # "none"
    BY DEF NoRow, Article, Bin, Shipment
  <1> QED
    BY <1>1, <1>2 DEF TypeOK

(* A bin that changes its status is still that bin.                        *)
LEMMA BinType ==
    ASSUME TypeOK, NEW b \in Bins, bin[b] \in Bin,
           NEW st \in {"ACTIVE", "READY_FOR_PACKING", "PACKED", "CLOSED"},
           bin' = [bin EXCEPT ![b].status = st]
    PROVE  /\ bin' \in [Bins -> Bin \cup {NoRow}]
           /\ bin'[b] \in Bin
           /\ \A d \in Bins \ {b} : bin'[d] = bin[d]
  <1> DEFINE new == [bin[b] EXCEPT !.status = st]
  <1>1. new \in Bin
    BY DEF Bin
  <1>2. bin' = [bin EXCEPT ![b] = new]
    BY DEF TypeOK
  <1> HIDE DEF new
  <1> QED
    BY <1>1, <1>2 DEF TypeOK

LEMMA GotoType ==
    ASSUME TypeOK, NEW r \in Calls, NEW c \in Call, Goto(r, c)
    PROVE  call' \in [Calls -> Call] /\ handlers' \in Workloads
  BY DEF TypeOK, Goto

LEMMA ReturnType ==
    ASSUME TypeOK, NEW r \in Calls, Return(r)
    PROVE  call' \in [Calls -> Call] /\ handlers' \in Workloads
  <1>1. Idle \in Call
    BY DEF Call
  <1> QED
    BY <1>1, GotoType DEF Return

(* A call that only reads and keeps what it read.                          *)
LEMMA ReadType ==
    ASSUME TypeOK, NEW r \in Calls, NEW c \in Call, Goto(r, c), UNCHANGED rows
    PROVE  TypeOK'
  BY GotoType DEF TypeOK, rows

LEMMA BackType ==
    ASSUME TypeOK, NEW r \in Calls, Return(r), UNCHANGED rows
    PROVE  TypeOK'
  BY ReturnType DEF TypeOK, rows

LEMMA InboundType ==
    ASSUME TypeOK, NEW r \in Calls, Inbound(r)
    PROVE  TypeOK'
  <1>1. ASSUME NEW t \in Totes, NEW k \in Skus, NEW op \in OpIds, ScanArticle(r, t, k, op)
        PROVE  TypeOK'
    <2> DEFINE c == [at |-> "scan", tote |-> t, sku |-> k, op |-> op, received |-> received[k]]
    <2>1. c \in Call
      BY DEF TypeOK, Call
    <2>2. Goto(r, c) /\ UNCHANGED rows
      BY <1>1 DEF ScanArticle
    <2> QED
      BY <2>1, <2>2, ReadType
  <1>2. ASSUME NEW t \in Totes, CloseContainer(r, t)
        PROVE  TypeOK'
    <2> DEFINE c == [at |-> "close", tote |-> t]
    <2>1. c \in Call
      BY DEF Call
    <2>2. Goto(r, c) /\ UNCHANGED rows
      BY <1>2 DEF CloseContainer
    <2> QED
      BY <2>1, <2>2, ReadType
  <1>3. ASSUME NEW t \in Totes, NEW s \in Stations, StageContainer(r, t, s)
        PROVE  TypeOK'
    <2> DEFINE c == [at |-> "stage", tote |-> t, station |-> s]
    <2>1. c \in Call
      BY DEF Call
    <2>2. Goto(r, c) /\ UNCHANGED rows
      BY <1>3 DEF StageContainer
    <2> QED
      BY <2>1, <2>2, ReadType
  <1>4. CASE WriteScan(r)
    <2> DEFINE c == call[r]
    <2>1. /\ c.tote \in Totes /\ c.sku \in Skus /\ c.op \in OpIds /\ c.received \in Nat
      BY <1>4, CallFields DEF WriteScan
    <2>2. PICK a \in Articles :
            article' = [article EXCEPT ![a] =
                [status |-> "IN_CONTAINER", sku |-> c.sku, op |-> c.op,
                 container |-> c.tote, order |-> None, shipment |-> None]]
      BY <1>4 DEF WriteScan
    <2>3. [status |-> "IN_CONTAINER", sku |-> c.sku, op |-> c.op,
           container |-> c.tote, order |-> None, shipment |-> None] \in Article
      BY <2>1 DEF Article
    <2> HIDE DEF c
    <2>4. article' \in [Articles -> Article \cup {NoRow}]
      BY <2>2, <2>3 DEF TypeOK
    <2>5. received' \in [Skus -> Nat]
      BY <1>4, <2>1 DEF WriteScan, Counted, TypeOK, c
    <2>6. tote' \in [Totes -> Tote]
      BY <1>4, <2>1 DEF WriteScan, TypeOK, Tote, c
    <2>7. call' \in [Calls -> Call] /\ handlers' \in Workloads
      BY <1>4, ReturnType DEF WriteScan
    <2> QED
      BY <1>4, <2>4, <2>5, <2>6, <2>7 DEF WriteScan, TypeOK
  <1>5. CASE WriteClose(r)
    <2>1. call[r].tote \in Totes
      BY <1>5, CallFields DEF WriteClose
    <2>2. tote' \in [Totes -> Tote]
      BY <1>5, <2>1 DEF WriteClose, TypeOK, Tote
    <2>3. call' \in [Calls -> Call] /\ handlers' \in Workloads
      BY <1>5, ReturnType DEF WriteClose
    <2> QED
      BY <1>5, <2>2, <2>3 DEF WriteClose, TypeOK
  <1>6. CASE RecheckStage(r)
    <2> DEFINE c == [call[r] EXCEPT !.at = "stageWrite"]
    <2>1. c \in Call
      <3>1. call[r] \in Call
        BY DEF TypeOK
      <3>2. call[r] \in [at : {"stage", "stageWrite"}, tote : Totes, station : Stations]
        BY <1>6, <3>1 DEF RecheckStage, At, Call, Idle
      <3>3. c \in [at : {"stage", "stageWrite"}, tote : Totes, station : Stations]
        BY <3>2
      <3> QED
        BY <3>3 DEF Call
    <2>2. (Goto(r, c) \/ Return(r)) /\ UNCHANGED rows
      BY <1>6 DEF RecheckStage
    <2> QED
      BY <2>1, <2>2, ReadType, BackType
  <1>7. CASE WriteStage(r)
    <2>1. call[r].tote \in Totes /\ call[r].station \in Stations
      BY <1>7, CallFields DEF WriteStage
    <2>2. tote' \in [Totes -> Tote]
      BY <1>7, <2>1 DEF WriteStage, TypeOK, Tote
    <2>3. call' \in [Calls -> Call] /\ handlers' \in Workloads
      BY <1>7, ReturnType DEF WriteStage
    <2> QED
      BY <1>7, <2>2, <2>3 DEF WriteStage, TypeOK
  <1> QED
    BY <1>1, <1>2, <1>3, <1>4, <1>5, <1>6, <1>7 DEF Inbound

LEMMA SortingType ==
    ASSUME TypeInv, NEW r \in Calls, Sorting(r)
    PROVE  TypeOK'
  <1> USE DEF TypeInv
  <1>1. ASSUME NEW o \in Orders, CreateBin(r, o)
        PROVE  TypeOK'
    <2> DEFINE c == [at |-> "createBin", order |-> o]
    <2>1. c \in Call
      BY DEF Call
    <2>2. Goto(r, c) /\ UNCHANGED rows
      BY <1>1 DEF CreateBin
    <2> QED
      BY <2>1, <2>2, ReadType
  <1>2. ASSUME NEW a \in Articles, SortingStore(r, a)
        PROVE  TypeOK'
    <2> DEFINE c == [at |-> "store", article |-> a]
    <2>1. c \in Call
      BY DEF Call
    <2>2. Goto(r, c) /\ UNCHANGED rows
      BY <1>2 DEF SortingStore
    <2> QED
      BY <2>1, <2>2, ReadType
  <1>3. ASSUME NEW a \in Articles, NEW b \in Bins, OrderSortingAssign(r, a, b)
        PROVE  TypeOK'
    <2> DEFINE c == [at |-> "assign", article |-> a, bin |-> b]
    <2>1. c \in Call
      BY DEF Call
    <2>2. Goto(r, c) /\ UNCHANGED rows
      BY <1>3 DEF OrderSortingAssign
    <2> QED
      BY <2>1, <2>2, ReadType
  <1>4. ASSUME NEW b \in Bins, ReopenCustomerBin(r, b)
        PROVE  TypeOK'
    <2> DEFINE c == [at |-> "reopen", bin |-> b]
    <2>1. c \in Call
      BY DEF Call
    <2>2. Goto(r, c) /\ UNCHANGED rows
      BY <1>4 DEF ReopenCustomerBin
    <2> QED
      BY <2>1, <2>2, ReadType
  <1>5. CASE WriteBin(r)
    <2>1. call[r].order \in Orders
      BY <1>5, CallFields DEF WriteBin
    <2>2. [status |-> "ACTIVE", order |-> call[r].order] \in Bin
      BY <2>1 DEF Bin
    <2>3. bin' \in [Bins -> Bin \cup {NoRow}]
      BY <1>5, <2>2 DEF WriteBin, TypeOK
    <2>4. call' \in [Calls -> Call] /\ handlers' \in Workloads
      BY <1>5, ReturnType DEF WriteBin
    <2> QED
      BY <1>5, <2>3, <2>4 DEF WriteBin, TypeOK
  <1>6. CASE WriteStore(r)
    <2> DEFINE a == call[r].article
    <2>1. a \in Articles /\ article[a] \in Article
      BY <1>6, CallFields, RowTypes DEF WriteStore, RowsStand, Founded, At
    <2>2. article' = [article EXCEPT ![a] =
                        [article[a] EXCEPT !.status = "STORED", !.container = None]]
      BY <1>6, <2>1 DEF WriteStore, TypeOK
    <2> HIDE DEF a
    <2>3. [article[a] EXCEPT !.status = "STORED", !.container = None] \in Article
      BY <2>1 DEF Article
    <2>4. article' \in [Articles -> Article \cup {NoRow}]
      BY <2>1, <2>2, <2>3 DEF TypeOK
    <2>5. call' \in [Calls -> Call] /\ handlers' \in Workloads
      BY <1>6, ReturnType DEF WriteStore
    <2> QED
      BY <1>6, <2>4, <2>5 DEF WriteStore, TypeOK
  <1>7. CASE CheckAssign(r)
    <2> DEFINE c == [at |-> "assignWrite", article |-> call[r].article, bin |-> call[r].bin,
                     complete |-> Complete(bin[call[r].bin].order, {call[r].article})]
    <2>1. c \in Call
      <3>1. Complete(bin[call[r].bin].order, {call[r].article}) \in BOOLEAN
        BY DEF Complete
      <3>2. call[r].article \in Articles /\ call[r].bin \in Bins
        BY <1>7, CallFields DEF CheckAssign
      <3> QED
        BY <3>1, <3>2 DEF Call
    <2>2. Goto(r, c) /\ UNCHANGED rows
      BY <1>7 DEF CheckAssign
    <2> QED
      BY <2>1, <2>2, ReadType
  <1>8. CASE WriteAssign(r)
    <2> DEFINE a == call[r].article
               b == call[r].bin
               o == bin[b].order
               moved == [article[a] EXCEPT !.status = "IN_CUSTOMER_BIN",
                                           !.container = b, !.order = o]
    <2>1. a \in Articles /\ article[a] \in Article /\ b \in Bins /\ bin[b] \in Bin
      BY <1>8, CallFields, RowTypes DEF WriteAssign, RowsStand, Founded, At
    <2>2. o \in Orders
      BY <2>1 DEF Bin
    <2>3. article' = [article EXCEPT ![a] = moved]
      BY <1>8, <2>1 DEF WriteAssign, TypeOK
    <2>4. bin' = bin \/ bin' = [bin EXCEPT ![b].status = "READY_FOR_PACKING"]
      BY <1>8 DEF WriteAssign
    <2>5. call' \in [Calls -> Call] /\ handlers' \in Workloads
      BY <1>8, ReturnType DEF WriteAssign
    <2> HIDE DEF a, b, o
    <2>6. moved \in Article
      BY <2>1, <2>2 DEF Article
    <2> HIDE DEF moved
    <2>7. article' \in [Articles -> Article \cup {NoRow}]
      BY <2>1, <2>3, <2>6 DEF TypeOK
    <2>8. bin' \in [Bins -> Bin \cup {NoRow}]
      BY <2>1, <2>4, BinType DEF TypeOK
    <2> QED
      BY <1>8, <2>5, <2>7, <2>8 DEF WriteAssign, TypeOK
  <1>9. CASE WriteReopen(r)
    <2>1. call[r].bin \in Bins /\ bin[call[r].bin] \in Bin
      BY <1>9, CallFields, RowTypes DEF WriteReopen, RowsStand, Founded, At
    <2>2. bin' \in [Bins -> Bin \cup {NoRow}]
      BY <1>9, <2>1, BinType DEF WriteReopen
    <2>3. call' \in [Calls -> Call] /\ handlers' \in Workloads
      BY <1>9, ReturnType DEF WriteReopen
    <2> QED
      BY <1>9, <2>2, <2>3 DEF WriteReopen, TypeOK
  <1> QED
    BY <1>1, <1>2, <1>3, <1>4, <1>5, <1>6, <1>7, <1>8, <1>9 DEF Sorting

LEMMA OutboundType ==
    ASSUME TypeInv, NEW r \in Calls, Outbound(r)
    PROVE  TypeOK'
  <1> USE DEF TypeInv
  <1>1. ASSUME NEW b \in Bins, Pack(r, b)
        PROVE  TypeOK'
    <2> DEFINE c == [at |-> "pack", bin |-> b]
    <2>1. c \in Call
      BY DEF Call
    <2>2. Goto(r, c) /\ UNCHANGED rows
      BY <1>1 DEF Pack
    <2> QED
      BY <2>1, <2>2, ReadType
  <1>2. ASSUME NEW s \in Shipments, ShippingVerify(r, s)
        PROVE  TypeOK'
    <2> DEFINE c == [at |-> "verify", shipment |-> s, content |-> Content(s)]
    <2>1. c \in Call
      BY DEF Call, Content
    <2>2. Goto(r, c) /\ UNCHANGED rows
      BY <1>2 DEF ShippingVerify
    <2> HIDE DEF c
    <2> QED
      BY <2>1, <2>2, ReadType
  <1>3. ASSUME NEW s \in Shipments, Ship(r, s)
        PROVE  TypeOK'
    <2> DEFINE c == [at |-> "ship", shipment |-> s]
    <2>1. c \in Call
      BY DEF Call
    <2>2. Goto(r, c) /\ UNCHANGED rows
      BY <1>3 DEF Ship
    <2> QED
      BY <2>1, <2>2, ReadType
  <1>4. CASE LockPack(r)
    <2> DEFINE c == [at |-> "packWrite", bin |-> call[r].bin]
    <2>1. c \in Call
      BY <1>4, CallFields DEF LockPack, Call
    <2>2. (Goto(r, c) \/ Return(r)) /\ UNCHANGED rows
      BY <1>4 DEF LockPack
    <2> QED
      BY <2>1, <2>2, ReadType, BackType
  <1>5. CASE WritePack(r)
    <2> DEFINE b == call[r].bin
    <2>1. b \in Bins /\ bin[b] \in Bin
      BY <1>5, CallFields, RowTypes DEF WritePack, RowsStand, Founded, At
    <2>2. bin' \in [Bins -> Bin \cup {NoRow}]
      BY <1>5, <2>1, BinType DEF WritePack
    <2>3. PICK s \in Shipments :
             /\ shipment' = [shipment EXCEPT ![s] = [status |-> "READY_TO_SHIP", bin |-> b]]
             /\ article' = [a \in Articles |->
                   IF a \in PackedWith(b)
                   THEN [article[a] EXCEPT !.status = "PACKED", !.shipment = s]
                   ELSE article[a]]
      BY <1>5 DEF WritePack
    <2>4. call' \in [Calls -> Call] /\ handlers' \in Workloads
      BY <1>5, ReturnType DEF WritePack
    <2> HIDE DEF b
    <2>5. shipment' \in [Shipments -> Shipment \cup {NoRow}]
      BY <2>1, <2>3 DEF TypeOK, Shipment
    <2>6. ASSUME NEW a \in PackedWith(b)
          PROVE  [article[a] EXCEPT !.status = "PACKED", !.shipment = s] \in Article
      <3>1. a \in Articles /\ article[a].status # "none"
        BY <2>6 DEF PackedWith, InBin
      <3>2. article[a] \in Article
        BY <3>1, RowTypes
      <3> QED
        BY <3>2 DEF Article
    <2>7. article' \in [Articles -> Article \cup {NoRow}]
      BY <2>3, <2>6 DEF TypeOK
    <2> QED
      BY <1>5, <2>2, <2>4, <2>5, <2>7 DEF WritePack, TypeOK
  <1>6. CASE WriteVerify(r)
    <2>1. call[r].shipment \in Shipments /\ call[r].content \subseteq Articles
      BY <1>6, CallFields DEF WriteVerify
    <2>2. verification' \in [Shipments -> Verification \cup {NoRow}]
      BY <1>6, <2>1 DEF WriteVerify, TypeOK, Verification
    <2>3. call' \in [Calls -> Call] /\ handlers' \in Workloads
      BY <1>6, ReturnType DEF WriteVerify
    <2> QED
      BY <1>6, <2>2, <2>3 DEF WriteVerify, TypeOK
  <1>7. CASE WriteShip(r)
    <2> DEFINE s == call[r].shipment
    <2>1. s \in Shipments /\ shipment[s] \in Shipment /\ bin[shipment[s].bin] \in Bin
      <3>1. s \in Shipments /\ shipment[s] \in Shipment
        BY <1>7, CallFields, RowTypes DEF WriteShip, RowsStand, Founded, At
      <3>2. shipment[s].bin \in Bins
        BY <3>1 DEF Shipment
      <3> QED
        BY <3>1, <3>2, RowTypes DEF RowsStand
    <2>2. call' \in [Calls -> Call] /\ handlers' \in Workloads
      BY <1>7, ReturnType DEF WriteShip
    <2>3. CASE MayShip(s)
      <3>1. /\ shipment' = [shipment EXCEPT ![s].status = "SHIPPED"]
            /\ article' = [a \in Articles |->
                  IF a \in Content(s)
                  THEN [article[a] EXCEPT !.status = "SHIPPED", !.container = None]
                  ELSE article[a]]
            /\ bin' = [bin EXCEPT ![shipment[s].bin].status = "CLOSED"]
        BY <1>7, <2>3 DEF WriteShip
      <3> HIDE DEF s
      <3>2. shipment' \in [Shipments -> Shipment \cup {NoRow}]
        BY <2>1, <3>1 DEF TypeOK, Shipment
      <3>3. bin' \in [Bins -> Bin \cup {NoRow}]
        BY <2>1, <3>1, BinType DEF Shipment
      <3>4. ASSUME NEW a \in Content(s)
            PROVE  [article[a] EXCEPT !.status = "SHIPPED", !.container = None] \in Article
        <4>1. article[a] \in Article
          BY <3>4, RowTypes DEF Content
        <4> QED
          BY <4>1 DEF Article
      <3>5. article' \in [Articles -> Article \cup {NoRow}]
        BY <3>1, <3>4 DEF TypeOK
      <3> QED
        BY <1>7, <2>2, <3>2, <3>3, <3>5 DEF WriteShip, TypeOK
    <2>4. CASE ~MayShip(s)
      BY <1>7, <2>2, <2>4 DEF WriteShip, TypeOK
    <2> QED
      BY <2>3, <2>4
  <1> QED
    BY <1>1, <1>2, <1>3, <1>4, <1>5, <1>6, <1>7 DEF Outbound

LEMMA StepType == TypeInv /\ [Next]_vars => TypeOK'
  <1> SUFFICES ASSUME TypeInv, [Next]_vars
               PROVE  TypeOK'
    OBVIOUS
  <1>1. ASSUME NEW r \in Calls, Abort(r)
        PROVE  TypeOK'
    BY <1>1, BackType DEF TypeInv, Abort
  <1>2. ASSUME NEW s \in Shipments, Expire(s)
        PROVE  TypeOK'
    <2>1. verification[s] \in Verification
      BY <1>2 DEF Expire, TypeInv, TypeOK, NoRow
    <2>2. verification' \in [Shipments -> Verification \cup {NoRow}]
      BY <1>2, <2>1 DEF Expire, TypeInv, TypeOK, Verification
    <2> QED
      BY <1>2, <2>2 DEF Expire, TypeInv, TypeOK
  <1>3. CASE UNCHANGED vars
    BY <1>3 DEF TypeInv, TypeOK, vars
  <1> QED
    BY <1>1, <1>2, <1>3, InboundType, SortingType, OutboundType DEF Next, TypeInv

LEMMA StepKeeps == TypeInv /\ [Next]_vars => RowsKept
  <1> SUFFICES ASSUME TypeInv, [Next]_vars
               PROVE  RowsKept
    OBVIOUS
  <1> USE DEF TypeInv, RowsKept
  <1>1. ASSUME NEW r \in Calls, Inbound(r)
        PROVE  RowsKept
    <2>1. UNCHANGED <<bin, shipment>>
      BY <1>1 DEF Inbound, ScanArticle, CloseContainer, StageContainer, WriteScan, WriteClose,
                  RecheckStage, WriteStage, rows
    <2>2. CASE WriteScan(r)
      <3> DEFINE new == [status |-> "IN_CONTAINER", sku |-> call[r].sku, op |-> call[r].op,
                         container |-> call[r].tote, order |-> None, shipment |-> None]
      <3>1. PICK a \in Articles : article' = [article EXCEPT ![a] = new]
        BY <2>2 DEF WriteScan
      <3>2. new # NoRow
        BY DEF NoRow
      <3> HIDE DEF new
      <3> QED
        BY <2>1, <3>1, <3>2 DEF TypeOK
    <2>3. CASE UNCHANGED article
      BY <2>1, <2>3
    <2> QED
      BY <1>1, <2>2, <2>3 DEF Inbound, ScanArticle, CloseContainer, StageContainer, WriteClose,
                              RecheckStage, WriteStage, rows
  <1>2. ASSUME NEW r \in Calls, Sorting(r)
        PROVE  RowsKept
    <2>1. UNCHANGED shipment
      BY <1>2 DEF Sorting, CreateBin, SortingStore, OrderSortingAssign, ReopenCustomerBin,
                  WriteBin, WriteStore, CheckAssign, WriteAssign, WriteReopen, rows
    <2>2. CASE WriteBin(r)
      <3>1. PICK b \in Bins : bin' = [bin EXCEPT ![b] = [status |-> "ACTIVE", order |-> call[r].order]]
        BY <2>2 DEF WriteBin
      <3>2. [status |-> "ACTIVE", order |-> call[r].order] # NoRow
        BY DEF NoRow
      <3> QED
        BY <2>1, <2>2, <3>1, <3>2 DEF WriteBin, TypeOK
    <2>3. CASE WriteStore(r)
      <3> DEFINE a == call[r].article
      <3>1. a \in Articles /\ article[a] \in Article
        BY <2>3, CallFields, RowTypes DEF WriteStore, RowsStand, Founded, At
      <3>2. article' = [article EXCEPT ![a] =
                          [article[a] EXCEPT !.status = "STORED", !.container = None]]
        BY <2>3, <3>1 DEF WriteStore, TypeOK
      <3> HIDE DEF a
      <3>3. [article[a] EXCEPT !.status = "STORED", !.container = None] # NoRow
        BY <3>1 DEF Article, NoRow
      <3> QED
        BY <2>1, <2>3, <3>1, <3>2, <3>3 DEF WriteStore, TypeOK
    <2>4. CASE WriteAssign(r)
      <3> DEFINE a == call[r].article
                 b == call[r].bin
                 moved == [article[a] EXCEPT !.status = "IN_CUSTOMER_BIN",
                                             !.container = b, !.order = bin[b].order]
      <3>1. a \in Articles /\ article[a] \in Article /\ b \in Bins /\ bin[b] \in Bin
        BY <2>4, CallFields, RowTypes DEF WriteAssign, RowsStand, Founded, At
      <3>2. article' = [article EXCEPT ![a] = moved]
        BY <2>4, <3>1 DEF WriteAssign, TypeOK
      <3>3. \A d \in Bins : bin[d] # NoRow => bin'[d] # NoRow
        <4>1. bin' = bin \/ bin' = [bin EXCEPT ![b].status = "READY_FOR_PACKING"]
          BY <2>4 DEF WriteAssign
        <4> QED
          BY <3>1, <4>1, BinType DEF Bin, NoRow
      <3> HIDE DEF a
      <3>4. moved # NoRow
        BY <3>1 DEF Article, NoRow
      <3> HIDE DEF moved
      <3> QED
        BY <2>1, <3>1, <3>2, <3>3, <3>4 DEF TypeOK
    <2>5. CASE WriteReopen(r)
      <3>1. call[r].bin \in Bins /\ bin[call[r].bin] \in Bin
        BY <2>5, CallFields, RowTypes DEF WriteReopen, RowsStand, Founded, At
      <3>2. bin' = [bin EXCEPT ![call[r].bin].status = "ACTIVE"] /\ UNCHANGED article
        BY <2>5 DEF WriteReopen
      <3> QED
        BY <2>1, <3>1, <3>2, BinType DEF Bin, NoRow
    <2>6. CASE UNCHANGED <<article, bin>>
      BY <2>1, <2>6
    <2> QED
      BY <1>2, <2>2, <2>3, <2>4, <2>5, <2>6 DEF Sorting, CreateBin, SortingStore,
          OrderSortingAssign, ReopenCustomerBin, CheckAssign, rows
  <1>3. ASSUME NEW r \in Calls, Outbound(r)
        PROVE  RowsKept
    <2>1. CASE WritePack(r)
      <3> DEFINE b == call[r].bin
      <3>1. b \in Bins /\ bin[b] \in Bin
        BY <2>1, CallFields, RowTypes DEF WritePack, RowsStand, Founded, At
      <3>2. PICK s \in Shipments :
               /\ shipment' = [shipment EXCEPT ![s] = [status |-> "READY_TO_SHIP", bin |-> b]]
               /\ article' = [a \in Articles |->
                     IF a \in PackedWith(b)
                     THEN [article[a] EXCEPT !.status = "PACKED", !.shipment = s]
                     ELSE article[a]]
        BY <2>1 DEF WritePack
      <3>3. \A d \in Bins : bin[d] # NoRow => bin'[d] # NoRow
        BY <2>1, <3>1, BinType DEF WritePack, Bin, NoRow
      <3>4. ASSUME NEW a \in Articles, article[a] # NoRow
            PROVE  article'[a] # NoRow
        <4>1. article[a] \in Article
          BY <3>4, RowTypes
        <4>2. [article[a] EXCEPT !.status = "PACKED", !.shipment = s] # NoRow
          BY <4>1 DEF Article, NoRow
        <4> QED
          BY <3>2, <3>4, <4>2
      <3>5. [status |-> "READY_TO_SHIP", bin |-> b] # NoRow
        BY DEF NoRow
      <3> HIDE DEF b
      <3> QED
        BY <3>2, <3>3, <3>4, <3>5 DEF TypeOK
    <2>2. CASE WriteShip(r) /\ MayShip(call[r].shipment)
      <3> DEFINE s == call[r].shipment
      <3>1. s \in Shipments /\ shipment[s] \in Shipment
        BY <2>2, CallFields, RowTypes DEF WriteShip, RowsStand, Founded, At
      <3>2. shipment[s].bin \in Bins /\ bin[shipment[s].bin] \in Bin
        <4>1. shipment[s].bin \in Bins /\ shipment[s] # NoRow
          BY <3>1, RowTypes DEF Shipment
        <4> QED
          BY <3>1, <4>1, RowTypes DEF RowsStand
      <3>3. /\ shipment' = [shipment EXCEPT ![s].status = "SHIPPED"]
            /\ article' = [a \in Articles |->
                  IF a \in Content(s)
                  THEN [article[a] EXCEPT !.status = "SHIPPED", !.container = None]
                  ELSE article[a]]
            /\ bin' = [bin EXCEPT ![shipment[s].bin].status = "CLOSED"]
        BY <2>2 DEF WriteShip
      <3> HIDE DEF s
      <3>4. \A d \in Bins : bin[d] # NoRow => bin'[d] # NoRow
        BY <3>2, <3>3, BinType DEF Bin, NoRow
      <3>5. ASSUME NEW a \in Articles, article[a] # NoRow
            PROVE  article'[a] # NoRow
        <4>1. article[a] \in Article
          BY <3>5, RowTypes
        <4>2. [article[a] EXCEPT !.status = "SHIPPED", !.container = None] # NoRow
          BY <4>1 DEF Article, NoRow
        <4> QED
          BY <3>3, <3>5, <4>2
      <3>6. [shipment[s] EXCEPT !.status = "SHIPPED"] # NoRow
        BY <3>1 DEF Shipment, NoRow
      <3> QED
        BY <3>1, <3>3, <3>4, <3>5, <3>6 DEF TypeOK
    <2>3. CASE UNCHANGED <<article, bin, shipment>>
      BY <2>3
    <2> QED
      BY <1>3, <2>1, <2>2, <2>3 DEF Outbound, Pack, ShippingVerify, Ship, LockPack,
          WriteVerify, WriteShip, rows
  <1>4. CASE UNCHANGED <<article, bin, shipment>>
    BY <1>4
  <1> QED
    BY <1>1, <1>2, <1>3, <1>4 DEF Next, Abort, Expire, vars, rows

(* A step moves at most one call, to where its rows are.                   *)
Moved(r, c) == call' = [call EXCEPT ![r] = c] /\ c \in Call /\ Founded(c)

LEMMA StepMoves == TypeInv /\ [Next]_vars => UNCHANGED call \/ \E r \in Calls, c \in Call : Moved(r, c)
  <1> SUFFICES ASSUME TypeInv, [Next]_vars
               PROVE  UNCHANGED call \/ \E r \in Calls, c \in Call : Moved(r, c)
    OBVIOUS
  <1> USE DEF TypeInv
  <1>1. ASSUME NEW r \in Calls, Return(r)
        PROVE  Moved(r, Idle)
    BY <1>1 DEF Return, Goto, Moved, Call, Founded, Idle
  <1>2. ASSUME NEW r \in Calls, Inbound(r)
        PROVE  \E c \in Call : Moved(r, c)
    <2>1. ASSUME NEW t \in Totes, NEW k \in Skus, NEW op \in OpIds, ScanArticle(r, t, k, op)
          PROVE  Moved(r, [at |-> "scan", tote |-> t, sku |-> k, op |-> op, received |-> received[k]])
      BY <2>1 DEF ScanArticle, Goto, Moved, Call, Founded, TypeOK
    <2>2. ASSUME NEW t \in Totes, CloseContainer(r, t)
          PROVE  Moved(r, [at |-> "close", tote |-> t])
      BY <2>2 DEF CloseContainer, Goto, Moved, Call, Founded
    <2>3. ASSUME NEW t \in Totes, NEW s \in Stations, StageContainer(r, t, s)
          PROVE  Moved(r, [at |-> "stage", tote |-> t, station |-> s])
      BY <2>3 DEF StageContainer, Goto, Moved, Call, Founded
    <2>4. CASE RecheckStage(r)
      <3> DEFINE c == [call[r] EXCEPT !.at = "stageWrite"]
      <3>1. call[r] \in [at : {"stage", "stageWrite"}, tote : Totes, station : Stations]
        BY <2>4 DEF RecheckStage, TypeOK, At, Call, Idle
      <3>2. c \in [at : {"stage", "stageWrite"}, tote : Totes, station : Stations]
            /\ c.at = "stageWrite"
        BY <3>1
      <3>3. Goto(r, c) \/ Return(r)
        BY <2>4 DEF RecheckStage
      <3> HIDE DEF c
      <3> QED
        BY <1>1, <3>2, <3>3 DEF Goto, Moved, Call, Founded
    <2>5. CASE Return(r)
      BY <1>1, <2>5 DEF Moved
    <2> QED
      BY <1>2, <2>1, <2>2, <2>3, <2>4, <2>5 DEF Inbound, WriteScan, WriteClose, WriteStage, Moved
  <1>3. ASSUME NEW r \in Calls, Sorting(r)
        PROVE  \E c \in Call : Moved(r, c)
    <2>1. ASSUME NEW o \in Orders, CreateBin(r, o)
          PROVE  Moved(r, [at |-> "createBin", order |-> o])
      BY <2>1 DEF CreateBin, Goto, Moved, Call, Founded
    <2>2. ASSUME NEW a \in Articles, SortingStore(r, a)
          PROVE  Moved(r, [at |-> "store", article |-> a])
      BY <2>2 DEF SortingStore, Storable, NoRow, Goto, Moved, Call, Founded
    <2>3. ASSUME NEW a \in Articles, NEW b \in Bins, OrderSortingAssign(r, a, b)
          PROVE  Moved(r, [at |-> "assign", article |-> a, bin |-> b])
      BY <2>3 DEF OrderSortingAssign, NoRow, Goto, Moved, Call, Founded
    <2>4. ASSUME NEW b \in Bins, ReopenCustomerBin(r, b)
          PROVE  Moved(r, [at |-> "reopen", bin |-> b])
      BY <2>4 DEF ReopenCustomerBin, NoRow, Goto, Moved, Call, Founded
    <2>5. CASE CheckAssign(r)
      <3> DEFINE done == Complete(bin[call[r].bin].order, {call[r].article})
                 c == [at |-> "assignWrite", article |-> call[r].article, bin |-> call[r].bin,
                       complete |-> done]
      <3>1. call[r].article \in Articles /\ call[r].bin \in Bins /\ done \in BOOLEAN
        BY <2>5, CallFields DEF CheckAssign, Complete
      <3>2. Goto(r, c) /\ At(r, "assign") /\ Founded(call[r])
        BY <2>5 DEF CheckAssign, RowsStand
      <3> HIDE DEF done
      <3>3. Founded(c)
        BY <3>2 DEF Founded, At
      <3> QED
        BY <3>1, <3>2, <3>3 DEF Goto, Moved, Call
    <2>6. CASE Return(r)
      BY <1>1, <2>6 DEF Moved
    <2> QED
      BY <1>3, <2>1, <2>2, <2>3, <2>4, <2>5, <2>6 DEF Sorting, WriteBin, WriteStore, WriteAssign,
          WriteReopen, Moved
  <1>4. ASSUME NEW r \in Calls, Outbound(r)
        PROVE  \E c \in Call : Moved(r, c)
    <2>1. ASSUME NEW b \in Bins, Pack(r, b)
          PROVE  Moved(r, [at |-> "pack", bin |-> b])
      BY <2>1 DEF Pack, NoRow, Goto, Moved, Call, Founded
    <2>2. ASSUME NEW s \in Shipments, ShippingVerify(r, s)
          PROVE  Moved(r, [at |-> "verify", shipment |-> s, content |-> Content(s)])
      <3>1. Content(s) \subseteq Articles
        BY DEF Content
      <3> QED
        BY <2>2, <3>1 DEF ShippingVerify, NoRow, Goto, Moved, Call, Founded
    <2>3. ASSUME NEW s \in Shipments, Ship(r, s)
          PROVE  Moved(r, [at |-> "ship", shipment |-> s])
      BY <2>3 DEF Ship, NoRow, Goto, Moved, Call, Founded
    <2>4. CASE LockPack(r)
      <3> DEFINE c == [at |-> "packWrite", bin |-> call[r].bin]
      <3>1. call[r].bin \in Bins /\ Founded(call[r]) /\ At(r, "pack")
        BY <2>4, CallFields DEF LockPack, RowsStand
      <3>2. Goto(r, c) \/ Return(r)
        BY <2>4 DEF LockPack
      <3>3. Founded(c)
        BY <3>1 DEF Founded, At
      <3> QED
        BY <1>1, <3>1, <3>2, <3>3 DEF Goto, Moved, Call
    <2>5. CASE Return(r)
      BY <1>1, <2>5 DEF Moved
    <2> QED
      BY <1>4, <2>1, <2>2, <2>3, <2>4, <2>5 DEF Outbound, WritePack, WriteVerify, WriteShip, Moved
  <1>5. CASE UNCHANGED call
    BY <1>5
  <1> QED
    BY <1>1, <1>2, <1>3, <1>4, <1>5 DEF Next, Abort, Expire, vars, Moved

(* A shipment that comes with a step is that of the bin that is packed.    *)
LEMMA StepShips ==
    ASSUME TypeInv, [Next]_vars, NEW s \in Shipments
    PROVE  \/ shipment'[s] = shipment[s]
           \/ shipment[s] # NoRow /\ shipment'[s].bin = shipment[s].bin
           \/ bin[shipment'[s].bin] # NoRow /\ shipment'[s].bin \in Bins
  <1>1. ASSUME NEW r \in Calls, WritePack(r)
        PROVE  \/ shipment'[s] = shipment[s]
               \/ bin[shipment'[s].bin] # NoRow /\ shipment'[s].bin \in Bins
    <2>1. call[r].bin \in Bins /\ bin[call[r].bin] # NoRow
      BY <1>1, CallFields DEF TypeInv, WritePack, RowsStand, Founded, At
    <2>2. PICK h \in Shipments :
             shipment' = [shipment EXCEPT ![h] = [status |-> "READY_TO_SHIP", bin |-> call[r].bin]]
      BY <1>1 DEF WritePack
    <2> QED
      BY <2>1, <2>2 DEF TypeInv, TypeOK
  <1>2. ASSUME NEW r \in Calls, WriteShip(r)
        PROVE  \/ shipment'[s] = shipment[s]
               \/ shipment[s] # NoRow /\ shipment'[s].bin = shipment[s].bin
    <2> DEFINE h == call[r].shipment
    <2>1. h \in Shipments /\ shipment[h] \in Shipment /\ shipment[h] # NoRow
      BY <1>2, CallFields, RowTypes DEF TypeInv, WriteShip, RowsStand, Founded, At
    <2>2. UNCHANGED shipment \/ shipment' = [shipment EXCEPT ![h].status = "SHIPPED"]
      BY <1>2 DEF WriteShip
    <2> HIDE DEF h
    <2>3. [shipment[h] EXCEPT !.status = "SHIPPED"].bin = shipment[h].bin
      BY <2>1 DEF Shipment
    <2> QED
      BY <2>1, <2>2, <2>3 DEF TypeInv, TypeOK
  <1>3. CASE UNCHANGED shipment
    BY <1>3
  <1> QED
    BY ZenonT(40), <1>1, <1>2, <1>3 DEF Next, vars, rows, Abort, Expire, Inbound, Sorting, Outbound,
       ScanArticle, CloseContainer, StageContainer, WriteScan, WriteClose, RecheckStage, WriteStage,
       CreateBin, SortingStore, OrderSortingAssign, ReopenCustomerBin, WriteBin, WriteStore,
       CheckAssign, WriteAssign, WriteReopen, Pack, ShippingVerify, Ship, LockPack, WriteVerify

LEMMA StepFounds == TypeInv /\ [Next]_vars => RowsStand'
  <1> SUFFICES ASSUME TypeInv, [Next]_vars
               PROVE  RowsStand'
    OBVIOUS
  <1>1. RowsKept /\ TypeOK'
    BY StepKeeps, StepType
  <1>2. ASSUME NEW q \in Calls
        PROVE  Founded(call[q])'
    <2>1. call'[q] \in Call /\ Founded(call'[q])
      <3>1. Founded(call[q]) /\ call[q] \in Call
        BY DEF TypeInv, TypeOK, RowsStand
      <3> QED
        BY <3>1, StepMoves DEF Moved, TypeInv, TypeOK
    <2>2. /\ call'[q].at \in {"store", "assign", "assignWrite"} => call'[q].article \in Articles
          /\ call'[q].at \in {"assign", "assignWrite", "reopen", "pack", "packWrite"} =>
                call'[q].bin \in Bins
          /\ call'[q].at \in {"verify", "ship"} => call'[q].shipment \in Shipments
      BY <2>1 DEF Call, Idle
    <2> QED
      BY <1>1, <2>1, <2>2 DEF Founded, RowsKept
  <1>3. ASSUME NEW s \in Shipments, shipment'[s] # NoRow
        PROVE  bin'[shipment'[s].bin] # NoRow
    <2>1. shipment[s] # NoRow => shipment[s].bin \in Bins /\ bin[shipment[s].bin] # NoRow
      BY RowTypes DEF TypeInv, RowsStand, Shipment
    <2> QED
      BY <1>1, <1>3, <2>1, StepShips DEF RowsKept
  <1> QED
    BY <1>2, <1>3 DEF RowsStand

LEMMA TypeInvariant == Spec => []TypeInv
  <1>1. Init => TypeInv
    <2> SUFFICES ASSUME Init
                 PROVE  TypeInv
      OBVIOUS
    <2>1. article \in [Articles -> Article \cup {NoRow}]
      BY FulfillmentAssumption DEF Init, Article
    <2>2. tote \in [Totes -> Tote]
      BY DEF Init, Tote
    <2>3. call \in [Calls -> Call] /\ \A r \in Calls : Founded(call[r])
      BY DEF Init, Call, Idle, Founded
    <2> QED
      BY <2>1, <2>2, <2>3 DEF Init, TypeInv, TypeOK, RowsStand
  <1>2. TypeInv /\ [Next]_vars => TypeInv'
    BY StepType, StepFounds DEF TypeInv
  <1> QED
    BY <1>1, <1>2, PTL DEF Spec

(* Every variable of Fulfillment keeps its type: no call writes to a row   *)
(* that it did not find.                                                   *)
THEOREM FulfillmentTypeCorrect == Spec => []TypeOK
  BY TypeInvariant, PTL DEF TypeInv

-----------------------------------------------------------------------------
(* Steps that write rows, and all the others.                              *)
Writes(r) ==
    \/ WriteScan(r) \/ WriteClose(r) \/ WriteStage(r) \/ WriteBin(r) \/ WriteStore(r)
    \/ WriteAssign(r) \/ WriteReopen(r) \/ WritePack(r) \/ WriteVerify(r) \/ WriteShip(r)

LEMMA StepKinds ==
    ASSUME [Next]_vars
    PROVE  \/ UNCHANGED rows
           \/ \E r \in Calls : Writes(r)
           \/ \E s \in Shipments : Expire(s)
  <1>1. ASSUME NEW r \in Calls, Inbound(r)
        PROVE  UNCHANGED rows \/ Writes(r)
    BY <1>1 DEF Inbound, Writes, ScanArticle, CloseContainer, StageContainer, RecheckStage
  <1>2. ASSUME NEW r \in Calls, Sorting(r)
        PROVE  UNCHANGED rows \/ Writes(r)
    BY <1>2 DEF Sorting, Writes, CreateBin, SortingStore, OrderSortingAssign,
                ReopenCustomerBin, CheckAssign
  <1>3. ASSUME NEW r \in Calls, Outbound(r)
        PROVE  UNCHANGED rows \/ Writes(r)
    BY <1>3 DEF Outbound, Writes, Pack, ShippingVerify, Ship, LockPack
  <1>4. UNCHANGED vars => UNCHANGED rows
    BY DEF vars, rows
  <1> QED
    BY <1>1, <1>2, <1>3, <1>4 DEF Next, Abort

(* Where a call begins to verify or to ship.                               *)
LEMMA StepBegins ==
    ASSUME TypeOK, [Next]_vars, NEW q \in Calls, call'[q] # call[q]
    PROVE  \/ call'[q].at \notin {"verify", "ship"}
           \/ \E s \in Shipments : ShippingVerify(q, s) \/ Ship(q, s)
  <1>1. ASSUME NEW r \in Calls, Return(r)
        PROVE  call'[q].at \notin {"verify", "ship"}
    BY <1>1 DEF Return, Goto, Idle, TypeOK
  <1>2. ASSUME NEW r \in Calls, Inbound(r)
        PROVE  call'[q].at \notin {"verify", "ship"}
    <2>1. CASE RecheckStage(r)
      <3>1. [call[r] EXCEPT !.at = "stageWrite"].at = "stageWrite"
        <4>1. call[r] \in [at : {"stage", "stageWrite"}, tote : Totes, station : Stations]
          BY <2>1 DEF RecheckStage, TypeOK, At, Call, Idle
        <4> QED
          BY <4>1
      <3> QED
        BY <1>1, <2>1, <3>1 DEF RecheckStage, Goto, TypeOK
    <2> QED
      BY <1>1, <1>2, <2>1 DEF Inbound, ScanArticle, CloseContainer, StageContainer, WriteScan,
         WriteClose, WriteStage, Goto, TypeOK
  <1>3. ASSUME NEW r \in Calls, Sorting(r)
        PROVE  call'[q].at \notin {"verify", "ship"}
    BY <1>1, <1>3 DEF Sorting, CreateBin, SortingStore, OrderSortingAssign, ReopenCustomerBin,
       WriteBin, WriteStore, CheckAssign, WriteAssign, WriteReopen, Goto, TypeOK
  <1>4. ASSUME NEW r \in Calls, Outbound(r)
        PROVE  \/ call'[q].at \notin {"verify", "ship"}
               \/ \E s \in Shipments : ShippingVerify(q, s) \/ Ship(q, s)
    <2>1. ASSUME NEW b \in Bins, Pack(r, b)
          PROVE  call'[q].at \notin {"verify", "ship"}
      BY <2>1 DEF Pack, Goto, TypeOK
    <2>2. CASE LockPack(r)
      BY <1>1, <2>2 DEF LockPack, Goto, TypeOK
    <2>3. ASSUME NEW s \in Shipments, ShippingVerify(r, s) \/ Ship(r, s)
          PROVE  q = r
      BY <2>3 DEF ShippingVerify, Ship, Goto, TypeOK
    <2> QED
      BY <1>1, <1>4, <2>1, <2>2, <2>3 DEF Outbound, WritePack, WriteVerify, WriteShip
  <1> QED
    BY <1>1, <1>2, <1>3, <1>4 DEF Next, Abort, Expire, vars

(* Nothing joins a shipment after it was packed.                           *)
LEMMA ContentShrinks ==
    ASSUME TypeInv, [Next]_vars, NEW s \in Shipments, shipment[s] # NoRow
    PROVE  Content(s)' \subseteq Content(s)
  <1> SUFFICES ASSUME NEW a \in Articles, article'[a] # NoRow, article'[a].shipment = s
               PROVE  article[a] # NoRow /\ article[a].shipment = s
    BY DEF Content
  <1> USE DEF TypeInv
  <1>1. ASSUME NEW r \in Calls, WriteScan(r)
        PROVE  article[a] # NoRow /\ article[a].shipment = s
    <2>1. PICK d \in Articles : article' = [article EXCEPT ![d] =
             [status |-> "IN_CONTAINER", sku |-> call[r].sku, op |-> call[r].op,
              container |-> call[r].tote, order |-> None, shipment |-> None]]
      BY <1>1 DEF WriteScan
    <2>2. a # d
      BY <2>1, FulfillmentAssumption DEF TypeOK
    <2> QED
      BY <2>1, <2>2 DEF TypeOK
  <1>2. ASSUME NEW r \in Calls, WriteStore(r)
        PROVE  article[a] # NoRow /\ article[a].shipment = s
    <2> DEFINE d == call[r].article
               new == [article[d] EXCEPT !.status = "STORED", !.container = None]
    <2>1. d \in Articles /\ article[d] \in Article /\ article[d] # NoRow
      BY <1>2, CallFields, RowTypes DEF WriteStore, RowsStand, Founded, At
    <2>2. article' = [article EXCEPT ![d] = new]
      BY <1>2, <2>1 DEF WriteStore, TypeOK
    <2> HIDE DEF d
    <2>3. new.shipment = article[d].shipment
      BY <2>1 DEF Article
    <2> HIDE DEF new
    <2> QED
      BY <2>1, <2>2, <2>3 DEF TypeOK
  <1>3. ASSUME NEW r \in Calls, WriteAssign(r)
        PROVE  article[a] # NoRow /\ article[a].shipment = s
    <2> DEFINE d == call[r].article
               new == [article[d] EXCEPT !.status = "IN_CUSTOMER_BIN",
                                         !.container = call[r].bin,
                                         !.order = bin[call[r].bin].order]
    <2>1. d \in Articles /\ article[d] \in Article /\ article[d] # NoRow
      BY <1>3, CallFields, RowTypes DEF WriteAssign, RowsStand, Founded, At
    <2>2. article' = [article EXCEPT ![d] = new]
      BY <1>3, <2>1 DEF WriteAssign, TypeOK
    <2> HIDE DEF d
    <2>3. new.shipment = article[d].shipment
      BY <2>1 DEF Article
    <2> HIDE DEF new
    <2> QED
      BY <2>1, <2>2, <2>3 DEF TypeOK
  <1>4. ASSUME NEW r \in Calls, WritePack(r)
        PROVE  article[a] # NoRow /\ article[a].shipment = s
    <2> DEFINE b == call[r].bin
    <2>1. PICK h \in Shipments :
             /\ shipment[h] = NoRow
             /\ article' = [d \in Articles |->
                   IF d \in PackedWith(b)
                   THEN [article[d] EXCEPT !.status = "PACKED", !.shipment = h]
                   ELSE article[d]]
      BY <1>4 DEF WritePack
    <2>2. a \notin PackedWith(b)
      <3>1. ASSUME a \in PackedWith(b)
            PROVE  FALSE
        <4>1. article[a] \in Article
          BY <3>1, RowTypes DEF PackedWith, InBin
        <4>2. [article[a] EXCEPT !.status = "PACKED", !.shipment = h].shipment = h
          BY <4>1 DEF Article
        <4>3. article'[a] = [article[a] EXCEPT !.status = "PACKED", !.shipment = h]
          BY <2>1, <3>1
        <4> QED
          BY <2>1, <4>2, <4>3
      <3> QED
        BY <3>1
    <2> QED
      BY <2>1, <2>2
  <1>5. ASSUME NEW r \in Calls, WriteShip(r)
        PROVE  article[a] # NoRow /\ article[a].shipment = s
    <2> DEFINE h == call[r].shipment
    <2>1. CASE a \in Content(h) /\ MayShip(h)
      <3>1. article[a] \in Article /\ article[a] # NoRow
        BY <2>1, RowTypes DEF Content
      <3>2. article'[a] = [article[a] EXCEPT !.status = "SHIPPED", !.container = None]
        BY <1>5, <2>1 DEF WriteShip
      <3>3. [article[a] EXCEPT !.status = "SHIPPED", !.container = None].shipment
              = article[a].shipment
        BY <3>1 DEF Article
      <3> QED
        BY <3>1, <3>2, <3>3
    <2>2. CASE a \notin Content(h) \/ ~MayShip(h)
      BY <1>5, <2>2 DEF WriteShip
    <2> QED
      BY <2>1, <2>2
  <1>6. CASE UNCHANGED article
    BY <1>6
  <1> QED
    BY ZenonT(40), <1>1, <1>2, <1>3, <1>4, <1>5, <1>6 DEF Next, vars, rows, Abort, Expire, Inbound, Sorting,
       Outbound, ScanArticle, CloseContainer, StageContainer, WriteClose, RecheckStage, WriteStage,
       CreateBin, SortingStore, OrderSortingAssign, ReopenCustomerBin, WriteBin,
       CheckAssign, WriteReopen, Pack, ShippingVerify, Ship, LockPack, WriteVerify

(* What was seen of a shipment, by a verification that is still to be      *)
(* written and by the latest, is at least what it holds.  A call that      *)
(* ships has found a verification, and a later one replaces it with        *)
(* another, never with none.                                               *)
VerifiedInv ==
    /\ \A r \in Calls :
          /\ At(r, "verify") => Content(call[r].shipment) \subseteq call[r].content
          /\ At(r, "ship") => verification[call[r].shipment] # NoRow
    /\ \A s \in Shipments :
          /\ verification[s] # NoRow =>
                shipment[s] # NoRow /\ Content(s) \subseteq verification[s].content
          /\ shipment[s].status = "SHIPPED" => verification[s] # NoRow

(* A verification is written by the call that saw the content.             *)
LEMMA VerifiedStep == TypeInv /\ VerifiedInv /\ [Next]_vars => VerifiedInv'
  <1> SUFFICES ASSUME TypeInv, VerifiedInv, [Next]_vars
               PROVE  VerifiedInv'
    OBVIOUS
  <1>1. RowsKept /\ TypeOK'
    BY StepKeeps, StepType
  <1>2. ASSUME NEW s \in Shipments
        PROVE  /\ verification'[s] # NoRow =>
                    shipment'[s] # NoRow /\ Content(s)' \subseteq verification'[s].content
               /\ verification[s] # NoRow => verification'[s] # NoRow
    <2>1. ASSUME NEW r \in Calls, WriteVerify(r), call[r].shipment = s
          PROVE  /\ shipment'[s] # NoRow /\ verification'[s] # NoRow
                 /\ Content(s)' \subseteq verification'[s].content
      <3>1. Content(s) \subseteq call[r].content /\ shipment[s] # NoRow
        BY <2>1 DEF WriteVerify, VerifiedInv, TypeInv, RowsStand, Founded, At
      <3>2. verification'[s] = [status |-> "fresh", content |-> call[r].content]
        BY <2>1 DEF WriteVerify, TypeInv, TypeOK
      <3> QED
        BY <1>1, <3>1, <3>2, ContentShrinks DEF RowsKept, NoRow
    <2>2. ASSUME Expire(s)
          PROVE  /\ verification'[s] # NoRow
                 /\ verification'[s].content = verification[s].content
      <3>1. verification[s] \in Verification
        BY <2>2 DEF Expire, TypeInv, TypeOK, NoRow
      <3>2. verification'[s] = [verification[s] EXCEPT !.status = "expired"]
        BY <2>2 DEF Expire, TypeInv, TypeOK
      <3> QED
        BY <3>1, <3>2 DEF Verification, NoRow
    <2>3. CASE verification'[s] = verification[s]
      BY <1>1, <2>3, ContentShrinks DEF VerifiedInv, RowsKept
    <2>4. \/ verification'[s] = verification[s]
          \/ Expire(s) \/ \E r \in Calls : WriteVerify(r) /\ call[r].shipment = s
      <3>1. ASSUME NEW r \in Calls, WriteVerify(r), call[r].shipment # s
            PROVE  verification'[s] = verification[s]
        BY <3>1 DEF WriteVerify, TypeInv, TypeOK
      <3>2. ASSUME NEW h \in Shipments, Expire(h), h # s
            PROVE  verification'[s] = verification[s]
        BY <3>2 DEF Expire, TypeInv, TypeOK
      <3> QED
        BY <3>1, <3>2, StepKinds DEF rows, Writes, WriteScan, WriteClose, WriteStage, WriteBin,
           WriteStore, WriteAssign, WriteReopen, WritePack, WriteShip
    <2>5. verification[s] # NoRow => shipment[s] # NoRow /\ Content(s) \subseteq verification[s].content
      BY DEF VerifiedInv
    <2>6. verification[s] # NoRow => Content(s)' \subseteq Content(s) /\ shipment'[s] # NoRow
      BY <1>1, <2>5, ContentShrinks DEF RowsKept
    <2>7. Expire(s) => verification[s] # NoRow
      BY DEF Expire, NoRow
    <2> QED
      BY <2>1, <2>2, <2>3, <2>4, <2>5, <2>6, <2>7
  <1>3. ASSUME NEW s \in Shipments, shipment'[s].status = "SHIPPED"
        PROVE  verification'[s] # NoRow
    <2>1. shipment[s].status = "SHIPPED" \/ \E r \in Calls : At(r, "ship") /\ call[r].shipment = s
      <3>1. ASSUME NEW r \in Calls, WritePack(r)
            PROVE  shipment[s].status = "SHIPPED"
        <4>1. PICK h \in Shipments :
                 shipment' = [shipment EXCEPT ![h] = [status |-> "READY_TO_SHIP",
                                                      bin |-> call[r].bin]]
          BY <3>1 DEF WritePack
        <4> QED
          BY <1>3, <4>1 DEF TypeInv, TypeOK
      <3>2. ASSUME NEW r \in Calls, WriteShip(r), call[r].shipment # s
            PROVE  shipment[s].status = "SHIPPED"
        BY <1>3, <3>2 DEF WriteShip, TypeInv, TypeOK
      <3>3. CASE UNCHANGED shipment
        BY <1>3, <3>3
      <3> QED
        BY <3>1, <3>2, <3>3, StepKinds DEF rows, Writes, Expire, WriteScan, WriteClose, WriteStage,
           WriteBin, WriteStore, WriteAssign, WriteReopen, WriteVerify, WriteShip
    <2> QED
      BY <1>2, <2>1 DEF VerifiedInv
  <1>4. ASSUME NEW q \in Calls
        PROVE  /\ (At(q, "verify") => Content(call[q].shipment) \subseteq call[q].content)'
               /\ (At(q, "ship") => verification[call[q].shipment] # NoRow)'
    <2>1. CASE call'[q] = call[q]
      <3>1. CASE At(q, "verify")
        <4>1. call[q].shipment \in Shipments /\ shipment[call[q].shipment] # NoRow
          BY <3>1, CallFields DEF TypeInv, RowsStand, Founded, At
        <4>2. Content(call[q].shipment)' \subseteq Content(call[q].shipment)
          <5>1. \A s \in Shipments : shipment[s] # NoRow =>
                   {a \in Articles : article'[a] # NoRow /\ article'[a].shipment = s}
                     \subseteq Content(s)
            BY ContentShrinks DEF Content
          <5> QED
            BY <2>1, <4>1, <5>1 DEF Content
        <4> QED
          BY <2>1, <3>1, <4>2 DEF At, VerifiedInv
      <3>2. CASE At(q, "ship")
        <4>1. call[q].shipment \in Shipments
          BY <3>2, CallFields DEF TypeInv
        <4> QED
          BY <1>2, <2>1, <3>2, <4>1 DEF At, VerifiedInv
      <3> QED
        BY <2>1, <3>1, <3>2 DEF At
    <2>2. ASSUME NEW s \in Shipments, ShippingVerify(q, s)
          PROVE  /\ (Content(call[q].shipment) \subseteq call[q].content)'
                 /\ call'[q].at = "verify"
      <3>1. call'[q] = [at |-> "verify", shipment |-> s, content |-> Content(s)]
            /\ UNCHANGED article
        BY <2>2 DEF ShippingVerify, Goto, TypeInv, TypeOK, rows
      <3>2. call'[q].shipment = s /\ call'[q].content = Content(s) /\ call'[q].at = "verify"
        BY <3>1
      <3> QED
        BY <3>1, <3>2 DEF Content
    <2>3. ASSUME NEW s \in Shipments, Ship(q, s)
          PROVE  verification'[call'[q].shipment] # NoRow /\ call'[q].at = "ship"
      <3>1. call'[q] = [at |-> "ship", shipment |-> s] /\ verification[s] # NoRow
        BY <2>3 DEF Ship, Verified, Goto, TypeInv, TypeOK, NoRow
      <3> QED
        BY <1>2, <3>1
    <2>4. \/ call'[q] = call[q] \/ call'[q].at \notin {"verify", "ship"}
          \/ \E s \in Shipments : ShippingVerify(q, s) \/ Ship(q, s)
      BY StepBegins DEF TypeInv
    <2> QED
      BY <2>1, <2>2, <2>3, <2>4 DEF At
  <1> QED
    BY <1>2, <1>3, <1>4 DEF VerifiedInv

(* Nothing leaves that nobody verified (ship compares the hash of the      *)
(* content with the latest verification before its transaction): the       *)
(* content of a packed shipment can only shrink, so that every             *)
(* verification of it saw at least what it holds.                          *)
THEOREM ShippedWasVerified == Spec => []NothingShipsUnverified
  <1>1. Init => VerifiedInv
    BY DEF Init, VerifiedInv, NoRow, Idle, At
  <1>2. VerifiedInv => NothingShipsUnverified
    BY DEF VerifiedInv, NothingShipsUnverified
  <1> QED
    BY <1>1, <1>2, VerifiedStep, TypeInvariant, PTL DEF Spec

-----------------------------------------------------------------------------
(* Where the calls of packing and shipping go.                             *)
LEMMA OutboundCalls ==
    ASSUME TypeOK, NEW r \in Calls, Outbound(r), NEW q \in Calls, call'[q] # call[q]
    PROVE  call'[q].at \in {"idle", "pack", "packWrite", "verify", "ship"}
  <1>1. CASE Return(r)
    BY <1>1 DEF Return, Goto, Idle, TypeOK
  <1>2. ASSUME NEW b \in Bins, Pack(r, b)
        PROVE  call'[q].at = "pack"
    BY <1>2 DEF Pack, Goto, TypeOK
  <1>3. ASSUME NEW s \in Shipments, ShippingVerify(r, s) \/ Ship(r, s)
        PROVE  call'[q].at \in {"verify", "ship"}
    BY <1>3 DEF ShippingVerify, Ship, Goto, TypeOK
  <1>4. CASE LockPack(r)
    BY <1>1, <1>4 DEF LockPack, Goto, TypeOK
  <1> QED
    BY <1>1, <1>2, <1>3, <1>4 DEF Outbound, WritePack, WriteVerify, WriteShip

(* Where a call begins to move an article.                                 *)
LEMMA StepTakes ==
    ASSUME TypeOK, [Next]_vars, NEW q \in Calls, call'[q] # call[q],
           call'[q].at \in {"store", "assign", "assignWrite"}
    PROVE  \/ \E d \in Articles : SortingStore(q, d) /\ call'[q].article = d
           \/ \E d \in Articles, b \in Bins : OrderSortingAssign(q, d, b) /\ call'[q].article = d
           \/ CheckAssign(q) /\ call'[q].article = call[q].article
  <1> DEFINE Taken == {"store", "assign", "assignWrite"}
  <1>1. ASSUME NEW r \in Calls, Return(r)
        PROVE  call'[q].at \notin Taken
    BY <1>1 DEF Return, Goto, Idle, TypeOK
  <1>2. ASSUME NEW r \in Calls, Inbound(r)
        PROVE  call'[q].at \notin Taken
    <2>1. CASE RecheckStage(r)
      <3>1. [call[r] EXCEPT !.at = "stageWrite"].at = "stageWrite"
        <4>1. call[r] \in [at : {"stage", "stageWrite"}, tote : Totes, station : Stations]
          BY <2>1 DEF RecheckStage, TypeOK, At, Call, Idle
        <4> QED
          BY <4>1
      <3> QED
        BY <1>1, <2>1, <3>1 DEF RecheckStage, Goto, TypeOK
    <2> QED
      BY <1>1, <1>2, <2>1 DEF Inbound, ScanArticle, CloseContainer, StageContainer, WriteScan,
         WriteClose, WriteStage, Goto, TypeOK
  <1>3. ASSUME NEW r \in Calls, Outbound(r)
        PROVE  call'[q].at \notin Taken
    BY <1>1, <1>3, OutboundCalls
  <1>4. ASSUME NEW r \in Calls, Sorting(r)
        PROVE  \/ \E d \in Articles : SortingStore(q, d) /\ call'[q].article = d
               \/ \E d \in Articles, b \in Bins : OrderSortingAssign(q, d, b) /\ call'[q].article = d
               \/ CheckAssign(q) /\ call'[q].article = call[q].article
    <2>1. ASSUME NEW o \in Orders, CreateBin(r, o)
          PROVE  call'[q].at \notin Taken
      BY <2>1 DEF CreateBin, Goto, TypeOK
    <2>2. ASSUME NEW b \in Bins, ReopenCustomerBin(r, b)
          PROVE  call'[q].at \notin Taken
      BY <2>2 DEF ReopenCustomerBin, Goto, TypeOK
    <2>3. ASSUME NEW d \in Articles, SortingStore(r, d)
          PROVE  q = r /\ call'[q].article = d
      BY <2>3 DEF SortingStore, Goto, TypeOK
    <2>4. ASSUME NEW d \in Articles, NEW b \in Bins, OrderSortingAssign(r, d, b)
          PROVE  q = r /\ call'[q].article = d
      BY <2>4 DEF OrderSortingAssign, Goto, TypeOK
    <2>5. ASSUME CheckAssign(r)
          PROVE  q = r /\ call'[q].article = call[q].article
      BY <2>5 DEF CheckAssign, Goto, TypeOK
    <2> QED
      BY <1>1, <1>4, <2>1, <2>2, <2>3, <2>4, <2>5 DEF Sorting, WriteBin, WriteStore, WriteAssign,
         WriteReopen
  <1> QED
    BY <1>1, <1>2, <1>3, <1>4 DEF Next, Abort, Expire, vars

(* The writes that touch a sorted article that no call is about to move.   *)
LEMMA SortedStep ==
    ASSUME TypeInv, [Next]_vars, NEW a \in Articles, Sorted(a), ~Moving(a)
    PROVE  /\ Rank(article'[a].status) >= Rank(article[a].status)
           /\ article'[a].order = article[a].order
           /\ article[a].status # "IN_CUSTOMER_BIN" => article'[a].shipment = article[a].shipment
  <1> USE DEF TypeInv
  <1>1. article[a] \in Article
    BY RowTypes DEF Sorted
  <1>2. CASE article'[a] = article[a]
    BY <1>1, <1>2 DEF Rank, Article
  <1>3. ASSUME NEW r \in Calls, WriteScan(r)
        PROVE  article'[a] = article[a]
    <2>1. PICK d \in Articles : article[d] = NoRow /\ article' = [article EXCEPT ![d] =
             [status |-> "IN_CONTAINER", sku |-> call[r].sku, op |-> call[r].op,
              container |-> call[r].tote, order |-> None, shipment |-> None]]
      BY <1>3 DEF WriteScan
    <2> QED
      BY <1>1, <2>1, RowTypes DEF TypeOK
  <1>4. ASSUME NEW r \in Calls, WriteStore(r) \/ WriteAssign(r)
        PROVE  article'[a] = article[a]
    <2>1. call[r].article # a
      BY <1>4 DEF WriteStore, WriteAssign, At, Moving
    <2> QED
      BY <1>4, <2>1 DEF WriteStore, WriteAssign, TypeOK
  <1>5. ASSUME NEW r \in Calls, WritePack(r), article'[a] # article[a]
        PROVE  /\ article[a].status = "IN_CUSTOMER_BIN" /\ article'[a].status = "PACKED"
               /\ article'[a].order = article[a].order
    <2> DEFINE b == call[r].bin
    <2>1. PICK h \in Shipments :
             article' = [d \in Articles |->
                   IF d \in PackedWith(b)
                   THEN [article[d] EXCEPT !.status = "PACKED", !.shipment = h]
                   ELSE article[d]]
      BY <1>5 DEF WritePack
    <2>2. a \in PackedWith(b) /\ article'[a] = [article[a] EXCEPT !.status = "PACKED", !.shipment = h]
      BY <1>5, <2>1
    <2>3. article[a].status = "IN_CUSTOMER_BIN"
      BY <2>2 DEF PackedWith, InBin
    <2> QED
      BY <1>1, <2>2, <2>3 DEF Article
  <1>6. ASSUME NEW r \in Calls, WriteShip(r), article'[a] # article[a]
        PROVE  /\ article'[a].status = "SHIPPED" /\ article'[a].order = article[a].order
               /\ article'[a].shipment = article[a].shipment
    <2>1. article'[a] = [article[a] EXCEPT !.status = "SHIPPED", !.container = None]
      BY <1>6 DEF WriteShip
    <2> QED
      BY <1>1, <2>1 DEF Article
  <1>7. CASE \E r \in Calls : WritePack(r)
    BY <1>2, <1>5, <1>7 DEF Rank
  <1>8. CASE \E r \in Calls : WriteShip(r)
    BY <1>1, <1>2, <1>6, <1>8 DEF Rank, Article
  <1> QED
    BY <1>2, <1>3, <1>4, <1>7, <1>8, StepKinds DEF rows, Writes, Expire, WriteClose, WriteStage,
       WriteBin, WriteReopen, WriteVerify

(* A sorted article that no call is about to move only goes forward (the   *)
(* guards of sortingStore, orderSortingAssign, pack and ship).             *)
THEOREM SortedGoesForward == Spec => SortedStaysSorted
  <1>1. ASSUME TypeInv, [Next]_vars
        PROVE  \A a \in Articles :
                  (Sorted(a) /\ ~Moving(a)) =>
                      /\ Rank(article'[a].status) >= Rank(article[a].status)
                      /\ article'[a].order = article[a].order
                      /\ article[a].status # "IN_CUSTOMER_BIN" =>
                            article'[a].shipment = article[a].shipment
                      /\ ~Moving(a)'
    <2> SUFFICES ASSUME NEW a \in Articles, Sorted(a), ~Moving(a)
                 PROVE  ~Moving(a)'
      BY <1>1, SortedStep
    <2>1. ASSUME NEW q \in Calls, call'[q].at \in {"store", "assign", "assignWrite"},
                 call'[q].article = a
          PROVE  FALSE
      <3>1. call'[q] # call[q]
        BY <2>1 DEF Moving
      <3>2. ~SortingStore(q, a) /\ \A b \in Bins : ~OrderSortingAssign(q, a, b)
        BY DEF SortingStore, Storable, OrderSortingAssign, Sorted
      <3>3. ~(CheckAssign(q) /\ call[q].article = a)
        BY DEF CheckAssign, At, Moving
      <3> QED
        BY <1>1, <2>1, <3>1, <3>2, <3>3, StepTakes DEF TypeInv
    <2> QED
      BY <2>1 DEF Moving
  <1> QED
    BY <1>1, TypeInvariant, PTL DEF Spec, SortedStaysSorted

-----------------------------------------------------------------------------
(* What an article is, and who scanned it, never changes.                  *)
LEMMA OriginKept ==
    ASSUME TypeInv, [Next]_vars, NEW a \in Articles, article[a] # NoRow
    PROVE  /\ article'[a] # NoRow
           /\ article'[a].sku = article[a].sku /\ article'[a].op = article[a].op
  <1> USE DEF TypeInv
  <1>1. article[a] \in Article /\ article'[a] # NoRow
    BY RowTypes, StepKeeps DEF RowsKept
  <1>2. CASE article'[a] = article[a]
    BY <1>1, <1>2
  <1>3. ASSUME NEW r \in Calls, WriteScan(r)
        PROVE  article'[a] = article[a]
    <2>1. PICK d \in Articles : article[d] = NoRow /\ article' = [article EXCEPT ![d] =
             [status |-> "IN_CONTAINER", sku |-> call[r].sku, op |-> call[r].op,
              container |-> call[r].tote, order |-> None, shipment |-> None]]
      BY <1>3 DEF WriteScan
    <2> QED
      BY <2>1 DEF TypeOK
  <1>4. ASSUME NEW r \in Calls, WriteStore(r), article'[a] # article[a]
        PROVE  article'[a].sku = article[a].sku /\ article'[a].op = article[a].op
    <2>1. article'[a] = [article[a] EXCEPT !.status = "STORED", !.container = None]
      BY <1>4 DEF WriteStore, TypeOK
    <2> QED
      BY <1>1, <2>1 DEF Article
  <1>5. ASSUME NEW r \in Calls, WriteAssign(r), article'[a] # article[a]
        PROVE  article'[a].sku = article[a].sku /\ article'[a].op = article[a].op
    <2> DEFINE b == call[r].bin
               o == bin[b].order
    <2>1. article'[a] = [article[a] EXCEPT !.status = "IN_CUSTOMER_BIN",
                                           !.container = b, !.order = o]
      BY <1>5 DEF WriteAssign, TypeOK
    <2> HIDE DEF b, o
    <2> QED
      BY <1>1, <2>1 DEF Article
  <1>6. ASSUME NEW r \in Calls, WritePack(r), article'[a] # article[a]
        PROVE  article'[a].sku = article[a].sku /\ article'[a].op = article[a].op
    <2>1. PICK h \in Shipments :
             article' = [d \in Articles |->
                   IF d \in PackedWith(call[r].bin)
                   THEN [article[d] EXCEPT !.status = "PACKED", !.shipment = h]
                   ELSE article[d]]
      BY <1>6 DEF WritePack
    <2>2. article'[a] = [article[a] EXCEPT !.status = "PACKED", !.shipment = h]
      BY <1>6, <2>1
    <2> QED
      BY <1>1, <2>2 DEF Article
  <1>7. ASSUME NEW r \in Calls, WriteShip(r), article'[a] # article[a]
        PROVE  article'[a].sku = article[a].sku /\ article'[a].op = article[a].op
    <2>1. article'[a] = [article[a] EXCEPT !.status = "SHIPPED", !.container = None]
      BY <1>7 DEF WriteShip
    <2> QED
      BY <1>1, <2>1 DEF Article
  <1> QED
    BY <1>1, <1>2, <1>3, <1>4, <1>5, <1>6, <1>7, StepKinds DEF rows, Writes, Expire, WriteClose,
       WriteStage, WriteBin, WriteReopen, WriteVerify

(* Only a scan makes an article, and makes one.                            *)
LEMMA ScannedStep ==
    ASSUME TypeInv, [Next]_vars, NEW k \in Skus
    PROVE  \/ Scanned(k)' = Scanned(k) /\ received'[k] = received[k]
           \/ \E r \in Calls, a \in Articles \ Scanned(k) :
                 /\ WriteScan(r) /\ call[r].sku = k
                 /\ Scanned(k)' = Scanned(k) \cup {a}
  <1> USE DEF TypeInv
  <1>1. \A a \in Articles : article[a] # NoRow => (a \in Scanned(k)' <=> a \in Scanned(k))
    BY OriginKept DEF Scanned
  <1>2. CASE \E r \in Calls : WriteScan(r)
    <2>1. PICK r \in Calls : WriteScan(r)
      BY <1>2
    <2> DEFINE new == [status |-> "IN_CONTAINER", sku |-> call[r].sku, op |-> call[r].op,
                       container |-> call[r].tote, order |-> None, shipment |-> None]
    <2>2. PICK d \in Articles : article[d] = NoRow /\ article' = [article EXCEPT ![d] = new]
      BY <2>1 DEF WriteScan
    <2>3. call[r].op # None
      BY <2>1, CallFields, FulfillmentAssumption DEF WriteScan
    <2>4. article'[d] = new /\ new # NoRow /\ new.sku = call[r].sku /\ new.op = call[r].op
      BY <2>2 DEF NoRow, TypeOK
    <2> HIDE DEF new
    <2>5. \A a \in Articles \ {d} : article'[a] = article[a]
      BY <2>2 DEF TypeOK
    <2>6. d \notin Scanned(k) /\ (d \in Scanned(k)' <=> call[r].sku = k)
      BY <2>2, <2>3, <2>4 DEF Scanned
    <2>7. \A a \in Articles \ {d} : a \in Scanned(k)' <=> a \in Scanned(k)
      BY <2>5 DEF Scanned
    <2>8. Scanned(k) \subseteq Articles /\ Scanned(k)' \subseteq Articles
      BY DEF Scanned
    <2>9. call[r].sku # k => received'[k] = received[k]
      BY <2>1 DEF WriteScan, TypeOK
    <2>10. CASE call[r].sku = k
      <3>1. Scanned(k)' = Scanned(k) \cup {d}
        BY <2>6, <2>7, <2>8, <2>10
      <3> QED
        BY <2>1, <2>6, <2>10, <3>1
    <2>11. CASE call[r].sku # k
      <3>1. Scanned(k)' = Scanned(k)
        BY <2>6, <2>7, <2>8, <2>11
      <3> QED
        BY <2>9, <2>11, <3>1
    <2> QED
      BY <2>10, <2>11
  <1>3. CASE ~ \E r \in Calls : WriteScan(r)
    <2>1. received' = received
      BY <1>3, StepKinds DEF rows, Writes, Expire, WriteClose, WriteStage, WriteBin, WriteStore,
         WriteAssign, WriteReopen, WritePack, WriteVerify, WriteShip
    <2>2. \A a \in Articles : article[a] = NoRow => article'[a] = NoRow
      <3> SUFFICES ASSUME NEW a \in Articles, article[a] = NoRow
                   PROVE  article'[a] = NoRow
        OBVIOUS
      <3>1. ASSUME NEW r \in Calls, WriteStore(r) \/ WriteAssign(r)
            PROVE  article'[a] = NoRow
        <4>1. call[r].article # a
          BY <3>1 DEF WriteStore, WriteAssign, At, RowsStand, Founded
        <4> QED
          BY <3>1, <4>1 DEF WriteStore, WriteAssign, TypeOK
      <3>2. ASSUME NEW r \in Calls, WritePack(r)
            PROVE  article'[a] = NoRow
        <4>1. a \notin PackedWith(call[r].bin)
          BY DEF PackedWith, InBin, NoRow
        <4> QED
          BY <3>2, <4>1 DEF WritePack
      <3>3. ASSUME NEW r \in Calls, WriteShip(r)
            PROVE  article'[a] = NoRow
        <4>1. a \notin Content(call[r].shipment)
          BY DEF Content
        <4> QED
          BY <3>3, <4>1 DEF WriteShip
      <3> QED
        BY <1>3, <3>1, <3>2, <3>3, StepKinds DEF rows, Writes, Expire, WriteClose, WriteStage,
           WriteBin, WriteReopen, WriteVerify
    <2>3. Scanned(k)' = Scanned(k)
      BY <1>1, <2>2 DEF Scanned
    <2> QED
      BY <2>1, <2>3
  <1> QED
    BY <1>2, <1>3

LEMMA ScannedFinite ==
    ASSUME NEW k \in Skus
    PROVE  IsFiniteSet(Scanned(k)) /\ Cardinality(Scanned(k)) \in Nat
  BY FS_Subset, FS_CardinalityType, FulfillmentAssumption DEF Scanned

(* Where a scan begins.                                                    *)
LEMMA StepScans ==
    ASSUME TypeOK, [Next]_vars, NEW q \in Calls, call'[q] # call[q], call'[q].at = "scan"
    PROVE  \E t \in Totes, k \in Skus, op \in OpIds : ScanArticle(q, t, k, op)
  <1>1. ASSUME NEW r \in Calls, Return(r)
        PROVE  FALSE
    BY <1>1 DEF Return, Goto, Idle, TypeOK
  <1>2. ASSUME NEW r \in Calls, Sorting(r)
        PROVE  FALSE
    BY <1>1, <1>2 DEF Sorting, CreateBin, SortingStore, OrderSortingAssign, ReopenCustomerBin,
       WriteBin, WriteStore, CheckAssign, WriteAssign, WriteReopen, Goto, TypeOK
  <1>3. ASSUME NEW r \in Calls, Outbound(r)
        PROVE  FALSE
    BY <1>3, OutboundCalls
  <1>4. ASSUME NEW r \in Calls, RecheckStage(r)
        PROVE  FALSE
    <2>1. [call[r] EXCEPT !.at = "stageWrite"].at = "stageWrite"
      <3>1. call[r] \in [at : {"stage", "stageWrite"}, tote : Totes, station : Stations]
        BY <1>4 DEF RecheckStage, TypeOK, At, Call, Idle
      <3> QED
        BY <3>1
    <2> QED
      BY <1>1, <1>4, <2>1 DEF RecheckStage, Goto, TypeOK
  <1>5. ASSUME NEW r \in Calls, NEW t \in Totes, NEW k \in Skus, NEW op \in OpIds,
               ScanArticle(r, t, k, op)
        PROVE  r = q
    BY <1>5 DEF ScanArticle, Goto, TypeOK
  <1>6. ASSUME NEW r \in Calls, Inbound(r)
        PROVE  \E t \in Totes, k \in Skus, op \in OpIds : ScanArticle(q, t, k, op)
    BY <1>1, <1>4, <1>5, <1>6 DEF Inbound, CloseContainer, StageContainer, WriteScan, WriteClose,
       WriteStage, Goto, TypeOK
  <1> QED
    BY <1>1, <1>2, <1>3, <1>6 DEF Next, Abort, Expire, vars

(* A copy of a count is at most what is scanned by now.                    *)
CountInv ==
    /\ CountedWasScanned
    /\ \A r \in Calls :
          At(r, "scan") => call[r].received <= Cardinality(Scanned(call[r].sku))

LEMMA CountStep == TypeInv /\ CountInv /\ [Next]_vars => CountInv'
  <1> SUFFICES ASSUME TypeInv, CountInv, [Next]_vars
               PROVE  CountInv'
    OBVIOUS
  <1> DEFINE N(k) == Cardinality(Scanned(k))
             M(k) == Cardinality({a \in Articles : /\ article'[a] # NoRow /\ article'[a].sku = k
                                                  /\ article'[a].op # None})
  <1>0. \A k \in Skus : M(k) = Cardinality(Scanned(k)')
    BY DEF Scanned
  <1>1. ASSUME NEW k \in Skus
        PROVE  /\ N(k) \in Nat /\ M(k) \in Nat /\ N(k) <= M(k)
               /\ received'[k] <= M(k)
    <2>1. CASE Scanned(k)' = Scanned(k) /\ received'[k] = received[k]
      BY <1>0, <2>1, ScannedFinite DEF CountInv, CountedWasScanned, TypeInv, TypeOK
    <2>2. ASSUME NEW r \in Calls, NEW a \in Articles \ Scanned(k), WriteScan(r),
                 call[r].sku = k, Scanned(k)' = Scanned(k) \cup {a}
          PROVE  /\ N(k) \in Nat /\ M(k) \in Nat /\ N(k) <= M(k)
                 /\ received'[k] <= M(k)
      <3>1. N(k) \in Nat /\ M(k) = N(k) + 1
        BY <1>0, <2>2, ScannedFinite, FS_AddElement
      <3>2. received'[k] = call[r].received + 1 /\ call[r].received \in Nat
        BY <2>2, CallFields DEF WriteScan, Counted, TypeInv, TypeOK
      <3>3. call[r].received <= N(k)
        BY <2>2 DEF CountInv, WriteScan
      <3> QED
        BY <3>1, <3>2, <3>3
    <2> QED
      BY <2>1, <2>2, ScannedStep
  <1>2. CountedWasScanned'
    BY <1>0, <1>1 DEF CountedWasScanned
  <1>3. ASSUME NEW q \in Calls, At(q, "scan")'
        PROVE  call'[q].received <= M(call'[q].sku)
    <2>1. CASE call'[q] = call[q]
      <3>1. call[q].sku \in Skus /\ call[q].received \in Nat /\ call[q].received <= N(call[q].sku)
        BY <1>3, <2>1, CallFields DEF At, CountInv, TypeInv
      <3> QED
        BY <1>1, <2>1, <3>1
    <2>2. CASE call'[q] # call[q]
      <3>1. PICK t \in Totes, k \in Skus, op \in OpIds : ScanArticle(q, t, k, op)
        BY <1>3, <2>2, StepScans DEF At, TypeInv
      <3>2. call'[q].sku = k /\ call'[q].received = received[k] /\ received[k] \in Nat
        BY <3>1 DEF ScanArticle, Goto, TypeInv, TypeOK
      <3>3. received[k] <= N(k)
        BY DEF CountInv, CountedWasScanned
      <3> QED
        BY <1>1, <3>2, <3>3
    <2> QED
      BY <2>1, <2>2
  <1>4. ASSUME NEW q \in Calls
        PROVE  (At(q, "scan") => call[q].received <= Cardinality(Scanned(call[q].sku)))'
    BY <1>3 DEF Scanned
  <1> QED
    BY <1>2, <1>4 DEF CountInv

(* However many scans of a product overlap, its line never shows more than *)
(* was scanned.                                                            *)
THEOREM NeverOvercounted == Spec => []CountedWasScanned
  <1>1. Init => CountInv
    <2> SUFFICES ASSUME Init
                 PROVE  CountInv
      OBVIOUS
    <2>1. \A k \in Skus : received[k] = 0 /\ Cardinality(Scanned(k)) \in Nat
      BY ScannedFinite DEF Init
    <2> QED
      BY <2>1 DEF Init, CountInv, CountedWasScanned, At, Idle
  <1>2. CountInv => CountedWasScanned
    BY DEF CountInv
  <1> QED
    BY <1>1, <1>2, CountStep, TypeInvariant, PTL DEF Spec

=============================================================================
